------------------------------- MODULE MCRules -------------------------------
(* Small instances of Rules. *)
EXTENDS Rules

MCFold == ("a-b" :> "a_b") @@ ("a_b" :> "a_b") @@ ("c" :> "c")

\* Entries: every one of two shapes, and three that sources are made of.
Entry(type, command, url) ==
    [object |-> TRUE, type |-> type, command |-> command, url |-> url, args |-> "plain",
     env |-> "plain", cwd |-> "none", headers |-> "plain", enabled |-> "none", timeout |-> "none",
     exposure |-> "none", tools |-> "none", description |-> "none"]
Marks == {"plain", "wrong", "var", "root"}
StdioEntries ==
    {[Entry(type, command, "none") EXCEPT !.args = args, !.env = env, !.cwd = cwd] :
        type \in {"none", "stdio", "other", "wrong"}, command \in Marks \union {"none"},
        args \in Marks, env \in Marks \union {"reserved"},
        cwd \in {"none", "wrong", "dot", "in root", "in data", "out of root", "absolute", "var"}}
HttpEntries ==
    {[Entry(type, command, url) EXCEPT !.headers = headers, !.enabled = enabled, !.timeout = timeout] :
        type \in {"none", "http", "streamable-http", "sse", "stdio"}, command \in {"none", "plain"},
        url \in {"none", "wrong", "https", "loopback", "http", "fragment", "bang", "var", "root"},
        headers \in {"plain", "wrong", "clash", "name", "value", "root", "bang"},
        enabled \in {"none", "false"}, timeout \in {"none", "positive", "wrong"}}
Shapes == {"none", "wrong", "given"}
ExtendedEntries ==
    {[entry EXCEPT !.exposure = exposure, !.tools = tools, !.description = description] :
        entry \in {Entry("stdio", "plain", "none"), Entry("http", "none", "https")},
        exposure, tools, description \in Shapes}
Stdio == Entry("stdio", "plain", "none")
Http == Entry("http", "none", "https")
Broken == [Stdio EXCEPT !.object = FALSE]

Listing(kind, servers) ==
    [kind |-> kind, json |-> TRUE, standard |-> TRUE, data |-> TRUE, servers |-> servers]
Named(name, entry) == [name |-> name, entry |-> entry]
Few == {Named(name, entry) : name \in {"a-b", "a_b", "c"}, entry \in {Stdio, Http, Broken}}
Lists == {<<>>} \union {<<e>> : e \in Few}
         \union {<<e, f>> : e, f \in {g \in Few : g.name # "c"}}
MCServerFiles ==
    {<<Listing(kind, <<Named("c", entry)>>)>> :
        kind \in {"own", "plugin"}, entry \in StdioEntries \union HttpEntries \union ExtendedEntries}
    \union {<<Listing("own", a), Listing("own", b), [Listing("plugin", <<Named("a-b", Http)>>) EXCEPT
                !.standard = standard, !.data = data]>> :
               a, b \in {l \in Lists : Len(l) < 2 \/ l[1].name # l[2].name}, standard, data \in BOOLEAN}
MCVariables == {"https", "http", "empty", "absolute"}

MCValues == {"none", "auto", "direct", "codemode", "deferred", "hidden", "codemode-deferred", "other"}
Rows == {[key |-> key, value |-> value] : key \in {"the name", "a match", "no match"},
                                          value \in {"direct", "deferred", "hidden", "other"}}
MCTables == {<<>>} \union {<<r>> : r \in Rows} \union {<<r, s>> : r, s \in Rows}

\* Arguments of one parameter p, beside q with a default.
One == Atom("integer", "1")
Atoms == {One, Atom("number", "1.5"), Atom("boolean", "true"), Text("a"), Null}
Inner == {Object([k \in keys |-> atom]) : keys \in SUBSET {"k", "l"}, atom \in Atoms}
Sent == Atoms \union Inner \union {Array(<<a, b>>) : a, b \in Atoms} \union {Array(<<a>>) : a \in Inner}
MCArguments ==
    {Object("p" :> value) : value \in Sent} \union {Object(<<>>)}
    \union {Object(("p" :> value) @@ ("q" :> other)) : value \in Sent, other \in {Text("a"), One}}

Plural == [types |-> {"integer", "null"}]
Scalars == {[type |-> "integer"], [type |-> "number"], [type |-> "string"], [type |-> "other"],
            Plural, [enum |-> {One, Text("a")}], <<>>}
Member(key, schema) == [key |-> key, schema |-> schema]
Optional == [type |-> "string", default |-> Text("d")]
Whole == [type |-> "integer", default |-> One]
Nodes ==
    {[type |-> "object", required |-> keys, properties |-> <<Member("k", of), Member("l", Optional)>>] :
        keys \in {{}, {"k"}, {"l"}}, of \in Scalars}
    \union {[required |-> {"k"}, properties |-> <<Member("l", Whole)>>]}
MCItems == {[type |-> "array", items |-> of] : of \in Scalars \union Nodes}
Unions ==
    {[anyOf |-> <<a, b>>] : a, b \in {[type |-> "integer"], [type |-> "number"]} \union Nodes}
    \union {[oneOf |-> <<a, b>>] : a, b \in Scalars \union {[type |-> "object", required |-> {"k"}]}}
MCSchemas ==
    {[type |-> "object", required |-> keys, properties |-> <<Member("p", of), Member("q", Optional)>>] :
        keys \in {{}, {"p"}}, of \in Scalars \union Nodes \union MCItems \union Unions}

\* config.json: one model in all its shapes, and the rest of the file around it.
Number(n) == Atom("integer", n)
Pick(key, values) == {<<>>} \union {key :> value : value \in values}
Numbers == {Number("0"), Number("7"), Text("7"), Text("x"), Atom("number", "2.5"), Atom("boolean", "true"), Null}
Models ==
    {Object(("id" :> Text("m")) @@ w @@ t @@ l @@ e @@ r) :
        w \in Pick("context_window", Numbers), t \in Pick("max_tokens", {Number("0")}),
        l \in Pick("efforts", {Array(<<>>), Array(<<Text("high")>>), Array(<<One, Text("low")>>), Text("low")}),
        e \in Pick("effort", {Text("high"), Text(""), One}),
        r \in Pick("retry", {Object(<<>>), Object("base_delay" :> One), Object("later" :> One),
                             Object(("base_delay" :> One) @@ ("later" :> One)), One})}
Odd == {Null, Text("m"), Object(<<>>), Object("id" :> Text("")), Object("id" :> Number("5")),
        Object(("id" :> Text("m")) @@ ("name" :> Text("M")) @@ ("max_tokens" :> Number("9")))}
Providers ==
    {Object("models" :> Array(<<m>>)) : m \in Models}
    \union {Object(("models" :> Array(<<m, n>>)) @@ t @@ u) :
               m, n \in Odd, t \in Pick("type", {Text("openai"), Text("own"), Null}),
               u \in Pick("base_url", {Text("u"), Text("")}) \union Pick("api_key", {Text("k"), Number("5"), Null})}
    \union {Object("models" :> Text("m")), Null, Text("x")}
File(provider, rest) == Object(("providers" :> Object("p" :> provider)) @@ rest)
Some == Object("models" :> Array(<<Object("id" :> Text("m"))>>))
MCConfigFiles ==
    {File(provider, <<>>) : provider \in Providers}
    \union {File(Some, p @@ a @@ g @@ f) :
               p \in Pick("provider", {Text("p"), Null}),
               a \in Pick("agent", {Text("x")} \union {Object("tool_timeout" :> n) : n \in Numbers}
                                   \union {Object("max_turn_seconds" :> n) : n \in Numbers}),
               g \in Pick("plugins", {Object("shell" :> Object(<<>>)), Null}),
               f \in Pick("theirs", {Text("x"), Null})}
    \union {Text("x"), Object(<<>>), Object("providers" :> Text("x"))}
MCSelections == {<<"p", "m">>, <<"p", "other">>, <<"none", "m">>}
MCAgentDefaults == [tool_timeout |-> Number("240"), max_turn_seconds |-> Number("0")]
MCIntOf == ("0" :> "0") @@ ("7" :> "7") @@ ("1" :> "1") @@ ("5" :> "5") @@ ("9" :> "9") @@ ("2.5" :> "2") @@ ("2" :> "2") @@ ("240" :> "240")
MCRegistered == {Text("openai")}
MCEfforts == Array(<<Text("low"), Text("medium"), Text("high")>>)
=============================================================================
