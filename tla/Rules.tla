-------------------------------- MODULE Rules --------------------------------
(***************************************************************************)
(* What the host reads before anything runs - the table of MCP servers, who   *)
(* sees their tools, the arguments of a call, config.json - as questions the  *)
(* program answers in one step.                                              *)
(***************************************************************************)
EXTENDS McpConfig, ToolSchema, HostConfig

CONSTANTS
    ServerFiles, Variables,     \* files of mcp.json, strongest first; what ${VAR} may hold
    Tables, Values,         \* toolExposure tables; exposures anybody may configure
    Arguments, Schemas,     \* what models send, and what tools declare
    ConfigFiles,                  \* config.json
    Selections              \* what set_default_model() is called with

ASSUME RulesAssumption ==
    \A files \in ServerFiles : \A n \in DOMAIN files :
        \A i \in DOMAIN files[n].servers : files[n].servers[i].name \in DOMAIN Fold

VARIABLES question, answer

rulesVars == <<question, answer>>

RulesInit ==
    /\ \/ \E files \in ServerFiles, var \in Variables :
              question = [about |-> "servers", files |-> files, var |-> var]
       \/ \E table \in Tables, server, default \in Values, codemode \in BOOLEAN :
              question = [about |-> "exposure", table |-> table, server |-> server,
                          default |-> default, codemode |-> codemode]
       \/ \E value \in Arguments, schema \in Schemas :
              question = [about |-> "arguments", value |-> value, schema |-> schema]
       \/ \E file \in ConfigFiles, selection \in Selections :
              question = [about |-> "config", file |-> file, selection |-> selection]
    /\ answer = <<>>

About(what) == answer = <<>> /\ question.about = what

LoadServers ==
    /\ About("servers")
    /\ answer' = <<Merged(question.files, question.var)>>
    /\ UNCHANGED question
ExposeTool ==
    /\ About("exposure")
    /\ answer' = <<ToolExposure(question.table, question.server,
                                DefaultExposure(question.default, question.codemode))>>
    /\ UNCHANGED question
ValidateArgs ==
    /\ About("arguments")
    /\ answer' = <<Check(question.value, question.schema)>>
    /\ UNCHANGED question
\* A process that loads the file, and saves it for the selection.
SaveConfig ==
    /\ About("config") /\ Loadable(question.file)
    /\ question.selection[1] \in DOMAIN ReadConfig(question.file).providers
    /\ answer' = <<DumpConfig(SetDefault(ReadConfig(question.file),
                                         question.selection[1], question.selection[2]))>>
    /\ UNCHANGED question

RulesNext == LoadServers \/ ExposeTool \/ ValidateArgs \/ SaveConfig
RulesSpec == RulesInit /\ [][RulesNext]_rulesVars

-----------------------------------------------------------------------------
Answered(what) == answer # <<>> /\ question.about = what

(* The table of servers.                                                    *)

Says(n, i) ==
    Server(question.files[n].servers[i].entry, Strict(question.files[n]), question.var)
Means(n, i, name) ==
    /\ Readable(question.files[n])
    /\ Fold[question.files[n].servers[i].name] = name
    /\ Says(n, i) # None

\* A server is in the table as soon as any source has a valid entry for it: one
\* of its strongest file, whole.  What is broken, in whatever file, costs no other
\* server anything, and does not hide a weaker entry.
Strongest(name, n) ==
    /\ \E i \in DOMAIN question.files[n].servers : Means(n, i, name)
    /\ \A m \in 1 .. n - 1 : \A i \in DOMAIN question.files[m].servers : ~Means(m, i, name)
TableTrue(table) ==
    \A name \in Range(Fold) :
        IF \A n \in DOMAIN question.files : ~Strongest(name, n) THEN name \notin DOMAIN table
        ELSE \E n \in DOMAIN question.files : \E i \in DOMAIN question.files[n].servers :
                /\ Strongest(name, n) /\ Means(n, i, name)
                /\ name \in DOMAIN table /\ table[name] = Says(n, i)

\* Every server of the table can be reached as the rules want it, and an entry
\* means the same in a plugin's file as in one of mocode's own, but for the
\* tokens each of them expands: the standard's rules only refuse more.  One of
\* mocode's own fields of the wrong shape is as good as absent.
Plain(entry) ==
    /\ {"var", "root"} \intersect {entry.command, entry.args, entry.env, entry.url} = {}
    /\ entry.cwd \notin {"in root", "in data"}
Bare(entry) ==
    [entry EXCEPT !.timeout = IF @ = "wrong" THEN "none" ELSE @,
                  !.exposure = IF @ = "wrong" THEN "none" ELSE @,
                  !.tools = IF @ = "wrong" THEN "none" ELSE @,
                  !.description = IF @ = "wrong" THEN "none" ELSE @]
EntriesTrue(table) ==
    /\ \A name \in DOMAIN table :
           table[name].transport # "stdio" => Reachable(table[name].target)
    /\ \A n \in DOMAIN question.files : \A i \in DOMAIN question.files[n].servers :
           LET entry == question.files[n].servers[i].entry
               strict == Server(entry, TRUE, question.var)
               own == Server(entry, FALSE, question.var)
           IN  /\ strict # None /\ Plain(entry) =>
                   /\ own.transport = strict.transport
                   /\ own.target = strict.target /\ own.args = strict.args
               /\ own = Server(Bare(entry), FALSE, question.var)

\* A tool is always somewhere: what is said of it alone beats what is said of
\* its server and of all of them, and what nobody knows the word for changes
\* nothing; with code mode, no tool is offered that nothing known speaks for.
ExposureTrue(exposure) ==
    /\ exposure \in Exposures
    /\ Known(Candidate(question.table)) => exposure = Canon(Candidate(question.table))
    /\ ~Known(Candidate(question.table)) =>
           exposure = ToolExposure(<<>>, question.server,
                                   DefaultExposure(question.default, question.codemode))
    /\ ~Known(question.server) /\ question.codemode
       /\ Availability(exposure) = "both" /\ ~Disabled(exposure) =>
           Known(Candidate(question.table)) \/ Known(question.default)

\* The table of servers and who sees their tools (builtin/mcp/config.py): a
\* broken entry costs nobody else, and every tool has an exposure.
ServersTrue ==
    /\ Answered("servers") => TableTrue(answer[1]) /\ EntriesTrue(answer[1])
    /\ Answered("exposure") => ExposureTrue(answer[1])

\* Names that fold alike "count as the same server - the second one is reported and
\* dropped" (config.py): of the valid entries of a file the first stays.
FirstNameKept ==
    Answered("servers") =>
        \A name \in DOMAIN answer[1], n \in DOMAIN question.files : Strongest(name, n) =>
            \E i \in DOMAIN question.files[n].servers :
                /\ Means(n, i, name) /\ \A j \in 1 .. i - 1 : ~Means(n, j, name)
                /\ answer[1][name] = Says(n, i)

\* The checker accepts what the schema means and nothing else, takes nothing
\* from what was given, and has nothing to add when it is asked again - unless
\* a union declares defaults, which a failed branch leaves in the value.
ArgumentsTrue ==
    Answered("arguments") =>
        LET so == answer[1]
            again == Check(so.value, question.schema)
        IN  /\ Extends(so.value, question.value)
            /\ ~DefaultIn(question.schema, FALSE) =>
                   /\ so.ok = Valid(question.value, question.schema)
                   /\ so.ok => again.ok /\ again.value = so.value

(* The configuration.                                                       *)

\* What a model's entry declares in the right type.
Proper(raw, key) ==
    CASE key \in {"context_window", "max_tokens"} -> Get(raw, key).type = "integer"
      [] key = "efforts" ->
            /\ Get(raw, key).type = "array" /\ Truthy(Get(raw, key))
            /\ \A i \in DOMAIN raw.fields[key].items : raw.fields[key].items[i].type = "string"
      [] key = "retry" -> /\ Get(raw, key).type = "object" /\ Truthy(Get(raw, key))
                          /\ DOMAIN raw.fields[key].fields \subseteq RetryKeys
      [] key = "effort" -> Get(raw, key).type = "string"
      [] key \in {"id", "name"} -> Get(raw, key).type = "string" /\ Truthy(Get(raw, key))
      [] OTHER -> FALSE
ModelKeys == {"id", "name", "context_window", "max_tokens", "efforts", "effort", "retry"}
ModelsKept(raw, saved) ==
    LET Addressed(item) == item.type = "object" /\ Truthy(Get(item, "id"))
        models == IF Get(raw, "models").type = "array"
                  THEN SelectSeq(raw.fields["models"].items, Addressed) ELSE <<>>
        after == saved.fields["models"].items
    IN  /\ Len(after) = Len(models)
        /\ \A n \in DOMAIN models :
              /\ DOMAIN after[n].fields \subseteq DOMAIN models[n].fields
              /\ \A key \in ModelKeys :
                    Proper(models[n], key) => Get(after[n], key) = Get(models[n], key)

\* Saving the file for another default changes nothing else in it that the
\* program or its user declared: every foreign key, every plugin's block, every
\* field of the right type, a 0 as well; no model's entry grows; the next process
\* reads what this one had, and saves the same again; and every pair of provider
\* and model is the same implementation, key, endpoint and retry policy as before.
ConfigKept ==
    Answered("config") =>
        LET file == question.file
            saved == answer[1]
            key == question.selection[1]
            before == ReadConfig(file)
            after == ReadConfig(saved)
        IN  /\ Loadable(saved) /\ DumpConfig(after) = saved
            /\ \A k \in DOMAIN file.fields \ Owned : Get(saved, k) = Get(file, k)
            /\ Truthy(Get(file, "plugins")) => Get(saved, "plugins") = Get(file, "plugins")
            /\ \A field \in DOMAIN AgentDefaults :
                  Get(Get(file, "agent"), field).type = "integer" =>
                      Get(Get(saved, "agent"), field) = Get(Get(file, "agent"), field)
            /\ DOMAIN after.providers = DOMAIN before.providers
            /\ \A k \in DOMAIN before.providers :
                  ModelsKept(OrEmpty(file.fields["providers"].fields[k]),
                             saved.fields["providers"].fields[k])
            /\ \A k \in DOMAIN before.providers \union {key} :
                  \A name \in {before.model.atom, question.selection[2]} :
                      /\ ModelSpec(after, k, name) = ModelSpec(before, k, name)
                      /\ ProviderFor(after, k, name) = ProviderFor(before, k, name)
            /\ after.provider = Text(key) /\ after.model = Text(question.selection[2])

=============================================================================
