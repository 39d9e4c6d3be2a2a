---------------------------- MODULE ToolRegistry ----------------------------
(***************************************************************************)
(* core/tool.py's ToolRegistry as a value.  A tool is its name, its audience, *)
(* who registered it and the edition of its schema; a registry holds tools in *)
(* the order they were first registered, the names switched off, the cached   *)
(* schemas of the model's projection and the frozen ones.                     *)
(***************************************************************************)
EXTENDS Naturals, Sequences, SequencesExt, Picks

\* A value that may be None is a set of at most one.
None == {}
Value(held) == CHOOSE value \in held : TRUE
EmptyRegistry == [tools |-> <<>>, disabled |-> {}, cache |-> None, frozen |-> None]

Audiences == [model |-> {"model", "both"}, program |-> {"program", "both"}]

NamesOf(tools) == {tools[i].name : i \in DOMAIN tools}
Registered(r, name) == name \in NamesOf(r.tools)
ToolNamed(r, name) == r.tools[CHOOSE i \in DOMAIN r.tools : r.tools[i].name = name]

Visible(r, tool, audience) ==
    tool.name \notin r.disabled /\ tool.audience \in Audiences[audience]
LiveSchemas(r, audience) ==
    ItemsAt(r.tools, {i \in DOMAIN r.tools : Visible(r, r.tools[i], audience)})
Names(r, audience) == NamesOf(LiveSchemas(r, audience))

\* Two different sources, both known, and nobody forces the takeover.
Conflicts(r, tool, replace) ==
    /\ Registered(r, tool.name) /\ ~replace
    /\ LET existing == ToolNamed(r, tool.name)
       IN  /\ existing # tool
           /\ "" \notin {existing.source, tool.source}
           /\ existing.source # tool.source

\* What registering tools makes of an empty registry: of the tools of one name
\* one is registered, and nothing is switched off or cached.
Built(tools) ==
    {[EmptyRegistry EXCEPT !.tools = SetToSeq(some)] :
        some \in {set \in SUBSET tools :
                    \A tool \in tools : \E one \in set :
                        \A other \in set : other.name = tool.name <=> other = one}}

\* A dictionary keeps the place of a key that is set again.
Register(r, tool) ==
    [r EXCEPT !.tools = IF Registered(r, tool.name)
                        THEN [i \in DOMAIN @ |-> IF @[i].name = tool.name THEN tool ELSE @[i]]
                        ELSE Append(@, tool),
              !.disabled = @ \ {tool.name}, !.cache = None]
Unregister(r, name) ==
    IF Registered(r, name)
    THEN [r EXCEPT !.tools = ItemsAt(@, {i \in DOMAIN @ : @[i].name # name}),
                   !.disabled = @ \ {name}, !.cache = None]
    ELSE [r EXCEPT !.disabled = @ \ {name}]
Enable(r, name) == [r EXCEPT !.disabled = @ \ {name}, !.cache = None]

\* Mutant of Disable: the cached schemas are kept.
DisableCached(r, name) ==
    [r EXCEPT !.disabled = IF Registered(r, name) THEN @ \union {name} ELSE @]
Disable(r, name) ==
    IF Registered(r, name) THEN [r EXCEPT !.disabled = @ \union {name}, !.cache = None] ELSE r

Freeze(r) == [r EXCEPT !.frozen = {LiveSchemas(r, "model")}]

\* Mutant of AllSchemas: a disabled tool is dropped from a frozen interface.
AllSchemasFollowing(r) ==
    IF r.frozen # None
    THEN LET offered == Value(r.frozen)
         IN  ItemsAt(offered, {i \in DOMAIN offered : offered[i].name \notin r.disabled})
    ELSE IF r.cache # None THEN Value(r.cache)
    ELSE LiveSchemas(r, "model")
\* What a request offers, and the registry once it was asked.
AllSchemas(r) ==
    IF r.frozen # None THEN Value(r.frozen)
    ELSE IF r.cache # None THEN Value(r.cache)
    ELSE LiveSchemas(r, "model")
Asked(r) == IF r.frozen = None THEN [r EXCEPT !.cache = {AllSchemas(r)}] ELSE r

=============================================================================
