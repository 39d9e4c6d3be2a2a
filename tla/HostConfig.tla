------------------------------ MODULE HostConfig ------------------------------
(***************************************************************************)
(* host/config.py: what a config.json means to the program and what the       *)
(* program writes back.  An optional field is a set of at most one value.    *)
(***************************************************************************)
EXTENDS Json, FiniteSets

CONSTANTS
    AgentDefaults,  \* the fields of AgentConfig to their defaults
    RetryKeys,      \* the fields of RetryPolicy
    Efforts,        \* the kernel's series of effort levels
    Registered,     \* the types of provider somebody has registered
    IntOf           \* the integers that numbers and texts hold, by their atoms

Owned == {"provider", "model", "agent", "providers", "plugins"}

\* str(value or default)
TextOf(value, default) == IF Truthy(value) THEN Text(value.atom) ELSE Text(default)
\* Mutant of OptInt: a configured 0 is taken for nothing.
OptIntOr(value) ==
    IF ~Truthy(value) \/ value.type \in {"null", "boolean", "object", "array"} THEN {}
    ELSE IF value.atom \in DOMAIN IntOf THEN {Atom("integer", IntOf[value.atom])} ELSE {}
OptInt(value) ==
    IF value.type \in {"null", "boolean", "object", "array"} THEN {}
    ELSE IF value.atom \in DOMAIN IntOf THEN {Atom("integer", IntOf[value.atom])} ELSE {}
OptText(value) == IF value.type = "string" THEN {value} ELSE {}
Written(text) == IF text = Text("") THEN {} ELSE {text}

-----------------------------------------------------------------------------
(* One model.                                                               *)

ReadModel(raw) ==
    LET levels == IF Get(raw, "efforts").type # "array" THEN <<>>
                  ELSE SelectSeq(Get(raw, "efforts").items, LAMBDA item : item.type = "string")
        retry == Get(raw, "retry")
    IN  [id |-> TextOf(Get(raw, "id"), ""), name |-> TextOf(Get(raw, "name"), ""),
         window |-> OptInt(Get(raw, "context_window")), tokens |-> OptInt(Get(raw, "max_tokens")),
         efforts |-> IF levels = <<>> THEN {} ELSE {Array(levels)},
         effort |-> OptText(Get(raw, "effort")),
         retry |-> IF retry.type = "object" /\ Truthy(retry) THEN {Only(retry, RetryKeys)} ELSE {}]
DumpModel(model) ==
    Declared([id |-> {model.id}, name |-> Written(model.name),
              context_window |-> model.window, max_tokens |-> model.tokens,
              efforts |-> model.efforts, effort |-> model.effort,
              retry |-> {retry \in model.retry : Truthy(retry)}])

(* One provider: what is no model, or has no id, is dropped.                 *)

ReadProvider(raw) ==
    LET objects == IF Get(raw, "models").type # "array" THEN <<>>
                   ELSE SelectSeq(Get(raw, "models").items, LAMBDA item : item.type = "object")
        models == [n \in DOMAIN objects |-> ReadModel(objects[n])]
    IN  [type |-> TextOf(Get(raw, "type"), "openai"), name |-> TextOf(Get(raw, "name"), ""),
         key |-> TextOf(Get(raw, "api_key"), ""),
         url |-> {url \in {Get(raw, "base_url")} : Truthy(url)},
         models |-> SelectSeq(models, LAMBDA model : model.id # Text(""))]
DumpProvider(entry) ==
    Declared([models |-> {Array([n \in DOMAIN entry.models |-> DumpModel(entry.models[n])])},
              type |-> {type \in {entry.type} : type # Text("openai")},
              name |-> Written(entry.name), api_key |-> Written(entry.key), base_url |-> entry.url])

-----------------------------------------------------------------------------
(* The file.                                                                *)

OrEmpty(value) == IF Truthy(value) THEN value ELSE Object(<<>>)
\* What from_dict() does not choke on; of anything else load() makes nothing.
Loadable(file) ==
    /\ file.type = "object"
    /\ OrEmpty(Get(file, "providers")).type = "object"
    /\ \A key \in DOMAIN OrEmpty(Get(file, "providers")).fields :
           OrEmpty(Get(file, "providers").fields[key]).type = "object"

ReadAgent(raw) ==
    [field \in DOMAIN AgentDefaults |->
        IF OptInt(Get(raw, field)) = {} THEN AgentDefaults[field]
        ELSE CHOOSE n \in OptInt(Get(raw, field)) : TRUE]
ReadConfig(file) ==
    LET providers == OrEmpty(Get(file, "providers")).fields
    IN  [provider |-> TextOf(Get(file, "provider"), ""), model |-> TextOf(Get(file, "model"), ""),
         agent |-> ReadAgent(Get(file, "agent")),
         providers |-> [key \in DOMAIN providers |-> ReadProvider(OrEmpty(providers[key]))],
         plugins |-> OrEmpty(Get(file, "plugins")),
         foreign |-> Restrict(file.fields, DOMAIN file.fields \ Owned)]
DumpConfig(config) ==
    LET own == [provider |-> config.provider, model |-> config.model,
                agent |-> Object(config.agent),
                providers |-> Object([key \in DOMAIN config.providers |->
                                         DumpProvider(config.providers[key])]),
                plugins |-> config.plugins]
    IN  Object([key \in Owned \union DOMAIN config.foreign |->
                   IF key \in Owned THEN own[key] ELSE config.foreign[key]])

\* runtime.py set_default_model(), of a provider the file defines.
SetDefault(config, key, model) ==
    [config EXCEPT !.provider = Text(key), !.model = Text(model)]

\* Of two entries with one id the first counts.
Model(entry, name) ==
    LET found == SelectSeq(entry.models, LAMBDA model : model.id = Text(name))
    IN  IF found = <<>> THEN {} ELSE {found[1]}
\* What is not declared is bare.
ModelSpec(config, key, name) ==
    LET found == IF key \in DOMAIN config.providers THEN Model(config.providers[key], name) ELSE {}
        model == CHOOSE m \in found : TRUE
    IN  IF found = {} THEN [window |-> {}, tokens |-> {}, efforts |-> Efforts, effort |-> {}]
        ELSE [window |-> model.window, tokens |-> model.tokens,
              efforts |-> IF model.efforts = {} THEN Efforts
                          ELSE CHOOSE levels \in model.efforts : TRUE,
              effort |-> model.effort]

\* The key in the file, or else the environment's for this provider.
ApiKey(entry, key) == IF entry.key = Text("") THEN <<"environment", key>> ELSE <<"file", entry.key>>
\* An override with nothing in it is none.
RetryPolicy(model) == {retry \in model.retry : Truthy(retry)}
\* What runtime.py's factory makes of an entry.
Implementation(entry, key, name) ==
    [type |-> entry.type, model |-> name, key |-> ApiKey(entry, key), url |-> entry.url,
     retry |-> UNION {RetryPolicy(model) : model \in Model(entry, name)}]
\* provider_for(): none for a provider that is not defined or of a type nobody
\* has registered.
ProviderFor(config, key, name) ==
    {Implementation(config.providers[k], k, name) :
        k \in {k \in DOMAIN config.providers \intersect {key} : config.providers[k].type \in Registered}}
=============================================================================
