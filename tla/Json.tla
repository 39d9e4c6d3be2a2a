--------------------------------- MODULE Json ---------------------------------
(***************************************************************************)
(* JSON values as Python has them: [type, atom], [type, fields], [type,       *)
(* items].                                                                   *)
(***************************************************************************)
EXTENDS Integers, Sequences, SequencesExt, Functions

Atom(type, atom) == [type |-> type, atom |-> atom]
Object(fields) == [type |-> "object", fields |-> fields]
Array(items) == [type |-> "array", items |-> items]
Null == Atom("null", "null")
Text(text) == Atom("string", text)

HasKey(value, key) == value.type = "object" /\ key \in DOMAIN value.fields
\* dict.get()
Get(value, key) == IF HasKey(value, key) THEN value.fields[key] ELSE Null
WithField(value, key, field) ==
    Object([k \in DOMAIN value.fields \union {key} |-> IF k = key THEN field ELSE value.fields[k]])
Only(value, keys) == Object(Restrict(value.fields, DOMAIN value.fields \intersect keys))
\* The fields that are there; each is a set of at most one.
Declared(options) ==
    Object([key \in {k \in DOMAIN options : options[k] # {}} |->
               CHOOSE field \in options[key] : TRUE])

Truthy(value) ==
    CASE value.type = "object" -> DOMAIN value.fields # {}
      [] value.type = "array" -> value.items # <<>>
      [] value.type = "string" -> value.atom # ""
      [] OTHER -> value.atom \notin {"null", "false", "0"}
=============================================================================
