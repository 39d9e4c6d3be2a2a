------------------------------ MODULE ToolSchema ------------------------------
(***************************************************************************)
(* core/tool.py: the checker of a tool's arguments.  It fills defaults into   *)
(* the very objects it checks, as far as it gets, and a branch of a union     *)
(* that fails leaves what it filled to the branches behind it.  A schema   *)
(* has the keywords it declares; its properties are in their order.          *)
(***************************************************************************)
EXTENDS Json

TypeNames == {"string", "integer", "number", "boolean", "array", "object", "null"}

\* Mutant of TypeFits: a boolean is an integer, as it is in Python.
TypeFitsBool(value, name) ==
    \/ value.type = name
    \/ (name = "number" /\ value.type = "integer")
    \/ name \in {"integer", "number"} /\ value.type = "boolean"
TypeFits(value, name) ==
    value.type = name \/ (name = "number" /\ value.type = "integer")

\* One name that is unknown passes; in a list it matches nothing.
Typed(value, schema) ==
    IF "type" \in DOMAIN schema THEN schema.type \notin TypeNames \/ TypeFits(value, schema.type)
    ELSE IF "types" \in DOMAIN schema /\ schema.types # {}
         THEN \E name \in schema.types : name \in TypeNames /\ TypeFits(value, name)
    ELSE TRUE

\* Membership is Python's: TRUE is 1 there.
Same(value, other) ==
    \/ value = other
    \/ /\ {value.type, other.type} = {"boolean", "integer"}
       /\ {value.atom, other.atom} \in {{"true", "1"}, {"false", "0"}}
Listed(value, schema) ==
    "enum" \in DOMAIN schema => \E other \in schema.enum : Same(value, other)

Answer(ok, code, value) == [ok |-> ok, code |-> code, value |-> value]
Passed(value) == Answer(TRUE, "none", value)
Refused(code, value) == Answer(FALSE, code, value)

Required(schema) == IF "required" \in DOMAIN schema THEN schema.required ELSE {}
Properties(schema) == IF "properties" \in DOMAIN schema THEN schema.properties ELSE <<>>

\* _check(): the verdict, and the value as the check leaves it.
RECURSIVE Check(_, _)
Check(value, schema) ==
    LET exclusive == "anyOf" \notin DOMAIN schema
        branches == IF "anyOf" \in DOMAIN schema THEN schema.anyOf ELSE schema.oneOf
        union == FoldLeft(LAMBDA so, branch :
                             LET tried == Check(so.value, branch)
                             IN  [value |-> tried.value,
                                  matches |-> so.matches + (IF tried.ok THEN 1 ELSE 0)],
                          [value |-> value, matches |-> 0], branches)
        Property(so, property) ==
            IF ~so.ok THEN so
            ELSE IF HasKey(so.value, property.key)
            THEN LET tried == Check(so.value.fields[property.key], property.schema)
                 IN  [tried EXCEPT !.value = WithField(so.value, property.key, tried.value)]
            ELSE IF "default" \in DOMAIN property.schema
            THEN Passed(WithField(so.value, property.key, property.schema.default))
            ELSE so
        Item(so, i) ==
            IF ~so.ok THEN so
            ELSE LET tried == Check(so.value.items[i], schema.items)
                 IN  [tried EXCEPT !.value = Array([so.value.items EXCEPT ![i] = tried.value])]
    IN  IF {"anyOf", "oneOf"} \intersect DOMAIN schema # {}
        THEN IF union.matches = 0 \/ (exclusive /\ union.matches > 1)
             THEN Refused("invalid_type", union.value) ELSE Passed(union.value)
        ELSE IF ~Listed(value, schema) \/ ~Typed(value, schema) THEN Refused("invalid_type", value)
        ELSE IF value.type = "object"
        THEN IF \E key \in Required(schema) : ~HasKey(value, key) THEN Refused("missing_param", value)
             ELSE FoldLeft(Property, Passed(value), Properties(schema))
        ELSE IF value.type = "array" /\ "items" \in DOMAIN schema
        THEN FoldLeft(Item, Passed(value), [i \in DOMAIN value.items |-> i])
        ELSE Passed(value)

-----------------------------------------------------------------------------
(* What a schema means, defaults and order left aside.                      *)

\* The names of all the types a value is of.
TypesOf(value) == {value.type} \union IF value.type = "integer" THEN {"number"} ELSE {}
OfType(value, schema) ==
    /\ "type" \in DOMAIN schema => schema.type \in TypesOf(value) \/ schema.type \notin TypeNames
    /\ "types" \in DOMAIN schema => schema.types = {} \/ schema.types \intersect TypesOf(value) # {}

RECURSIVE Valid(_, _)
Valid(value, schema) ==
    IF "anyOf" \in DOMAIN schema THEN \E i \in DOMAIN schema.anyOf : Valid(value, schema.anyOf[i])
    ELSE IF "oneOf" \in DOMAIN schema
    THEN \E i \in DOMAIN schema.oneOf :
            /\ Valid(value, schema.oneOf[i])
            /\ \A j \in DOMAIN schema.oneOf \ {i} : ~Valid(value, schema.oneOf[j])
    ELSE /\ Listed(value, schema)
         /\ OfType(value, schema)
         /\ value.type = "object" =>
               /\ Required(schema) \subseteq DOMAIN value.fields
               /\ \A i \in DOMAIN Properties(schema) :
                     LET property == schema.properties[i] IN
                     HasKey(value, property.key) => Valid(value.fields[property.key], property.schema)
         /\ (value.type = "array" /\ "items" \in DOMAIN schema) =>
               \A i \in DOMAIN value.items : Valid(value.items[i], schema.items)

\* All that was given is still there, whatever was filled in.
RECURSIVE Extends(_, _)
Extends(after, before) ==
    /\ after.type = before.type
    /\ CASE before.type = "object" ->
              \A key \in DOMAIN before.fields :
                  HasKey(after, key) /\ Extends(after.fields[key], before.fields[key])
         [] before.type = "array" ->
              /\ DOMAIN after.items = DOMAIN before.items
              /\ \A i \in DOMAIN before.items : Extends(after.items[i], before.items[i])
         [] OTHER -> after = before

\* Whether a default stands inside a union.
RECURSIVE DefaultIn(_, _)
DefaultIn(schema, within) ==
    \/ within /\ "default" \in DOMAIN schema
    \/ "anyOf" \in DOMAIN schema /\ \E i \in DOMAIN schema.anyOf : DefaultIn(schema.anyOf[i], TRUE)
    \/ "oneOf" \in DOMAIN schema /\ \E i \in DOMAIN schema.oneOf : DefaultIn(schema.oneOf[i], TRUE)
    \/ "properties" \in DOMAIN schema
       /\ \E i \in DOMAIN schema.properties : DefaultIn(schema.properties[i].schema, within)
    \/ "items" \in DOMAIN schema /\ DefaultIn(schema.items, within)
=============================================================================
