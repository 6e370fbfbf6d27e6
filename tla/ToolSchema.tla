----------------------------- MODULE ToolSchema -----------------------------
(***************************************************************************)
(* JSON values, and the schema subset a tool may declare its input in      *)
(* (tool_registry.rs): validate_schema_definition, which every registered  *)
(* tool's schema has passed, and validate_instance.                        *)
(*                                                                         *)
(* A value is [kind, text, fields]: `text' is what a string says, `fields' *)
(* maps the names of an object to values; numbers, arrays, booleans and    *)
(* null have a kind only.  A schema is [object, other, type, required,     *)
(* properties, additional]: `object' says whether it is a JSON object at   *)
(* all, `other' whether it has a keyword besides the four supported ones.  *)
(* A keyword is "absent", "malformed" or present; `required' and           *)
(* `properties' then carry the names and the schemas.                      *)
(***************************************************************************)
EXTENDS Naturals, Sequences, FiniteSets

NoFields == [n \in {} |-> {}]
Scalar(kind) == [kind |-> kind, text |-> "", fields |-> NoFields]
Text(s) == [kind |-> "string", text |-> s, fields |-> NoFields]
Object(fields) == [kind |-> "object", text |-> "", fields |-> fields]

Names(value) == DOMAIN value.fields
-----------------------------------------------------------------------------
Types == {"object", "array", "string", "number", "integer", "boolean", "null"}

\* Mutant: required and properties are taken on a schema of any type.
KeywordsOfAnyType(s) == TRUE
KeywordsFitType(s) ==
    s.required.form # "absent" \/ s.properties.form # "absent" => s.type = "object"

RECURSIVE ValidateSchemaDefinition(_)
ValidateSchemaDefinition(s) ==
    /\ s.object
    /\ ~s.other
    /\ s.type \in Types \cup {"absent"}
    /\ KeywordsFitType(s)
    /\ s.required.form # "malformed"
    /\ s.properties.form # "malformed"
    /\ \A n \in DOMAIN s.properties.schemas : ValidateSchemaDefinition(s.properties.schemas[n])
    /\ s.additional # "malformed"

\* A fraction is a number that neither as_i64 nor as_u64 represents.
MatchesType(type, value) ==
    CASE type = "absent"  -> TRUE
      [] type = "number"  -> value.kind \in {"integer", "fraction"}
      [] OTHER            -> value.kind = type

RECURSIVE ValidateInstance(_, _)
ValidateInstance(s, value) ==
    /\ MatchesType(s.type, value)
    /\ value.kind = "object" =>
          /\ s.required.names \subseteq Names(value)
          /\ s.additional = "false" => Names(value) \subseteq DOMAIN s.properties.schemas
          /\ \A n \in DOMAIN s.properties.schemas \cap Names(value) :
                ValidateInstance(s.properties.schemas[n], value.fields[n])
-----------------------------------------------------------------------------
(***************************************************************************)
(* What a schema means, place by place: a place of a value is reached by a *)
(* sequence of names, and a schema speaks about it when `properties' leads *)
(* there too.                                                              *)
(***************************************************************************)
Spoken(s, n) == n \in DOMAIN s.properties.schemas

\* Both places one step down, for a name that leads on in both.
Down(place, n) == [schema |-> place.schema.properties.schemas[n],
                   value  |-> place.value.fields[n]]

Below(place) == {Down(place, n) : n \in {m \in Names(place.value) : Spoken(place.schema, m)}}

\* The places of a value that is at most two objects deep.
Places(s, value) ==
    LET top == [schema |-> s, value |-> value]
    IN  {top} \cup Below(top) \cup UNION {Below(p) : p \in Below(top)}

(***************************************************************************)
(* `required' and `properties' ask for an object.  `additionalProperties'  *)
(* does not: it may be declared under any type, or none, and says nothing  *)
(* about a value that is not an object.                                    *)
(***************************************************************************)
Fulfils(s, value) ==
    /\ MatchesType(s.type, value)
    /\ s.required.form # "absent" => value.kind = "object" /\ s.required.names \subseteq Names(value)
    /\ s.properties.form # "absent" => value.kind = "object"
    /\ s.additional = "false" /\ value.kind = "object" => \A n \in Names(value) : Spoken(s, n)

Conforms(s, value) == \A p \in Places(s, value) : Fulfils(p.schema, p.value)
=============================================================================
