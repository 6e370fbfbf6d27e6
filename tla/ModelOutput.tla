---------------------------- MODULE ModelOutput ----------------------------
(***************************************************************************)
(* What becomes of the text a model answers with: ProtocolGate::parse      *)
(* (protocol.rs) and, for a tool call, the check of its arguments against  *)
(* the tool's input schema in ActionGate::authorize.                       *)
(*                                                                         *)
(* The text is an object whose entries serde_json reads one by one, or     *)
(* anything else.  Its length in bytes is a number of its own: how long an *)
(* entry is says nothing here.                                             *)
(***************************************************************************)
EXTENDS ToolSchema

CONSTANTS
    MaxOutputBytes,  \* the gate's max_output_bytes
    ToolIds,         \* the strings that are valid tool ids
    Entries,         \* the <<name, value>> entries a model may write
    MaxEntries,      \* bound on the entries of one object
    Schemas          \* schemas that tools may be declared with

VARIABLES
    at,       \* how far the output has come, or how it ended
    size,     \* raw.len()
    broken,   \* the text is not one JSON object (seen when reading it)
    raw,      \* the entries read so far
    values,   \* the same as visit_map keeps them: name -> value
    message,  \* the AgentMessage
    schema    \* the input schema of the tool the message names

ovars == <<at, size, broken, raw, values, message, schema>>

ASSUME OutputAssumption ==
    /\ MaxOutputBytes \in Nat \ {0}   \* ProtocolGate::new
    /\ MaxEntries \in Nat

NoMessage == [variant |-> "none", payload |-> NoFields]
NoSchema == [object |-> FALSE]

OutputInit ==
    /\ at = "raw"
    /\ size \in 0 .. MaxOutputBytes + 1
    /\ broken = FALSE
    /\ raw = <<>>
    /\ values = NoFields
    /\ message = NoMessage
    /\ schema = NoSchema

TooLarge(n) == n > MaxOutputBytes

CheckSize ==
    /\ at = "raw"
    /\ at' = IF TooLarge(size) THEN "tooLarge" ELSE "reading"
    /\ UNCHANGED <<size, broken, raw, values, message, schema>>
-----------------------------------------------------------------------------
(***************************************************************************)
(* External: serde_json reads a nested object into a Value, whose map      *)
(* keeps the last of several entries with one name.                        *)
(***************************************************************************)
RECURSIVE Decode(_)
Decode(v) ==
    IF v.kind # "object" THEN [kind |-> v.kind, text |-> v.text, fields |-> NoFields]
    ELSE LET named(n) == {i \in DOMAIN v.entries : v.entries[i][1] = n}
             last(n)  == CHOOSE i \in named(n) : \A j \in named(n) : j <= i
         IN  Object([n \in {v.entries[i][1] : i \in DOMAIN v.entries} |->
                        Decode(v.entries[last(n)][2])])

With(function, n, value) ==
    [m \in DOMAIN function \cup {n} |-> IF m = n THEN value ELSE function[m]]

\* Mutant: a second entry of the same name replaces the first.
NeverDuplicate(name) == FALSE
Duplicate(name) == name \in DOMAIN values

\* One turn of the loop of visit_map.
ReadEntry ==
    /\ at = "reading"
    /\ Len(raw) < MaxEntries
    /\ \E entry \in Entries :
          /\ raw' = Append(raw, entry)
          /\ values' = With(values, entry[1], Decode(entry[2]))
          /\ at' = IF Duplicate(entry[1]) THEN "malformed" ELSE "reading"
    /\ UNCHANGED <<size, broken, message, schema>>

\* The text is not JSON, not an object, ends early or goes on after it.
BreakOff ==
    /\ at = "reading"
    /\ at' = "malformed"
    /\ broken' = TRUE
    /\ UNCHANGED <<size, raw, values, message, schema>>
-----------------------------------------------------------------------------
\* The closed wire schema: PROTOCOL_SCHEMA.
Tag == [name |-> "kind", shape |-> "string"]

Fields(variant) ==
    CASE variant = "tool_call" -> {[name |-> "tool_id", shape |-> "tool_id"],
                                   [name |-> "arguments", shape |-> "object"]}
      [] variant = "final"     -> {[name |-> "result", shape |-> "string"]}

Variants == {"tool_call", "final"}

\* ProtocolFieldShape::accepts
Accepts(shape, value) ==
    value.kind = (IF shape = "object" THEN "object" ELSE "string")

\* take_field; only a tool id is checked further when it is deserialised.
TakesField(field) ==
    /\ field.name \in DOMAIN values
    /\ Accepts(field.shape, values[field.name])
    /\ field.shape = "tool_id" => values[field.name].text \in ToolIds

EveryFieldIsKnown(variant) ==
    \A n \in DOMAIN values \ {Tag.name} : \E field \in Fields(variant) : field.name = n

\* The rest of visit_map, when the object has ended.
EndObject ==
    /\ at = "reading"
    /\ IF /\ TakesField(Tag)
          /\ values[Tag.name].text \in Variants
          /\ LET variant == values[Tag.name].text IN
                /\ EveryFieldIsKnown(variant)
                /\ \A field \in Fields(variant) : TakesField(field)
       THEN LET variant == values[Tag.name].text IN
            /\ at' = "parsed"
            /\ message' = [variant |-> variant,
                           payload |-> [n \in {field.name : field \in Fields(variant)} |->
                                           values[n]]]
       ELSE at' = "malformed" /\ UNCHANGED message
    /\ UNCHANGED <<size, broken, raw, values, schema>>

(***************************************************************************)
(* ActionGate::authorize on a tool call: the tool was registered with a    *)
(* schema that passed validate_schema_definition (ToolManifest::new).      *)
(* What has been read is no longer there.                                  *)
(***************************************************************************)
ValidateInput ==
    /\ at = "parsed"
    /\ message.variant = "tool_call"
    /\ \E s \in Schemas :
          /\ ValidateSchemaDefinition(s)
          /\ schema' = s
          /\ at' = IF ValidateInstance(s, message.payload["arguments"]) THEN "admitted"
                   ELSE "rejected"
    /\ raw' = <<>>
    /\ values' = NoFields
    /\ size' = 0
    /\ UNCHANGED <<broken, message>>

OutputNext == CheckSize \/ ReadEntry \/ BreakOff \/ EndObject \/ ValidateInput

OutputSpec == OutputInit /\ [][OutputNext]_ovars
-----------------------------------------------------------------------------
(***************************************************************************)
(* AgentMessage::serialize: the entries a message is written as, if it has *)
(* any: arguments that are not an object are refused.                      *)
(***************************************************************************)
Serializable(m) == m.variant = "tool_call" => Accepts("object", m.payload["arguments"])

Serialize(m) ==
    <<<<"kind", Text(m.variant)>>>> \o
    (IF m.variant = "tool_call"
     THEN <<<<"tool_id", m.payload["tool_id"]>>, <<"arguments", m.payload["arguments"]>>>>
     ELSE <<<<"result", m.payload["result"]>>>>)

ToolCall(id, arguments) ==
    [variant |-> "tool_call",
     payload |-> [n \in {"tool_id", "arguments"} |-> IF n = "tool_id" THEN Text(id) ELSE arguments]]

Final(result) == [variant |-> "final", payload |-> [n \in {"result"} |-> result]]

\* The messages, serialisable or not, that the values of the text could be from.
AgentMessages ==
    LET written == {Decode(raw[i][2]) : i \in DOMAIN raw} IN
    {ToolCall(id, value) : id \in ToolIds, value \in written} \cup
    {Final(value) : value \in {v \in written : v.kind = "string"}}

\* The text reads as what the message is written as, but for the order of the entries.
Reads(m) ==
    /\ Len(raw) = Len(Serialize(m))
    /\ {<<raw[i][1], Decode(raw[i][2])>> : i \in DOMAIN raw} =
          {Serialize(m)[i] : i \in DOMAIN Serialize(m)}
-----------------------------------------------------------------------------
(***************************************************************************)
(* Properties.                                                             *)
(***************************************************************************)

(* The protocol is closed and loses nothing: the gate yields a message exactly
   for the texts within the limit that are, but for the order of the entries,
   what serialize writes for that message; every entry counts, and a text that
   is refused is what no message is written as.  (Inside the arguments the last
   of two entries with one name counts.) *)
ClosedProtocol ==
    /\ at = "parsed" =>
          size <= MaxOutputBytes /\ ~broken /\ Serializable(message) /\ Reads(message)
    /\ at = "tooLarge" => size > MaxOutputBytes
    /\ at = "malformed" =>
          broken \/ \A m \in AgentMessages : ~(Serializable(m) /\ Reads(m))

(* Arguments pass exactly if they conform to the tool's schema at every place
   it speaks about: in a schema that a tool could be registered with, `type',
   `required' and `properties' bind every value, however deep they stand (the
   last two are refused but under type object), and `additionalProperties:
   false' binds every object; a value that is not an object passes it. *)
SchemaIsEnforced ==
    /\ at = "admitted" => Conforms(schema, message.payload["arguments"])
    /\ at = "rejected" => ~Conforms(schema, message.payload["arguments"])
=============================================================================
