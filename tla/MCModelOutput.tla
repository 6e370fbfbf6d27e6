--------------------------- MODULE MCModelOutput ---------------------------
(* A small instance of ModelOutput for TLC. *)
EXTENDS ModelOutput

RawText(s) == [kind |-> "string", text |-> s, entries |-> <<>>]
RawScalar(kind) == [kind |-> kind, text |-> "", entries |-> <<>>]
RawObject(entries) == [kind |-> "object", text |-> "", entries |-> entries]

MCToolIds == {"tool_call", "tool"}

\* Values inside the arguments; "!" starts no identifier.
Leaves == {RawText("!"), RawScalar("integer"), RawScalar("fraction")}

Inner == Leaves \cup {RawObject(<<>>), RawObject(<<<<"x", RawText("!")>>>>),
                      RawObject(<<<<"x", RawScalar("integer")>>>>),
                      RawObject(<<<<"y", RawScalar("integer")>>>>)}

\* Objects with entries x and y or twice x, and what is no object.
Arguments ==
    {RawScalar("integer"), RawText("tool"), RawObject(<<>>),
     RawObject(<<<<"y", RawText("!")>>>>)}
       \cup {RawObject(<<<<"x", v>>>>) : v \in Inner}
       \cup {RawObject(<<<<"x", v>>, <<"y", RawScalar("integer")>>>>) : v \in Inner}
       \cup {RawObject(<<<<"x", v>>, <<"x", RawText("!")>>>>) : v \in {RawScalar("integer"), RawObject(<<>>)}}

MCEntries ==
    ({"kind"} \X {RawText("tool_call"), RawText("final"), RawText("!"), RawObject(<<>>)})
       \cup ({"tool_id"} \X {RawText("tool"), RawText("!"), RawScalar("integer")})
       \cup ({"arguments"} \X Arguments)
       \cup ({"result"} \X {RawText("!"), RawScalar("integer")})
       \cup {<<"z", RawText("tool")>>}

-----------------------------------------------------------------------------
Keyword == [absent |-> [form |-> "absent", names |-> {}],
            malformed |-> [form |-> "malformed", names |-> {}]]

Requires == {Keyword.absent, Keyword.malformed, [form |-> "present", names |-> {"x"}],
             [form |-> "present", names |-> {"x", "y"}]}

NoProperties(form) == [form |-> form, schemas |-> NoFields]
Property(n, s) == [form |-> "present", schemas |-> [m \in {n} |-> s]]

Declared(types, requires, properties, extras) ==
    [object : {TRUE}, other : BOOLEAN, type : types, required : requires,
     properties : properties, additional : extras]

InnerSchemas ==
    Declared({"absent", "object", "string", "number", "integer"},
             {Keyword.absent, [form |-> "present", names |-> {"x"}]},
             {NoProperties("absent"), NoProperties("malformed"), NoProperties("present")},
             {"absent", "false"})

\* A property of a property.
DeepSchemas ==
    Declared({"absent", "object"}, {Keyword.absent},
             {Property("x", s) : s \in Declared({"absent", "integer", "date"}, {Keyword.absent},
                                                {NoProperties("absent")}, {"absent"})},
             {"absent", "false"})

MCSchemas ==
    {[object |-> FALSE, other |-> FALSE, type |-> "absent", required |-> Keyword.absent,
      properties |-> NoProperties("absent"), additional |-> "absent"]} \cup
    Declared({"absent", "object", "string"}, Requires,
             {NoProperties(form) : form \in {"absent", "malformed", "present"}} \cup
             {Property("x", s) : s \in InnerSchemas \cup DeepSchemas},
             {"absent", "true", "false", "malformed"})
=============================================================================
