---------------------------- MODULE MCActivation ----------------------------
(* A small instance of Activation for TLC: capability 2 is narrower than 1. *)
EXTENDS Activation

MCNarrower == {<<c, c>> : c \in Capabilities} \cup {<<2, 1>>}
                 \cup {<<c, All>> : c \in Capabilities}

\* Tool 1 and another body of it; tool 2, and one that needs more; tool 3.
MCTools == {[id |-> 1, body |-> 1, required |-> {2}], [id |-> 1, body |-> 2, required |-> {2}],
            [id |-> 2, body |-> 1, required |-> {}], [id |-> 2, body |-> 1, required |-> {3}],
            [id |-> 3, body |-> 1, required |-> {All}]}

MCRegistries ==
    {list \in [1 .. 2 -> MCTools] : list[1].id # list[2].id \/ list[1] = list[2]}

MCMissions == [usable : BOOLEAN, maxActions : {0, 1}, tools : {{1}, {1, 2, 3}},
               capabilities : {{1}, {1, 3}, {1, All}}]

MCSpecs == [tools : {<<>>, <<1>>, <<2, 1>>, <<1, 1>>, <<1, 3>>, <<1, 2, 3>>},
            capabilities : {<<1>>, <<3, 1>>, <<2, 3>>, <<1, 1>>, <<All>>},
            steps : {0, 1, 2}, unresolvable : BOOLEAN]

MCDelegables == {{}, {2}, {3}}
=============================================================================
