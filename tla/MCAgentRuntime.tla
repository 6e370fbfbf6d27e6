--------------------------- MODULE MCAgentRuntime ---------------------------
(* Small instances of AgentRuntime for TLC. *)
EXTENDS AgentRuntime, TLC

CONSTANTS all, rw, ro, tool, base, otherBase, context, otherContext, root, rootKey,
          a1, a2, a3, o1, o2, u1

MCNarrower == {<<c, c>> : c \in Capabilities} \cup {<<ro, rw>>}
                 \cup {<<c, all>> : c \in Capabilities}

\* The root lease of R1Runtime::bootstrap; its tool is bound, and nothing is delegable.
MCRootTermsUntil(expires) ==
    [granted |-> {rw}, delegable |-> {}, permissions |-> {rw}, base |-> base,
     tools |-> {tool}, context |-> context, expires |-> expires]

MCRootTerms == MCRootTermsUntil(1)

\* Renewals to the end of the mission.
MCOffers == {MCRootTermsUntil(2)}

MCSymmetry == Permutations(Attempts) \cup Permutations(Operators)
=============================================================================
