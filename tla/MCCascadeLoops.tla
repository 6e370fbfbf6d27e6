--------------------------- MODULE MCCascadeLoops ---------------------------
(* Small instances of CascadeLoops for TLC. *)
EXTENDS CascadeLoops, TLC

CONSTANTS all, rw, base, context, root, child1, child2, child3, rootKey, key1, key2, key3

MCNarrower == {<<c, c>> : c \in Capabilities} \cup {<<rw, all>>}

MCTerms(expires) ==
    [granted |-> {rw}, delegable |-> {rw}, permissions |-> {rw}, base |-> base,
     tools |-> {}, context |-> context, expires |-> expires]

MCRootTerms == MCTerms(1)

\* Leases that end with the first root lease, and leases to the end of the mission.
MCShortOffers == {MCTerms(1)}
MCOffers == {MCTerms(1), MCTerms(2)}

MCSymmetry == Permutations(Agents \ {root}) \cup Permutations(Keys \ {rootKey})
=============================================================================
