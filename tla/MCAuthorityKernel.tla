-------------------------- MODULE MCAuthorityKernel --------------------------
(* Small instances of AuthorityKernel for TLC. *)
EXTENDS AuthorityKernel, TLC

CONSTANTS all, rw, ro, net, tool, base, otherBase, context, root, child1, child2, rootKey, key1, key2

MCNarrower == {<<c, c>> : c \in Capabilities} \cup {<<ro, rw>>}
                 \cup {<<c, all>> : c \in Capabilities}

MCTerms(granted, delegable, tools, expires) ==
    [granted |-> granted, delegable |-> delegable, permissions |-> granted,
     base |-> base, tools |-> tools, context |-> context, expires |-> expires]

MCRootTerms == MCTerms({rw}, {rw}, {tool}, 1)

(* Requests the kernel may accept, from wide and long to narrow and short, and
   requests it must refuse: a lifetime and an authority outside the mission, delegable beyond
   granted, Capability::All, a foreign manifest base. *)
MCOffers == {MCTerms({rw}, {rw}, {tool}, 2),
             MCTerms({ro}, {ro}, {}, 2),
             MCTerms({ro}, {ro}, {}, 1),
             MCTerms({ro}, {ro}, {}, 3),
             MCTerms({net}, {}, {}, 2),
             MCTerms({ro}, {rw}, {}, 2),
             MCTerms({all}, {}, {}, 2),
             [MCTerms({ro}, {}, {}, 2) EXCEPT !.permissions = {rw}],
             [MCTerms({ro}, {}, {}, 2) EXCEPT !.base = otherBase]}

MCSymmetry == Permutations({child1, child2}) \cup Permutations({key1, key2})
=============================================================================
