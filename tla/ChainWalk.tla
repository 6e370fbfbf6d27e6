------------------------------ MODULE ChainWalk ------------------------------
(***************************************************************************)
(* validate_chain and validate_identity_chain                              *)
(* (authority_kernel/validation.rs) one loop turn at a time, over every    *)
(* small store, the ones no sequence of kernel operations builds included: *)
(* cyclic, too deep, with a missing entry or with one check that fails.    *)
(*                                                                         *)
(* A lease is walked up to the root lease; the identity of each lease's    *)
(* agent is walked up to a self-issued identity, except for the part that  *)
(* an earlier walk of the same call has validated (the cache               *)
(* successfully_validated_identities).  A store is the parent of each      *)
(* lease, its agent, the issuer of each agent's identity, and the one      *)
(* check that fails, if any.  Such stores are what the checks are written  *)
(* for; a unit test of the kernel tampers with one to reach them.          *)
(***************************************************************************)
EXTENDS Naturals, Sequences, FiniteSets

CONSTANTS
    Leases,     \* lease ids; the smallest one is the leaf
    Agents,     \* agent ids
    MaxDepth    \* MAX_AUTHORITY_CHAIN_DEPTH

VARIABLES
    store,      \* what is walked, chosen at the start
    at,         \* which loop runs, or how the call ended
    current, visited, entries,      \* validate_chain: current_id, visited, chain_entries
    agent, seen, found,             \* validate_identity_chain: current_agent_id, visited, validated
    cache,      \* successfully_validated_identities
    verified    \* agent -> how often the signature of its identity was verified

leaseVars == <<current, visited, entries>>
identityVars == <<agent, seen, found, cache, verified>>
wvars == <<store, at, leaseVars, identityVars>>

None == 0

ASSUME WalkAssumption ==
    /\ Leases \subseteq Nat \ {None} /\ Leases # {} /\ IsFiniteSet(Leases)
    /\ Agents \subseteq Nat \ {None} /\ IsFiniteSet(Agents)
    /\ MaxDepth \in Nat \ {0}

Leaf == CHOOSE l \in Leases : \A m \in Leases : l <= m

(***************************************************************************)
(* The checks that may fail: a lease's entry is missing ("lease"), is not  *)
(* active or bound to another mission or manifest ("entry"), its issuer,   *)
(* signature or renewal predecessor is wrong ("issuer"), it is not an      *)
(* attenuated child of its parent ("link"), an identity is missing         *)
(* ("agent") or its key or signature is wrong ("identity"), the leaf's     *)
(* manifest is not the current one ("manifest").                           *)
(***************************************************************************)
Defects == {<<"none", None>>, <<"manifest", None>>}
              \cup {"lease", "entry", "issuer", "link"} \X Leases
              \cup {"agent", "identity"} \X Agents

Fails(check, x) == store.defect = <<check, x>>

(***************************************************************************)
(* Leases and agents are numbered in the order the walk first meets them,  *)
(* which loses no store but for the names in it.                           *)
(***************************************************************************)
Stores ==
    {s \in [parent : [Leases -> Leases \cup {None}], agent : [Leases -> Agents],
            issuer : [Agents -> Agents \cup {None}], defect : Defects] :
        /\ \A l \in Leases : s.parent[l] <= l + 1
        /\ \A l \in Leases : s.agent[l] <= l}

WalkInit ==
    /\ store \in Stores
    /\ at = "lease"
    /\ current = Leaf
    /\ visited = {}
    /\ entries = <<>>
    /\ agent = None
    /\ seen = {}
    /\ found = {}
    /\ cache = {}
    /\ verified = [a \in Agents |-> 0]

Refuse == at' = "refused" /\ UNCHANGED <<store, leaseVars, identityVars>>
-----------------------------------------------------------------------------
\* validate_chain up to the identity of the current lease's agent
EnterLease ==
    /\ at = "lease"
    /\ IF current \in visited \/ Fails("lease", current) \/ Fails("entry", current)
       THEN Refuse
       ELSE /\ visited' = visited \cup {current}
            /\ agent' = store.agent[current]
            /\ seen' = {}
            /\ found' = {}
            /\ at' = "identity"
            /\ UNCHANGED <<store, current, entries, cache, verified>>

\* Mutant: an identity is remembered before the walk has reached its root.
RememberedAtOnce(a) == cache \cup {a}
Remembered(a) == cache

\* Mutant: the validated identities are forgotten.
Forgotten(ids) == cache
Extended(ids) == cache \cup ids

IdentitiesDone(ids) ==
    /\ cache' = Extended(ids)
    /\ at' = "issuer"
    /\ UNCHANGED <<store, leaseVars, agent, seen, found>>

Verify == verified' = [verified EXCEPT ![agent] = @ + 1]

\* Mutant: a chain that must be one shorter.
TooDeepForRoot(n) == n >= MaxDepth - 1

\* asked only where there is another one above
TooDeep(n) == n >= MaxDepth

IdentityTurn ==
    /\ at = "identity"
    /\ IF agent \in cache THEN IdentitiesDone(found) /\ UNCHANGED verified
       ELSE IF agent \in seen \/ Fails("agent", agent) THEN Refuse
       ELSE LET issuer == store.issuer[agent] IN
            IF issuer = None
            THEN IF Fails("identity", agent) THEN Refuse
                 ELSE Verify /\ IdentitiesDone(found \cup {agent})
            ELSE IF \/ TooDeep(Cardinality(seen) + 1)
                    \/ Fails("agent", issuer)
                    \/ Fails("identity", agent)
                 THEN Refuse
                 ELSE /\ Verify
                      /\ seen' = seen \cup {agent}
                      /\ found' = found \cup {agent}
                      /\ agent' = issuer
                      /\ cache' = Remembered(agent)
                      /\ UNCHANGED <<store, at, leaseVars>>

\* The rest of validate_certificate_entry, and on to the parent.
LeaveLease ==
    /\ at = "issuer"
    /\ IF \/ Fails("issuer", current)
          \/ store.parent[current] # None /\ TooDeep(Len(entries) + 1)
       THEN Refuse
       ELSE /\ entries' = Append(entries, current)
            /\ IF store.parent[current] = None THEN at' = "links" /\ UNCHANGED current
               ELSE at' = "lease" /\ current' = store.parent[current]
            /\ UNCHANGED <<store, visited, identityVars>>

\* validate_parent_child over each pair of neighbours, then the leaf's manifest
CheckLinks ==
    /\ at = "links"
    /\ IF \/ \E i \in 1 .. Len(entries) - 1 : Fails("link", entries[i])
          \/ Fails("manifest", None)
       THEN Refuse
       ELSE at' = "accepted" /\ UNCHANGED <<store, leaseVars, identityVars>>

WalkNext == EnterLease \/ IdentityTurn \/ LeaveLease \/ CheckLinks

WalkSpec == WalkInit /\ [][WalkNext]_wvars
-----------------------------------------------------------------------------
(***************************************************************************)
(* Properties.                                                             *)
(***************************************************************************)

\* What the walk from x meets if nothing stops it: the least set closed under up.
AllAbove(up, x) ==
    LET closed == {S \in SUBSET DOMAIN up : x \in S /\ \A y \in S : up[y] # None => up[y] \in S}
    IN  {y \in DOMAIN up : \A S \in closed : y \in S}

\* An identity that its issuers lead up to a self-issued one.
Anchored(a) ==
    LET ids == AllAbove(store.issuer, a) IN
    /\ \E b \in ids : store.issuer[b] = None
    /\ \A b \in ids : ~Fails("agent", b) /\ ~Fails("identity", b)

IdentityWithinLimit(a) == Cardinality(AllAbove(store.issuer, a)) <= MaxDepth

Chain == AllAbove(store.parent, Leaf)

SoundChain ==
    /\ \E l \in Chain : store.parent[l] = None
    /\ Cardinality(Chain) <= MaxDepth
    /\ \A l \in Chain :
          /\ \A check \in {"lease", "entry", "issuer"} : ~Fails(check, l)
          /\ store.parent[l] # None => ~Fails("link", l)
          /\ Anchored(store.agent[l])
    /\ ~Fails("manifest", None)

\* The issuer of the identity of a delegated lease's agent is the parent's agent.
DelegatedIdentities ==
    \A l \in Chain : store.parent[l] # None =>
        store.issuer[store.agent[l]] = store.agent[store.parent[l]]

(* A chain is accepted only if it is complete, acyclic and within the depth
   limit and every identity on it leads to a self-issued one, although most
   identities are accepted from the cache.  The depth limit of identities
   holds for the leaf's, and for every one in a store whose identities were
   issued along the chain, as delegate issues them. *)
AcceptsOnlySound ==
    at = "accepted" =>
        /\ SoundChain
        /\ IdentityWithinLimit(store.agent[Leaf])
        /\ DelegatedIdentities => \A l \in Chain : IdentityWithinLimit(store.agent[l])

(* A chain is refused only for a reason: one with nothing wrong is accepted,
   also when it is as deep as the limit allows. *)
RefusesOnlyUnsound ==
    at = "refused" =>
        ~(SoundChain /\ \A l \in Chain : IdentityWithinLimit(store.agent[l]))

(* The cache does its work: one call verifies the signature of no identity
   twice, however many leases of the chain share it. *)
EachIdentityVerifiedOnce == \A a \in Agents : verified[a] <= 1
=============================================================================
