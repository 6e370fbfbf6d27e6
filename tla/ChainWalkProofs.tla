--------------------------- MODULE ChainWalkProofs ---------------------------
(***************************************************************************)
(* Machine-checked theorems about ChainWalk: what validate_chain accepts,  *)
(* what it refuses and how often it verifies a signature, for stores and   *)
(* chains of any size.                                                     *)
(*                                                                         *)
(* The walks are loops over two functions, the parent of a lease and the   *)
(* issuer of an identity.  The invariant says of each what is behind it: a *)
(* list of leases that lead to the current one, and a set of identities    *)
(* that lead to the current one.  If a walk meets its own past, then what  *)
(* is behind it is closed, and no root is above the start.                 *)
(***************************************************************************)
EXTENDS ChainWalk, FiniteSetTheorems, WellFoundedInduction, TLAPS

(***************************************************************************)
(* What is above an element.                                               *)
(***************************************************************************)
LeadsUp(up) == up \in [DOMAIN up -> DOMAIN up \cup {None}]

\* Whatever is above an element of S is in S.
Closed(up, S) == \A y \in S : up[y] # None => up[y] \in S

LEMMA AboveSelf ==
    ASSUME NEW up, NEW x \in DOMAIN up
    PROVE  x \in AllAbove(up, x)
  BY DEF AllAbove

LEMMA AboveClosed ==
    ASSUME NEW up, LeadsUp(up), NEW x
    PROVE  Closed(up, AllAbove(up, x)) /\ AllAbove(up, x) \subseteq DOMAIN up
  BY DEF AllAbove, LeadsUp, Closed

LEMMA AboveLeast ==
    ASSUME NEW up, NEW S \in SUBSET DOMAIN up, NEW x \in S, Closed(up, S)
    PROVE  AllAbove(up, x) \subseteq S
  BY DEF AllAbove, Closed

LEMMA AboveTransitive ==
    ASSUME NEW up, LeadsUp(up), NEW x, NEW y \in AllAbove(up, x)
    PROVE  AllAbove(up, y) \subseteq AllAbove(up, x)
  BY AboveClosed, AboveLeast

(* A nonempty set of numbers has a least one. *)
LEMMA LeastNumber ==
    ASSUME NEW S \in SUBSET Nat, S # {}
    PROVE  \E m \in S : \A n \in S : m <= n
  <1>1. PICK m \in S : \A n \in S : ~(<<n, m>> \in OpToRel(<, Nat))
    BY NatLessThanWellFounded, WFMin
  <1>2. \A n \in S : ~(n < m)
    BY <1>1 DEF OpToRel
  <1> QED
    BY <1>2

(* The walk starts from a lease. *)
LEMMA LeafIsLease == Leaf \in Leases
  <1>1. Leases \in SUBSET Nat /\ Leases # {}
    BY WalkAssumption
  <1>2. \E l \in Leases : \A m \in Leases : l <= m
    BY <1>1, LeastNumber
  <1> QED
    BY <1>2 DEF Leaf
-----------------------------------------------------------------------------
(***************************************************************************)
(* The parts of the invariant.                                             *)
(***************************************************************************)
Ends == {"refused", "accepted"}
Turns == {"lease", "identity", "issuer", "links"}

\* The leases whose entries have been validated.
Entered == {entries[i] : i \in DOMAIN entries}

WalkType ==
    /\ at \in Turns \cup Ends
    /\ store.parent \in [Leases -> Leases \cup {None}]
    /\ store.agent \in [Leases -> Agents]
    /\ store.issuer \in [Agents -> Agents \cup {None}]
    /\ current \in Leases
    /\ entries \in Seq(Leases)
    /\ agent \in Agents \cup {None}
    /\ at = "identity" => agent \in Agents
    /\ found \subseteq Agents
    /\ cache \subseteq Agents
    /\ verified \in [Agents -> Nat]

\* The leases entered lead from the leaf to the current one.
BehindLease ==
    at \in {"lease", "identity", "issuer"} =>
        /\ Len(entries) < MaxDepth
        /\ Leaf \in Entered \cup {current}
        /\ \A l \in Entered : store.parent[l] \in (Entered \cup {current}) \ {None}
        /\ visited = IF at = "lease" THEN Entered ELSE Entered \cup {current}
        /\ at # "lease" => current \notin Entered

\* At the root they are the chain.
AtRoot ==
    at \in {"links", "accepted"} =>
        /\ Len(entries) <= MaxDepth
        /\ entries # <<>>
        /\ Leaf \in Entered
        /\ entries[Len(entries)] = current
        /\ store.parent[current] = None
        /\ \A l \in Entered \ {current} : store.parent[l] \in Entered \ {None}

EntriesDistinct ==
    /\ \A i, j \in DOMAIN entries : entries[i] = entries[j] => i = j
    /\ IsFiniteSet(Entered) /\ Cardinality(Entered) = Len(entries)

\* Nothing is looked at that is not above the leaf.
InChain == current \in Chain /\ Entered \subseteq Chain

LeaseChecked(l) == \A check \in {"lease", "entry"} : ~Fails(check, l)

EntriesChecked ==
    /\ \A l \in Entered : LeaseChecked(l) /\ ~Fails("issuer", l) /\ store.agent[l] \in cache
    /\ at \in {"identity", "issuer"} => LeaseChecked(current)
    /\ at = "issuer" => store.agent[current] \in cache

\* What the cache is trusted for.
CacheAnchored == \A a \in cache : Anchored(a)

\* The identities found lead from the lease's agent to the current one.
BehindIdentity ==
    at = "identity" =>
        /\ seen = found
        /\ agent \in AllAbove(store.issuer, store.agent[current])
        /\ store.agent[current] \in found \cup {agent}
        /\ IsFiniteSet(found) /\ Cardinality(found) < MaxDepth
        /\ found \subseteq AllAbove(store.issuer, store.agent[current])
        /\ \A a \in found :
              /\ store.issuer[a] \in (found \cup {agent}) \ {None}
              /\ agent \in AllAbove(store.issuer, a)
              /\ ~Fails("agent", a) /\ ~Fails("identity", a)

\* The identity of the leaf's agent is walked to its root without a cache.
LeafIdentity ==
    IF entries = <<>> /\ at \in {"lease", "identity"}
    THEN cache = {} /\ current = Leaf
    ELSE at # "refused" => IdentityWithinLimit(store.agent[Leaf])

Signatures ==
    /\ \A a \in Agents : verified[a] <= 1 /\ (verified[a] # 0 => a \in cache \cup found)
    /\ at \in {"lease", "issuer", "links"} => found \subseteq cache

LinksChecked ==
    at = "accepted" =>
        /\ \A i \in 1 .. Len(entries) - 1 : ~Fails("link", entries[i])
        /\ ~Fails("manifest", None)

WalkInv ==
    /\ WalkType /\ BehindLease /\ AtRoot /\ EntriesDistinct /\ InChain /\ EntriesChecked
    /\ CacheAnchored /\ BehindIdentity /\ LeafIdentity /\ Signatures /\ LinksChecked
    /\ RefusesOnlyUnsound
-----------------------------------------------------------------------------
(***************************************************************************)
(* What nothing but the store decides.                                     *)
(***************************************************************************)
Sound == SoundChain /\ \A l \in Chain : IdentityWithinLimit(store.agent[l])

LEMMA StoreFixed ==
    ASSUME UNCHANGED store
    PROVE  /\ Chain' = Chain
           /\ Sound' <=> Sound
           /\ \A a : Anchored(a)' <=> Anchored(a)
           /\ \A a : IdentityWithinLimit(a)' <=> IdentityWithinLimit(a)
           /\ \A check, x : Fails(check, x)' <=> Fails(check, x)
  BY DEF Chain, Sound, SoundChain, Anchored, IdentityWithinLimit, Fails

LEMMA StoreLeadsUp ==
    ASSUME WalkType
    PROVE  /\ LeadsUp(store.parent) /\ DOMAIN store.parent = Leases
           /\ LeadsUp(store.issuer) /\ DOMAIN store.issuer = Agents
  BY DEF WalkType, LeadsUp

(* A lease above the leaf has its parent above the leaf, and an anchored agent if
   the chain is sound. *)
LEMMA ChainFacts ==
    ASSUME WalkType
    PROVE  /\ Leaf \in Chain /\ Chain \subseteq Leases
           /\ \A l \in Chain : store.parent[l] # None => store.parent[l] \in Chain
           /\ IsFiniteSet(Chain)
  <1>1. Leaf \in Chain
    BY StoreLeadsUp, LeafIsLease, AboveSelf DEF Chain
  <1>2. Closed(store.parent, Chain) /\ Chain \subseteq Leases
    BY StoreLeadsUp, AboveClosed DEF Chain
  <1>3. IsFiniteSet(Chain)
    BY <1>2, WalkAssumption, FS_Subset
  <1> QED
    BY <1>1, <1>2, <1>3 DEF Closed

(* A set of leases that holds the leaf and only leads to itself is all of the
   chain, and without a root. *)
LEMMA NoRootInCycle ==
    ASSUME WalkType, NEW S \in SUBSET Leases, Leaf \in S,
           \A l \in S : store.parent[l] \in S \ {None}
    PROVE  ~SoundChain
  <1>1. Chain \subseteq S
    BY StoreLeadsUp, AboveLeast DEF Chain, Closed
  <1> QED
    BY <1>1 DEF SoundChain

LEMMA NoAnchorInCycle ==
    ASSUME WalkType, NEW S \in SUBSET Agents, NEW a \in S,
           \A b \in S : store.issuer[b] \in S \ {None}
    PROVE  ~Anchored(a)
  <1>1. AllAbove(store.issuer, a) \subseteq S
    BY StoreLeadsUp, AboveLeast DEF Closed
  <1> QED
    BY <1>1 DEF Anchored
-----------------------------------------------------------------------------
(***************************************************************************)
(* Every turn preserves the invariant.                                     *)
(***************************************************************************)
LEMMA InitWalk == WalkInit => WalkInv
  <1> SUFFICES ASSUME WalkInit PROVE WalkInv
    OBVIOUS
  <1>1. WalkType
    BY LeafIsLease DEF WalkInit, WalkType, Stores, Turns, Ends
  <1>2. entries = <<>> /\ Entered = {} /\ DOMAIN entries = {} /\ Len(entries) = 0
    BY DEF WalkInit, Entered
  <1>3. InChain
    BY <1>1, <1>2, ChainFacts DEF WalkInit, InChain
  <1>4. EntriesDistinct /\ BehindLease
    BY <1>2, FS_EmptySet, WalkAssumption DEF WalkInit, EntriesDistinct, BehindLease
  <1>5. AtRoot /\ EntriesChecked /\ CacheAnchored /\ BehindIdentity /\ LeafIdentity
    BY <1>2 DEF WalkInit, AtRoot, EntriesChecked, CacheAnchored, BehindIdentity, LeafIdentity
  <1>6. Signatures /\ LinksChecked /\ RefusesOnlyUnsound
    BY DEF WalkInit, Signatures, LinksChecked, RefusesOnlyUnsound
  <1> QED
    BY <1>1, <1>3, <1>4, <1>5, <1>6 DEF WalkInv

(* A walk that stops keeps what it knows; there must be a reason to stop. *)
LEMMA RefuseKeeps ==
    ASSUME WalkInv, Refuse, ~Sound
    PROVE  WalkInv'
  <1>1. /\ at' = "refused" /\ store' = store /\ current' = current /\ entries' = entries
        /\ agent' = agent /\ found' = found /\ cache' = cache /\ verified' = verified
    BY DEF Refuse, leaseVars, identityVars
  <1>2. Entered' = Entered
    BY <1>1 DEF Entered
  <1>3. WalkType'
    BY <1>1 DEF WalkInv, WalkType, Ends
  <1>4. BehindLease' /\ AtRoot' /\ BehindIdentity' /\ LinksChecked'
    BY <1>1 DEF BehindLease, AtRoot, BehindIdentity, LinksChecked
  <1>5. EntriesDistinct' /\ InChain'
    BY <1>1, <1>2, StoreFixed DEF WalkInv, EntriesDistinct, InChain
  <1>6. EntriesChecked' /\ CacheAnchored'
    BY <1>1, <1>2, StoreFixed DEF WalkInv, EntriesChecked, LeaseChecked, CacheAnchored
  <1>7. LeafIdentity' /\ Signatures'
    BY <1>1 DEF WalkInv, LeafIdentity, Signatures
  <1>8. RefusesOnlyUnsound'
    <2>1. ~Sound'
      BY <1>1, StoreFixed
    <2> QED BY <2>1 DEF Sound, RefusesOnlyUnsound
  <1> QED
    BY <1>3, <1>4, <1>5, <1>6, <1>7, <1>8 DEF WalkInv

LEMMA EnterLeaseKeeps ==
    ASSUME WalkInv, EnterLease
    PROVE  WalkInv'
  <1>1. WalkType /\ at = "lease" /\ visited = Entered /\ current \in Chain
    BY DEF EnterLease, WalkInv, BehindLease, InChain
  <1>2. CASE current \in visited
    <2>1. Entered \in SUBSET Leases
      BY <1>1 DEF WalkType, Entered
    <2>2. Leaf \in Entered /\ \A l \in Entered : store.parent[l] \in Entered \ {None}
      BY <1>1, <1>2 DEF WalkInv, BehindLease
    <2>3. ~Sound
      BY <1>1, <2>1, <2>2, NoRootInCycle DEF Sound
    <2> QED BY <1>2, <2>3, RefuseKeeps DEF EnterLease
  <1>3. CASE current \notin visited /\ (Fails("lease", current) \/ Fails("entry", current))
    <2>1. ~Sound
      BY <1>1, <1>3 DEF Sound, SoundChain
    <2> QED BY <1>3, <2>1, RefuseKeeps DEF EnterLease
  <1>4. CASE current \notin visited /\ ~Fails("lease", current) /\ ~Fails("entry", current)
    <2>1. /\ visited' = visited \cup {current} /\ agent' = store.agent[current]
          /\ seen' = {} /\ found' = {} /\ at' = "identity"
          /\ store' = store /\ current' = current /\ entries' = entries
          /\ cache' = cache /\ verified' = verified
      BY <1>4 DEF EnterLease
    <2>2. Entered' = Entered
      BY <2>1 DEF Entered
    <2>3. store.agent[current] \in Agents
      BY <1>1 DEF WalkType
    <2>4. WalkType'
      BY <1>1, <2>1, <2>3 DEF WalkType, Turns
    <2>5. BehindLease' /\ AtRoot' /\ EntriesDistinct'
      BY <1>1, <1>4, <2>1, <2>2 DEF WalkInv, BehindLease, AtRoot, EntriesDistinct
    <2>6. InChain' /\ CacheAnchored'
      BY <2>1, <2>2, StoreFixed DEF WalkInv, InChain, CacheAnchored
    <2>7. EntriesChecked'
      BY <1>4, <2>1, <2>2, StoreFixed DEF WalkInv, EntriesChecked, LeaseChecked
    <2>8. BehindIdentity'
      <3>1. store.agent[current] \in AllAbove(store.issuer, store.agent[current])
        BY <1>1, <2>3, StoreLeadsUp, AboveSelf
      <3>2. IsFiniteSet({}) /\ Cardinality({}) < MaxDepth
        BY FS_EmptySet, WalkAssumption
      <3> QED BY <2>1, <3>1, <3>2 DEF BehindIdentity
    <2>9. LeafIdentity'
      BY <1>1, <2>1, StoreFixed DEF WalkInv, LeafIdentity
    <2>10. Signatures' /\ LinksChecked' /\ RefusesOnlyUnsound'
      BY <1>1, <2>1 DEF WalkInv, Signatures, LinksChecked, RefusesOnlyUnsound
    <2> QED
      BY <2>4, <2>5, <2>6, <2>7, <2>8, <2>9, <2>10 DEF WalkInv
  <1> QED
    BY <1>2, <1>3, <1>4

(* The identities behind an anchored one are anchored. *)
LEMMA FoundAnchored ==
    ASSUME WalkInv, at = "identity", Anchored(agent), NEW a \in found
    PROVE  Anchored(a)
  <1> DEFINE up == store.issuer
             S == found \cup AllAbove(up, agent)
  <1>1. WalkType /\ LeadsUp(up) /\ DOMAIN up = Agents /\ agent \in Agents
    BY StoreLeadsUp DEF WalkInv, WalkType
  <1>2. \A b \in found : /\ up[b] \in (found \cup {agent}) \ {None}
                         /\ agent \in AllAbove(up, b)
                         /\ ~Fails("agent", b) /\ ~Fails("identity", b)
    BY DEF WalkInv, BehindIdentity
  <1>3. agent \in AllAbove(up, agent)
    BY <1>1, AboveSelf
  <1>4. Closed(up, AllAbove(up, agent)) /\ AllAbove(up, agent) \subseteq Agents
    BY <1>1, AboveClosed
  <1> HIDE DEF up
  <1>5. S \in SUBSET Agents /\ Closed(up, S) /\ a \in S
    BY <1>1, <1>2, <1>3, <1>4 DEF WalkType, Closed
  <1>6. AllAbove(up, a) \subseteq S
    BY <1>1, <1>5, AboveLeast
  <1>7. AllAbove(up, agent) \subseteq AllAbove(up, a)
    BY <1>1, <1>2, AboveTransitive
  <1>8. /\ \E b \in AllAbove(up, agent) : up[b] = None
        /\ \A b \in AllAbove(up, agent) : ~Fails("agent", b) /\ ~Fails("identity", b)
    BY DEF Anchored, up
  <1>9. /\ \E b \in AllAbove(up, a) : up[b] = None
        /\ \A b \in AllAbove(up, a) : ~Fails("agent", b) /\ ~Fails("identity", b)
    BY <1>2, <1>6, <1>7, <1>8
  <1> QED
    BY <1>9 DEF Anchored, up

(* What a walk of identities leaves to the rest when it is done: the agent of the
   current lease, and all on the way, are cached. *)
LEMMA IdentitiesDoneKeeps ==
    ASSUME WalkInv, at = "identity", NEW ids, IdentitiesDone(ids),
           found \subseteq ids, ids \subseteq found \cup {agent}, agent \in cache \cup ids,
           Anchored(agent),
           entries = <<>> => IdentityWithinLimit(store.agent[Leaf]),
           verified' \in [Agents -> Nat],
           \A a \in Agents : verified'[a] <= 1 /\ (verified'[a] # 0 => a \in cache \cup ids)
    PROVE  WalkInv'
  <1>1. /\ cache' = cache \cup ids /\ at' = "issuer" /\ store' = store /\ current' = current
        /\ visited' = visited /\ entries' = entries /\ agent' = agent /\ seen' = seen
        /\ found' = found
    BY DEF IdentitiesDone, Extended, leaseVars
  <1>2. Entered' = Entered
    BY <1>1 DEF Entered
  <1>3. WalkType /\ agent \in Agents
    BY DEF WalkInv, WalkType
  <1>4. WalkType'
    BY <1>1, <1>3 DEF WalkType, Turns
  <1>5. BehindLease' /\ AtRoot' /\ EntriesDistinct'
    BY <1>1, <1>2 DEF WalkInv, BehindLease, AtRoot, EntriesDistinct
  <1>6. InChain'
    BY <1>1, <1>2, StoreFixed DEF WalkInv, InChain
  <1>7. CacheAnchored'
    <2>1. \A a \in cache' : Anchored(a)
      BY <1>1, FoundAnchored DEF WalkInv, CacheAnchored
    <2> QED BY <1>1, <2>1, StoreFixed DEF CacheAnchored
  <1>8. EntriesChecked'
    <2>1. store.agent[current] \in cache'
      BY <1>1 DEF WalkInv, BehindIdentity
    <2> QED BY <1>1, <1>2, <2>1, StoreFixed DEF WalkInv, EntriesChecked, LeaseChecked
  <1>9. BehindIdentity' /\ LinksChecked' /\ RefusesOnlyUnsound'
    BY <1>1 DEF BehindIdentity, LinksChecked, RefusesOnlyUnsound
  <1>10. LeafIdentity'
    <2>1. IdentityWithinLimit(store.agent[Leaf])
      BY DEF WalkInv, LeafIdentity
    <2> QED BY <1>1, <2>1, StoreFixed DEF LeafIdentity
  <1>11. Signatures'
    BY <1>1 DEF Signatures
  <1> QED
    BY <1>4, <1>5, <1>6, <1>7, <1>8, <1>9, <1>10, <1>11 DEF WalkInv

(* The agent of the current lease is anchored and within the limit if the chain is
   sound. *)
LEMMA SoundAgent ==
    ASSUME WalkInv, Sound
    PROVE  Anchored(store.agent[current]) /\ IdentityWithinLimit(store.agent[current])
  BY DEF WalkInv, InChain, Sound, SoundChain

(* The reasons to stop in a walk of identities: it meets its own past, a check
   fails above the agent of the lease, or there are too many. *)
LEMMA IdentityRefusal ==
    ASSUME WalkInv, at = "identity", agent \notin cache,
           \/ agent \in seen
           \/ Fails("agent", agent)
           \/ Fails("identity", agent)
           \/ store.issuer[agent] # None /\ Fails("agent", store.issuer[agent])
           \/ store.issuer[agent] # None /\ TooDeep(Cardinality(seen) + 1)
    PROVE  ~Sound
  <1> SUFFICES ASSUME Sound PROVE FALSE
    OBVIOUS
  <1> DEFINE up == store.issuer
             start == store.agent[current]
             above == AllAbove(up, start)
  <1>1. WalkType /\ LeadsUp(up) /\ DOMAIN up = Agents /\ agent \in Agents
    BY StoreLeadsUp DEF WalkInv, WalkType
  <1>2. Anchored(start) /\ IdentityWithinLimit(start)
    BY SoundAgent
  <1>3. Closed(up, above) /\ above \subseteq Agents /\ IsFiniteSet(above)
    BY <1>1, AboveClosed, WalkAssumption, FS_Subset
  <1>4. /\ seen = found /\ agent \in above /\ start \in found \cup {agent}
        /\ IsFiniteSet(found) /\ found \subseteq above /\ found \in SUBSET Agents
        /\ \A a \in found : up[a] \in (found \cup {agent}) \ {None}
    BY DEF WalkInv, BehindIdentity, WalkType
  <1>5. \A a \in above : ~Fails("agent", a) /\ ~Fails("identity", a)
    BY <1>2 DEF Anchored
  <1>6. up[agent] # None => up[agent] \in above
    BY <1>3, <1>4 DEF Closed
  <1>7. agent \notin found
    BY <1>1, <1>2, <1>4, NoAnchorInCycle
  <1>8. CASE up[agent] # None /\ TooDeep(Cardinality(seen) + 1)
    <2> DEFINE behind == found \cup {agent}
    <2>1. behind \in SUBSET Agents /\ start \in behind
      BY <1>1, <1>4
    <2>9. ASSUME up[agent] \in behind PROVE FALSE
      <3>1. \A a \in behind : up[a] \in behind \ {None}
        BY <1>4, <1>8, <2>9
      <3>2. ~Anchored(start)
        BY <1>1, <2>1, <3>1, NoAnchorInCycle
      <3> QED BY <1>2, <3>2
    <2>2. IsFiniteSet(behind) /\ Cardinality(behind) = Cardinality(found) + 1
      BY <1>4, <1>7, FS_AddElement
    <2>3. /\ IsFiniteSet(behind \cup {up[agent]})
          /\ Cardinality(behind \cup {up[agent]}) = Cardinality(found) + 2
      <3>1. Cardinality(found) \in Nat
        BY <1>4, FS_CardinalityType
      <3> QED BY <2>9, <2>2, <3>1, FS_AddElement, SMTT(30)
    <2>4. behind \cup {up[agent]} \subseteq above
      BY <1>4, <1>6, <1>8
    <2>5. Cardinality(found) + 2 <= Cardinality(above)
      BY <1>3, <2>3, <2>4, FS_Subset
    <2>6. Cardinality(above) <= MaxDepth /\ Cardinality(above) \in Nat
          /\ Cardinality(found) \in Nat
      BY <1>2, <1>3, <1>4, FS_CardinalityType DEF IdentityWithinLimit
    <2>7. Cardinality(found) + 1 >= MaxDepth
      BY <1>4, <1>8 DEF TooDeep
    <2> QED BY <2>5, <2>6, <2>7, WalkAssumption
  <1> QED
    BY <1>4, <1>5, <1>6, <1>7, <1>8

LEMMA IdentityTurnKeeps ==
    ASSUME WalkInv, IdentityTurn
    PROVE  WalkInv'
  <1> DEFINE up == store.issuer
  <1>1. WalkType /\ at = "identity" /\ agent \in Agents /\ LeadsUp(up) /\ DOMAIN up = Agents
    BY StoreLeadsUp DEF IdentityTurn, WalkInv, WalkType
  <1>2. /\ seen = found /\ IsFiniteSet(found) /\ Cardinality(found) < MaxDepth
        /\ Cardinality(found) \in Nat
        /\ store.agent[current] \in found \cup {agent}
        /\ agent \in AllAbove(up, store.agent[current])
        /\ found \subseteq AllAbove(up, store.agent[current])
        /\ \A a \in found : /\ up[a] \in (found \cup {agent}) \ {None}
                            /\ agent \in AllAbove(up, a)
                            /\ ~Fails("agent", a) /\ ~Fails("identity", a)
    BY <1>1, FS_CardinalityType DEF WalkInv, BehindIdentity
  <1>3. CASE agent \in cache
    <2>1. IdentitiesDone(found) /\ verified' = verified
      BY <1>1, <1>3 DEF IdentityTurn
    <2>2. entries # <<>>
      BY <1>1, <1>3 DEF WalkInv, LeafIdentity
    <2>3. Anchored(agent)
      BY <1>3 DEF WalkInv, CacheAnchored
    <2>4. \A a \in Agents : verified'[a] <= 1 /\ (verified'[a] # 0 => a \in cache \cup found)
      BY <2>1 DEF WalkInv, Signatures
    <2>5. verified' \in [Agents -> Nat]
      BY <1>1, <2>1 DEF WalkType
    <2> QED BY <1>1, <1>3, <2>1, <2>2, <2>3, <2>4, <2>5, IdentitiesDoneKeeps
  <1>4. CASE agent \notin cache /\ Refuse
    <2>1. \/ agent \in seen
          \/ Fails("agent", agent)
          \/ Fails("identity", agent)
          \/ up[agent] # None /\ Fails("agent", up[agent])
          \/ up[agent] # None /\ TooDeep(Cardinality(seen) + 1)
      <3>1. at' = "refused"
        BY <1>4 DEF Refuse
      <3> QED BY <1>1, <1>4, <3>1 DEF IdentityTurn, IdentitiesDone, Verify
    <2> QED BY <1>1, <1>4, <2>1, IdentityRefusal, RefuseKeeps
  <1>5. CASE /\ agent \notin cache /\ agent \notin seen
             /\ ~Fails("agent", agent) /\ ~Fails("identity", agent)
             /\ up[agent] = None
    <2>1. IdentitiesDone(found \cup {agent}) /\ Verify
      BY <1>1, <1>5 DEF IdentityTurn
    <2>2. AllAbove(up, agent) = {agent}
      <3>1. {agent} \in SUBSET DOMAIN up /\ Closed(up, {agent})
        BY <1>1, <1>5 DEF Closed
      <3>2. AllAbove(up, agent) \subseteq {agent}
        BY <3>1, AboveLeast
      <3> QED BY <1>1, <3>2, AboveSelf
    <2>3. Anchored(agent)
      BY <1>5, <2>2 DEF Anchored
    <2>4. ASSUME entries = <<>> PROVE IdentityWithinLimit(store.agent[Leaf])
      <3>1. current = Leaf
        BY <1>1, <2>4 DEF WalkInv, LeafIdentity
      <3> DEFINE S == found \cup {agent}
      <3>2. S \in SUBSET DOMAIN up /\ Closed(up, S) /\ store.agent[Leaf] \in S
        BY <1>1, <1>2, <1>5, <3>1 DEF Closed, WalkType
      <3>3. AllAbove(up, store.agent[Leaf]) \subseteq S
        BY <3>2, AboveLeast
      <3>4. IsFiniteSet(S) /\ Cardinality(S) = Cardinality(found) + 1
        BY <1>2, <1>5, FS_AddElement
      <3>5. /\ Cardinality(AllAbove(up, store.agent[Leaf])) <= Cardinality(found) + 1
            /\ Cardinality(AllAbove(up, store.agent[Leaf])) \in Nat
        BY <3>3, <3>4, FS_Subset, FS_CardinalityType
      <3> QED BY <1>2, <3>5, WalkAssumption DEF IdentityWithinLimit
    <2>5. /\ verified' \in [Agents -> Nat]
          /\ \A a \in Agents : verified'[a] <= 1
                               /\ (verified'[a] # 0 => a \in cache \cup (found \cup {agent}))
      BY <1>1, <1>2, <1>5, <2>1 DEF Verify, WalkInv, Signatures, WalkType
    <2> QED BY <1>1, <2>1, <2>3, <2>4, <2>5, IdentitiesDoneKeeps
  <1>6. CASE /\ agent \notin cache /\ agent \notin seen
             /\ ~Fails("agent", agent) /\ ~Fails("identity", agent)
             /\ up[agent] # None
             /\ ~TooDeep(Cardinality(seen) + 1) /\ ~Fails("agent", up[agent])
    <2>1. /\ Verify /\ seen' = seen \cup {agent} /\ found' = found \cup {agent}
          /\ agent' = up[agent] /\ cache' = cache /\ store' = store /\ at' = at
          /\ current' = current /\ visited' = visited /\ entries' = entries
      BY <1>1, <1>6 DEF IdentityTurn, Remembered, leaseVars
    <2>2. up[agent] \in Agents /\ Entered' = Entered
      BY <1>1, <1>6, <2>1 DEF WalkType, Entered
    <2>3. /\ verified' \in [Agents -> Nat]
          /\ \A a \in Agents : verified'[a] <= 1
                               /\ (verified'[a] # 0 => a \in cache \cup (found \cup {agent}))
      BY <1>1, <1>2, <1>6, <2>1 DEF Verify, WalkInv, Signatures, WalkType
    <2>4. WalkType'
      BY <1>1, <2>1, <2>2, <2>3 DEF WalkType
    <2>5. BehindLease' /\ AtRoot' /\ EntriesDistinct'
      BY <1>1, <2>1, <2>2 DEF WalkInv, BehindLease, AtRoot, EntriesDistinct
    <2>6. InChain' /\ CacheAnchored'
      BY <2>1, <2>2, StoreFixed DEF WalkInv, InChain, CacheAnchored
    <2>7. EntriesChecked'
      BY <1>1, <2>1, <2>2, StoreFixed DEF WalkInv, EntriesChecked, LeaseChecked
    <2>8. BehindIdentity'
      <3>1. \A a \in found \cup {agent} : agent \in AllAbove(up, a)
        BY <1>1, <1>2, AboveSelf
      <3>2. \A a \in found \cup {agent} : up[agent] \in AllAbove(up, a)
        BY <1>1, <1>6, <3>1, AboveClosed DEF Closed
      <3>3. up[agent] \in AllAbove(up, store.agent[current])
        BY <1>2, <3>2
      <3>4. IsFiniteSet(found \cup {agent}) /\ Cardinality(found \cup {agent}) < MaxDepth
        <4>1. /\ IsFiniteSet(found \cup {agent})
              /\ Cardinality(found \cup {agent}) = Cardinality(found) + 1
          BY <1>2, <1>6, FS_AddElement
        <4>2. Cardinality(found) + 1 < MaxDepth
          BY <1>2, <1>6, WalkAssumption DEF TooDeep
        <4> QED BY <4>1, <4>2
      <3>5. \A a \in found \cup {agent} :
               up[a] \in ((found \cup {agent}) \cup {up[agent]}) \ {None}
        BY <1>2, <1>6
      <3>6. \A a \in found \cup {agent} : ~Fails("agent", a) /\ ~Fails("identity", a)
        BY <1>2, <1>6
      <3>7. \A a \in found' : ~Fails("agent", a)' /\ ~Fails("identity", a)'
        BY <2>1, <3>6, StoreFixed
      <3>8. /\ seen' = found' /\ IsFiniteSet(found') /\ Cardinality(found') < MaxDepth
            /\ store'.agent[current'] \in found' \cup {agent'}
        BY <1>2, <2>1, <3>4
      <3>9. /\ agent' \in AllAbove(store'.issuer, store'.agent[current'])
            /\ found' \subseteq AllAbove(store'.issuer, store'.agent[current'])
        BY <1>2, <2>1, <3>3
      <3>10. \A a \in found' : /\ store'.issuer[a] \in (found' \cup {agent'}) \ {None}
                               /\ agent' \in AllAbove(store'.issuer, a)
        BY <2>1, <3>2, <3>5
      <3> QED
        BY <3>7, <3>8, <3>9, <3>10 DEF BehindIdentity
    <2>9. LeafIdentity'
      BY <1>1, <2>1, StoreFixed DEF WalkInv, LeafIdentity
    <2>10. Signatures' /\ LinksChecked' /\ RefusesOnlyUnsound'
      BY <1>1, <2>1, <2>3 DEF Signatures, LinksChecked, RefusesOnlyUnsound
    <2> QED
      BY <2>4, <2>5, <2>6, <2>7, <2>8, <2>9, <2>10 DEF WalkInv
  <1> QED
    BY <1>1, <1>3, <1>4, <1>5, <1>6 DEF IdentityTurn

(* Leaving a lease adds it to the entered ones. *)
LEMMA LeftIsEntered ==
    ASSUME WalkInv, at = "issuer", entries' = Append(entries, current)
    PROVE  /\ entries' \in Seq(Leases) /\ Len(entries') = Len(entries) + 1
           /\ entries' # <<>> /\ entries'[Len(entries')] = current
           /\ Entered' = Entered \cup {current}
           /\ EntriesDistinct'
  <1>1. entries \in Seq(Leases) /\ current \in Leases /\ current \notin Entered
    BY DEF WalkInv, WalkType, BehindLease, Turns
  <1>2. /\ entries' \in Seq(Leases) /\ Len(entries') = Len(entries) + 1
        /\ Len(entries) \in Nat
        /\ DOMAIN entries = 1 .. Len(entries) /\ DOMAIN entries' = 1 .. Len(entries) + 1
        /\ \A i \in DOMAIN entries : entries'[i] = entries[i]
        /\ entries'[Len(entries) + 1] = current
    BY <1>1
  <1>3. DOMAIN entries' = DOMAIN entries \cup {Len(entries) + 1}
    BY <1>2
  <1>4. Entered' = {entries'[i] : i \in DOMAIN entries'}
    BY DEF Entered
  <1>5. Entered' = Entered \cup {current}
    BY <1>2, <1>3, <1>4 DEF Entered
  <1>6. \A i \in DOMAIN entries : entries[i] # current
    BY <1>1 DEF Entered
  <1>7. \A i, j \in DOMAIN entries : entries[i] = entries[j] => i = j
    BY DEF WalkInv, EntriesDistinct
  <1>8. \A i, j \in DOMAIN entries' : entries'[i] = entries'[j] => i = j
    BY <1>2, <1>3, <1>6, <1>7
  <1>9. IsFiniteSet(Entered) /\ Cardinality(Entered) = Len(entries)
    BY DEF WalkInv, EntriesDistinct
  <1>10. /\ IsFiniteSet(Entered \cup {current})
         /\ Cardinality(Entered \cup {current}) = Len(entries) + 1
    BY <1>1, <1>9, FS_AddElement
  <1>11. EntriesDistinct'
    BY <1>2, <1>5, <1>8, <1>10 DEF EntriesDistinct
  <1> QED
    BY <1>2, <1>5, <1>11

LEMMA LeaseRefusal ==
    ASSUME WalkInv, at = "issuer", store.parent[current] # None, TooDeep(Len(entries) + 1)
    PROVE  ~Sound
  <1> SUFFICES ASSUME Sound PROVE FALSE
    OBVIOUS
  <1> DEFINE up == store.parent
             behind == Entered \cup {current}
  <1>1. WalkType /\ current \in Chain /\ Entered \subseteq Chain /\ current \notin Entered
        /\ Leaf \in behind
        /\ \A l \in Entered : up[l] \in behind \ {None}
    BY DEF WalkInv, InChain, BehindLease
  <1>2. /\ IsFiniteSet(Chain) /\ Chain \subseteq Leases /\ up[current] \in Chain
    BY <1>1, ChainFacts
  <1>3. IsFiniteSet(Entered) /\ Cardinality(Entered) = Len(entries) /\ Len(entries) \in Nat
    BY <1>1 DEF WalkInv, EntriesDistinct, WalkType
  <1>4. ASSUME up[current] \in behind PROVE FALSE
    <2>1. \A l \in behind : up[l] \in behind \ {None}
      BY <1>1, <1>4
    <2>2. behind \in SUBSET Leases
      BY <1>1, <1>2
    <2>3. ~SoundChain
      BY <1>1, <2>1, <2>2, NoRootInCycle
    <2> QED BY <2>3 DEF Sound
  <1>5. IsFiniteSet(behind) /\ Cardinality(behind) = Len(entries) + 1
    BY <1>1, <1>3, FS_AddElement
  <1>6. /\ IsFiniteSet(behind \cup {up[current]})
        /\ Cardinality(behind \cup {up[current]}) = (Len(entries) + 1) + 1
    BY <1>4, <1>5, FS_AddElement
  <1>7. behind \cup {up[current]} \subseteq Chain
    BY <1>1, <1>2
  <1>8. (Len(entries) + 1) + 1 <= Cardinality(Chain)
    BY <1>2, <1>6, <1>7, FS_Subset
  <1>9. Cardinality(Chain) <= MaxDepth /\ Cardinality(Chain) \in Nat
    BY <1>2, FS_CardinalityType DEF Sound, SoundChain
  <1>10. Len(entries) + 1 >= MaxDepth
    BY DEF TooDeep
  <1> QED
    BY <1>3, <1>8, <1>9, <1>10, WalkAssumption

LEMMA LeaveLeaseKeeps ==
    ASSUME WalkInv, LeaveLease
    PROVE  WalkInv'
  <1> DEFINE up == store.parent
  <1>1. WalkType /\ at = "issuer" /\ current \in Chain /\ up[current] \in Leases \cup {None}
    BY DEF LeaveLease, WalkInv, InChain, WalkType
  <1>2. CASE Fails("issuer", current)
    <2>1. ~Sound
      BY <1>1, <1>2 DEF Sound, SoundChain
    <2> QED BY <1>2, <2>1, RefuseKeeps DEF LeaveLease
  <1>3. CASE ~Fails("issuer", current) /\ up[current] # None /\ TooDeep(Len(entries) + 1)
    BY <1>1, <1>3, LeaseRefusal, RefuseKeeps DEF LeaveLease
  <1>4. CASE ~Fails("issuer", current) /\ ~(up[current] # None /\ TooDeep(Len(entries) + 1))
    <2>1. /\ entries' = Append(entries, current) /\ store' = store /\ visited' = visited
          /\ agent' = agent /\ seen' = seen /\ found' = found /\ cache' = cache
          /\ verified' = verified
          /\ \/ up[current] = None /\ at' = "links" /\ current' = current
             \/ up[current] # None /\ at' = "lease" /\ current' = up[current]
      BY <1>4 DEF LeaveLease, identityVars
    <2>2. /\ entries' \in Seq(Leases) /\ Len(entries') = Len(entries) + 1
          /\ entries' # <<>> /\ entries'[Len(entries')] = current
          /\ Entered' = Entered \cup {current}
          /\ EntriesDistinct'
      BY <1>1, <2>1, LeftIsEntered
    <2>3. /\ Len(entries) < MaxDepth /\ Leaf \in Entered \cup {current}
          /\ \A l \in Entered : up[l] \in (Entered \cup {current}) \ {None}
          /\ visited = Entered \cup {current} /\ current \notin Entered
          /\ Len(entries) \in Nat
      BY <1>1 DEF WalkInv, BehindLease, WalkType
    <2>4. WalkType'
      BY <1>1, <2>1, <2>2 DEF WalkType, Turns
    <2>5. BehindLease'
      <3>1. CASE at' = "lease"
        <4>1. up[current] # None /\ current' = up[current]
          BY <2>1, <3>1
        <4>2. Len(entries') < MaxDepth
          BY <1>4, <2>2, <2>3, <4>1, WalkAssumption DEF TooDeep
        <4>3. \A l \in Entered' : store'.parent[l] \in (Entered' \cup {current'}) \ {None}
          BY <2>1, <2>2, <2>3, <4>1
        <4> QED BY <2>1, <2>2, <2>3, <3>1, <4>2, <4>3 DEF BehindLease
      <3>2. CASE at' = "links"
        BY <3>2 DEF BehindLease
      <3> QED BY <2>1, <3>1, <3>2
    <2>6. AtRoot'
      <3>1. CASE at' = "links"
        <4>1. up[current] = None /\ current' = current
          BY <2>1, <3>1
        <4>2. \A l \in Entered' \ {current'} : store'.parent[l] \in Entered' \ {None}
          BY <2>1, <2>2, <2>3, <4>1
        <4>3. Len(entries') <= MaxDepth
          BY <2>2, <2>3, WalkAssumption
        <4> QED BY <2>1, <2>2, <2>3, <4>1, <4>2, <4>3 DEF AtRoot
      <3>2. CASE at' = "lease"
        BY <3>2 DEF AtRoot
      <3> QED BY <2>1, <3>1, <3>2
    <2>7. InChain'
      <3>1. current' \in Chain
        BY <1>1, <2>1, ChainFacts
      <3>2. Entered' \subseteq Chain
        BY <1>1, <2>2 DEF WalkInv, InChain
      <3> QED BY <2>1, <3>1, <3>2, StoreFixed DEF InChain
    <2>8. CacheAnchored'
      BY <2>1, StoreFixed DEF WalkInv, CacheAnchored
    <2>9. EntriesChecked'
      BY <1>1, <1>4, <2>1, <2>2, StoreFixed DEF WalkInv, EntriesChecked, LeaseChecked
    <2>10. LeafIdentity'
      <3>1. IdentityWithinLimit(store.agent[Leaf])
        BY <1>1 DEF WalkInv, LeafIdentity
      <3> QED BY <2>1, <2>2, <3>1, StoreFixed DEF LeafIdentity
    <2>11. BehindIdentity' /\ LinksChecked' /\ RefusesOnlyUnsound' /\ Signatures'
      BY <1>1, <2>1 DEF WalkInv, BehindIdentity, LinksChecked, RefusesOnlyUnsound, Signatures
    <2> QED
      BY <2>2, <2>4, <2>5, <2>6, <2>7, <2>8, <2>9, <2>10, <2>11 DEF WalkInv
  <1> QED
    BY <1>2, <1>3, <1>4

LEMMA CheckLinksKeeps ==
    ASSUME WalkInv, CheckLinks
    PROVE  WalkInv'
  <1>1. WalkType /\ at = "links" /\ AtRoot /\ InChain /\ EntriesDistinct
    BY DEF CheckLinks, WalkInv
  <1>2. CASE \E i \in 1 .. Len(entries) - 1 : Fails("link", entries[i])
    <2>1. PICK i \in 1 .. Len(entries) - 1 : Fails("link", entries[i])
      BY <1>2
    <2>2. Len(entries) \in Nat /\ DOMAIN entries = 1 .. Len(entries)
      <3>1. entries \in Seq(Leases)
        BY <1>1, Zenon DEF WalkType
      <3> QED BY <3>1
    <2>3. i \in DOMAIN entries /\ Len(entries) \in DOMAIN entries /\ i # Len(entries)
      <3>1. PICK n \in Nat : n = Len(entries)
        BY <2>2
      <3>2. i \in 1 .. n /\ n \in 1 .. n /\ i # n
        BY <3>1
      <3> QED BY <2>2, <3>1, <3>2
    <2>4. entries[i] # current /\ entries[i] \in Entered
      BY <1>1, <2>3 DEF AtRoot, EntriesDistinct, Entered
    <2>5. store.parent[entries[i]] # None /\ entries[i] \in Chain
      BY <1>1, <2>4 DEF AtRoot, InChain
    <2>6. ~Sound
      BY <2>1, <2>5 DEF Sound, SoundChain
    <2> QED BY <1>2, <2>6, RefuseKeeps DEF CheckLinks
  <1>3. CASE Fails("manifest", None)
    <2>1. ~Sound
      BY <1>3 DEF Sound, SoundChain
    <2> QED BY <1>3, <2>1, RefuseKeeps DEF CheckLinks
  <1>4. CASE /\ \A i \in 1 .. Len(entries) - 1 : ~Fails("link", entries[i])
             /\ ~Fails("manifest", None)
    <2>1. /\ at' = "accepted" /\ store' = store /\ current' = current /\ visited' = visited
          /\ entries' = entries /\ agent' = agent /\ seen' = seen /\ found' = found
          /\ cache' = cache /\ verified' = verified
      BY <1>4 DEF CheckLinks, leaseVars, identityVars
    <2>2. Entered' = Entered
      BY <2>1 DEF Entered
    <2>3. WalkType'
      BY <1>1, <2>1 DEF WalkType, Ends
    <2>4. BehindLease' /\ BehindIdentity' /\ RefusesOnlyUnsound'
      BY <2>1 DEF BehindLease, BehindIdentity, RefusesOnlyUnsound
    <2>5. AtRoot' /\ EntriesDistinct'
      BY <1>1, <2>1, <2>2 DEF AtRoot, EntriesDistinct
    <2>6. InChain' /\ CacheAnchored'
      BY <2>1, <2>2, StoreFixed DEF WalkInv, InChain, CacheAnchored
    <2>7. EntriesChecked'
      BY <2>1, <2>2, StoreFixed DEF WalkInv, EntriesChecked, LeaseChecked
    <2>8. LeafIdentity' /\ Signatures'
      BY <1>1, <2>1, StoreFixed DEF WalkInv, LeafIdentity, Signatures
    <2>9. LinksChecked'
      BY <1>4, <2>1, StoreFixed DEF LinksChecked
    <2> QED
      BY <2>3, <2>4, <2>5, <2>6, <2>7, <2>8, <2>9 DEF WalkInv
  <1> QED
    BY <1>2, <1>3, <1>4

LEMMA StandingStill ==
    ASSUME WalkInv, UNCHANGED wvars
    PROVE  WalkInv'
  <1>1. /\ at' = at /\ store' = store /\ current' = current /\ visited' = visited
        /\ entries' = entries /\ agent' = agent /\ seen' = seen /\ found' = found
        /\ cache' = cache /\ verified' = verified
    BY DEF wvars, leaseVars, identityVars
  <1>2. Entered' = Entered
    BY <1>1 DEF Entered
  <1>3. WalkType' /\ BehindLease' /\ AtRoot' /\ EntriesDistinct'
    BY <1>1, <1>2 DEF WalkInv, WalkType, BehindLease, AtRoot, EntriesDistinct
  <1>4. InChain' /\ CacheAnchored'
    BY <1>1, <1>2, StoreFixed DEF WalkInv, InChain, CacheAnchored
  <1>5. EntriesChecked'
    BY <1>1, <1>2, StoreFixed DEF WalkInv, EntriesChecked, LeaseChecked
  <1>6. BehindIdentity'
    BY <1>1, StoreFixed DEF WalkInv, BehindIdentity
  <1>7. LeafIdentity' /\ Signatures' /\ LinksChecked'
    BY <1>1, StoreFixed DEF WalkInv, LeafIdentity, Signatures, LinksChecked
  <1>8. RefusesOnlyUnsound'
    BY <1>1, StoreFixed DEF WalkInv, RefusesOnlyUnsound, Sound
  <1> QED
    BY <1>3, <1>4, <1>5, <1>6, <1>7, <1>8 DEF WalkInv
-----------------------------------------------------------------------------
(***************************************************************************)
(* The theorems.                                                           *)
(***************************************************************************)

(* The invariant of the walk holds in every state of every call. *)
THEOREM WalkInvariant == WalkSpec => []WalkInv
  <1>1. WalkInv /\ [WalkNext]_wvars => WalkInv'
    BY EnterLeaseKeeps, IdentityTurnKeeps, LeaveLeaseKeeps, CheckLinksKeeps, StandingStill
       DEF WalkNext
  <1> QED
    BY InitWalk, <1>1, PTL DEF WalkSpec

(* validate_chain refuses only for a reason: whatever the store, a chain that is
   complete, within the limits and without a failing check is never refused. *)
THEOREM ChainRefusedForAReason == WalkSpec => []RefusesOnlyUnsound
  BY WalkInvariant, PTL DEF WalkInv

(* One call of validate_chain verifies no identity's signature twice. *)
THEOREM SignaturesVerifiedOnce == WalkSpec => []EachIdentityVerifiedOnce
  <1>1. WalkInv => EachIdentityVerifiedOnce
    BY DEF WalkInv, Signatures, EachIdentityVerifiedOnce
  <1> QED
    BY WalkInvariant, <1>1, PTL

(* When the walk has reached the root, the leases it entered are the chain. *)
LEMMA EnteredIsChain ==
    ASSUME WalkInv, at = "accepted"
    PROVE  Chain = Entered
  <1>1. WalkType /\ AtRoot /\ InChain
    BY DEF WalkInv
  <1>2. /\ Leaf \in Entered /\ store.parent[current] = None
        /\ \A l \in Entered \ {current} : store.parent[l] \in Entered \ {None}
    BY <1>1 DEF AtRoot
  <1>3. Closed(store.parent, Entered)
    BY <1>2 DEF Closed
  <1>4. Entered \in SUBSET DOMAIN store.parent
    BY <1>1, StoreLeadsUp DEF WalkType, Entered
  <1>5. Chain \subseteq Entered
    BY <1>2, <1>3, <1>4, AboveLeast DEF Chain
  <1> QED
    BY <1>1, <1>5 DEF InChain

LEMMA AcceptedIsSound ==
    ASSUME WalkInv, at = "accepted"
    PROVE  SoundChain
  <1>1. WalkType /\ AtRoot /\ InChain /\ EntriesDistinct /\ LinksChecked /\ EntriesChecked
        /\ CacheAnchored
    BY DEF WalkInv
  <1>2. Chain = Entered
    BY EnteredIsChain
  <1>3. \E l \in Chain : store.parent[l] = None
    BY <1>1 DEF AtRoot, InChain
  <1>4. Cardinality(Chain) <= MaxDepth
    BY <1>1, <1>2 DEF EntriesDistinct, AtRoot
  <1>5. ASSUME NEW l \in Chain
        PROVE  /\ \A check \in {"lease", "entry", "issuer"} : ~Fails(check, l)
               /\ Anchored(store.agent[l])
    BY <1>1, <1>2, <1>5 DEF EntriesChecked, LeaseChecked, CacheAnchored
  <1>6. ASSUME NEW l \in Chain, store.parent[l] # None
        PROVE  ~Fails("link", l)
    <2>1. PICK i \in DOMAIN entries : entries[i] = l
      BY <1>2, <1>6 DEF Entered
    <2>2. i # Len(entries)
      BY <1>1, <1>6, <2>1 DEF AtRoot
    <2>3. i \in 1 .. Len(entries) - 1
      BY <1>1, <2>1, <2>2 DEF WalkType
    <2> QED BY <1>1, <2>1, <2>3 DEF LinksChecked
  <1>7. ~Fails("manifest", None)
    BY <1>1 DEF LinksChecked
  <1> QED
    BY <1>3, <1>4, <1>5, <1>6, <1>7 DEF SoundChain

(* If identities are issued along the chain, then those above an agent of the
   chain are above the leaf's. *)
LEMMA AboveTheLeaf ==
    ASSUME WalkInv, DelegatedIdentities, NEW l \in Chain
    PROVE  store.agent[l] \in AllAbove(store.issuer, store.agent[Leaf])
  <1> DEFINE ids == AllAbove(store.issuer, store.agent[Leaf])
             S == {m \in Chain : store.agent[m] \in ids}
  <1>1. WalkType
    BY DEF WalkInv
  <1>2. /\ Leaf \in Chain /\ Chain \subseteq Leases
        /\ \A m \in Chain : store.parent[m] # None => store.parent[m] \in Chain
    BY <1>1, ChainFacts
  <1>3. store.agent[Leaf] \in ids
    BY <1>1, <1>2, StoreLeadsUp, AboveSelf DEF WalkType
  <1>4. Closed(store.issuer, ids)
    BY <1>1, StoreLeadsUp, AboveClosed
  <1> HIDE DEF ids
  <1>5. ASSUME NEW m \in S, store.parent[m] # None
        PROVE  store.parent[m] \in S
    <2>1. store.parent[m] \in Leases
      BY <1>2, <1>5
    <2>2. store.agent[store.parent[m]] \in Agents
      BY <1>1, <2>1 DEF WalkType
    <2>3. store.issuer[store.agent[m]] = store.agent[store.parent[m]]
      BY <1>5 DEF DelegatedIdentities
    <2>4. store.agent[store.parent[m]] # None
      BY <2>2, WalkAssumption
    <2> QED BY <1>2, <1>4, <1>5, <2>3, <2>4 DEF Closed
  <1>6. Leaf \in S /\ S \in SUBSET DOMAIN store.parent /\ Closed(store.parent, S)
    BY <1>1, <1>2, <1>3, <1>5, StoreLeadsUp DEF Closed
  <1>7. Chain \subseteq S
    BY <1>6, AboveLeast DEF Chain
  <1> QED
    BY <1>7 DEF ids

(* validate_chain accepts only a sound chain: complete, acyclic, within the depth
   limit, with every identity on it led up to a self-issued one, although the walk
   takes most of them from its cache. *)
THEOREM ChainAcceptedOnlyIfSound == WalkSpec => []AcceptsOnlySound
  <1>1. ASSUME WalkInv, at = "accepted"
        PROVE  /\ SoundChain
               /\ IdentityWithinLimit(store.agent[Leaf])
               /\ DelegatedIdentities => \A l \in Chain : IdentityWithinLimit(store.agent[l])
    <2>1. WalkType /\ IdentityWithinLimit(store.agent[Leaf])
      BY <1>1 DEF WalkInv, LeafIdentity
    <2>2. ASSUME DelegatedIdentities, NEW l \in Chain
          PROVE  IdentityWithinLimit(store.agent[l])
      <3> DEFINE ids == AllAbove(store.issuer, store.agent[Leaf])
                 above == AllAbove(store.issuer, store.agent[l])
      <3>1. above \subseteq ids
        BY <1>1, <2>1, <2>2, AboveTheLeaf, StoreLeadsUp, AboveTransitive
      <3>2. IsFiniteSet(ids)
        BY <2>1, StoreLeadsUp, AboveClosed, WalkAssumption, FS_Subset
      <3>3. /\ Cardinality(above) <= Cardinality(ids)
            /\ Cardinality(above) \in Nat /\ Cardinality(ids) \in Nat
        BY <3>1, <3>2, FS_Subset, FS_CardinalityType
      <3>4. Cardinality(ids) <= MaxDepth
        BY <2>1 DEF IdentityWithinLimit
      <3> QED BY <3>3, <3>4, WalkAssumption DEF IdentityWithinLimit
    <2> QED BY <1>1, <2>1, <2>2, AcceptedIsSound
  <1>2. WalkInv => AcceptsOnlySound
    BY <1>1 DEF AcceptsOnlySound
  <1> QED
    BY WalkInvariant, <1>2, PTL
=============================================================================
