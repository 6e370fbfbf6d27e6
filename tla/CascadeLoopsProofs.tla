------------------------- MODULE CascadeLoopsProofs -------------------------
(***************************************************************************)
(* Machine-checked theorems about CascadeLoops: the loops of revoke,       *)
(* refresh_expirations and renew end, implement the atomic operations of   *)
(* AuthorityKernel and log what they do in order, for every tree of leases *)
(* and every order of the lease ids.                                       *)
(*                                                                         *)
(* The invariant says of every lease whether its record is still the one   *)
(* the operation found or already the one it leaves.  A lease is struck by *)
(* the first lease of its chain whose cascade has started, in the order of *)
(* the sweep, and waits as long as that cascade has not come to it.        *)
(***************************************************************************)
EXTENDS CascadeLoops, AuthorityKernelEvidence

(***************************************************************************)
(* The parts of the invariant: the shape of a job.                         *)
(***************************************************************************)
Elements(s) == {s[i] : i \in DOMAIN s}
Distinct(s) == \A i, j \in DOMAIN s : s[i] = s[j] => i = j
Ascending(s) == \A i, j \in DOMAIN s : i < j => rank[s[i]] < rank[s[j]]

RankOK ==
    /\ rank \in [LeaseIds -> Nat]
    /\ \A l, m \in LeaseIds : rank[l] = rank[m] => l = m

Walks == [root : LeaseIds \cup {NoLease}, pending : Seq(LeaseIds),
          seen : SUBSET LeaseIds, found : Seq(LeaseIds)]

Jobs == [op : {"revoke", "refresh", "renew"}, lease : LeaseIds \cup {NoLease},
         id : LeaseIds \cup {NoLease}, terms : Terms, due : Seq(LeaseIds), walk : Walks,
         at : {"walk", "revoke", "due"}, todo : Seq(LeaseIds),
         records : [DOMAIN certs -> Records], log : [DOMAIN certs -> Seq(Events)]]

\* A walk below its root that has a turn left, or, without a pending lease, none.
WalkOK(walk) ==
    /\ walk.root \in DOMAIN certs
    /\ Distinct(walk.pending) /\ Distinct(walk.found)
    /\ Elements(walk.pending) \cap Elements(walk.found) = {}
    /\ walk.seen = Elements(walk.pending) \cup Elements(walk.found)
    /\ walk.root \in walk.seen
    /\ walk.seen \subseteq DescendantsIncluding(walk.root)
    /\ \A c \in DOMAIN certs : certs[c].parent \in Elements(walk.found) => c \in walk.seen
    /\ IF walk.found = <<>> THEN walk.pending = <<walk.root>>
                            ELSE walk.found[1] = walk.root

\* A lease the cascade comes to below its root, or, in a revocation, the root first.
TodoOK ==
    /\ Distinct(job.todo)
    /\ Elements(job.todo) \subseteq DescendantsIncluding(job.walk.root)
    /\ job.walk.root \in Elements(job.todo) => job.op = "revoke" /\ job.todo[1] = job.walk.root

\* What renew has checked before its first write.
RenewalOK ==
    /\ job.terms \in Offers /\ job.id \in NewLeaseIds
    /\ certs[job.lease].agent \in DOMAIN identities
    /\ certs[job.lease].parentAgent # NoAgent =>
          certs[job.lease].parentAgent \in DOMAIN identities

JobShape ==
    /\ job \in Jobs
    /\ job.at = "walk" => WalkOK(job.walk) /\ job.walk.pending # <<>> /\ job.todo = <<>>
    /\ job.at = "revoke" => job.walk.root \in DOMAIN certs /\ TodoOK
    /\ job.at = "due" => job.todo = <<>>
    /\ Distinct(job.due) /\ Elements(job.due) \subseteq DOMAIN certs
    /\ job.op # "refresh" => /\ job.due = <<>> /\ job.at # "due"
                             /\ job.lease \in DOMAIN certs /\ job.walk.root = job.lease
    /\ job.op = "renew" => RenewalOK

ShapeInv ==
    /\ TypeOK /\ IssuedInOrder /\ RankOK
    /\ Locked => JobShape
-----------------------------------------------------------------------------
(***************************************************************************)
(* The parts of the invariant: what has become of each lease.              *)
(***************************************************************************)
WasLive(l) == job.records[l].state \in LiveStates

\* The first of the leases in `done' on the chain of l.
First(done, l) ==
    CHOOSE d \in Chain(l) \cap done : \A e \in Chain(l) \cap done : rank[d] <= rank[e]

Struck(done, l) == WasLive(l) /\ Chain(l) \cap done # {}

Waits(done, l) ==
    /\ First(done, l) = job.walk.root
    /\ l = job.walk.root => job.op = "revoke"
    /\ job.at = "walk" \/ l \in Elements(job.todo)

\* The record and the events of l when d has struck it.
EndRecord(d, l) ==
    IF l # d \/ job.op = "revoke" THEN Moved(job.records[l], "Revoked")
    ELSE IF job.op = "renew" THEN Retired(job.records[l], job.id)
    ELSE Moved(job.records[l], "Expired")

EndLog(d, l) ==
    IF l # d THEN Append(job.log[l], Event("LeaseRevoked", d))
    ELSE IF job.op = "revoke" THEN Append(job.log[l], Event("LeaseRevoked", NoLease))
    ELSE IF job.op = "renew" THEN job.log[l]
    ELSE Append(job.log[l], Event("LeaseExpired", NoLease))

LeaseOK(done, l) ==
    IF Struck(done, l) /\ ~Waits(done, l)
    THEN records[l] = EndRecord(First(done, l), l) /\ log[l] = EndLog(First(done, l), l)
    ELSE records[l] = job.records[l] /\ log[l] = job.log[l]

\* The leases whose cascades the operation starts, if it collected the leases in due.
Started(due) == due \ Elements(job.due)

DueThen(now) ==
    {l \in DOMAIN certs : WasLive(l) /\ now >= certs[l].terms.expires}

Collected(due) ==
    /\ due \subseteq DOMAIN certs /\ due # {} /\ \A d \in due : WasLive(d)
    /\ Elements(job.due) \subseteq due
    /\ Ascending(job.due)
    /\ \A d \in Started(due), e \in Elements(job.due) : rank[d] < rank[e]
    /\ job.at # "due" => job.walk.root \in Started(due)
    /\ IF job.op = "refresh" THEN \E now \in 0 .. clock : due = DueThen(now)
                             ELSE due = {job.lease}

\* What renew has validated still holds of what was visible when it took the lock.
RenewalAllowed ==
    job.op = "renew" =>
        \E now \in 0 .. clock :
            Kernel!MayRenew(job.lease, job.records[job.lease].generation, job.terms, now)

JobStatus ==
    /\ \E due \in SUBSET DOMAIN certs :
          Collected(due) /\ \A l \in DOMAIN certs : LeaseOK(Started(due), l)
    /\ RenewalAllowed

StatusInv == ShapeInv /\ (Locked => JobStatus)
-----------------------------------------------------------------------------
(***************************************************************************)
(* The parts of the invariant: the order of the events.                    *)
(***************************************************************************)
Depth(l) == Cardinality(Chain(l))

\* l is reported before m if one cascade ends both.
Before(l, m) ==
    \/ Depth(l) < Depth(m)
    \/ Depth(l) = Depth(m) /\ (certs[l].parent = certs[m].parent => rank[l] < rank[m])

InOrder(s) == \A i, j \in DOMAIN s : i < j => Before(s[i], s[j])

WalkInOrder(walk) ==
    /\ InOrder(walk.pending) /\ InOrder(walk.found)
    /\ \A l \in Elements(walk.found), m \in Elements(walk.pending) : Before(l, m)
    /\ \A l \in Elements(walk.pending) : Depth(l) <= Depth(walk.pending[1]) + 1
    /\ \A l \in walk.seen \ {walk.root} : certs[l].parent \in Elements(walk.found)

EventOK(e) ==
    /\ e.lease \in DOMAIN certs /\ e.related \in DOMAIN certs \cup {NoLease}
    /\ e.kind \in {"LeaseRevoked", "LeaseExpired"} => ~Live(e.lease)
    /\ e.kind \in {"LeaseRevoked", "LeaseRenewed"} /\ e.related # NoLease => ~Live(e.related)

Entries == [lease : LeaseIds, kind : EventKinds, related : LeaseIds \cup {NoLease}]

RevokedBy(r) == {i \in DOMAIN events : events[i].kind = "LeaseRevoked" /\ events[i].related = r}

\* The root of a cascade ends before the leases below it.
RootEnds ==
    job.op # "revoke" \/ (job.at = "revoke" /\ job.walk.root \notin Elements(job.todo))
        => ~Live(job.walk.root)

CascadeInOrder ==
    /\ RootEnds
    /\ CascadeOf(job.walk.root) # {} => Len(events) \in CascadeOf(job.walk.root)
    /\ IF job.at = "walk" THEN WalkInOrder(job.walk) /\ RevokedBy(job.walk.root) = {}
       ELSE /\ InOrder(job.todo)
            /\ \A i \in RevokedBy(job.walk.root), l \in Elements(job.todo) :
                  Before(events[i].lease, l)

LogInOrder ==
    /\ events \in Seq(Entries)
    /\ \A i \in DOMAIN events : EventOK(events[i])
    /\ CascadeIsRootFirst
    /\ CascadesAreContiguous

EventOrderInv ==
    /\ ShapeInv
    /\ LogInOrder
    /\ Locked /\ job.at # "due" => CascadeInOrder
-----------------------------------------------------------------------------
(***************************************************************************)
(* Lists.                                                                  *)
(***************************************************************************)
LEMMA ElementsType ==
    ASSUME NEW S, NEW s \in Seq(S)
    PROVE  Elements(s) \subseteq S
  BY DEF Elements

LEMMA ListOf ==
    ASSUME NEW S, NEW s \in Seq(S), NEW T, Elements(s) \subseteq T
    PROVE  s \in Seq(T)
  <1>1. Len(s) \in Nat /\ DOMAIN s = 1 .. Len(s) /\ s = [i \in 1 .. Len(s) |-> s[i]]
    OBVIOUS
  <1>2. \A i \in 1 .. Len(s) : s[i] \in T
    BY <1>1 DEF Elements
  <1>3. s \in [1 .. Len(s) -> T]
    BY <1>1, <1>2
  <1> QED
    BY <1>1, <1>3

LEMMA TailElements ==
    ASSUME NEW S, NEW s \in Seq(S), s # <<>>
    PROVE  /\ Tail(s) \in Seq(S) /\ Head(s) \in S /\ Head(s) = s[1]
           /\ Len(Tail(s)) = Len(s) - 1 /\ Len(s) \in Nat \ {0}
           /\ Elements(s) = {Head(s)} \cup Elements(Tail(s))
           /\ Distinct(s) => Distinct(Tail(s)) /\ Head(s) \notin Elements(Tail(s))
  <1> DEFINE t == Tail(s)
  <1>1. /\ t \in Seq(S) /\ Head(s) \in S /\ Head(s) = s[1] /\ Len(s) \in Nat \ {0}
        /\ DOMAIN s = 1 .. Len(s) /\ Len(t) = Len(s) - 1 /\ DOMAIN t = 1 .. Len(s) - 1
        /\ \A i \in DOMAIN t : i + 1 \in DOMAIN s /\ t[i] = s[i + 1]
    OBVIOUS
  <1> HIDE DEF t
  <1>2. \A i \in DOMAIN s : i = 1 \/ (i - 1 \in DOMAIN t /\ t[i - 1] = s[i])
    BY <1>1
  <1>3. Elements(s) = {Head(s)} \cup Elements(t)
    <2>1. Elements(s) \subseteq {Head(s)} \cup Elements(t)
      BY <1>1, <1>2 DEF Elements
    <2>2. Elements(t) \subseteq Elements(s) /\ Head(s) \in Elements(s)
      BY <1>1 DEF Elements
    <2> QED BY <2>1, <2>2
  <1>4. ASSUME Distinct(s) PROVE Distinct(t) /\ Head(s) \notin Elements(t)
    BY <1>1, <1>4 DEF Distinct, Elements
  <1> QED
    BY <1>1, <1>3, <1>4 DEF t

LEMMA AppendElements ==
    ASSUME NEW S, NEW s \in Seq(S), NEW x \in S
    PROVE  /\ Append(s, x) \in Seq(S) /\ Len(Append(s, x)) = Len(s) + 1 /\ Len(s) \in Nat
           /\ Append(s, x) # <<>>
           /\ Append(s, x)[1] = IF s = <<>> THEN x ELSE s[1]
           /\ Elements(Append(s, x)) = Elements(s) \cup {x}
           /\ Distinct(s) /\ x \notin Elements(s) => Distinct(Append(s, x))
  <1> DEFINE t == Append(s, x)
  <1>1. /\ t \in Seq(S) /\ Len(t) = Len(s) + 1 /\ Len(s) \in Nat
        /\ DOMAIN s = 1 .. Len(s) /\ DOMAIN t = 1 .. Len(s) + 1
        /\ \A i \in DOMAIN s : t[i] = s[i]
        /\ t[Len(s) + 1] = x
    OBVIOUS
  <1> HIDE DEF t
  <1>2. t # <<>> /\ t[1] = IF s = <<>> THEN x ELSE s[1]
    <2>1. s = <<>> => Len(s) = 0
      OBVIOUS
    <2>2. s # <<>> => 1 \in DOMAIN s
      OBVIOUS
    <2>3. t # <<>>
      BY <1>1
    <2> QED BY <1>1, <2>1, <2>2, <2>3
  <1>3. DOMAIN t = DOMAIN s \cup {Len(s) + 1}
    BY <1>1
  <1>4. Elements(t) = Elements(s) \cup {x}
    BY <1>1, <1>3 DEF Elements
  <1>5. ASSUME Distinct(s), x \notin Elements(s) PROVE Distinct(t)
    BY <1>1, <1>3, <1>5 DEF Distinct, Elements
  <1> QED
    BY <1>1, <1>2, <1>4, <1>5 DEF t

LEMMA ConcatElements ==
    ASSUME NEW S, NEW s \in Seq(S), NEW t \in Seq(S)
    PROVE  /\ s \o t \in Seq(S)
           /\ Elements(s \o t) = Elements(s) \cup Elements(t)
           /\ Distinct(s) /\ Distinct(t) /\ Elements(s) \cap Elements(t) = {} => Distinct(s \o t)
           /\ \A i \in DOMAIN (s \o t) :
                 IF i \in DOMAIN s THEN (s \o t)[i] = s[i]
                 ELSE i - Len(s) \in DOMAIN t /\ (s \o t)[i] = t[i - Len(s)]
  <1> DEFINE u == s \o t
  <1>1. /\ u \in Seq(S) /\ Len(s) \in Nat /\ Len(t) \in Nat
        /\ DOMAIN s = 1 .. Len(s) /\ DOMAIN t = 1 .. Len(t) /\ DOMAIN u = 1 .. Len(s) + Len(t)
    OBVIOUS
  <1>2. \A i \in DOMAIN s : u[i] = s[i]
    OBVIOUS
  <1>3. \A i \in DOMAIN t : u[Len(s) + i] = t[i]
    OBVIOUS
  <1> HIDE DEF u
  <1>4. \A i \in DOMAIN u : \/ i \in DOMAIN s
                            \/ i \notin DOMAIN s /\ i - Len(s) \in DOMAIN t
    BY <1>1
  <1>5. \A i \in DOMAIN u : i \notin DOMAIN s => u[i] = t[i - Len(s)]
    <2> TAKE i \in DOMAIN u
    <2>1. ASSUME i \notin DOMAIN s PROVE Len(s) + (i - Len(s)) = i
      BY <1>1
    <2> QED BY <1>3, <1>4, <2>1
  <1>6. Elements(u) = Elements(s) \cup Elements(t)
    <2>1. Elements(u) \subseteq Elements(s) \cup Elements(t)
      BY <1>2, <1>4, <1>5 DEF Elements
    <2>2. \A i \in DOMAIN s : i \in DOMAIN u
      BY <1>1
    <2>3. \A i \in DOMAIN t : Len(s) + i \in DOMAIN u
      BY <1>1
    <2>4. Elements(s) \subseteq Elements(u) /\ Elements(t) \subseteq Elements(u)
      BY <1>2, <1>3, <2>2, <2>3 DEF Elements
    <2> QED BY <2>1, <2>4
  <1>7. ASSUME Distinct(s), Distinct(t), Elements(s) \cap Elements(t) = {},
               NEW i \in DOMAIN u, NEW j \in DOMAIN u, u[i] = u[j]
        PROVE  i = j
    <2>1. CASE i \in DOMAIN s /\ j \in DOMAIN s
      BY <1>2, <1>7, <2>1 DEF Distinct
    <2>2. CASE i \notin DOMAIN s /\ j \notin DOMAIN s
      <3>1. i - Len(s) = j - Len(s)
        BY <1>4, <1>5, <1>7, <2>2 DEF Distinct
      <3> QED BY <1>1, <3>1
    <2>3. CASE i \in DOMAIN s /\ j \notin DOMAIN s
      BY <1>2, <1>4, <1>5, <1>7, <2>3 DEF Elements
    <2>4. CASE i \notin DOMAIN s /\ j \in DOMAIN s
      BY <1>2, <1>4, <1>5, <1>7, <2>4 DEF Elements
    <2> QED BY <2>1, <2>2, <2>3, <2>4
  <1>8. Distinct(s) /\ Distinct(t) /\ Elements(s) \cap Elements(t) = {} => Distinct(u)
    BY <1>7 DEF Distinct
  <1> QED
    BY <1>1, <1>2, <1>4, <1>5, <1>6, <1>8 DEF u

(* A list without repetitions is no longer than the set it is drawn from. *)
LEMMA DistinctLength ==
    ASSUME NEW S, IsFiniteSet(S), NEW s \in Seq(S), Distinct(s)
    PROVE  Len(s) <= Cardinality(S) /\ Len(s) \in Nat /\ Cardinality(S) \in Nat
  <1>1. s \in [1 .. Len(s) -> S] /\ Len(s) \in Nat /\ DOMAIN s = 1 .. Len(s)
    OBVIOUS
  <1>2. s \in Injection(1 .. Len(s), S)
    BY <1>1 DEF Distinct, Injection, IsInjective
  <1>3. Cardinality(1 .. Len(s)) <= Cardinality(S)
    BY <1>2, FS_Injection
  <1>4. Cardinality(1 .. Len(s)) = Len(s)
    <2>1. \A n \in Nat : Cardinality(1 .. n) = n
      BY FS_Interval
    <2> QED BY <1>1, <2>1
  <1> QED
    BY <1>1, <1>3, <1>4, FS_CardinalityType

(* The ids number the leases of a set from 1 on. *)
LEMMA Placed ==
    ASSUME RankOK, NEW S \in SUBSET LeaseIds
    PROVE  /\ IsFiniteSet(S) /\ Cardinality(S) \in Nat
           /\ \E place \in Injection(S, 1 .. Cardinality(S)) :
                 \A l, m \in S : rank[l] < rank[m] => place[l] < place[m]
  <1> DEFINE n == Cardinality(S)
             upTo(l) == {m \in S : rank[m] <= rank[l]}
             place == [l \in S |-> Cardinality(upTo(l))]
  <1>1. IsFiniteSet(S) /\ n \in Nat
    BY FiniteIds, FS_Subset, FS_CardinalityType
  <1>2. \A l \in S : rank[l] \in Nat
    BY DEF RankOK
  <1>3. ASSUME NEW l \in S
        PROVE  IsFiniteSet(upTo(l)) /\ Cardinality(upTo(l)) \in 1 .. n
    <2>1. upTo(l) \in SUBSET S /\ l \in upTo(l)
      BY <1>2
    <2>2. IsFiniteSet(upTo(l)) /\ Cardinality(upTo(l)) <= n /\ Cardinality(upTo(l)) \in Nat
      BY <1>1, <2>1, FS_Subset, FS_CardinalityType
    <2>3. Cardinality(upTo(l)) # 0
      BY <2>1, <2>2, FS_EmptySet
    <2> QED BY <1>1, <2>2, <2>3
  <1>4. ASSUME NEW l \in S, NEW m \in S, rank[l] < rank[m]
        PROVE  Cardinality(upTo(l)) < Cardinality(upTo(m))
    <2>1. upTo(l) \in SUBSET upTo(m) /\ m \in upTo(m) /\ m \notin upTo(l)
      BY <1>2, <1>4
    <2>2. /\ Cardinality(upTo(l)) <= Cardinality(upTo(m))
          /\ Cardinality(upTo(l)) # Cardinality(upTo(m))
      BY <1>3, <2>1, FS_Subset
    <2> QED BY <1>1, <1>3, <2>2
  <1>5. place \in [S -> 1 .. n]
    BY <1>3
  <1>6. \A l, m \in S : rank[l] < rank[m] => place[l] < place[m]
    BY <1>4
  <1> HIDE DEF place
  <1>7. ASSUME NEW l \in S, NEW m \in S, place[l] = place[m] PROVE l = m
    <2>1. place[l] \in Nat
      BY <1>1, <1>5
    <2>2. ~(rank[l] < rank[m]) /\ ~(rank[m] < rank[l])
      BY <1>6, <1>7, <2>1
    <2>3. rank[l] = rank[m]
      BY <1>2, <2>2
    <2> QED BY <2>3 DEF RankOK
  <1>8. place \in Injection(S, 1 .. n)
    BY <1>5, <1>7 DEF Injection, IsInjective
  <1> QED
    BY <1>1, <1>6, <1>8

LEMMA SortedFacts ==
    ASSUME RankOK, NEW S \in SUBSET LeaseIds
    PROVE  /\ Sorted(S) \in Seq(S) /\ Elements(Sorted(S)) = S
           /\ Distinct(Sorted(S)) /\ Ascending(Sorted(S))
  <1> DEFINE n == Cardinality(S)
             ordered(list) == \A i, j \in 1 .. n : i < j => rank[list[i]] < rank[list[j]]
  <1>1. IsFiniteSet(S) /\ n \in Nat
    BY Placed
  <1>2. PICK place \in Injection(S, 1 .. n) :
               \A l, m \in S : rank[l] < rank[m] => place[l] < place[m]
    BY Placed
  <1>3. IsFiniteSet(1 .. n) /\ Cardinality(1 .. n) = n
    BY <1>1, FS_Interval
  <1>4. place \in Surjection(S, 1 .. n)
    BY <1>1, <1>2, <1>3, FS_Injection
  <1>5. place \in [S -> 1 .. n] /\ \A i \in 1 .. n : \E l \in S : place[l] = i
    BY <1>4 DEF Surjection
  <1> DEFINE inverse == [i \in 1 .. n |-> CHOOSE l \in S : place[l] = i]
  <1>6. inverse \in [1 .. n -> S] /\ \A i \in 1 .. n : place[inverse[i]] = i
    BY <1>5
  <1> HIDE DEF inverse
  <1>7. ordered(inverse)
    <2> SUFFICES ASSUME NEW i \in 1 .. n, NEW j \in 1 .. n, i < j
                 PROVE  rank[inverse[i]] < rank[inverse[j]]
      OBVIOUS
    <2>1. /\ inverse[i] \in S /\ inverse[j] \in S
          /\ place[inverse[i]] = i /\ place[inverse[j]] = j
      BY <1>6
    <2>2. rank[inverse[i]] \in Nat /\ rank[inverse[j]] \in Nat
      BY <2>1 DEF RankOK
    <2>3. ~(rank[inverse[j]] < rank[inverse[i]])
      BY <1>1, <1>2, <2>1
    <2>4. rank[inverse[j]] # rank[inverse[i]]
      BY <1>1, <2>1 DEF RankOK
    <2> QED BY <2>2, <2>3, <2>4
  <1> DEFINE list == Sorted(S)
  <1>8. list \in [1 .. n -> S] /\ ordered(list)
    BY <1>6, <1>7 DEF Sorted
  <1> HIDE DEF list
  <1>9. list \in Seq(S) /\ DOMAIN list = 1 .. n
    BY <1>1, <1>8
  <1>10. Ascending(list)
    BY <1>8, <1>9 DEF Ascending
  <1>11. Distinct(list)
    <2> SUFFICES ASSUME NEW i \in 1 .. n, NEW j \in 1 .. n, list[i] = list[j] PROVE i = j
      BY <1>9 DEF Distinct
    <2>1. rank[list[i]] \in Nat
      BY <1>8 DEF RankOK
    <2>2. ~(i < j) /\ ~(j < i)
      BY <1>8, <2>1
    <2> QED BY <1>1, <2>2
  <1>12. list \in Injection(1 .. n, S)
    BY <1>8, <1>9, <1>11 DEF Distinct, Injection, IsInjective
  <1>13. list \in Surjection(1 .. n, S)
    BY <1>1, <1>3, <1>12, FS_Injection
  <1>14. Elements(list) = S
    BY <1>8, <1>9, <1>13 DEF Elements, Surjection
  <1> QED
    BY <1>9, <1>10, <1>11, <1>14 DEF list
-----------------------------------------------------------------------------
(***************************************************************************)
(* The walk of descendants_including.                                      *)
(***************************************************************************)

(* What a turn of the walk does. *)
LEMMA VisitIs ==
    ASSUME TypeOK, RankOK, NEW walk \in Walks, walk.pending # <<>>
    PROVE  LET h        == Head(walk.pending)
               kids     == {c \in DOMAIN certs : certs[c].parent = h} \ walk.seen
               children == NewChildren(h, walk.seen)
           IN  /\ Visit(walk) = [root |-> walk.root, pending |-> Tail(walk.pending) \o children,
                                 seen |-> walk.seen \cup kids, found |-> Append(walk.found, h)]
               /\ Visit(walk) \in Walks
               /\ children \in Seq(LeaseIds) /\ Elements(children) = kids
               /\ Distinct(children) /\ Ascending(children)
  <1> DEFINE h        == Head(walk.pending)
             kids     == {c \in DOMAIN certs : certs[c].parent = h} \ walk.seen
             children == NewChildren(h, walk.seen)
  <1>1. kids \in SUBSET LeaseIds
    BY DEF TypeOK
  <1>2. children = Sorted(kids)
    BY DEF NewChildren
  <1>3. /\ children \in Seq(kids) /\ Elements(children) = kids
        /\ Distinct(children) /\ Ascending(children)
    BY <1>1, <1>2, SortedFacts
  <1>4. children \in Seq(LeaseIds)
    BY <1>1, <1>3
  <1>5. kids = {children[i] : i \in DOMAIN children}
    BY <1>3 DEF Elements
  <1>6. /\ walk.pending \in Seq(LeaseIds) /\ walk.found \in Seq(LeaseIds)
        /\ walk.seen \in SUBSET LeaseIds /\ walk.root \in LeaseIds \cup {NoLease}
        /\ walk = [root |-> walk.root, pending |-> walk.pending,
                   seen |-> walk.seen, found |-> walk.found]
    BY DEF Walks
  <1>7. h \in LeaseIds /\ Tail(walk.pending) \in Seq(LeaseIds)
    BY <1>6
  <1>8. Visit(walk) = [walk EXCEPT !.pending = Tail(walk.pending) \o children,
                                   !.seen = walk.seen \cup kids,
                                   !.found = Append(walk.found, h)]
    BY <1>5, <1>6 DEF Visit
  <1> HIDE DEF children, kids
  <1>9. Visit(walk) = [root |-> walk.root, pending |-> Tail(walk.pending) \o children,
                       seen |-> walk.seen \cup kids, found |-> Append(walk.found, h)]
    BY <1>6, <1>8
  <1>10. /\ Tail(walk.pending) \o children \in Seq(LeaseIds)
         /\ Append(walk.found, h) \in Seq(LeaseIds)
    BY <1>4, <1>6, <1>7
  <1>11. Visit(walk) \in Walks
    BY <1>1, <1>6, <1>9, <1>10 DEF Walks
  <1> QED
    BY <1>3, <1>4, <1>9, <1>11 DEF children, kids

(* A turn of the walk visits a lease that it has not visited, and queues the
   children that it has not seen. *)
LEMMA VisitOK ==
    ASSUME TypeOK, RankOK, NEW walk \in Walks, WalkOK(walk), walk.pending # <<>>
    PROVE  /\ Visit(walk) \in Walks /\ WalkOK(Visit(walk))
           /\ Visit(walk).root = walk.root
           /\ Visit(walk).found # <<>>
           /\ Len(Visit(walk).found) = Len(walk.found) + 1
  <1> DEFINE h        == Head(walk.pending)
             kids     == {c \in DOMAIN certs : certs[c].parent = h} \ walk.seen
             children == NewChildren(h, walk.seen)
             rest     == Tail(walk.pending)
             found    == Append(walk.found, h)
             r        == walk.root
             seen     == walk.seen
  <1>1. /\ Visit(walk) = [root |-> walk.root, pending |-> rest \o children,
                          seen |-> walk.seen \cup kids, found |-> found]
        /\ Visit(walk) \in Walks
        /\ children \in Seq(LeaseIds) /\ Elements(children) = kids /\ Distinct(children)
    BY VisitIs
  <1>2. walk.pending \in Seq(LeaseIds) /\ walk.found \in Seq(LeaseIds)
    BY DEF Walks
  <1>3. /\ r \in DOMAIN certs /\ Distinct(walk.pending) /\ Distinct(walk.found)
        /\ Elements(walk.pending) \cap Elements(walk.found) = {}
        /\ seen = Elements(walk.pending) \cup Elements(walk.found)
        /\ r \in seen /\ seen \subseteq DescendantsIncluding(r)
        /\ \A c \in DOMAIN certs : certs[c].parent \in Elements(walk.found) => c \in seen
        /\ walk.found = <<>> => walk.pending = <<r>>
        /\ walk.found # <<>> => walk.found[1] = r
    BY DEF WalkOK
  <1>4. /\ rest \in Seq(LeaseIds) /\ h \in LeaseIds /\ h = walk.pending[1]
        /\ Elements(walk.pending) = {h} \cup Elements(rest)
        /\ Distinct(rest) /\ h \notin Elements(rest)
    BY <1>2, <1>3, TailElements
  <1>5. /\ found # <<>> /\ Len(found) = Len(walk.found) + 1
        /\ found[1] = IF walk.found = <<>> THEN h ELSE walk.found[1]
        /\ Elements(found) = Elements(walk.found) \cup {h}
        /\ Distinct(found)
    BY <1>2, <1>3, <1>4, AppendElements
  <1> HIDE DEF found, rest, h, children
  <1>6. /\ Elements(rest \o children) = Elements(rest) \cup kids
        /\ Distinct(rest \o children)
    <2>1. Elements(rest) \cap Elements(children) = {}
      BY <1>1, <1>3, <1>4
    <2> QED BY <1>1, <1>4, <2>1, ConcatElements
  <1>7. (Elements(rest) \cup kids) \cap Elements(found) = {}
    BY <1>3, <1>4, <1>5
  <1>8. seen \cup kids = (Elements(rest) \cup kids) \cup Elements(found)
    BY <1>3, <1>4, <1>5
  <1>9. kids \subseteq DescendantsIncluding(r)
    BY <1>3, <1>4, DescendantsClosed
  <1>10. \A c \in DOMAIN certs : certs[c].parent \in Elements(found) => c \in seen \cup kids
    BY <1>3, <1>5
  <1>11. found[1] = r
    BY <1>3, <1>4, <1>5
  <1> HIDE DEF kids
  <1>12. WalkOK(Visit(walk))
    BY <1>1, <1>3, <1>5, <1>6, <1>7, <1>8, <1>9, <1>10, <1>11 DEF WalkOK
  <1> QED
    BY <1>1, <1>5, <1>12

(* A walk without a pending lease has found all of the subtree. *)
LEMMA WalkDone ==
    ASSUME TypeOK, NEW walk, WalkOK(walk), walk.pending = <<>>
    PROVE  Elements(walk.found) = DescendantsIncluding(walk.root)
  <1>1. Elements(<<>>) = {}
    BY DEF Elements
  <1>2. /\ walk.root \in Elements(walk.found)
        /\ Elements(walk.found) \subseteq DescendantsIncluding(walk.root)
        /\ \A c \in DOMAIN certs :
              certs[c].parent \in Elements(walk.found) => c \in Elements(walk.found)
    BY <1>1 DEF WalkOK
  <1>3. Elements(walk.found) \in SUBSET DOMAIN certs
    BY <1>2 DEF DescendantsIncluding
  <1>4. DescendantsIncluding(walk.root) \subseteq Elements(walk.found)
    BY <1>2, <1>3, DescendantsLeast DEF ClosedUnderChildren
  <1> QED
    BY <1>2, <1>4

(* The first walk below a lease. *)
LEMMA NewWalk ==
    ASSUME TypeOK, NEW r \in DOMAIN certs
    PROVE  /\ Walk(r) \in Walks /\ WalkOK(Walk(r)) /\ Walk(r).pending # <<>>
           /\ Walk(r).root = r /\ Walk(r).found = <<>>
  <1>1. r \in LeaseIds /\ r \in DescendantsIncluding(r)
    BY RootInDescendants DEF TypeOK
  <1>2. Elements(<<r>>) = {r} /\ Elements(<<>>) = {} /\ Distinct(<<r>>) /\ Distinct(<<>>)
    BY DEF Elements, Distinct
  <1>3. /\ Walk(r).root = r /\ Walk(r).pending = <<r>> /\ Walk(r).seen = {r}
        /\ Walk(r).found = <<>>
    BY DEF Walk
  <1>4. Walk(r) \in Walks
    BY <1>1 DEF Walk, Walks
  <1>5. WalkOK(Walk(r))
    BY <1>1, <1>2, <1>3 DEF WalkOK
  <1> QED
    BY <1>3, <1>4, <1>5

LEMMA NoWalkType == NoWalk \in Walks /\ NoWalk.root = NoLease
  BY DEF NoWalk, Walks
-----------------------------------------------------------------------------
(***************************************************************************)
(* Every step preserves the shape of the job.                              *)
(***************************************************************************)
LEMMA CertsFixed ==
    ASSUME UNCHANGED certs
    PROVE  /\ \A walk : WalkOK(walk)' <=> WalkOK(walk)
           /\ \A r : DescendantsIncluding(r)' = DescendantsIncluding(r)
           /\ \A l : Chain(l)' = Chain(l)
           /\ NewLeaseIds' = NewLeaseIds /\ Jobs' = Jobs
           /\ IssuedInOrder' <=> IssuedInOrder
  BY DEF WalkOK, DescendantsIncluding, ClosedUnderChildren, Chain, ClosedUnderParents,
         NewLeaseIds, Unused, Jobs, IssuedInOrder

LEMMA FreeShape ==
    ASSUME TypeOK', IssuedInOrder', RankOK, rank' = rank, job' = Free
    PROVE  ShapeInv'
  BY DEF ShapeInv, RankOK, Locked

LEMMA JobsLocked ==
    ASSUME NEW j \in Jobs
    PROVE  j # Free
  BY DEF Jobs, Free

LEMMA NothingDue == Distinct(<<>>) /\ Elements(<<>>) = {}
  BY DEF Distinct, Elements

LEMMA StartRevokeShape ==
    ASSUME ShapeInv, NEW l \in DOMAIN certs, NEW expected, StartRevoke(l, expected)
    PROVE  /\ ShapeInv'
           /\ job'.op = "revoke" /\ job'.lease = l /\ job'.due = <<>> /\ job'.walk = Walk(l)
           /\ job'.at = "walk" /\ job'.todo = <<>> /\ job'.records = records /\ job'.log = log
  <1>1. /\ job' = Job("revoke", l, NoLease, RootTerms, <<>>, Walk(l), "walk")
        /\ certs' = certs /\ rank' = rank /\ UNCHANGED vars
    BY DEF StartRevoke, vars
  <1>2. TypeOK /\ IssuedInOrder /\ RankOK /\ l \in LeaseIds
    BY DEF ShapeInv, TypeOK
  <1>3. TypeOK' /\ IssuedInOrder' /\ RankOK'
    BY <1>1, <1>2, CertsFixed DEF vars, TypeOK, RankOK
  <1>4. Walk(l) \in Walks /\ WalkOK(Walk(l)) /\ Walk(l).pending # <<>> /\ Walk(l).root = l
    BY <1>2, NewWalk
  <1>5. <<>> \in Seq(LeaseIds)
    OBVIOUS
  <1>6. /\ job' \in Jobs /\ job'.op = "revoke" /\ job'.lease = l /\ job'.due = <<>>
        /\ job'.walk = Walk(l) /\ job'.at = "walk" /\ job'.todo = <<>>
        /\ job'.records = records /\ job'.log = log
    BY <1>1, <1>2, <1>4, <1>5, TermsAssumption DEF Job, Jobs, TypeOK
  <1>7. JobShape'
    BY <1>1, <1>4, <1>6, CertsFixed, NothingDue DEF JobShape
  <1> QED
    BY <1>3, <1>6, <1>7 DEF ShapeInv

LEMMA DueIds ==
    ASSUME TypeOK, NEW now
    PROVE  Due(now) \in SUBSET LeaseIds /\ Due(now) \subseteq DOMAIN certs
  BY DEF Due, TypeOK

LEMMA StartRefreshShape ==
    ASSUME ShapeInv, NEW now, StartRefresh(now)
    PROVE  /\ ShapeInv'
           /\ job'.op = "refresh" /\ job'.due = Sorted(Due(now)) /\ job'.at = "due"
           /\ job'.todo = <<>> /\ job'.records = records /\ job'.log = log
  <1>1. /\ job' = Job("refresh", NoLease, NoLease, RootTerms, Sorted(Due(now)), NoWalk, "due")
        /\ certs' = certs /\ rank' = rank /\ UNCHANGED vars
    BY DEF StartRefresh, vars
  <1>2. TypeOK /\ IssuedInOrder /\ RankOK
    BY DEF ShapeInv
  <1>3. TypeOK' /\ IssuedInOrder' /\ RankOK'
    BY <1>1, <1>2, CertsFixed DEF vars, TypeOK, RankOK
  <1>4. Due(now) \in SUBSET LeaseIds /\ Due(now) \subseteq DOMAIN certs
    BY <1>2, DueIds
  <1>5. /\ Sorted(Due(now)) \in Seq(Due(now)) /\ Elements(Sorted(Due(now))) = Due(now)
        /\ Distinct(Sorted(Due(now)))
    BY <1>2, <1>4, SortedFacts
  <1>6. Sorted(Due(now)) \in Seq(LeaseIds)
    BY <1>4, <1>5
  <1>7. /\ job' \in Jobs /\ job'.op = "refresh" /\ job'.due = Sorted(Due(now))
        /\ job'.at = "due" /\ job'.todo = <<>> /\ job'.records = records /\ job'.log = log
    BY <1>1, <1>2, <1>6, TermsAssumption, NoWalkType DEF Job, Jobs, TypeOK
  <1>8. JobShape'
    BY <1>1, <1>4, <1>5, <1>7, CertsFixed DEF JobShape
  <1> QED
    BY <1>3, <1>7, <1>8 DEF ShapeInv

LEMMA StartRenewShape ==
    ASSUME ShapeInv, NEW old \in DOMAIN certs, NEW expected, NEW terms \in Offers,
           NEW id \in NewLeaseIds, NEW now, StartRenew(old, expected, terms, id, now)
    PROVE  /\ ShapeInv'
           /\ job'.op = "renew" /\ job'.lease = old /\ job'.id = id /\ job'.terms = terms
           /\ job'.due = <<>> /\ job'.walk = Walk(old) /\ job'.at = "walk" /\ job'.todo = <<>>
           /\ job'.records = records /\ job'.log = log
           /\ records'[old] = Retired(records[old], id)
           /\ \A l \in DOMAIN certs \ {old} : records'[l] = records[l]
  <1>1. /\ job' = Job("renew", old, id, terms, <<>>, Walk(old), "walk")
        /\ records' = [records EXCEPT ![old] = Retired(@, id)]
        /\ certs' = certs /\ identities' = identities /\ rootLease' = rootLease /\ log' = log
        /\ clock' = clock /\ rank' = rank /\ MayRenew(old, expected, terms, now)
    BY DEF StartRenew
  <1>2. /\ TypeOK /\ IssuedInOrder /\ RankOK /\ old \in LeaseIds /\ id \in LeaseIds
        /\ terms \in Terms
    BY TermsAssumption DEF ShapeInv, TypeOK, NewLeaseIds, Unused
  <1>3. Retired(records[old], id) \in Records
    BY <1>2 DEF TypeOK, Retired, Records, LeaseStates
  <1>4. /\ records' \in [DOMAIN certs -> Records]
        /\ records'[old] = Retired(records[old], id)
        /\ \A l \in DOMAIN certs \ {old} : records'[l] = records[l]
    BY <1>1, <1>2, <1>3 DEF TypeOK
  <1>5. TypeOK' /\ IssuedInOrder' /\ RankOK'
    BY <1>1, <1>2, <1>4, CertsFixed DEF TypeOK, RankOK
  <1>6. /\ Walk(old) \in Walks /\ WalkOK(Walk(old)) /\ Walk(old).pending # <<>>
        /\ Walk(old).root = old
    BY <1>2, NewWalk
  <1>7. <<>> \in Seq(LeaseIds)
    OBVIOUS
  <1>8. /\ job' \in Jobs /\ job'.op = "renew" /\ job'.lease = old /\ job'.id = id
        /\ job'.terms = terms /\ job'.due = <<>> /\ job'.walk = Walk(old)
        /\ job'.at = "walk" /\ job'.todo = <<>> /\ job'.records = records /\ job'.log = log
    BY <1>1, <1>2, <1>6, <1>7 DEF Job, Jobs, TypeOK
  <1>9. /\ certs[old].agent \in DOMAIN identities
        /\ certs[old].parentAgent # NoAgent => certs[old].parentAgent \in DOMAIN identities
    BY <1>1, ValidChainIdentities DEF MayRenew
  <1>10. RenewalOK'
    BY <1>1, <1>8, <1>9, CertsFixed DEF RenewalOK
  <1>11. JobShape'
    BY <1>1, <1>6, <1>8, <1>10, CertsFixed, NothingDue DEF JobShape
  <1> QED
    BY <1>4, <1>5, <1>8, <1>11 DEF ShapeInv

LEMMA RenewalKept ==
    ASSUME RenewalOK, UNCHANGED <<certs, identities>>, job'.id = job.id,
           job'.terms = job.terms, job'.lease = job.lease
    PROVE  RenewalOK'
  BY CertsFixed DEF RenewalOK

LEMMA WalkOnShape ==
    ASSUME ShapeInv, WalkOn
    PROVE  /\ ShapeInv' /\ JobShape
           /\ job.walk \in Walks /\ WalkOK(job.walk) /\ job.walk.pending # <<>>
           /\ job'.walk = Visit(job.walk) /\ job'.due = job.due
           /\ job'.op = job.op /\ job'.lease = job.lease /\ job'.id = job.id
           /\ job'.terms = job.terms /\ job'.records = job.records /\ job'.log = job.log
           /\ \/ /\ job'.at = "walk" /\ job'.todo = <<>>
              \/ /\ job'.at = "revoke" /\ Visit(job.walk).pending = <<>>
                 /\ job'.todo = IF job.op = "revoke" THEN Visit(job.walk).found
                                ELSE Tail(Visit(job.walk).found)
                 /\ Elements(job'.todo) = IF job.op = "revoke"
                                          THEN DescendantsIncluding(job.walk.root)
                                          ELSE DescendantsIncluding(job.walk.root)
                                                 \ {job.walk.root}
  <1> DEFINE walk == Visit(job.walk)
             r == job.walk.root
             todo == IF job.op = "revoke" THEN walk.found ELSE Tail(walk.found)
  <1>1. /\ Locked /\ job.at = "walk" /\ certs' = certs /\ identities' = identities
        /\ rank' = rank /\ UNCHANGED vars
    BY DEF WalkOn, vars
  <1>2. TypeOK /\ IssuedInOrder /\ RankOK /\ JobShape
    BY <1>1 DEF ShapeInv
  <1>3. TypeOK' /\ IssuedInOrder' /\ RankOK'
    BY <1>1, <1>2, CertsFixed DEF vars, TypeOK, RankOK
  <1>4. /\ job \in Jobs /\ WalkOK(job.walk) /\ job.walk.pending # <<>> /\ job.todo = <<>>
        /\ Distinct(job.due) /\ Elements(job.due) \subseteq DOMAIN certs
        /\ job.op # "refresh" => /\ job.due = <<>> /\ job.lease \in DOMAIN certs
                                 /\ job.walk.root = job.lease
        /\ job.op = "renew" => RenewalOK
    BY <1>1, <1>2 DEF JobShape
  <1>5. job.walk \in Walks /\ job.due \in Seq(LeaseIds) /\ <<>> \in Seq(LeaseIds)
    BY <1>4 DEF Jobs
  <1>6. /\ walk \in Walks /\ WalkOK(walk) /\ walk.root = r /\ walk.found # <<>>
    BY <1>2, <1>4, <1>5, VisitOK
  <1>7. /\ walk.found \in Seq(LeaseIds) /\ Distinct(walk.found) /\ walk.found[1] = r
        /\ r \in DOMAIN certs
    BY <1>6 DEF Walks, WalkOK
  <1>8. job' = IF walk.pending # <<>> THEN [job EXCEPT !.walk = walk]
               ELSE [job EXCEPT !.walk = walk, !.at = "revoke", !.todo = todo]
    BY DEF WalkOn
  <1>9. job = [job EXCEPT !.due = job.due, !.at = job.at, !.todo = job.todo]
    BY <1>4 DEF Jobs
  <1> HIDE DEF walk, todo
  <1>10. CASE walk.pending # <<>>
    <2>1. job' = [job EXCEPT !.due = job.due, !.walk = walk, !.at = "walk", !.todo = <<>>]
      BY <1>1, <1>4, <1>8, <1>10 DEF Jobs
    <2>2. /\ job' \in Jobs /\ job'.due = job.due /\ job'.walk = walk /\ job'.at = "walk"
          /\ job'.todo = <<>> /\ job'.op = job.op /\ job'.lease = job.lease /\ job'.id = job.id
          /\ job'.terms = job.terms /\ job'.records = job.records /\ job'.log = job.log
      BY <1>4, <1>5, <1>6, <2>1 DEF Jobs
    <2>3. job.op = "renew" => RenewalOK'
      BY <1>1, <1>4, <2>2, RenewalKept
    <2>4. JobShape'
      BY <1>1, <1>4, <1>6, <1>10, <2>2, <2>3, CertsFixed DEF JobShape
    <2> QED BY <1>2, <1>3, <1>4, <1>5, <2>2, <2>4 DEF ShapeInv, walk
  <1>11. CASE walk.pending = <<>>
    <2>1. Elements(walk.found) = DescendantsIncluding(r)
      BY <1>2, <1>6, <1>11, WalkDone
    <2>2. /\ Tail(walk.found) \in Seq(LeaseIds) /\ Distinct(Tail(walk.found))
          /\ Elements(walk.found) = {r} \cup Elements(Tail(walk.found))
          /\ r \notin Elements(Tail(walk.found))
      BY <1>6, <1>7, TailElements
    <2>3. /\ todo \in Seq(LeaseIds) /\ Distinct(todo)
          /\ Elements(todo) = IF job.op = "revoke" THEN DescendantsIncluding(r)
                              ELSE DescendantsIncluding(r) \ {r}
          /\ r \in Elements(todo) => job.op = "revoke" /\ todo[1] = r
      BY <1>7, <2>1, <2>2 DEF todo
    <2>4. job' = [job EXCEPT !.due = job.due, !.walk = walk, !.at = "revoke", !.todo = todo]
      BY <1>4, <1>8, <1>11 DEF Jobs
    <2>5. /\ job' \in Jobs /\ job'.due = job.due /\ job'.walk = walk /\ job'.at = "revoke"
          /\ job'.todo = todo /\ job'.op = job.op /\ job'.lease = job.lease /\ job'.id = job.id
          /\ job'.terms = job.terms /\ job'.records = job.records /\ job'.log = job.log
      BY <1>4, <1>5, <1>6, <2>3, <2>4 DEF Jobs
    <2>6. job.op = "renew" => RenewalOK'
      BY <1>1, <1>4, <2>5, RenewalKept
    <2>7. TodoOK'
      BY <1>1, <1>6, <2>3, <2>5, CertsFixed DEF TodoOK
    <2>8. JobShape'
      BY <1>1, <1>4, <1>6, <1>7, <2>5, <2>6, <2>7, CertsFixed DEF JobShape
    <2> QED BY <1>2, <1>3, <1>4, <1>5, <1>11, <2>3, <2>5, <2>8 DEF ShapeInv, walk, todo
  <1> QED
    BY <1>10, <1>11

(* An event names a lease or none. *)
LEMMA EventType ==
    ASSUME NEW kind \in EventKinds, NEW related \in LeaseIds \cup {NoLease}
    PROVE  Event(kind, related) \in Events
  BY DEF Event, Events

(* What the end of one lease does to the kernel. *)
LEMMA OneEnds ==
    ASSUME TypeOK, NEW l \in DOMAIN certs, NEW s \in LeaseStates, NEW e \in Events,
           records' = [records EXCEPT ![l] = Moved(@, s)], Push(l, e),
           UNCHANGED <<certs, identities, rootLease, clock>>
    PROVE  /\ TypeOK'
           /\ records'[l] = Moved(records[l], s) /\ log'[l] = Append(log[l], e)
           /\ \A m \in DOMAIN certs \ {l} : records'[m] = records[m] /\ log'[m] = log[m]
           /\ events' = Append(events, Entry(l, e))
  <1>1. Moved(records[l], s) \in Records
    BY MovedType DEF TypeOK
  <1>2. Append(log[l], e) \in Seq(Events)
    BY DEF TypeOK
  <1>3. log' = [log EXCEPT ![l] = Append(log[l], e)] /\ events' = Append(events, Entry(l, e))
    BY DEF Push
  <1>4. /\ records' \in [DOMAIN certs -> Records] /\ records'[l] = Moved(records[l], s)
        /\ \A m \in DOMAIN certs \ {l} : records'[m] = records[m]
    BY <1>1 DEF TypeOK
  <1>5. /\ log' \in [DOMAIN certs -> Seq(Events)] /\ log'[l] = Append(log[l], e)
        /\ \A m \in DOMAIN certs \ {l} : log'[m] = log[m]
    BY <1>2, <1>3 DEF TypeOK
  <1> QED
    BY <1>3, <1>4, <1>5 DEF TypeOK

LEMMA RevokeOnShape ==
    ASSUME ShapeInv, RevokeOn
    PROVE  LET l == Head(job.todo) IN
           /\ ShapeInv' /\ JobShape /\ Locked /\ job.at = "revoke" /\ job.todo # <<>>
           /\ certs' = certs /\ rank' = rank /\ clock' = clock /\ identities' = identities
           /\ l \in DOMAIN certs /\ l = job.todo[1]
           /\ Elements(job.todo) = {l} \cup Elements(job'.todo) /\ l \notin Elements(job'.todo)
           /\ job'.todo = Tail(job.todo) /\ Len(job'.todo) = Len(job.todo) - 1
           /\ Len(job.todo) \in Nat
           /\ job'.at = "revoke" /\ job'.walk = job.walk /\ job'.due = job.due
           /\ job'.op = job.op /\ job'.lease = job.lease /\ job'.id = job.id
           /\ job'.terms = job.terms /\ job'.records = job.records /\ job'.log = job.log
           /\ \A m \in DOMAIN certs \ {l} : records'[m] = records[m] /\ log'[m] = log[m]
           /\ \/ /\ Live(l)
                 /\ records'[l] = Moved(records[l], "Revoked")
                 /\ log'[l] = Append(log[l], Event("LeaseRevoked", CauseOf(l)))
                 /\ events' = Append(events, Entry(l, Event("LeaseRevoked", CauseOf(l))))
              \/ /\ ~Live(l)
                 /\ records'[l] = records[l] /\ log'[l] = log[l] /\ events' = events
  <1> DEFINE l == Head(job.todo)
             r == job.walk.root
  <1>1. /\ Locked /\ job.at = "revoke" /\ job.todo # <<>>
        /\ job' = [job EXCEPT !.todo = Tail(@)]
        /\ certs' = certs /\ identities' = identities /\ rootLease' = rootLease
        /\ clock' = clock /\ rank' = rank
    BY DEF RevokeOn
  <1>2. TypeOK /\ IssuedInOrder /\ RankOK /\ JobShape
    BY <1>1 DEF ShapeInv
  <1>3. /\ job \in Jobs /\ r \in DOMAIN certs /\ TodoOK
        /\ Distinct(job.due) /\ Elements(job.due) \subseteq DOMAIN certs
        /\ job.op # "refresh" => /\ job.due = <<>> /\ job.lease \in DOMAIN certs
                                 /\ job.walk.root = job.lease
        /\ job.op = "renew" => RenewalOK
    BY <1>1, <1>2 DEF JobShape
  <1>4. job.todo \in Seq(LeaseIds)
    BY <1>3 DEF Jobs
  <1>5. /\ Tail(job.todo) \in Seq(LeaseIds) /\ l = job.todo[1]
        /\ Len(Tail(job.todo)) = Len(job.todo) - 1 /\ Len(job.todo) \in Nat
        /\ Elements(job.todo) = {l} \cup Elements(Tail(job.todo))
        /\ Distinct(Tail(job.todo)) /\ l \notin Elements(Tail(job.todo))
    BY <1>1, <1>3, <1>4, TailElements DEF TodoOK
  <1>6. l \in DescendantsIncluding(r) /\ l \in DOMAIN certs
    BY <1>3, <1>5 DEF TodoOK, DescendantsIncluding
  <1>7. /\ job' \in Jobs /\ job'.todo = Tail(job.todo)
        /\ job'.at = "revoke" /\ job'.walk = job.walk /\ job'.due = job.due
        /\ job'.op = job.op /\ job'.lease = job.lease /\ job'.id = job.id
        /\ job'.terms = job.terms /\ job'.records = job.records /\ job'.log = job.log
    BY <1>1, <1>3, <1>5 DEF Jobs
  <1>8. TodoOK'
    <2>1. /\ Elements(job.todo) \subseteq DescendantsIncluding(r)
          /\ r \in Elements(job.todo) => job.todo[1] = r
      BY <1>3 DEF TodoOK
    <2>2. r \notin Elements(Tail(job.todo))
      BY <1>5, <2>1
    <2> QED BY <1>1, <1>5, <1>7, <2>1, <2>2, CertsFixed DEF TodoOK
  <1>9. job.op = "renew" => RenewalOK'
    BY <1>1, <1>3, <1>7, RenewalKept
  <1>10. JobShape'
    BY <1>1, <1>3, <1>7, <1>8, <1>9, CertsFixed DEF JobShape
  <1> HIDE DEF l
  <1>11. /\ TypeOK'
         /\ \A m \in DOMAIN certs \ {l} : records'[m] = records[m] /\ log'[m] = log[m]
         /\ \/ /\ Live(l)
               /\ records'[l] = Moved(records[l], "Revoked")
               /\ log'[l] = Append(log[l], Event("LeaseRevoked", CauseOf(l)))
               /\ events' = Append(events, Entry(l, Event("LeaseRevoked", CauseOf(l))))
            \/ /\ ~Live(l)
               /\ records'[l] = records[l] /\ log'[l] = log[l] /\ events' = events
    <2>1. CASE Live(l)
      <3>1. /\ records' = [records EXCEPT ![l] = Moved(@, "Revoked")]
            /\ Push(l, Event("LeaseRevoked", CauseOf(l)))
        BY <2>1 DEF RevokeOn, l
      <3>2. Event("LeaseRevoked", CauseOf(l)) \in Events
        BY <1>2, <1>3, EventType DEF CauseOf, EventKinds, TypeOK
      <3> QED BY <1>1, <1>2, <1>6, <2>1, <3>1, <3>2, OneEnds DEF LeaseStates
    <2>2. CASE ~Live(l)
      <3>1. records' = records /\ log' = log /\ events' = events
        BY <2>2 DEF RevokeOn, l
      <3> QED BY <1>1, <1>2, <2>2, <3>1 DEF TypeOK
    <2> QED BY <2>1, <2>2
  <1>12. ShapeInv'
    BY <1>1, <1>2, <1>10, <1>11, CertsFixed DEF ShapeInv, RankOK
  <1> QED
    BY <1>1, <1>2, <1>5, <1>6, <1>7, <1>11, <1>12 DEF l

LEMMA DueOnShape ==
    ASSUME ShapeInv, DueOn
    PROVE  LET l == Head(job.due) IN
           /\ ShapeInv' /\ JobShape /\ Locked /\ job.op = "refresh" /\ job.due # <<>>
           /\ job.at # "walk" /\ job.todo = <<>>
           /\ certs' = certs /\ rank' = rank /\ clock' = clock /\ identities' = identities
           /\ l \in DOMAIN certs /\ l = job.due[1]
           /\ Elements(job.due) = {l} \cup Elements(job'.due) /\ l \notin Elements(job'.due)
           /\ job'.due = Tail(job.due) /\ Len(job'.due) = Len(job.due) - 1
           /\ Len(job.due) \in Nat
           /\ job'.todo = <<>> /\ job'.op = job.op
           /\ job'.records = job.records /\ job'.log = job.log
           /\ \A m \in DOMAIN certs \ {l} : records'[m] = records[m] /\ log'[m] = log[m]
           /\ \/ /\ Live(l) /\ job'.at = "walk" /\ job'.walk = Walk(l)
                 /\ records'[l] = Moved(records[l], "Expired")
                 /\ log'[l] = Append(log[l], Event("LeaseExpired", NoLease))
                 /\ events' = Append(events, Entry(l, Event("LeaseExpired", NoLease)))
              \/ /\ ~Live(l) /\ job'.at = "due" /\ job'.walk = job.walk
                 /\ records'[l] = records[l] /\ log'[l] = log[l] /\ events' = events
  <1> DEFINE l == Head(job.due)
  <1>1. /\ Locked /\ job.op = "refresh" /\ job.due # <<>> /\ job.at # "walk" /\ job.todo = <<>>
        /\ certs' = certs /\ identities' = identities /\ rootLease' = rootLease
        /\ clock' = clock /\ rank' = rank
    BY DEF DueOn
  <1>2. TypeOK /\ IssuedInOrder /\ RankOK /\ JobShape
    BY <1>1 DEF ShapeInv
  <1>3. job \in Jobs /\ Distinct(job.due) /\ Elements(job.due) \subseteq DOMAIN certs
    BY <1>1, <1>2 DEF JobShape
  <1>4. job.due \in Seq(LeaseIds) /\ <<>> \in Seq(LeaseIds) /\ job.walk \in Walks
    BY <1>3 DEF Jobs
  <1>5. /\ Tail(job.due) \in Seq(LeaseIds) /\ l = job.due[1]
        /\ Len(Tail(job.due)) = Len(job.due) - 1 /\ Len(job.due) \in Nat
        /\ Elements(job.due) = {l} \cup Elements(Tail(job.due))
        /\ Distinct(Tail(job.due)) /\ l \notin Elements(Tail(job.due))
    BY <1>1, <1>3, <1>4, TailElements
  <1>6. l \in DOMAIN certs
    BY <1>3, <1>5
  <1> HIDE DEF l
  <1>7. CASE Live(l)
    <2>1. /\ records' = [records EXCEPT ![l] = Moved(@, "Expired")]
          /\ Push(l, Event("LeaseExpired", NoLease))
          /\ job' = [job EXCEPT !.due = Tail(@), !.walk = Walk(l), !.at = "walk"]
      BY <1>7 DEF DueOn, l, StillLive
    <2>2. Event("LeaseExpired", NoLease) \in Events
      BY EventType DEF EventKinds
    <2>3. /\ TypeOK'
          /\ records'[l] = Moved(records[l], "Expired")
          /\ log'[l] = Append(log[l], Event("LeaseExpired", NoLease))
          /\ \A m \in DOMAIN certs \ {l} : records'[m] = records[m] /\ log'[m] = log[m]
          /\ events' = Append(events, Entry(l, Event("LeaseExpired", NoLease)))
      BY <1>1, <1>2, <1>6, <2>1, <2>2, OneEnds DEF LeaseStates
    <2>4. /\ Walk(l) \in Walks /\ WalkOK(Walk(l)) /\ Walk(l).pending # <<>>
      BY <1>2, <1>6, NewWalk
    <2>5. /\ job' \in Jobs /\ job'.due = Tail(job.due) /\ job'.walk = Walk(l)
          /\ job'.at = "walk" /\ job'.todo = <<>> /\ job'.op = "refresh"
          /\ job'.records = job.records /\ job'.log = job.log
      BY <1>1, <1>3, <1>5, <2>1, <2>4 DEF Jobs
    <2>6. JobShape'
      BY <1>1, <1>3, <1>5, <2>4, <2>5, CertsFixed DEF JobShape
    <2>7. ShapeInv'
      BY <1>1, <1>2, <2>3, <2>6, CertsFixed DEF ShapeInv, RankOK
    <2> QED
      BY <1>1, <1>2, <1>5, <1>6, <1>7, <2>3, <2>5, <2>7 DEF l
  <1>8. CASE ~Live(l)
    <2>1. /\ records' = records /\ log' = log /\ events' = events
          /\ job' = [job EXCEPT !.due = Tail(@), !.at = "due"]
      BY <1>8 DEF DueOn, l, StillLive
    <2>2. /\ job' \in Jobs /\ job'.due = Tail(job.due) /\ job'.walk = job.walk
          /\ job'.at = "due" /\ job'.todo = <<>> /\ job'.op = "refresh"
          /\ job'.records = job.records /\ job'.log = job.log
      BY <1>1, <1>3, <1>5, <2>1 DEF Jobs
    <2>3. JobShape'
      BY <1>1, <1>3, <1>5, <2>2, CertsFixed DEF JobShape
    <2>4. ShapeInv'
      BY <1>1, <1>2, <2>1, <2>3, CertsFixed DEF ShapeInv, RankOK, TypeOK
    <2> QED
      BY <1>1, <1>2, <1>5, <1>6, <1>8, <2>1, <2>2, <2>4 DEF l
  <1> QED
    BY <1>7, <1>8

LEMMA ReturnShape ==
    ASSUME ShapeInv, Return
    PROVE  ShapeInv' /\ JobShape /\ job' = Free /\ UNCHANGED <<vars, rank, events>>
  <1>1. Locked /\ job' = Free /\ UNCHANGED <<vars, rank, events>>
    BY DEF Return
  <1>2. TypeOK /\ IssuedInOrder /\ RankOK /\ JobShape
    BY <1>1 DEF ShapeInv
  <1>3. TypeOK' /\ IssuedInOrder'
    BY <1>1, <1>2, CertsFixed DEF vars, TypeOK
  <1> QED
    BY <1>1, <1>2, <1>3, FreeShape

\* The certificate renew signs.
LEMMA FinishRenewShape ==
    ASSUME ShapeInv, FinishRenew
    PROVE  /\ ShapeInv' /\ JobShape /\ Locked /\ job' = Free
           /\ job.op = "renew" /\ job.at = "revoke" /\ job.todo = <<>>
           /\ Issues(job.id, RenewedCertificate(job.lease, job.terms))
           /\ certs' = Put(certs, job.id, RenewedCertificate(job.lease, job.terms))
           /\ records' = Put(records, job.id, ActiveRecord)
           /\ log' = Put(log, job.id, <<Event("LeaseRenewed", job.lease)>>)
           /\ rootLease' = RootAfterRenewal(job.lease, job.id)
           /\ events' = Append(events, Entry(job.id, Event("LeaseRenewed", job.lease)))
           /\ identities' = identities /\ clock' = clock /\ rank' = rank
           /\ TypeOK' /\ IssuedInOrder'
  <1> DEFINE old  == job.lease
             id   == job.id
             cert == certs[old]
             issuer == IF cert.parentAgent = NoAgent THEN cert.agent ELSE cert.parentAgent
             new == RenewedCertificate(old, job.terms)
  <1>1. /\ Locked /\ job.op = "renew" /\ job.at = "revoke" /\ job.todo = <<>>
        /\ certs' = Put(certs, id, new)
        /\ records' = Put(records, id, ActiveRecord)
        /\ rootLease' = RootAfterRenewal(old, id)
        /\ log' = Put(log, id, <<Event("LeaseRenewed", old)>>)
        /\ events' = Append(events, Entry(id, Event("LeaseRenewed", old)))
        /\ job' = Free /\ identities' = identities /\ clock' = clock /\ rank' = rank
    BY DEF FinishRenew, RenewedCertificate
  <1>2. TypeOK /\ IssuedInOrder /\ RankOK /\ JobShape
    BY <1>1 DEF ShapeInv
  <1>3. RenewalOK /\ old \in DOMAIN certs
    BY <1>1, <1>2 DEF JobShape
  <1>4. /\ job.terms \in Terms /\ id \in LeaseIds /\ id \notin DOMAIN certs /\ id \in NewLeaseIds
        /\ old \in LeaseIds /\ cert \in Certificates /\ identities[issuer].key \in Keys
    BY <1>2, <1>3, TermsAssumption DEF RenewalOK, NewLeaseIds, Unused, TypeOK, Identities
  <1>5. new = [cert EXCEPT !.renewedFrom = old, !.terms = job.terms,
                           !.issuerKey = identities[issuer].key]
    BY DEF RenewedCertificate
  <1>6. new \in Certificates /\ new.parent = cert.parent
    BY <1>4, <1>5 DEF Certificates
  <1>7. ActiveRecord \in Records
    BY DEF ActiveRecord, Records, LeaseStates
  <1>8. <<Event("LeaseRenewed", old)>> \in Seq(Events)
    BY <1>4 DEF Event, Events, EventKinds
  <1> HIDE DEF new
  <1>9. DOMAIN certs' = DOMAIN certs \cup {id} /\ certs' \in [DOMAIN certs \cup {id} -> Certificates]
    BY <1>1, <1>2, <1>6 DEF Put, TypeOK
  <1>10. records' \in [DOMAIN certs \cup {id} -> Records]
    BY <1>1, <1>2, <1>7 DEF Put, TypeOK
  <1>11. log' \in [DOMAIN certs \cup {id} -> Seq(Events)]
    BY <1>1, <1>2, <1>8 DEF Put, TypeOK
  <1>12. rootLease' \in DOMAIN certs \cup {id}
    BY <1>1, <1>2 DEF RootAfterRenewal, TypeOK
  <1>13. TypeOK'
    BY <1>1, <1>2, <1>4, <1>9, <1>10, <1>11, <1>12 DEF TypeOK
  <1>14. IssuedInOrder'
    <2>1. cert.parent \in DOMAIN certs \cup {NoLease}
      BY <1>2, <1>3 DEF IssuedInOrder
    <2> QED BY <1>1, <1>2, <1>4, <1>6, <2>1, OrderExtended
  <1>15. Issues(id, new)
    BY <1>1, <1>2, <1>4 DEF Issues, Put, TypeOK
  <1>16. ShapeInv'
    BY <1>1, <1>2, <1>13, <1>14, FreeShape
  <1> QED
    BY <1>1, <1>2, <1>13, <1>14, <1>15, <1>16 DEF new

LEMMA AtomicShape ==
    ASSUME ShapeInv,
           Atomic(DelegateSome) \/ Atomic(PauseSome) \/ Atomic(ResumeSome)
    PROVE  ShapeInv' /\ ~Locked /\ job' = Free /\ rank' = rank /\ clock' = clock
  <1>1. /\ ~Locked /\ job = Free /\ job' = Free /\ rank' = rank /\ clock' = clock
        /\ DelegateSome \/ PauseSome \/ ResumeSome
    BY DEF Atomic, Locked
  <1>2. TypeOK /\ IssuedInOrder /\ RankOK
    BY DEF ShapeInv
  <1>3. CASE DelegateSome
    <2>1. PICK parent \in DOMAIN certs, child \in Agents, key \in Keys, terms \in Offers,
               id \in NewLeaseIds, now \in Samples :
                  Delegate(parent, records[parent].generation, child, key, terms, id, now)
      BY <1>3 DEF DelegateSome
    <2>2. terms \in Terms /\ id \in LeaseIds
      BY TermsAssumption DEF NewLeaseIds, Unused
    <2>3. TypeOK'
      BY <1>1, <1>2, <2>1, <2>2, DelegateType
    <2> DEFINE cert == DelegatedCertificate(parent, child, terms)
    <2>4. certs' = Put(certs, id, cert) /\ cert.parent = parent
      BY <2>1 DEF Delegate, DelegatedCertificate
    <2> HIDE DEF cert
    <2>5. IssuedInOrder'
      BY <1>2, <2>4, OrderExtended
    <2> QED BY <1>1, <1>2, <2>3, <2>5, FreeShape
  <1>4. CASE PauseSome \/ ResumeSome
    <2>1. TypeOK'
      BY <1>1, <1>2, <1>4, TransitionType
         DEF PauseSome, ResumeSome, Bounded, Pause, Resume, LeaseStates, EventKinds
    <2>2. certs' = certs
      BY <1>4 DEF PauseSome, ResumeSome, Pause, Resume, Transition
    <2> QED BY <1>1, <1>2, <2>1, <2>2, CertsFixed, FreeShape
  <1> QED
    BY <1>1, <1>3, <1>4, Zenon

LEMMA IdleShape ==
    ASSUME ShapeInv, UNCHANGED <<kernelVars, rank, job>>, clock' \in 0 .. MaxTime
    PROVE  ShapeInv'
  <1>1. /\ certs' = certs /\ records' = records /\ identities' = identities
        /\ rootLease' = rootLease /\ log' = log /\ rank' = rank /\ job' = job
    BY DEF kernelVars
  <1>2. TypeOK' /\ IssuedInOrder' /\ RankOK'
    BY <1>1, CertsFixed DEF ShapeInv, TypeOK, RankOK
  <1>3. ASSUME Locked PROVE JobShape'
    <2>1. JobShape
      BY <1>3 DEF ShapeInv
    <2>2. job.op = "renew" => RenewalOK'
      BY <1>1, <2>1, RenewalKept DEF JobShape
    <2>3. TodoOK' <=> TodoOK
      BY <1>1, CertsFixed DEF TodoOK
    <2> QED BY <1>1, <2>1, <2>2, <2>3, CertsFixed DEF JobShape
  <1> QED
    BY <1>1, <1>2, <1>3 DEF ShapeInv, Locked

LEMMA InitShape == LoopInit => ShapeInv
  <1> SUFFICES ASSUME LoopInit PROVE ShapeInv
    OBVIOUS
  <1>1. Init /\ job = Free
    BY DEF LoopInit
  <1>2. PICK id \in LeaseIds : (\A m \in LeaseIds : id <= m) /\ Bootstrap(id)
    BY <1>1 DEF Init
  <1>3. IssuedInOrder
    BY <1>2, IdAssumption DEF IssuedInOrder, Unused, Bootstrap, NoLease
  <1>4. RankOK
    <2>1. Cardinality(LeaseIds) \in Nat
      BY FiniteIds, FS_CardinalityType
    <2> QED BY <2>1 DEF LoopInit, RankOK
  <1> QED
    BY <1>1, <1>3, <1>4, InitType DEF ShapeInv, Locked

LEMMA ShapeStep == ShapeInv /\ [LoopNext]_lvars => ShapeInv'
  <1> SUFFICES ASSUME ShapeInv, [LoopNext]_lvars PROVE ShapeInv'
    OBVIOUS
  <1>1. CASE StartSome
    BY <1>1, StartRevokeShape, StartRefreshShape, StartRenewShape DEF StartSome
  <1>2. CASE LoopStep
    BY <1>2, WalkOnShape, RevokeOnShape, DueOnShape, ReturnShape, FinishRenewShape DEF LoopStep
  <1>3. CASE Atomic(DelegateSome) \/ Atomic(PauseSome) \/ Atomic(ResumeSome)
    BY <1>3, AtomicShape
  <1>4. CASE Tick /\ UNCHANGED <<rank, events, job>>
    <2>1. clock' \in 0 .. MaxTime
      BY <1>4, BoundAssumption DEF Tick, ShapeInv, TypeOK
    <2> QED BY <1>4, <2>1, IdleShape DEF Tick
  <1>5. CASE UNCHANGED lvars
    BY <1>5, IdleShape DEF lvars, vars, kernelVars, ShapeInv, TypeOK
  <1> QED
    BY <1>1, <1>2, <1>3, <1>4, <1>5 DEF LoopNext

LEMMA ShapeInvariant == LoopSpec => []ShapeInv
  BY InitShape, ShapeStep, PTL DEF LoopSpec
-----------------------------------------------------------------------------
(***************************************************************************)
(* The loops end.                                                          *)
(***************************************************************************)

RemainingFacts ==
    LET n == Cardinality(DOMAIN certs) IN
    /\ n \in Nat
    /\ ~Locked => Remaining = 0
    /\ Locked =>
          /\ Len(job.due) \in Nat /\ Len(job.due) * (2 * n + 2) \in Nat
          /\ Len(job.todo) \in Nat /\ Len(job.walk.found) \in Nat
          /\ IF job.at = "walk" THEN Len(job.walk.found) <= n ELSE Len(job.todo) <= n
          /\ Remaining = 1 + Len(job.due) * (2 * n + 2)
                + (IF job.at = "walk" THEN 2 * n + 1 - Len(job.walk.found) ELSE Len(job.todo))
          /\ Remaining \in Nat \ {0}

(* A list of leases without repetitions is no longer than there are leases. *)
LEMMA LeasesLength ==
    ASSUME TypeOK, NEW s \in Seq(LeaseIds), Distinct(s), Elements(s) \subseteq DOMAIN certs
    PROVE  Len(s) <= Cardinality(DOMAIN certs)
  <1>1. IsFiniteSet(DOMAIN certs)
    BY FiniteIds, FS_Subset DEF TypeOK
  <1>2. s \in Seq(DOMAIN certs)
    BY ListOf
  <1> QED
    BY <1>1, <1>2, DistinctLength

(* What is left to do is a natural number: a walk finds no lease twice. *)
LEMMA RemainingIs == ShapeInv => RemainingFacts
  <1> SUFFICES ASSUME ShapeInv PROVE RemainingFacts
    OBVIOUS
  <1> DEFINE n == Cardinality(DOMAIN certs)
             turns == Len(job.due) * (2 * n + 2)
             rest == IF job.at = "walk" THEN 2 * n + 1 - Len(job.walk.found) ELSE Len(job.todo)
  <1>1. IsFiniteSet(DOMAIN certs) /\ n \in Nat
    BY FiniteIds, FS_Subset, FS_CardinalityType DEF ShapeInv, TypeOK
  <1>2. ~Locked => Remaining = 0
    BY DEF Remaining
  <1>3. ASSUME Locked
        PROVE  /\ Len(job.due) \in Nat /\ turns \in Nat
               /\ Len(job.todo) \in Nat /\ Len(job.walk.found) \in Nat
               /\ IF job.at = "walk" THEN Len(job.walk.found) <= n ELSE Len(job.todo) <= n
               /\ Remaining = 1 + turns + rest
               /\ Remaining \in Nat \ {0}
    <2>1. TypeOK /\ JobShape /\ job \in Jobs
      BY <1>3 DEF ShapeInv, JobShape
    <2>2. /\ job.due \in Seq(LeaseIds) /\ job.todo \in Seq(LeaseIds)
          /\ job.walk.found \in Seq(LeaseIds)
      BY <2>1 DEF Jobs, Walks
    <2>3. Len(job.due) \in Nat /\ Len(job.todo) \in Nat /\ Len(job.walk.found) \in Nat
      BY <2>2
    <2>4. turns \in Nat
      <3>1. \A a, b \in Nat : a * b \in Nat
        OBVIOUS
      <3>2. 2 * n + 2 \in Nat
        BY <1>1
      <3> QED BY <2>3, <3>1, <3>2
    <2>5. ASSUME job.at = "walk" PROVE Len(job.walk.found) <= n
      <3>1. WalkOK(job.walk)
        BY <2>1, <2>5 DEF JobShape
      <3>2. Elements(job.walk.found) \subseteq DOMAIN certs /\ Distinct(job.walk.found)
        BY <3>1 DEF WalkOK, DescendantsIncluding
      <3> QED BY <2>1, <2>2, <3>2, LeasesLength
    <2>6. ASSUME job.at # "walk" PROVE Len(job.todo) <= n
      <3>1. CASE job.at = "revoke"
        <4>1. Elements(job.todo) \subseteq DOMAIN certs /\ Distinct(job.todo)
          BY <2>1, <3>1 DEF JobShape, TodoOK, DescendantsIncluding
        <4> QED BY <2>1, <2>2, <4>1, LeasesLength
      <3>2. CASE job.at = "due"
        <4>1. Len(job.todo) = 0
          BY <2>1, <3>2 DEF JobShape
        <4> QED BY <1>1, <4>1
      <3> QED BY <2>1, <2>6, <3>1, <3>2 DEF Jobs
    <2>7. Remaining = 1 + turns + rest
      BY <1>3 DEF Remaining
    <2>8. rest \in Nat
      BY <1>1, <2>3, <2>5
    <2> HIDE DEF turns, rest
    <2>9. Remaining \in Nat \ {0}
      BY <2>4, <2>7, <2>8
    <2> QED BY <2>3, <2>4, <2>5, <2>6, <2>7, <2>9
  <1> QED
    BY <1>1, <1>2, <1>3 DEF RemainingFacts

LEMMA RemainingNext == ShapeInv' => RemainingFacts'
  BY RemainingIs, PTL

LEMMA Smaller == \A a, b \in Nat : b < a => b \in 0 .. a - 1
  OBVIOUS

(* The sums of Remaining: a turn of the walk, its last turn, a turn of the loop
   that revokes, and a turn of the loop over the due leases. *)
LEMMA TurnOfWalk ==
    ASSUME NEW t \in Nat, NEW n \in Nat, NEW f \in Nat
    PROVE  1 + t + (2 * n + 1 - (f + 1)) < 1 + t + (2 * n + 1 - f)
  OBVIOUS

LEMMA EndOfWalk ==
    ASSUME NEW t \in Nat, NEW n \in Nat, NEW f \in Nat, NEW k \in Nat, f <= n, k <= n
    PROVE  1 + t + k < 1 + t + (2 * n + 1 - f)
  OBVIOUS

LEMMA TurnOfRevoke ==
    ASSUME NEW t \in Nat, NEW k \in Nat
    PROVE  1 + t + (k - 1) < 1 + t + k
  OBVIOUS

LEMMA TurnOfDue ==
    ASSUME NEW t \in Nat, NEW n \in Nat, NEW f \in Nat
    PROVE  /\ 1 + (t - (2 * n + 2)) + (2 * n + 1 - f) < 1 + t
           /\ 1 + (t - (2 * n + 2)) + 0 < 1 + t
  OBVIOUS

LEMMA NearerToTheEnd ==
    ASSUME ShapeInv, ShapeInv', LoopNext, Locked, job' # job
    PROVE  Remaining' \in 0 .. Remaining - 1
  <1> DEFINE n == Cardinality(DOMAIN certs)
             d == Len(job.due)
             turns == d * (2 * n + 2)
  <1>1. /\ n \in Nat /\ d \in Nat /\ turns \in Nat /\ Len(job.todo) \in Nat
        /\ Len(job.walk.found) \in Nat
        /\ job.at = "walk" => Len(job.walk.found) <= n
        /\ Remaining = 1 + turns
              + (IF job.at = "walk" THEN 2 * n + 1 - Len(job.walk.found) ELSE Len(job.todo))
        /\ Remaining \in Nat \ {0}
    BY RemainingIs DEF RemainingFacts
  <1>2. ASSUME NEW later, later = Len(job'.due), certs' = certs, Locked'
        PROVE  /\ Remaining' = 1 + later * (2 * n + 2)
                     + (IF job'.at = "walk" THEN 2 * n + 1 - Len(job'.walk.found)
                        ELSE Len(job'.todo))
               /\ Len(job'.todo) \in Nat /\ Len(job'.walk.found) \in Nat
               /\ job'.at # "walk" => Len(job'.todo) <= n
               /\ Remaining' \in Nat
    BY <1>2, RemainingNext DEF RemainingFacts
  <1>3. CASE WalkOn
    <2>1. /\ job.at = "walk" /\ certs' = certs
      BY <1>3 DEF WalkOn, vars
    <2>2. /\ JobShape /\ job'.walk = Visit(job.walk) /\ job'.due = job.due
          /\ job'.op = job.op
          /\ job'.at \in {"walk", "revoke"}
          /\ job.walk \in Walks /\ WalkOK(job.walk) /\ job.walk.pending # <<>>
      BY <1>3, WalkOnShape
    <2>3. Locked'
      BY <2>2 DEF Locked, Free, JobShape, Jobs
    <2>4. Len(job'.walk.found) = Len(job.walk.found) + 1
      BY <2>2, VisitOK DEF ShapeInv
    <2> HIDE DEF turns, d, n
    <2>5. /\ Remaining' = 1 + turns
                + (IF job'.at = "walk" THEN 2 * n + 1 - Len(job'.walk.found)
                   ELSE Len(job'.todo))
          /\ Len(job'.todo) \in Nat /\ Remaining' \in Nat
          /\ job'.at # "walk" => Len(job'.todo) <= n
      BY <1>2, <2>1, <2>2, <2>3 DEF turns, d
    <2>6. Remaining = 1 + turns + (2 * n + 1 - Len(job.walk.found)) /\ Len(job.walk.found) <= n
      BY <1>1, <2>1
    <2>9. /\ Remaining \in Nat /\ Remaining' \in Nat /\ turns \in Nat /\ n \in Nat
          /\ Len(job.walk.found) \in Nat /\ Len(job'.todo) \in Nat
      BY <1>1, <2>5
    <2>7. CASE job'.at = "walk"
      <3>1. Remaining' = 1 + turns + (2 * n + 1 - (Len(job.walk.found) + 1))
        BY <2>4, <2>5, <2>7
      <3>2. Remaining' < Remaining
        BY <2>6, <2>9, <3>1, TurnOfWalk
      <3> QED BY <2>9, <3>2, Smaller
    <2>8. CASE job'.at # "walk"
      <3>1. Remaining' = 1 + turns + Len(job'.todo) /\ Len(job'.todo) <= n
        BY <2>5, <2>8
      <3>2. Remaining' < Remaining
        BY <2>6, <2>9, <3>1, EndOfWalk
      <3> QED BY <2>9, <3>2, Smaller
    <2> QED BY <2>7, <2>8
  <1>4. CASE RevokeOn
    <2>1. /\ JobShape /\ job.at = "revoke" /\ certs' = certs /\ job'.at = "revoke"
          /\ job'.due = job.due /\ job'.op = job.op /\ Len(job'.todo) = Len(job.todo) - 1
      BY <1>4, RevokeOnShape
    <2>2. Locked'
      BY <2>1 DEF Locked, Free, JobShape, Jobs
    <2> HIDE DEF turns, d, n
    <2>3. /\ Remaining' = 1 + turns + Len(job'.todo)
          /\ Len(job'.todo) \in Nat /\ Remaining' \in Nat
      BY <1>2, <2>1, <2>2 DEF turns, d
    <2>4. Remaining = 1 + turns + Len(job.todo)
      BY <1>1, <2>1
    <2>5. Remaining \in Nat /\ Remaining' \in Nat /\ turns \in Nat /\ Len(job.todo) \in Nat
      BY <1>1, <2>3
    <2>6. Remaining' < Remaining
      BY <2>1, <2>3, <2>4, <2>5, TurnOfRevoke
    <2> QED BY <2>5, <2>6, Smaller
  <1>5. CASE DueOn
    <2>1. /\ JobShape /\ job.at # "walk" /\ job.todo = <<>> /\ certs' = certs
          /\ job'.todo = <<>> /\ job'.op = job.op /\ job.op = "refresh"
          /\ Len(job'.due) = d - 1 /\ job'.at \in {"walk", "due"}
      BY <1>5, DueOnShape
    <2>2. Locked' /\ Len(<<>>) = 0
      BY <2>1 DEF Locked, Free
    <2>3. (d - 1) * (2 * n + 2) = turns - (2 * n + 2)
      BY <1>1
    <2> HIDE DEF turns, d, n
    <2>4. /\ Remaining' = 1 + (d - 1) * (2 * n + 2)
                + (IF job'.at = "walk" THEN 2 * n + 1 - Len(job'.walk.found) ELSE 0)
          /\ Len(job'.walk.found) \in Nat /\ Remaining' \in Nat
      BY <1>2, <2>1, <2>2
    <2>5. Remaining = 1 + turns
      BY <1>1, <2>1, <2>2
    <2>8. /\ Remaining \in Nat /\ Remaining' \in Nat /\ turns \in Nat /\ n \in Nat
          /\ Len(job'.walk.found) \in Nat
      BY <1>1, <2>4
    <2>6. CASE job'.at = "walk"
      <3>1. Remaining' = 1 + (turns - (2 * n + 2)) + (2 * n + 1 - Len(job'.walk.found))
        BY <2>3, <2>4, <2>6
      <3>2. Remaining' < Remaining
        BY <2>5, <2>8, <3>1, TurnOfDue
      <3> QED BY <2>8, <3>2, Smaller
    <2>7. CASE job'.at # "walk"
      <3>1. Remaining' = 1 + (turns - (2 * n + 2)) + 0
        BY <2>3, <2>4, <2>7
      <3>2. Remaining' < Remaining
        BY <2>5, <2>8, <3>1, TurnOfDue
      <3> QED BY <2>8, <3>2, Smaller
    <2> QED BY <2>6, <2>7
  <1>6. CASE Return \/ FinishRenew
    <2>1. ~Locked'
      BY <1>6 DEF Return, FinishRenew, Locked, Free
    <2>2. Remaining' = 0
      BY <2>1, RemainingNext DEF RemainingFacts
    <2> QED BY <1>1, <2>2
  <1>7. LoopStep
    BY DEF LoopNext, StartSome, StartRevoke, StartRefresh, StartRenew, Atomic, Tick
  <1> QED
    BY <1>3, <1>4, <1>5, <1>6, <1>7 DEF LoopStep

(* The write lock is always given back: each turn of each loop of revoke,
   refresh_expirations and renew brings the operation nearer to its end, for
   trees of any shape and size. *)
THEOREM LoopsTerminate == LoopSpec => LoopsEnd
  <1>1. ShapeInv /\ ShapeInv' /\ [LoopNext]_lvars
           => [Locked /\ job' # job => Remaining' \in 0 .. Remaining - 1]_lvars
    BY NearerToTheEnd
  <1> QED
    BY <1>1, ShapeInvariant, PTL DEF LoopSpec, LoopsEnd
-----------------------------------------------------------------------------
(***************************************************************************)
(* The depth of a lease.                                                   *)
(***************************************************************************)
LEMMA FiniteChain ==
    ASSUME TypeOK, NEW l \in DOMAIN certs
    PROVE  IsFiniteSet(Chain(l)) /\ Depth(l) \in Nat
  <1>1. Chain(l) \subseteq LeaseIds
    BY DEF Chain, TypeOK
  <1> QED
    BY <1>1, FiniteIds, FS_Subset, FS_CardinalityType DEF Depth

LEMMA FiniteChainNext ==
    ASSUME TypeOK', NEW l \in DOMAIN certs'
    PROVE  Depth(l)' \in Nat
  <1>1. Chain(l)' \subseteq LeaseIds
    BY DEF Chain, TypeOK
  <1> QED
    BY <1>1, FiniteIds, FS_Subset, FS_CardinalityType DEF Depth

(* A lease is one level below its parent. *)
LEMMA DepthOfChild ==
    ASSUME TypeOK, IssuedInOrder, NEW c \in DOMAIN certs, certs[c].parent \in DOMAIN certs
    PROVE  Depth(c) = Depth(certs[c].parent) + 1
  <1> DEFINE p == certs[c].parent
             S == Chain(p) \cup {c}
  <1>1. Chain(p) \subseteq Chain(c) /\ c \in Chain(c)
    BY ChainOfParent, LeafInChain
  <1>2. S \in SUBSET DOMAIN certs /\ p \in Chain(p)
    BY LeafInChain DEF Chain
  <1>3. ClosedUnderParents(S)
    BY <1>2, ChainClosed DEF ClosedUnderParents
  <1>4. Chain(c) \subseteq S
    BY <1>2, <1>3, ChainLeast
  <1>5. c \notin Chain(p)
    <2>1. c \in Nat /\ p \in Nat /\ p < c
      BY IdAssumption DEF TypeOK, IssuedInOrder
    <2>2. \A m \in Chain(p) : m <= p
      BY ChainIsEarlier
    <2> QED BY <2>1, <2>2
  <1>6. Chain(c) = Chain(p) \cup {c}
    BY <1>1, <1>4
  <1> QED
    BY <1>5, <1>6, FiniteChain, FS_AddElement DEF Depth

(* The chain of a lease is what it was when another one is issued. *)
LEMMA ChainsKept ==
    ASSUME TypeOK, IssuedInOrder, NEW id, NEW cert, Issues(id, cert), TypeOK',
           NEW l \in DOMAIN certs
    PROVE  Chain(l)' = Chain(l)
  <1>1. Chain(l)' \subseteq Chain(l)
    BY ChainsKeep
  <1>2. ASSUME NEW m \in Chain(l), NEW S \in SUBSET DOMAIN certs', l \in S,
               ClosedUnderParents(S)'
        PROVE  m \in S
    <2> DEFINE T == S \cap DOMAIN certs
    <2>1. \A k \in DOMAIN certs : certs'[k] = certs[k] /\ k \in DOMAIN certs'
      BY DEF Issues
    <2>2. ClosedUnderParents(T)
      BY <1>2, <2>1 DEF ClosedUnderParents
    <2>3. Chain(l) \subseteq T
      BY <1>2, <2>2, ChainLeast
    <2> QED BY <2>3
  <1>3. Chain(l) \subseteq DOMAIN certs'
    BY DEF Chain, Issues
  <1>4. Chain(l) \subseteq Chain(l)'
    BY <1>2, <1>3 DEF Chain
  <1> QED
    BY <1>1, <1>4

(***************************************************************************)
(* The order of the walk.                                                  *)
(***************************************************************************)
LEMMA OrderOfTail ==
    ASSUME NEW S, NEW s \in Seq(S), s # <<>>, InOrder(s)
    PROVE  InOrder(Tail(s)) /\ \A m \in Elements(Tail(s)) : Before(Head(s), m)
  <1> DEFINE t == Tail(s)
  <1>1. /\ Head(s) = s[1] /\ Len(s) \in Nat \ {0} /\ DOMAIN s = 1 .. Len(s)
        /\ DOMAIN t = 1 .. Len(s) - 1
        /\ \A i \in DOMAIN t : i + 1 \in DOMAIN s /\ t[i] = s[i + 1]
    OBVIOUS
  <1> HIDE DEF t
  <1>2. ASSUME NEW i \in DOMAIN t, NEW j \in DOMAIN t, i < j PROVE Before(t[i], t[j])
    <2>1. i + 1 < j + 1
      BY <1>1, <1>2
    <2> QED BY <1>1, <2>1 DEF InOrder
  <1>3. ASSUME NEW i \in DOMAIN t PROVE Before(s[1], t[i])
    <2>1. 1 < i + 1 /\ 1 \in DOMAIN s
      BY <1>1
    <2> QED BY <1>1, <2>1 DEF InOrder
  <1> QED
    BY <1>1, <1>2, <1>3 DEF InOrder, Elements, t

LEMMA OrderOfAppend ==
    ASSUME NEW S, NEW s \in Seq(S), NEW x \in S, InOrder(s), \A l \in Elements(s) : Before(l, x)
    PROVE  InOrder(Append(s, x))
  <1> DEFINE t == Append(s, x)
  <1>1. /\ Len(s) \in Nat /\ DOMAIN s = 1 .. Len(s) /\ DOMAIN t = 1 .. Len(s) + 1
        /\ \A i \in DOMAIN s : t[i] = s[i]
        /\ t[Len(s) + 1] = x
    OBVIOUS
  <1> HIDE DEF t
  <1>2. ASSUME NEW i \in DOMAIN t, NEW j \in DOMAIN t, i < j PROVE Before(t[i], t[j])
    <2>1. i \in DOMAIN s /\ (j \in DOMAIN s \/ j = Len(s) + 1)
      BY <1>1, <1>2
    <2> QED BY <1>1, <1>2, <2>1 DEF InOrder, Elements
  <1> QED
    BY <1>2 DEF InOrder, t

LEMMA OrderOfConcat ==
    ASSUME NEW S, NEW s \in Seq(S), NEW t \in Seq(S), InOrder(s), InOrder(t),
           \A l \in Elements(s), m \in Elements(t) : Before(l, m)
    PROVE  InOrder(s \o t)
  <1> DEFINE u == s \o t
  <1>1. \A i \in DOMAIN u : IF i \in DOMAIN s THEN u[i] = s[i]
                            ELSE i - Len(s) \in DOMAIN t /\ u[i] = t[i - Len(s)]
    BY ConcatElements
  <1>2. Len(s) \in Nat /\ DOMAIN s = 1 .. Len(s) /\ DOMAIN u \subseteq Nat \ {0}
        /\ DOMAIN t \subseteq Nat
    OBVIOUS
  <1> HIDE DEF u
  <1>3. ASSUME NEW i \in DOMAIN u, NEW j \in DOMAIN u, i < j PROVE Before(u[i], u[j])
    <2>1. CASE i \in DOMAIN s /\ j \in DOMAIN s
      BY <1>1, <1>3, <2>1 DEF InOrder
    <2>2. CASE i \in DOMAIN s /\ j \notin DOMAIN s
      BY <1>1, <2>2 DEF Elements
    <2>3. CASE i \notin DOMAIN s
      <3>1. j \notin DOMAIN s /\ i - Len(s) < j - Len(s)
        BY <1>2, <1>3, <2>3
      <3> QED BY <1>1, <2>3, <3>1 DEF InOrder
    <2> QED BY <2>1, <2>2, <2>3
  <1> QED
    BY <1>3 DEF InOrder, u

(* A turn of the walk keeps the order: the children of the first pending lease
   come after all that was found or is pending. *)
LEMMA VisitInOrder ==
    ASSUME TypeOK, IssuedInOrder, RankOK, NEW walk \in Walks, WalkOK(walk),
           walk.pending # <<>>, WalkInOrder(walk)
    PROVE  WalkInOrder(Visit(walk))
  <1> DEFINE h        == Head(walk.pending)
             kids     == {c \in DOMAIN certs : certs[c].parent = h} \ walk.seen
             children == NewChildren(h, walk.seen)
             rest     == Tail(walk.pending)
             found    == Append(walk.found, h)
             next     == rest \o children
  <1>1. /\ Visit(walk) = [root |-> walk.root, pending |-> next,
                          seen |-> walk.seen \cup kids, found |-> found]
        /\ children \in Seq(LeaseIds) /\ Elements(children) = kids /\ Ascending(children)
    BY VisitIs
  <1>2. walk.pending \in Seq(LeaseIds) /\ walk.found \in Seq(LeaseIds)
    BY DEF Walks
  <1>3. /\ walk.seen = Elements(walk.pending) \cup Elements(walk.found)
        /\ walk.seen \subseteq DOMAIN certs
        /\ Elements(walk.pending) \cap Elements(walk.found) = {}
        /\ Distinct(walk.pending)
    BY DEF WalkOK, DescendantsIncluding
  <1>4. /\ rest \in Seq(LeaseIds) /\ h \in LeaseIds /\ h = walk.pending[1]
        /\ Elements(walk.pending) = {h} \cup Elements(rest) /\ h \notin Elements(rest)
    BY <1>2, <1>3, TailElements
  <1>5. Elements(found) = Elements(walk.found) \cup {h} /\ found \in Seq(LeaseIds)
    BY <1>2, <1>4, AppendElements
  <1>6. Elements(next) = Elements(rest) \cup kids /\ next \in Seq(LeaseIds)
    <2> HIDE DEF rest, children, kids
    <2> QED BY <1>1, <1>4, ConcatElements
  <1>7. /\ InOrder(walk.pending) /\ InOrder(walk.found)
        /\ \A l \in Elements(walk.found), m \in Elements(walk.pending) : Before(l, m)
        /\ \A l \in Elements(walk.pending) : Depth(l) <= Depth(h) + 1
        /\ \A l \in walk.seen \ {walk.root} : certs[l].parent \in Elements(walk.found)
    BY <1>4 DEF WalkInOrder
  <1>8. InOrder(rest) /\ \A m \in Elements(rest) : Before(h, m)
    BY <1>2, <1>7, OrderOfTail
  <1>9. walk.root \notin Elements(rest)
    <2>1. walk.found # <<>> => walk.root \in Elements(walk.found)
      <3>1. walk.found # <<>> => 1 \in DOMAIN walk.found
        BY <1>2
      <3> QED BY <3>1 DEF WalkOK, Elements
    <2>2. walk.found = <<>> => h = walk.root
      BY <1>4 DEF WalkOK
    <2> QED BY <1>3, <1>4, <2>1, <2>2
  <1> HIDE DEF found, rest, h, children, next
  <1>10. h \in DOMAIN certs /\ \A l \in walk.seen \cup kids : Depth(l) \in Nat
    BY <1>3, <1>4, FiniteChain
  <1>11. \A c \in kids : Depth(c) = Depth(h) + 1
    BY <1>10, DepthOfChild
  <1>12. \A l \in Elements(walk.found) \cup {h}, c \in kids : Before(l, c)
    <2>1. \A l \in Elements(walk.found) \cup {h} : Depth(l) <= Depth(h)
      BY <1>3, <1>4, <1>7, <1>10 DEF Before
    <2> QED BY <1>3, <1>4, <1>10, <1>11, <2>1 DEF Before
  <1>13. \A m \in Elements(rest), c \in kids : Before(m, c)
    <2> TAKE m \in Elements(rest), c \in kids
    <2>1. Depth(m) \in Nat /\ Depth(h) \in Nat /\ Depth(m) <= Depth(c)
      BY <1>3, <1>4, <1>7, <1>10, <1>11
    <2>2. certs[m].parent # h /\ certs[c].parent = h
      BY <1>3, <1>4, <1>7, <1>9
    <2>3. Depth(c) \in Nat
      BY <1>11, <2>1
    <2> QED BY <2>1, <2>2, <2>3 DEF Before
  <1>14. InOrder(children)
    <2> SUFFICES ASSUME NEW i \in DOMAIN children, NEW j \in DOMAIN children, i < j
                 PROVE  Before(children[i], children[j])
      BY DEF InOrder
    <2>1. children[i] \in kids /\ children[j] \in kids
      BY <1>1 DEF Elements
    <2>2. rank[children[i]] < rank[children[j]]
      BY <1>1 DEF Ascending
    <2> QED BY <1>11, <2>1, <2>2 DEF Before
  <1>15. InOrder(next)
    BY <1>1, <1>4, <1>8, <1>13, <1>14, OrderOfConcat DEF next
  <1>16. InOrder(found)
    BY <1>2, <1>4, <1>7, OrderOfAppend DEF found
  <1>17. \A l \in Elements(found), m \in Elements(next) : Before(l, m)
    BY <1>4, <1>5, <1>6, <1>7, <1>8, <1>12
  <1>18. \A l \in Elements(next) : Depth(l) <= Depth(next[1]) + 1
    <2> TAKE l \in Elements(next)
    <2>1. Depth(l) <= Depth(h) + 1
      BY <1>4, <1>6, <1>7, <1>10, <1>11
    <2>2. next[1] \in Elements(next)
      <3>1. 1 \in DOMAIN next
        BY <1>6 DEF Elements
      <3> QED BY <3>1 DEF Elements
    <2>3. Before(h, next[1])
      BY <1>6, <1>8, <1>12, <2>2
    <2>4. Depth(h) \in Nat /\ Depth(l) \in Nat /\ Depth(next[1]) \in Nat
      BY <1>3, <1>4, <1>6, <1>10, <2>2
    <2> QED BY <2>1, <2>3, <2>4 DEF Before
  <1>19. \A l \in (walk.seen \cup kids) \ {walk.root} : certs[l].parent \in Elements(found)
    BY <1>5, <1>7
  <1> HIDE DEF kids
  <1> QED
    BY <1>1, <1>15, <1>16, <1>17, <1>18, <1>19 DEF WalkInOrder

(***************************************************************************)
(* The log when events are pushed.                                         *)
(***************************************************************************)
OfCascade(e, r) ==
    \/ e.lease = r /\ e.kind \in {"LeaseRevoked", "LeaseExpired"}
    \/ e.related = r /\ e.kind \in {"LeaseRevoked", "LeaseRenewed"}

LEMMA CascadeIs == \A r : CascadeOf(r) = {i \in DOMAIN events : OfCascade(events[i], r)}
  BY DEF CascadeOf, OfCascade

LEMMA CascadeNext == \A r : CascadeOf(r)' = {i \in DOMAIN events' : OfCascade(events'[i], r)}
  BY DEF CascadeOf, OfCascade

(* Nothing is logged of the cascade of a lease that is live or not yet issued. *)
LEMMA NotYetEnded ==
    ASSUME LogInOrder, NEW r, r # NoLease, r \notin DOMAIN certs \/ Live(r)
    PROVE  CascadeOf(r) = {} /\ RevokedBy(r) = {}
  <1>1. \A i \in DOMAIN events : EventOK(events[i])
    BY DEF LogInOrder
  <1> QED
    BY <1>1 DEF CascadeOf, RevokedBy, EventOK

LEMMA RangeGrows ==
    ASSUME NEW n \in Nat, NEW S \in SUBSET (1 .. n), S # {} => n \in S,
           \A i, j \in S : i .. j \subseteq S
    PROVE  \A i, j \in S \cup {n + 1} : i .. j \subseteq S \cup {n + 1}
  <1> SUFFICES ASSUME NEW i \in S \cup {n + 1}, NEW j \in S \cup {n + 1}, NEW k \in i .. j
               PROVE  k \in S \cup {n + 1}
    OBVIOUS
  <1>1. CASE j \in S
    BY <1>1
  <1>2. CASE j = n + 1
    <2>1. CASE k = n + 1
      BY <2>1
    <2>2. CASE k # n + 1
      <3>1. i \in S /\ k \in i .. n
        BY <1>2, <2>2
      <3> QED BY <3>1
    <2> QED BY <2>1, <2>2
  <1> QED BY <1>1, <1>2

\* What a step may do to the tree: leases are issued and leases end.
TreeGrows ==
    /\ DOMAIN certs \subseteq DOMAIN certs' /\ DOMAIN certs' \subseteq LeaseIds
    /\ \A l, m \in DOMAIN certs : Before(l, m)' <=> Before(l, m)
    /\ \A l \in DOMAIN certs : Live(l)' => Live(l)

LEMMA RootFirstIs ==
    CascadeIsRootFirst <=>
        \A i, j \in DOMAIN events :
            /\ events[i].kind = "LeaseRevoked" /\ events[i].related # NoLease
            /\ events[j].kind = "LeaseRevoked" /\ events[j].related = events[i].related
            /\ i < j
            => Before(events[i].lease, events[j].lease)
  BY DEF CascadeIsRootFirst, Before, Depth

LEMMA RootFirstNext ==
    CascadeIsRootFirst' <=>
        \A i, j \in DOMAIN events' : \A l, m :
            /\ events'[i].kind = "LeaseRevoked" /\ events'[i].related # NoLease
            /\ events'[j].kind = "LeaseRevoked" /\ events'[j].related = events'[i].related
            /\ i < j /\ l = events'[i].lease /\ m = events'[j].lease
            => Before(l, m)'
  BY DEF CascadeIsRootFirst, Before, Depth

LEMMA EventsNext ==
    (\A i \in DOMAIN events : EventOK(events[i]))' <=>
        \A i \in DOMAIN events' : \A e : e = events'[i] => EventOK(e)'
  BY DEF EventOK, Live

(* Several events that do not tell of a cascade. *)
LEMMA PushPlain ==
    ASSUME LogInOrder, TreeGrows, NEW t \in Seq(Entries), events' = events \o t,
           \A i \in DOMAIN t : /\ EventOK(t[i])'
                               /\ t[i].kind \notin {"LeaseRevoked", "LeaseExpired", "LeaseRenewed"}
    PROVE  LogInOrder' /\ \A r : CascadeOf(r)' = CascadeOf(r) /\ RevokedBy(r)' = RevokedBy(r)
  <1> DEFINE n == Len(events)
             plain(e) == e.kind \notin {"LeaseRevoked", "LeaseExpired", "LeaseRenewed"}
  <1>1. /\ events \in Seq(Entries) /\ CascadeIsRootFirst /\ CascadesAreContiguous
        /\ \A i \in DOMAIN events : EventOK(events[i])
    BY DEF LogInOrder
  <1>2. /\ events' \in Seq(Entries)
        /\ \A i \in DOMAIN events' : IF i \in DOMAIN events THEN events'[i] = events[i]
              ELSE i - n \in DOMAIN t /\ events'[i] = t[i - n]
    BY <1>1, ConcatElements
  <1>3. DOMAIN events \subseteq DOMAIN events' /\ DOMAIN events \subseteq Nat
    BY <1>1
  <1>4. \A i \in DOMAIN events' : i \in DOMAIN events \/ plain(events'[i])
    BY <1>2
  <1>5. \A r : CascadeOf(r)' = CascadeOf(r)
    BY <1>2, <1>3, <1>4, CascadeIs, CascadeNext DEF OfCascade
  <1>6. \A r : RevokedBy(r)' = RevokedBy(r)
    BY <1>2, <1>3, <1>4 DEF RevokedBy
  <1>7. CascadesAreContiguous'
    <2>1. ASSUME NEW r \in DOMAIN certs' PROVE \A i, j \in CascadeOf(r) : i .. j \subseteq CascadeOf(r)
      <3>1. CASE r \in DOMAIN certs
        BY <1>1, <3>1 DEF CascadesAreContiguous
      <3>2. CASE r \notin DOMAIN certs
        BY <3>2, NotYetEnded, IdAssumption DEF TreeGrows
      <3> QED BY <3>1, <3>2
    <2> QED BY <1>5, <2>1 DEF CascadesAreContiguous
  <1>8. CascadeIsRootFirst'
    <2> SUFFICES ASSUME NEW i \in DOMAIN events', NEW j \in DOMAIN events', NEW l, NEW m,
                        events'[i].kind = "LeaseRevoked", events'[i].related # NoLease,
                        events'[j].kind = "LeaseRevoked",
                        events'[j].related = events'[i].related,
                        i < j, l = events'[i].lease, m = events'[j].lease
                 PROVE  Before(l, m)'
      BY RootFirstNext
    <2>1. i \in DOMAIN events /\ j \in DOMAIN events
      BY <1>4
    <2>2. events'[i] = events[i] /\ events'[j] = events[j]
      BY <1>2, <2>1
    <2>3. Before(l, m)
      BY <1>1, <2>1, <2>2, RootFirstIs
    <2>4. l \in DOMAIN certs /\ m \in DOMAIN certs
      BY <1>1, <2>1, <2>2 DEF EventOK
    <2> QED BY <2>3, <2>4 DEF TreeGrows
  <1>9. (\A i \in DOMAIN events : EventOK(events[i]))'
    <2> SUFFICES ASSUME NEW i \in DOMAIN events', NEW e, e = events'[i] PROVE EventOK(e)'
      BY EventsNext
    <2>1. CASE i \in DOMAIN events
      <3>1. EventOK(e)
        BY <1>1, <1>2, <2>1
      <3> QED BY <3>1 DEF EventOK, TreeGrows
    <2>2. CASE i \notin DOMAIN events
      BY <1>2, <2>2
    <2> QED BY <2>1, <2>2
  <1> QED
    BY <1>2, <1>5, <1>6, <1>7, <1>8, <1>9 DEF LogInOrder

(* One event, which may tell of a cascade that the log ends with. *)
LEMMA PushOne ==
    ASSUME LogInOrder, TreeGrows, NEW x \in Entries, events' = Append(events, x), EventOK(x)',
           \A r \in DOMAIN certs : OfCascade(x, r) /\ CascadeOf(r) # {}
              => Len(events) \in CascadeOf(r),
           x.kind = "LeaseRevoked" /\ x.related # NoLease
              => \A i \in RevokedBy(x.related) : Before(events[i].lease, x.lease),
           x.kind = "LeaseRevoked" => x.lease \in DOMAIN certs
    PROVE  /\ LogInOrder' /\ Len(events') = Len(events) + 1
           /\ \A r : CascadeOf(r)' = IF OfCascade(x, r) THEN CascadeOf(r) \cup {Len(events')}
                                                       ELSE CascadeOf(r)
           /\ \A r : RevokedBy(r)' = IF x.kind = "LeaseRevoked" /\ x.related = r
                                      THEN RevokedBy(r) \cup {Len(events')} ELSE RevokedBy(r)
           /\ \A i \in DOMAIN events : events'[i] = events[i]
           /\ events'[Len(events')] = x
  <1> DEFINE n == Len(events)
  <1>1. /\ events \in Seq(Entries) /\ CascadeIsRootFirst /\ CascadesAreContiguous
        /\ \A i \in DOMAIN events : EventOK(events[i])
    BY DEF LogInOrder
  <1>2. /\ events' \in Seq(Entries) /\ n \in Nat /\ Len(events') = n + 1
        /\ DOMAIN events = 1 .. n /\ DOMAIN events' = 1 .. n + 1
        /\ \A i \in DOMAIN events : events'[i] = events[i]
        /\ events'[n + 1] = x
    BY <1>1
  <1> HIDE DEF n
  <1>3. DOMAIN events' = DOMAIN events \cup {n + 1} /\ n + 1 \notin DOMAIN events
    BY <1>2
  <1>4. ASSUME NEW r
        PROVE  CascadeOf(r)' = IF OfCascade(x, r) THEN CascadeOf(r) \cup {n + 1} ELSE CascadeOf(r)
    BY <1>2, <1>3, CascadeIs, CascadeNext
  <1>5. ASSUME NEW r
        PROVE  RevokedBy(r)' = IF x.kind = "LeaseRevoked" /\ x.related = r
                               THEN RevokedBy(r) \cup {n + 1} ELSE RevokedBy(r)
    BY <1>2, <1>3 DEF RevokedBy
  <1>6. CascadesAreContiguous'
    <2>1. ASSUME NEW r \in DOMAIN certs', NEW S, S = CascadeOf(r)'
          PROVE  \A i, j \in S : i .. j \subseteq S
      <3>1. r # NoLease
        BY IdAssumption DEF TreeGrows
      <3>2. /\ \A i, j \in CascadeOf(r) : i .. j \subseteq CascadeOf(r)
            /\ OfCascade(x, r) /\ CascadeOf(r) # {} => n \in CascadeOf(r)
        <4>1. CASE r \in DOMAIN certs
          BY <1>1, <4>1 DEF CascadesAreContiguous, n
        <4>2. CASE r \notin DOMAIN certs
          BY <3>1, <4>2, NotYetEnded
        <4> QED BY <4>1, <4>2
      <3>3. CascadeOf(r) \in SUBSET (1 .. n)
        BY <1>2 DEF CascadeOf
      <3>4. CASE OfCascade(x, r)
        <4>1. S = CascadeOf(r) \cup {n + 1}
          BY <1>4, <2>1, <3>4
        <4> QED BY <1>2, <3>2, <3>3, <3>4, <4>1, RangeGrows
      <3>5. CASE ~OfCascade(x, r)
        BY <1>4, <2>1, <3>2, <3>5
      <3> QED BY <3>4, <3>5
    <2> QED BY <2>1 DEF CascadesAreContiguous
  <1>7. CascadeIsRootFirst'
    <2> SUFFICES ASSUME NEW i \in DOMAIN events', NEW j \in DOMAIN events', NEW l, NEW m,
                        events'[i].kind = "LeaseRevoked", events'[i].related # NoLease,
                        events'[j].kind = "LeaseRevoked",
                        events'[j].related = events'[i].related,
                        i < j, l = events'[i].lease, m = events'[j].lease
                 PROVE  Before(l, m)'
      BY RootFirstNext
    <2>1. i \in DOMAIN events /\ events'[i] = events[i] /\ l \in DOMAIN certs
      <3>1. i \in DOMAIN events
        BY <1>2
      <3> QED BY <1>1, <1>2, <3>1 DEF EventOK
    <2>2. CASE j \in DOMAIN events
      <3>1. Before(l, m)
        BY <1>1, <1>2, <2>1, <2>2, RootFirstIs
      <3>2. m \in DOMAIN certs
        BY <1>1, <1>2, <2>2 DEF EventOK
      <3> QED BY <2>1, <3>1, <3>2 DEF TreeGrows
    <2>3. CASE j = n + 1
      <3>1. i \in RevokedBy(x.related) /\ m = x.lease /\ m \in DOMAIN certs
        BY <1>2, <2>1, <2>3 DEF RevokedBy
      <3>2. Before(l, m)
        BY <1>2, <2>1, <2>3, <3>1
      <3> QED BY <2>1, <3>1, <3>2 DEF TreeGrows
    <2> QED BY <1>3, <2>2, <2>3
  <1>8. (\A i \in DOMAIN events : EventOK(events[i]))'
    <2> SUFFICES ASSUME NEW i \in DOMAIN events', NEW e, e = events'[i] PROVE EventOK(e)'
      BY EventsNext
    <2>1. CASE i \in DOMAIN events
      <3>1. EventOK(e)
        BY <1>1, <1>2, <2>1
      <3> QED BY <3>1 DEF EventOK, TreeGrows
    <2>2. CASE i = n + 1
      BY <1>2, <2>2
    <2> QED BY <1>3, <2>1, <2>2
  <1> QED
    BY <1>2, <1>4, <1>5, <1>6, <1>7, <1>8 DEF LogInOrder, n

(***************************************************************************)
(* The order of the events is kept by each step.                           *)
(***************************************************************************)
LEMMA TreeSame ==
    ASSUME TypeOK, UNCHANGED <<certs, rank>>, \A l \in DOMAIN certs : Live(l)' => Live(l)
    PROVE  /\ TreeGrows
           /\ \A l, m : Before(l, m)' <=> Before(l, m)
           /\ \A s : InOrder(s)' <=> InOrder(s)
           /\ \A walk : WalkInOrder(walk)' <=> WalkInOrder(walk)
  <1>1. \A l : Depth(l)' = Depth(l)
    BY DEF Depth, Chain, ClosedUnderParents
  <1>2. \A l, m : Before(l, m)' <=> Before(l, m)
    BY <1>1 DEF Before
  <1>3. \A s : InOrder(s)' <=> InOrder(s)
    BY <1>2 DEF InOrder
  <1>4. \A walk : WalkInOrder(walk)' <=> WalkInOrder(walk)
    BY <1>1, <1>2, <1>3 DEF WalkInOrder
  <1> QED
    BY <1>2, <1>3, <1>4 DEF TreeGrows, TypeOK

LEMMA QuietStep ==
    ASSUME LogInOrder, TypeOK, UNCHANGED <<certs, rank, events>>,
           \A l \in DOMAIN certs : Live(l)' => Live(l)
    PROVE  LogInOrder' /\ \A r : CascadeOf(r)' = CascadeOf(r) /\ RevokedBy(r)' = RevokedBy(r)
  <1>1. events \in Seq(Entries)
    BY DEF LogInOrder
  <1>2. events' = events \o <<>> /\ <<>> \in Seq(Entries) /\ DOMAIN <<>> = {}
    BY <1>1
  <1> QED
    BY <1>2, TreeSame, PushPlain

LEMMA CascadeInOrderNext ==
    ASSUME NEW r, r = job'.walk.root, NEW todo, todo = job'.todo, NEW walk, walk = job'.walk,
           job'.op # "revoke" \/ (job'.at = "revoke" /\ r \notin Elements(todo)) => ~Live(r)',
           CascadeOf(r)' # {} => Len(events') \in CascadeOf(r)',
           IF job'.at = "walk" THEN WalkInOrder(walk)' /\ RevokedBy(r)' = {}
           ELSE /\ InOrder(todo)'
                /\ \A i \in RevokedBy(r)', l \in Elements(todo) : \A k :
                      k = events'[i].lease => Before(k, l)'
    PROVE  CascadeInOrder'
  <1>1. RootEnds'
    BY DEF RootEnds, Elements, Live
  <1> QED
    BY <1>1 DEF CascadeInOrder, Elements

(* A walk begins at a lease that nothing was logged about as a cause. *)
LEMMA CascadeStarts ==
    ASSUME TypeOK', NEW r \in DOMAIN certs', job'.walk = Walk(r), job'.at = "walk",
           job'.op # "revoke" => ~Live(r)',
           CascadeOf(r)' # {} => Len(events') \in CascadeOf(r)', RevokedBy(r)' = {}
    PROVE  CascadeInOrder'
  <1> DEFINE walk == Walk(r)
  <1>1. /\ walk.root = r /\ walk.pending = <<r>> /\ walk.found = <<>> /\ walk.seen = {r}
    BY DEF Walk
  <1>2. Elements(walk.pending) = {r} /\ Elements(walk.found) = {} /\ walk.pending[1] = r
    BY <1>1 DEF Elements
  <1>3. InOrder(<<r>>)' /\ InOrder(<<>>)'
    BY DEF InOrder
  <1>4. (Depth(r) \in Nat)'
    BY FiniteChainNext
  <1> HIDE DEF walk
  <1>5. WalkInOrder(walk)'
    BY <1>1, <1>2, <1>3, <1>4 DEF WalkInOrder
  <1>6. walk.root = r /\ job'.walk = walk
    BY <1>1 DEF walk
  <1> QED
    BY <1>5, <1>6, CascadeInOrderNext

LEMMA StartRevokeOrder ==
    ASSUME EventOrderInv, NEW l \in DOMAIN certs, NEW expected, StartRevoke(l, expected)
    PROVE  EventOrderInv'
  <1>1. ShapeInv /\ TypeOK /\ LogInOrder
    BY DEF EventOrderInv, ShapeInv
  <1>2. /\ ShapeInv' /\ TypeOK' /\ job'.op = "revoke" /\ job'.walk = Walk(l)
        /\ job'.at = "walk"
    BY <1>1, StartRevokeShape DEF ShapeInv
  <1>3. Live(l) /\ UNCHANGED <<certs, records, rank, events>>
    BY DEF StartRevoke, MayRevoke, vars
  <1>4. LogInOrder' /\ \A r : CascadeOf(r)' = CascadeOf(r) /\ RevokedBy(r)' = RevokedBy(r)
    BY <1>1, <1>3, QuietStep DEF Live
  <1>5. l # NoLease
    BY <1>1, IdAssumption DEF TypeOK
  <1>6. CascadeOf(l)' = {} /\ RevokedBy(l)' = {}
    BY <1>1, <1>3, <1>4, <1>5, NotYetEnded
  <1>7. CascadeInOrder'
    BY <1>2, <1>3, <1>6, CascadeStarts
  <1> QED
    BY <1>2, <1>4, <1>7 DEF EventOrderInv

LEMMA StartRefreshOrder ==
    ASSUME EventOrderInv, NEW now, StartRefresh(now)
    PROVE  EventOrderInv'
  <1>1. ShapeInv /\ TypeOK /\ LogInOrder
    BY DEF EventOrderInv, ShapeInv
  <1>2. ShapeInv' /\ job'.at = "due"
    BY <1>1, StartRefreshShape
  <1>3. UNCHANGED <<certs, records, rank, events>>
    BY DEF StartRefresh, vars
  <1>4. LogInOrder'
    BY <1>1, <1>3, QuietStep DEF Live
  <1> QED
    BY <1>2, <1>4 DEF EventOrderInv

LEMMA StartRenewOrder ==
    ASSUME EventOrderInv, NEW old \in DOMAIN certs, NEW expected, NEW terms \in Offers,
           NEW id \in NewLeaseIds, NEW now, StartRenew(old, expected, terms, id, now)
    PROVE  EventOrderInv'
  <1>1. ShapeInv /\ TypeOK /\ LogInOrder
    BY DEF EventOrderInv, ShapeInv
  <1>2. /\ ShapeInv' /\ TypeOK' /\ job'.walk = Walk(old) /\ job'.at = "walk"
        /\ records'[old] = Retired(records[old], id)
        /\ \A l \in DOMAIN certs \ {old} : records'[l] = records[l]
    BY <1>1, StartRenewShape DEF ShapeInv
  <1>3. Live(old) /\ UNCHANGED <<certs, rank, events>>
    BY DEF StartRenew, MayRenew, ValidateActiveRecord, Live, LiveStates
  <1>4. ~Live(old)' /\ \A l \in DOMAIN certs : Live(l)' => Live(l)
    BY <1>2 DEF Live, Retired, LiveStates
  <1>5. LogInOrder' /\ \A r : CascadeOf(r)' = CascadeOf(r) /\ RevokedBy(r)' = RevokedBy(r)
    BY <1>1, <1>3, <1>4, QuietStep
  <1>6. old # NoLease
    BY <1>1, IdAssumption DEF TypeOK
  <1>7. CascadeOf(old)' = {} /\ RevokedBy(old)' = {}
    BY <1>1, <1>3, <1>5, <1>6, NotYetEnded
  <1>8. CascadeInOrder'
    BY <1>2, <1>3, <1>4, <1>7, CascadeStarts
  <1> QED
    BY <1>2, <1>5, <1>8 DEF EventOrderInv

LEMMA WalkOnOrder ==
    ASSUME EventOrderInv, WalkOn
    PROVE  EventOrderInv'
  <1>0. PICK root, walk : root = job.walk.root /\ walk = Visit(job.walk)
    OBVIOUS
  <1>1. ShapeInv /\ TypeOK /\ IssuedInOrder /\ RankOK /\ LogInOrder
    BY DEF EventOrderInv, ShapeInv
  <1>2. /\ ShapeInv' /\ job.walk \in Walks /\ WalkOK(job.walk) /\ job.walk.pending # <<>>
        /\ job'.walk = walk /\ job'.op = job.op
        /\ \/ job'.at = "walk"
           \/ /\ job'.at = "revoke"
              /\ job'.todo = IF job.op = "revoke" THEN walk.found ELSE Tail(walk.found)
              /\ Elements(job'.todo) = IF job.op = "revoke" THEN DescendantsIncluding(root)
                                       ELSE DescendantsIncluding(root) \ {root}
    BY <1>0, <1>1, WalkOnShape
  <1>3. UNCHANGED <<certs, records, rank, events>> /\ Locked /\ job.at = "walk"
    BY DEF WalkOn, vars
  <1>4. LogInOrder' /\ \A r : CascadeOf(r)' = CascadeOf(r) /\ RevokedBy(r)' = RevokedBy(r)
    BY <1>1, <1>3, QuietStep DEF Live
  <1>5. /\ WalkInOrder(job.walk) /\ RevokedBy(root) = {} /\ RootEnds
        /\ CascadeOf(root) # {} => Len(events) \in CascadeOf(root)
    BY <1>0, <1>3 DEF EventOrderInv, CascadeInOrder
  <1>6. walk.root = root /\ walk \in Walks /\ walk.found # <<>> /\ root \in DOMAIN certs
    BY <1>0, <1>1, <1>2, VisitOK DEF WalkOK
  <1>7. WalkInOrder(walk)
    BY <1>0, <1>1, <1>2, <1>5, VisitInOrder
  <1>8. /\ \A s : InOrder(s)' <=> InOrder(s)
        /\ WalkInOrder(walk)' <=> WalkInOrder(walk)
    BY <1>1, <1>3, TreeSame DEF Live
  <1>9. ~Live(root)' <=> ~Live(root)
    BY <1>3 DEF Live
  <1>10. root \in DescendantsIncluding(root)
    BY <1>6, RootInDescendants
  <1>11. walk.found \in Seq(LeaseIds)
    BY <1>6 DEF Walks
  <1>12. InOrder(walk.found) /\ InOrder(Tail(walk.found))
    BY <1>6, <1>7, <1>11, OrderOfTail DEF WalkInOrder
  <1>13. /\ job'.walk.root = root
         /\ CascadeOf(root)' # {} => Len(events') \in CascadeOf(root)'
         /\ RevokedBy(root)' = {}
    BY <1>2, <1>3, <1>4, <1>5, <1>6
  <1>14. PICK todo : todo = job'.todo
    OBVIOUS
  <1>15. CASE job'.at = "walk"
    <2>1. job'.op # "revoke" \/ (job'.at = "revoke" /\ root \notin Elements(todo)) => ~Live(root)'
      BY <1>0, <1>2, <1>5, <1>9, <1>15 DEF RootEnds
    <2>2. CascadeInOrder'
      BY <1>2, <1>7, <1>8, <1>13, <1>14, <1>15, <2>1, CascadeInOrderNext
    <2> QED BY <1>2, <1>4, <2>2 DEF EventOrderInv
  <1>16. CASE job'.at # "walk"
    <2>1. job'.op # "revoke" \/ (job'.at = "revoke" /\ root \notin Elements(todo)) => ~Live(root)'
      BY <1>0, <1>2, <1>5, <1>9, <1>10, <1>14, <1>16 DEF RootEnds
    <2>2. InOrder(todo)'
      BY <1>2, <1>8, <1>12, <1>14, <1>16
    <2>3. CascadeInOrder'
      BY <1>2, <1>13, <1>14, <1>16, <2>1, <2>2, CascadeInOrderNext
    <2> QED BY <1>2, <1>4, <2>3 DEF EventOrderInv
  <1> QED
    BY <1>15, <1>16

LEMMA EntryType ==
    ASSUME NEW l \in LeaseIds, NEW kind \in EventKinds, NEW related \in LeaseIds \cup {NoLease}
    PROVE  /\ Entry(l, Event(kind, related)) \in Entries
           /\ Entry(l, Event(kind, related)).lease = l
           /\ Entry(l, Event(kind, related)).kind = kind
           /\ Entry(l, Event(kind, related)).related = related
  BY DEF Entry, Event, Entries

LEMMA RevokeOnOrder ==
    ASSUME EventOrderInv, RevokeOn
    PROVE  EventOrderInv'
  <1>0. PICK root, l, todo, x :
            /\ root = job.walk.root /\ l = Head(job.todo) /\ todo = job'.todo
            /\ x = Entry(l, Event("LeaseRevoked", IF l = root THEN NoLease ELSE root))
    OBVIOUS
  <1>1. ShapeInv /\ TypeOK /\ LogInOrder
    BY DEF EventOrderInv, ShapeInv
  <1>2. /\ ShapeInv' /\ JobShape /\ Locked /\ job.at = "revoke" /\ job.todo # <<>>
        /\ certs' = certs /\ rank' = rank
        /\ l \in DOMAIN certs /\ l = job.todo[1]
        /\ Elements(job.todo) = {l} \cup Elements(todo) /\ l \notin Elements(todo)
        /\ todo = Tail(job.todo)
        /\ job'.at = "revoke" /\ job'.walk = job.walk /\ job'.op = job.op
        /\ \A m \in DOMAIN certs \ {l} : records'[m] = records[m]
        /\ \/ /\ Live(l)
              /\ records'[l] = Moved(records[l], "Revoked")
              /\ events' = Append(events, x)
           \/ /\ ~Live(l)
              /\ records'[l] = records[l] /\ events' = events
    BY <1>0, <1>1, RevokeOnShape DEF CauseOf
  <1>3. /\ InOrder(job.todo) /\ RootEnds
        /\ \A i \in RevokedBy(root), m \in Elements(job.todo) : Before(events[i].lease, m)
        /\ CascadeOf(root) # {} => Len(events) \in CascadeOf(root)
    BY <1>0, <1>2 DEF EventOrderInv, CascadeInOrder
  <1>4. /\ job.todo \in Seq(LeaseIds) /\ root \in DOMAIN certs
        /\ root \in Elements(job.todo) => job.op = "revoke" /\ l = root
    BY <1>0, <1>2 DEF JobShape, Jobs, TodoOK
  <1>5. InOrder(todo) /\ \A m \in Elements(todo) : Before(l, m)
    BY <1>0, <1>2, <1>3, <1>4, OrderOfTail
  <1>6. ~Live(l)' /\ \A m \in DOMAIN certs : Live(m)' => Live(m)
    BY <1>2 DEF Live, Moved, LiveStates
  <1>7. root \notin Elements(todo) /\ (l # root => ~Live(root)) /\ ~Live(root)'
    <2>1. root \notin Elements(todo)
      BY <1>2, <1>4
    <2>2. l # root => root \notin Elements(job.todo)
      BY <1>4
    <2>3. l # root => ~Live(root)
      BY <1>0, <1>2, <1>3, <2>2 DEF RootEnds
    <2> QED BY <1>4, <1>6, <2>1, <2>3
  <1>8. TreeGrows /\ InOrder(todo)' /\ \A k, m : Before(k, m)' <=> Before(k, m)
    BY <1>1, <1>2, <1>5, <1>6, TreeSame
  <1>9. root \in LeaseIds /\ l \in LeaseIds /\ root # NoLease /\ l # NoLease
    BY <1>1, <1>2, <1>4, IdAssumption DEF TypeOK
  <1>10. CASE Live(l)
    <2>1. /\ x \in Entries /\ x.lease = l /\ x.kind = "LeaseRevoked"
          /\ x.related = IF l = root THEN NoLease ELSE root
      BY <1>0, <1>9, EntryType DEF EventKinds
    <2>2. events' = Append(events, x)
      BY <1>2, <1>10
    <2>3. EventOK(x)'
      BY <1>2, <1>4, <1>6, <1>7, <2>1 DEF EventOK
    <2>4. CascadeOf(l) = {} /\ RevokedBy(l) = {}
      BY <1>1, <1>9, <1>10, NotYetEnded
    <2>5. \A r \in DOMAIN certs : OfCascade(x, r) => r = root \/ r = l
      BY <1>1, <2>1, IdAssumption DEF OfCascade, TypeOK
    <2>6. OfCascade(x, root)
      BY <2>1 DEF OfCascade
    <2>7. \A i \in RevokedBy(root) : Before(events[i].lease, l)
      BY <1>2, <1>3
    <2>8. \A r \in DOMAIN certs : OfCascade(x, r) /\ CascadeOf(r) # {} => Len(events) \in CascadeOf(r)
      BY <1>3, <2>4, <2>5
    <2>9. x.kind = "LeaseRevoked" /\ x.related # NoLease
             => \A i \in RevokedBy(x.related) : Before(events[i].lease, x.lease)
      BY <2>1, <2>7
    <2>10. /\ LogInOrder'
           /\ CascadeOf(root)' = CascadeOf(root) \cup {Len(events')}
           /\ RevokedBy(root)' = IF l # root THEN RevokedBy(root) \cup {Len(events')}
                                             ELSE RevokedBy(root)
           /\ \A i \in DOMAIN events : events'[i] = events[i]
           /\ events'[Len(events')] = x
      <3>1. /\ LogInOrder' /\ Len(events') = Len(events) + 1
            /\ \A r : CascadeOf(r)' = IF OfCascade(x, r) THEN CascadeOf(r) \cup {Len(events')}
                                                       ELSE CascadeOf(r)
            /\ \A r : RevokedBy(r)' = IF x.kind = "LeaseRevoked" /\ x.related = r
                                      THEN RevokedBy(r) \cup {Len(events')} ELSE RevokedBy(r)
            /\ \A i \in DOMAIN events : events'[i] = events[i]
            /\ events'[Len(events')] = x
        BY <1>1, <1>2, <1>8, <2>1, <2>2, <2>3, <2>8, <2>9, PushOne
      <3> QED BY <1>9, <2>1, <2>6, <3>1
    <2>11. ASSUME NEW i \in RevokedBy(root)', NEW m \in Elements(todo), NEW k, k = events'[i].lease
           PROVE  Before(k, m)'
      <3>1. CASE i \in RevokedBy(root)
        <4>1. k = events[i].lease
          BY <2>10, <2>11, <3>1 DEF RevokedBy
        <4> QED BY <1>2, <1>3, <1>8, <3>1, <4>1
      <3>2. CASE i = Len(events') /\ i \notin RevokedBy(root)
        <4>1. k = l
          BY <2>1, <2>10, <2>11, <3>2
        <4> QED BY <1>5, <1>8, <4>1
      <3> QED BY <2>10, <3>1, <3>2
    <2>12. CascadeInOrder'
      <3>1. /\ root = job'.walk.root /\ todo = job'.todo /\ job'.at # "walk"
            /\ Len(events') \in CascadeOf(root)'
        BY <1>0, <1>2, <2>10
      <3> QED BY <1>7, <1>8, <2>11, <3>1, CascadeInOrderNext
    <2> QED BY <1>2, <2>10, <2>12 DEF EventOrderInv
  <1>11. CASE ~Live(l)
    <2>1. events' = events
      BY <1>2, <1>11
    <2>2. LogInOrder' /\ \A r : CascadeOf(r)' = CascadeOf(r) /\ RevokedBy(r)' = RevokedBy(r)
      BY <1>1, <1>2, <1>6, <2>1, QuietStep
    <2>3. ASSUME NEW i \in RevokedBy(root)', NEW m \in Elements(todo), NEW k, k = events'[i].lease
          PROVE  Before(k, m)'
      BY <1>2, <1>3, <1>8, <2>1, <2>2, <2>3
    <2>4. CascadeInOrder'
      <3>1. /\ root = job'.walk.root /\ todo = job'.todo /\ job'.at # "walk"
            /\ CascadeOf(root)' # {} => Len(events') \in CascadeOf(root)'
        BY <1>0, <1>2, <1>3, <2>1, <2>2
      <3> QED BY <1>7, <1>8, <2>3, <3>1, CascadeInOrderNext
    <2> QED BY <1>2, <2>2, <2>4 DEF EventOrderInv
  <1> QED
    BY <1>10, <1>11

LEMMA DueOnOrder ==
    ASSUME EventOrderInv, DueOn
    PROVE  EventOrderInv'
  <1>0. PICK l, x : l = Head(job.due) /\ x = Entry(l, Event("LeaseExpired", NoLease))
    OBVIOUS
  <1>1. ShapeInv /\ TypeOK /\ LogInOrder
    BY DEF EventOrderInv, ShapeInv
  <1>2. /\ ShapeInv' /\ TypeOK' /\ certs' = certs /\ rank' = rank
        /\ l \in DOMAIN certs
        /\ \A m \in DOMAIN certs \ {l} : records'[m] = records[m]
        /\ \/ /\ Live(l) /\ job'.at = "walk" /\ job'.walk = Walk(l)
              /\ records'[l] = Moved(records[l], "Expired")
              /\ events' = Append(events, x)
           \/ /\ ~Live(l) /\ job'.at = "due"
              /\ records'[l] = records[l] /\ events' = events
    BY <1>0, <1>1, DueOnShape DEF ShapeInv
  <1>3. ~Live(l)' /\ \A m \in DOMAIN certs : Live(m)' => Live(m)
    BY <1>2 DEF Live, Moved, LiveStates
  <1>4. l \in LeaseIds /\ l # NoLease
    BY <1>1, <1>2, IdAssumption DEF TypeOK
  <1>5. CASE Live(l)
    <2>1. x \in Entries /\ x.lease = l /\ x.kind = "LeaseExpired" /\ x.related = NoLease
      BY <1>0, <1>4, EntryType DEF EventKinds
    <2>2. EventOK(x)'
      BY <1>2, <1>3, <2>1 DEF EventOK
    <2>3. CascadeOf(l) = {} /\ RevokedBy(l) = {}
      BY <1>1, <1>4, <1>5, NotYetEnded
    <2>4. OfCascade(x, l) /\ \A r : OfCascade(x, r) => r = l
      BY <2>1 DEF OfCascade
    <2>5. TreeGrows
      BY <1>1, <1>2, <1>3, TreeSame
    <2>6. events' = Append(events, x) /\ job'.at = "walk" /\ job'.walk = Walk(l)
      BY <1>2, <1>5
    <2>7. /\ LogInOrder'
          /\ \A r : CascadeOf(r)' = IF OfCascade(x, r) THEN CascadeOf(r) \cup {Len(events')}
                                                     ELSE CascadeOf(r)
          /\ \A r : RevokedBy(r)' = IF x.kind = "LeaseRevoked" /\ x.related = r
                                    THEN RevokedBy(r) \cup {Len(events')} ELSE RevokedBy(r)
      BY <1>1, <2>1, <2>2, <2>3, <2>4, <2>5, <2>6, PushOne
    <2>8. CascadeOf(l)' = {Len(events')} /\ RevokedBy(l)' = {}
      BY <2>1, <2>3, <2>4, <2>7
    <2>9. CascadeInOrder'
      BY <1>2, <1>3, <2>6, <2>8, CascadeStarts
    <2> QED BY <1>2, <2>7, <2>9 DEF EventOrderInv
  <1>6. CASE ~Live(l)
    <2>1. events' = events /\ job'.at = "due"
      BY <1>2, <1>6
    <2>2. LogInOrder'
      BY <1>1, <1>2, <1>3, <2>1, QuietStep
    <2> QED BY <1>2, <2>1, <2>2 DEF EventOrderInv
  <1> QED
    BY <1>5, <1>6

LEMMA ReturnOrder ==
    ASSUME EventOrderInv, Return
    PROVE  EventOrderInv'
  <1>1. ShapeInv /\ TypeOK /\ LogInOrder
    BY DEF EventOrderInv, ShapeInv
  <1>2. ShapeInv' /\ ~Locked' /\ UNCHANGED <<certs, records, rank, events>>
    BY <1>1, ReturnShape DEF Locked, vars
  <1>3. LogInOrder'
    BY <1>1, <1>2, QuietStep DEF Live
  <1> QED
    BY <1>2, <1>3 DEF EventOrderInv

LEMMA IssuedGrows ==
    ASSUME TypeOK, IssuedInOrder, TypeOK', rank' = rank, NEW id, NEW cert, Issues(id, cert),
           \A l \in DOMAIN certs : records'[l] = records[l]
    PROVE  TreeGrows
  <1>1. \A l \in DOMAIN certs : Depth(l)' = Depth(l)
    BY ChainsKept DEF Depth
  <1>2. \A l, m \in DOMAIN certs : Before(l, m)' <=> Before(l, m)
    BY <1>1 DEF Before, Issues
  <1> QED
    BY <1>2 DEF TreeGrows, Issues, TypeOK, Live

LEMMA FinishRenewOrder ==
    ASSUME EventOrderInv, FinishRenew
    PROVE  EventOrderInv'
  <1>0. PICK id, old, x : /\ id = job.id /\ old = job.lease
                          /\ x = Entry(id, Event("LeaseRenewed", old))
    OBVIOUS
  <1>1. ShapeInv /\ TypeOK /\ IssuedInOrder /\ LogInOrder
    BY DEF EventOrderInv, ShapeInv
  <1>2. /\ ShapeInv' /\ TypeOK' /\ JobShape /\ Locked /\ ~Locked'
        /\ job.op = "renew" /\ job.at = "revoke" /\ job.todo = <<>> /\ rank' = rank
        /\ Issues(id, RenewedCertificate(old, job.terms))
        /\ records' = Put(records, id, ActiveRecord)
        /\ events' = Append(events, x)
    BY <1>0, <1>1, FinishRenewShape DEF Locked
  <1>3. old \in DOMAIN certs /\ job.walk.root = old
    BY <1>0, <1>2 DEF JobShape
  <1>4. /\ ~Live(old)
        /\ CascadeOf(old) # {} => Len(events) \in CascadeOf(old)
    BY <1>2, <1>3 DEF EventOrderInv, CascadeInOrder, RootEnds
  <1>5. \A l \in DOMAIN certs : records'[l] = records[l]
    BY <1>1, <1>2 DEF Put, Issues, TypeOK
  <1>6. TreeGrows
    BY <1>1, <1>2, <1>5, IssuedGrows
  <1>7. id \in LeaseIds /\ old \in LeaseIds /\ id \in DOMAIN certs'
    BY <1>1, <1>2, <1>3 DEF Issues, TypeOK
  <1>8. x \in Entries /\ x.lease = id /\ x.kind = "LeaseRenewed" /\ x.related = old
    BY <1>0, <1>7, EntryType DEF EventKinds
  <1>9. EventOK(x)'
    BY <1>3, <1>4, <1>6, <1>7, <1>8 DEF EventOK, TreeGrows
  <1>10. \A r : OfCascade(x, r) => r = old
    BY <1>8 DEF OfCascade
  <1>11. LogInOrder'
    BY <1>1, <1>2, <1>4, <1>6, <1>8, <1>9, <1>10, PushOne
  <1> QED
    BY <1>2, <1>11 DEF EventOrderInv

(* The lease an operation without a loop logs events for. *)
LEMMA AtomicPush ==
    ASSUME NEW l \in DOMAIN certs', l \notin DOMAIN log \/ log'[l] # log[l],
           \A m \in DOMAIN certs' \ {l} : m \in DOMAIN log /\ log'[m] = log[m],
           LET k   == CHOOSE m \in DOMAIN certs' : m \notin DOMAIN log \/ log'[m] # log[m]
               old == IF k \in DOMAIN log THEN Len(log[k]) ELSE 0
           IN  events' = events \o [i \in 1 .. Len(log'[k]) - old |-> Entry(k, log'[k][old + i])]
    PROVE  LET old == IF l \in DOMAIN log THEN Len(log[l]) ELSE 0
           IN  events' = events \o [i \in 1 .. Len(log'[l]) - old |-> Entry(l, log'[l][old + i])]
  <1> DEFINE k == CHOOSE m \in DOMAIN certs' : m \notin DOMAIN log \/ log'[m] # log[m]
  <1>1. k \in DOMAIN certs' /\ (k \notin DOMAIN log \/ log'[k] # log[k])
    OBVIOUS
  <1>2. k = l
    BY <1>1
  <1> QED
    BY <1>2

LEMMA DelegateOrder ==
    ASSUME EventOrderInv, Atomic(DelegateSome)
    PROVE  EventOrderInv'
  <1>1. ShapeInv /\ TypeOK /\ IssuedInOrder /\ LogInOrder
    BY DEF EventOrderInv, ShapeInv
  <1>2. ShapeInv' /\ TypeOK' /\ ~Locked' /\ rank' = rank
    BY <1>1, AtomicShape DEF ShapeInv, Locked
  <1>3. PICK parent \in DOMAIN certs, child \in Agents, key \in Keys, terms \in Offers,
             id \in NewLeaseIds, now \in Samples :
                Delegate(parent, records[parent].generation, child, key, terms, id, now)
    BY DEF Atomic, DelegateSome
  <1>4. /\ Issues(id, DelegatedCertificate(parent, child, terms))
        /\ \A l \in DOMAIN certs : records'[l] = records[l]
    BY <1>1, <1>3, DelegateIssues
  <1>5. TreeGrows
    BY <1>1, <1>2, <1>4, IssuedGrows
  <1>6. /\ id \in LeaseIds \ DOMAIN certs /\ id \in DOMAIN certs'
        /\ parent \in LeaseIds /\ parent \in DOMAIN certs'
        /\ DOMAIN log = DOMAIN certs /\ DOMAIN certs' = DOMAIN certs \cup {id}
    BY <1>1, <1>4 DEF Issues, TypeOK
  <1> DEFINE a == Event("IdentityRegistered", parent)
             b == Event("LeaseDelegated", parent)
             t == [i \in 1 .. 2 |-> Entry(id, log'[id][i])]
  <1>7. log'[id] = <<a, b>> /\ \A m \in DOMAIN certs : log'[m] = log[m]
    BY <1>3, <1>6 DEF Delegate, Put
  <1>8. events' = events \o t
    <2>1. events' = events \o [i \in 1 .. Len(log'[id]) - 0 |-> Entry(id, log'[id][0 + i])]
      BY <1>6, <1>7, AtomicPush DEF Atomic
    <2>2. Len(log'[id]) - 0 = 2
      BY <1>7
    <2>3. \A i \in 1 .. 2 : 0 + i = i
      OBVIOUS
    <2>4. \A i \in 1 .. 2 : Entry(id, log'[id][0 + i]) = Entry(id, log'[id][i])
      BY <2>3
    <2>5. [i \in 1 .. 2 |-> Entry(id, log'[id][0 + i])] = t
      BY <2>4, Zenon
    <2> QED BY <2>1, <2>2, <2>5
  <1>9. /\ Entry(id, a) \in Entries /\ Entry(id, a).kind = "IdentityRegistered"
        /\ Entry(id, b) \in Entries /\ Entry(id, b).kind = "LeaseDelegated"
        /\ Entry(id, a).lease = id /\ Entry(id, b).lease = id
        /\ Entry(id, a).related = parent /\ Entry(id, b).related = parent
    BY <1>6, EntryType DEF EventKinds
  <1>10. PICK x, y : x = Entry(id, a) /\ y = Entry(id, b)
    OBVIOUS
  <1>15. EventOK(x)' /\ EventOK(y)'
    BY <1>6, <1>9, <1>10 DEF EventOK
  <1>11. t[1] = Entry(id, a) /\ t[2] = Entry(id, b)
    BY <1>7
  <1> HIDE DEF a, b
  <1>12. t \in Seq(Entries) /\ DOMAIN t = 1 .. 2
    <2>1. t \in [1 .. 2 -> Entries]
      BY <1>9, <1>11
    <2> QED BY <2>1
  <1> HIDE DEF t
  <1>13. \A i \in DOMAIN t : t[i] = x \/ t[i] = y
    BY <1>10, <1>11, <1>12
  <1>14. LogInOrder'
    <2>1. PICK u : u = t
      OBVIOUS
    <2>2. \A i \in DOMAIN u : /\ EventOK(u[i])'
                              /\ u[i].kind \notin {"LeaseRevoked", "LeaseExpired", "LeaseRenewed"}
      <3> TAKE i \in DOMAIN u
      <3>1. PICK e : e = u[i]
        OBVIOUS
      <3>2. e = x \/ e = y
        BY <1>13, <2>1, <3>1
      <3>3. EventOK(e)' /\ e.kind \notin {"LeaseRevoked", "LeaseExpired", "LeaseRenewed"}
        BY <1>9, <1>10, <1>15, <3>2
      <3> QED BY <3>1, <3>3
    <2> QED BY <1>1, <1>5, <1>8, <1>12, <2>1, <2>2, PushPlain
  <1> QED
    BY <1>2, <1>14 DEF EventOrderInv

LEMMA MoveOrder ==
    ASSUME EventOrderInv, Atomic(PauseSome) \/ Atomic(ResumeSome)
    PROVE  EventOrderInv'
  <1>1. ShapeInv /\ TypeOK /\ LogInOrder
    BY DEF EventOrderInv, ShapeInv
  <1>2. ShapeInv' /\ TypeOK' /\ ~Locked' /\ rank' = rank
    BY <1>1, AtomicShape DEF ShapeInv, Locked
  <1>3. PICK l \in DOMAIN certs, kind \in {"LeasePaused", "LeaseResumed"},
             from \in LiveStates, to \in LiveStates :
                \E expected, now : Transition(l, expected, from, to, kind, now)
    <2>1. CASE Atomic(PauseSome)
      BY <2>1, Zenon DEF Atomic, PauseSome, Bounded, Pause, LiveStates
    <2>2. CASE Atomic(ResumeSome)
      BY <2>2, Zenon DEF Atomic, ResumeSome, Bounded, Resume, LiveStates
    <2> QED BY <2>1, <2>2
  <1>4. PICK a : a = Event(kind, NoLease)
    OBVIOUS
  <1>5. /\ certs' = certs /\ records' = [records EXCEPT ![l] = Moved(@, to)]
        /\ log' = [log EXCEPT ![l] = Append(@, a)] /\ Live(l)
    BY <1>3, <1>4 DEF Transition, MayTransition, Live
  <1>6. \A m \in DOMAIN certs : Live(m)' => Live(m)
    BY <1>1, <1>5 DEF Live, TypeOK
  <1>7. /\ DOMAIN log = DOMAIN certs /\ log[l] \in Seq(Events) /\ l \in LeaseIds
        /\ \A m \in DOMAIN certs \ {l} : log'[m] = log[m]
        /\ log'[l] = Append(log[l], a)
    BY <1>1, <1>5 DEF TypeOK
  <1>8. a \in Events
    BY <1>4, EventType DEF EventKinds
  <1>9. PICK n : n = Len(log[l])
    OBVIOUS
  <1>10. /\ n \in Nat /\ Len(log'[l]) = n + 1 /\ log'[l][n + 1] = a /\ log'[l] # log[l]
    BY <1>7, <1>8, <1>9
  <1>11. PICK x : x = Entry(l, a)
    OBVIOUS
  <1>12. events' = events \o [i \in 1 .. Len(log'[l]) - n |-> Entry(l, log'[l][n + i])]
    BY <1>5, <1>7, <1>9, <1>10, AtomicPush DEF Atomic
  <1>13. events' = events \o [i \in 1 .. 1 |-> x]
    <2>1. Len(log'[l]) - n = 1
      BY <1>10
    <2>2. \A i \in 1 .. 1 : n + i = n + 1
      BY <1>10
    <2>3. \A i \in 1 .. 1 : Entry(l, log'[l][n + i]) = x
      BY <1>10, <1>11, <2>2
    <2>4. [i \in 1 .. 1 |-> Entry(l, log'[l][n + i])] = [i \in 1 .. 1 |-> x]
      BY <2>3, Zenon
    <2> QED BY <1>12, <2>1, <2>4
  <1>14. x \in Entries /\ x.lease = l /\ x.kind = kind /\ x.related = NoLease
    BY <1>4, <1>7, <1>11, EntryType DEF EventKinds
  <1>15. EventOK(x)'
    BY <1>5, <1>14 DEF EventOK
  <1>16. PICK t : t = [i \in 1 .. 1 |-> x]
    OBVIOUS
  <1>17. t \in Seq(Entries) /\ \A i \in DOMAIN t : t[i] = x
    <2>1. t \in [1 .. 1 -> Entries]
      BY <1>14, <1>16
    <2> QED BY <1>16, <2>1
  <1>18. \A i \in DOMAIN t : /\ EventOK(t[i])'
                             /\ t[i].kind \notin {"LeaseRevoked", "LeaseExpired", "LeaseRenewed"}
    BY <1>14, <1>15, <1>17
  <1>19. TreeGrows
    BY <1>1, <1>2, <1>5, <1>6, TreeSame
  <1>20. LogInOrder'
    BY <1>1, <1>13, <1>16, <1>17, <1>18, <1>19, PushPlain
  <1> QED
    BY <1>2, <1>20 DEF EventOrderInv

LEMMA IdleOrder ==
    ASSUME EventOrderInv, ShapeInv', UNCHANGED <<kernelVars, rank, events, job>>
    PROVE  EventOrderInv'
  <1>1. ShapeInv /\ TypeOK /\ LogInOrder
    BY DEF EventOrderInv, ShapeInv
  <1>2. certs' = certs /\ records' = records /\ rank' = rank /\ events' = events /\ job' = job
    BY DEF kernelVars
  <1>3. LogInOrder' /\ \A r : CascadeOf(r)' = CascadeOf(r) /\ RevokedBy(r)' = RevokedBy(r)
    BY <1>1, <1>2, QuietStep DEF Live
  <1>4. /\ \A l, m : Before(l, m)' <=> Before(l, m)
        /\ \A s : InOrder(s)' <=> InOrder(s)
        /\ \A walk : WalkInOrder(walk)' <=> WalkInOrder(walk)
    BY <1>1, <1>2, TreeSame DEF Live
  <1>5. ASSUME CascadeInOrder PROVE CascadeInOrder'
    <2>1. PICK r, todo, walk : r = job.walk.root /\ todo = job.todo /\ walk = job.walk
      OBVIOUS
    <2>2. job.op # "revoke" \/ (job.at = "revoke" /\ r \notin Elements(todo)) => ~Live(r)'
      BY <1>2, <1>5, <2>1 DEF CascadeInOrder, RootEnds, Live
    <2>3. CascadeOf(r)' # {} => Len(events') \in CascadeOf(r)'
      BY <1>2, <1>3, <1>5, <2>1 DEF CascadeInOrder
    <2>4. IF job.at = "walk" THEN WalkInOrder(walk)' /\ RevokedBy(r)' = {}
          ELSE /\ InOrder(todo)'
               /\ \A i \in RevokedBy(r)', l \in Elements(todo) : \A k :
                     k = events'[i].lease => Before(k, l)'
      BY <1>2, <1>3, <1>4, <1>5, <2>1 DEF CascadeInOrder
    <2> QED BY <1>2, <2>1, <2>2, <2>3, <2>4, CascadeInOrderNext
  <1> QED
    BY <1>2, <1>3, <1>5 DEF EventOrderInv, Locked

LEMMA InitOrder == LoopInit => EventOrderInv
  <1> SUFFICES ASSUME LoopInit PROVE EventOrderInv
    OBVIOUS
  <1>1. ShapeInv /\ ~Locked
    BY InitShape DEF LoopInit, Locked
  <1>2. PICK id \in LeaseIds : Bootstrap(id)
    BY DEF LoopInit, Init
  <1> DEFINE a == Event("IdentityRegistered", NoLease)
             b == Event("LeaseIssued", NoLease)
  <1>3. log[rootLease] = <<a, b>> /\ rootLease = id /\ DOMAIN certs = {id}
    BY <1>2 DEF Bootstrap
  <1>4. events = [i \in 1 .. 2 |-> Entry(id, <<a, b>>[i])]
    BY <1>3 DEF LoopInit
  <1>5. /\ Entry(id, a) \in Entries /\ Entry(id, a).kind = "IdentityRegistered"
        /\ Entry(id, b) \in Entries /\ Entry(id, b).kind = "LeaseIssued"
        /\ Entry(id, a).lease = id /\ Entry(id, b).lease = id
        /\ Entry(id, a).related = NoLease /\ Entry(id, b).related = NoLease
    BY EntryType DEF EventKinds
  <1>6. DOMAIN events = 1 .. 2 /\ events[1] = Entry(id, a) /\ events[2] = Entry(id, b)
    BY <1>4
  <1> HIDE DEF a, b
  <1>7. events \in Seq(Entries)
    <2>1. events \in [1 .. 2 -> Entries]
      BY <1>4, <1>5, <1>6
    <2>2. \A n \in Nat : \A s \in [1 .. n -> Entries] : s \in Seq(Entries)
      OBVIOUS
    <2> QED BY <2>1, <2>2
  <1>8. \A i \in DOMAIN events : /\ events[i].kind \in {"IdentityRegistered", "LeaseIssued"}
                                 /\ events[i].lease = id /\ events[i].related = NoLease
    BY <1>5, <1>6
  <1>9. \A i \in DOMAIN events : EventOK(events[i])
    BY <1>3, <1>8 DEF EventOK
  <1>10. CascadeIsRootFirst /\ CascadesAreContiguous
    BY <1>8 DEF CascadeIsRootFirst, CascadesAreContiguous, CascadeOf
  <1> QED
    BY <1>1, <1>7, <1>9, <1>10 DEF EventOrderInv, LogInOrder

LEMMA OrderStep == EventOrderInv /\ [LoopNext]_lvars => EventOrderInv'
  <1> SUFFICES ASSUME EventOrderInv, [LoopNext]_lvars PROVE EventOrderInv'
    OBVIOUS
  <1>1. CASE StartSome
    BY <1>1, StartRevokeOrder, StartRefreshOrder, StartRenewOrder DEF StartSome
  <1>2. CASE LoopStep
    BY <1>2, WalkOnOrder, RevokeOnOrder, DueOnOrder, ReturnOrder, FinishRenewOrder DEF LoopStep
  <1>3. CASE Atomic(DelegateSome) \/ Atomic(PauseSome) \/ Atomic(ResumeSome)
    BY <1>3, DelegateOrder, MoveOrder
  <1>4. CASE UNCHANGED <<kernelVars, rank, events, job>>
    <2>1. ShapeInv'
      BY ShapeStep DEF EventOrderInv
    <2> QED BY <1>4, <2>1, IdleOrder
  <1> QED
    BY <1>1, <1>2, <1>3, <1>4 DEF LoopNext, lvars, vars, kernelVars, Tick

LEMMA OrderInvariant == LoopSpec => []EventOrderInv
  BY InitOrder, OrderStep, PTL DEF LoopSpec

(* A cascade is logged root first and level by level, each level in id order
   below each parent: the queue of descendants_including puts the children of a
   lease behind all of the level above them. *)
THEOREM CascadesAreRootFirst == LoopSpec => []CascadeIsRootFirst
  <1>1. EventOrderInv => CascadeIsRootFirst
    BY DEF EventOrderInv, LogInOrder
  <1> QED
    BY <1>1, OrderInvariant, PTL

(* The log is evidence of one operation after the other: the events of one
   cascade and the event of its cause are next to each other. *)
THEOREM CascadesStayContiguous == LoopSpec => []CascadesAreContiguous
  <1>1. EventOrderInv => CascadesAreContiguous
    BY DEF EventOrderInv, LogInOrder
  <1> QED
    BY <1>1, OrderInvariant, PTL
-----------------------------------------------------------------------------
(***************************************************************************)
(* The kernel the loops implement, operator by operator.                   *)
(***************************************************************************)
LEMMA KernelCardinality == \A S : Kernel!Cardinality(S) = Cardinality(S)
  BY DEF Cardinality, Kernel!Cardinality

LEMMA KernelTree ==
    /\ \A l : Kernel!Chain(l) = Chain(l)
    /\ \A l : Kernel!DescendantsIncluding(l) = DescendantsIncluding(l)
    /\ Kernel!NewLeaseIds = NewLeaseIds
  BY DEF Chain, Kernel!Chain, ClosedUnderParents, Kernel!ClosedUnderParents,
         DescendantsIncluding, Kernel!DescendantsIncluding, ClosedUnderChildren,
         Kernel!ClosedUnderChildren, NewLeaseIds, Kernel!NewLeaseIds, Unused, Kernel!Unused

LEMMA KernelCapabilities ==
    /\ \A a, b : Kernel!AuthorityIsSubsetOf(a, b) <=> AuthorityIsSubsetOf(a, b)
    /\ \A t : Kernel!ValidateAuthoritySets(t) <=> ValidateAuthoritySets(t)
    /\ \A t : Kernel!ValidateManifest(t) <=> ValidateManifest(t)
    /\ \A t, u : Kernel!ValidateManifestAttenuation(t, u) <=> ValidateManifestAttenuation(t, u)
  BY DEF AuthorityIsSubsetOf, Kernel!AuthorityIsSubsetOf, ValidateAuthoritySets,
         Kernel!ValidateAuthoritySets, ValidateManifest, Kernel!ValidateManifest,
         ValidateManifestAttenuation, Kernel!ValidateManifestAttenuation

LEMMA KernelIdentities ==
    /\ \A a : Kernel!ValidateIdentityChain(a) <=> ValidateIdentityChain(a)
    /\ \A p, c : Kernel!ValidateParentChild(p, c) <=> ValidateParentChild(p, c)
    /\ \A a, k : Kernel!IdentityIsNew(a, k) <=> IdentityIsNew(a, k)
    /\ \A p : Kernel!DepthAllowsChild(p) <=> DepthAllowsChild(p)
    /\ \A p, t, now : Kernel!ValidateDelegationRequest(p, t, now) <=> ValidateDelegationRequest(p, t, now)
  <1>1. \A a : Kernel!IdentityChain(a) = IdentityChain(a)
    BY DEF IdentityChain, Kernel!IdentityChain, ClosedUnderIssuers, Kernel!ClosedUnderIssuers
  <1>2. \A a : Kernel!ValidateIdentityChain(a) <=> ValidateIdentityChain(a)
    BY <1>1, KernelCardinality DEF ValidateIdentityChain, Kernel!ValidateIdentityChain
  <1>3. \A p, c : Kernel!ValidateParentChild(p, c) <=> ValidateParentChild(p, c)
    BY KernelCapabilities DEF ValidateParentChild, Kernel!ValidateParentChild
  <1>4. \A p, t, now : Kernel!ValidateDelegationRequest(p, t, now) <=> ValidateDelegationRequest(p, t, now)
    BY KernelCapabilities DEF ValidateDelegationRequest, Kernel!ValidateDelegationRequest
  <1> QED
    BY <1>2, <1>3, <1>4, KernelTree, KernelCardinality
       DEF IdentityIsNew, Kernel!IdentityIsNew, DepthAllowsChild, Kernel!DepthAllowsChild

(* Between two operations the kernel shows the records themselves. *)
LEMMA KernelUnlocked ==
    ASSUME ~Locked
    PROVE  /\ Visible.records = records /\ Visible.log = log
           /\ \A l : Kernel!Live(l) <=> Live(l)
           /\ \A l, g : Kernel!RequireGeneration(l, g) <=> RequireGeneration(l, g)
           /\ \A l, now : Kernel!ValidateActiveRecord(l, now) <=> ValidateActiveRecord(l, now)
           /\ \A l, now : Kernel!ValidateChain(l, now) <=> ValidateChain(l, now)
           /\ \A l, g, t, now : Kernel!MayRenew(l, g, t, now) <=> MayRenew(l, g, t, now)
  <1>1. Visible.records = records /\ Visible.log = log
    BY DEF Visible
  <1>2. /\ \A l, g : Kernel!RequireGeneration(l, g) <=> RequireGeneration(l, g)
        /\ \A l, now : Kernel!ValidateActiveRecord(l, now) <=> ValidateActiveRecord(l, now)
        /\ \A l : Kernel!Live(l) <=> Live(l)
    BY <1>1 DEF RequireGeneration, Kernel!RequireGeneration, ValidateActiveRecord,
                Kernel!ValidateActiveRecord, Live, Kernel!Live, LiveStates, Kernel!LiveStates
  <1>3. \A l : Kernel!ValidateCertificateEntry(l) <=> ValidateCertificateEntry(l)
    BY <1>1, KernelIdentities DEF ValidateCertificateEntry, Kernel!ValidateCertificateEntry, NoLease, Kernel!NoLease
  <1>4. \A l : Kernel!ChainIsSound(l) <=> ChainIsSound(l)
    BY <1>3, KernelTree, KernelIdentities, KernelCardinality
       DEF ChainIsSound, Kernel!ChainIsSound, NoLease, Kernel!NoLease
  <1>5. \A l, now : Kernel!ValidateChain(l, now) <=> ValidateChain(l, now)
    BY <1>2, <1>4, KernelTree DEF ValidateChain, Kernel!ValidateChain
  <1>6. \A l, t, now : Kernel!RenewalLifetime(l, t, now) <=> RenewalLifetime(l, t, now)
    BY <1>2 DEF RenewalLifetime, Kernel!RenewalLifetime, NoLease, Kernel!NoLease
  <1>7. \A l, t, now : Kernel!ValidateRenewalRequest(l, t, now) <=> ValidateRenewalRequest(l, t, now)
    BY <1>6, KernelCapabilities DEF ValidateRenewalRequest, Kernel!ValidateRenewalRequest
  <1>8. \A l, g, t, now : Kernel!MayRenew(l, g, t, now) <=> MayRenew(l, g, t, now)
    BY <1>2, <1>5, <1>7 DEF MayRenew, Kernel!MayRenew
  <1> QED
    BY <1>1, <1>2, <1>5, <1>8

(* What renew has validated stays valid as long as nobody else can write. *)
LEMMA KernelKept ==
    ASSUME UNCHANGED <<certs, identities>>, Visible'.records = Visible.records
    PROVE  \A l, g, t, now : Kernel!MayRenew(l, g, t, now)' <=> Kernel!MayRenew(l, g, t, now)
  <1>1. /\ \A l : Kernel!Chain(l)' = Kernel!Chain(l)
        /\ \A l : Kernel!IdentityChain(l)' = Kernel!IdentityChain(l)
    BY DEF Kernel!Chain, Kernel!ClosedUnderParents, Kernel!IdentityChain, Kernel!ClosedUnderIssuers
  <1>2. /\ \A l, g : Kernel!RequireGeneration(l, g)' <=> Kernel!RequireGeneration(l, g)
        /\ \A l, now : Kernel!ValidateActiveRecord(l, now)' <=> Kernel!ValidateActiveRecord(l, now)
    BY DEF Kernel!RequireGeneration, Kernel!ValidateActiveRecord
  <1>3. \A a : Kernel!ValidateIdentityChain(a)' <=> Kernel!ValidateIdentityChain(a)
    BY <1>1 DEF Kernel!ValidateIdentityChain
  <1>4. \A l : Kernel!ValidateCertificateEntry(l)' <=> Kernel!ValidateCertificateEntry(l)
    BY <1>3 DEF Kernel!ValidateCertificateEntry, Kernel!ValidateIdentityChain,
        Kernel!IdentityChain, Kernel!ClosedUnderIssuers
  <1>5. \A p, c : Kernel!ValidateParentChild(p, c)' <=> Kernel!ValidateParentChild(p, c)
    BY DEF Kernel!ValidateParentChild
  <1>6. \A l : Kernel!ChainIsSound(l)' <=> Kernel!ChainIsSound(l)
    BY <1>1, <1>4, <1>5 DEF Kernel!ChainIsSound
  <1>7. \A l, now : Kernel!ValidateChain(l, now)' <=> Kernel!ValidateChain(l, now)
    BY <1>1, <1>2, <1>6 DEF Kernel!ValidateChain
  <1>8. \A l, t, now : Kernel!RenewalLifetime(l, t, now)' <=> Kernel!RenewalLifetime(l, t, now)
    BY <1>2 DEF Kernel!RenewalLifetime
  <1>9. \A l, t, now : Kernel!ValidateRenewalRequest(l, t, now)' <=> Kernel!ValidateRenewalRequest(l, t, now)
    BY <1>8 DEF Kernel!ValidateRenewalRequest
  <1> QED
    BY <1>2, <1>7, <1>9 DEF Kernel!MayRenew
-----------------------------------------------------------------------------
(***************************************************************************)
(* Whom a cascade strikes.                                                 *)
(***************************************************************************)
(* The leases below d are those that have d on their chain. *)
LEMMA BelowIsAbove ==
    ASSUME NEW d \in DOMAIN certs, NEW m \in DOMAIN certs
    PROVE  m \in DescendantsIncluding(d) <=> d \in Chain(m)
  <1>1. ASSUME d \in Chain(m), NEW S \in SUBSET DOMAIN certs, d \in S, ClosedUnderChildren(S)
        PROVE  m \in S
    <2> DEFINE T == DOMAIN certs \ S
    <2>1. ClosedUnderParents(T)
      BY <1>1 DEF ClosedUnderParents, ClosedUnderChildren
    <2>2. m \in T => Chain(m) \subseteq T
      BY <2>1, ChainLeast
    <2> QED BY <1>1, <2>2
  <1>2. d \in Chain(m) => m \in DescendantsIncluding(d)
    BY <1>1 DEF DescendantsIncluding
  <1>3. ASSUME m \in DescendantsIncluding(d) PROVE d \in Chain(m)
    <2> DEFINE S == {l \in DOMAIN certs : d \in Chain(l)}
    <2>1. d \in S
      BY LeafInChain
    <2>2. ClosedUnderChildren(S)
      BY ChainOfParent DEF ClosedUnderChildren
    <2>3. DescendantsIncluding(d) \subseteq S
      BY <2>1, <2>2, DescendantsLeast
    <2> QED BY <1>3, <2>3
  <1> QED
    BY <1>2, <1>3

LEMMA ChainOfChain ==
    ASSUME NEW m \in DOMAIN certs, NEW l \in Chain(m)
    PROVE  Chain(l) \subseteq Chain(m)
  <1>1. Chain(m) \in SUBSET DOMAIN certs /\ ClosedUnderParents(Chain(m))
    BY ChainClosed DEF Chain, ClosedUnderParents
  <1> QED
    BY <1>1, ChainLeast

(* The first started cascade on a chain, in the order of the ids, is unique. *)
LEMMA FirstIs ==
    ASSUME RankOK, TypeOK, NEW done, NEW l \in DOMAIN certs, Chain(l) \cap done # {}
    PROVE  /\ First(done, l) \in Chain(l) \cap done
           /\ \A e \in Chain(l) \cap done : rank[First(done, l)] <= rank[e]
           /\ \A d \in Chain(l) \cap done :
                 (\A e \in Chain(l) \cap done : rank[d] <= rank[e]) => d = First(done, l)
  <1> DEFINE S == Chain(l) \cap done
             d == First(done, l)
  <1>1. S \in SUBSET LeaseIds /\ rank \in [LeaseIds -> Nat]
    BY DEF Chain, TypeOK, RankOK
  <1>2. \E x \in S : \A e \in S : rank[x] <= rank[e]
    BY <1>1, FirstInSweep
  <1>3. d \in S /\ \A e \in S : rank[d] <= rank[e]
    BY <1>2 DEF First
  <1>4. ASSUME NEW x \in S, \A e \in S : rank[x] <= rank[e] PROVE x = d
    <2>1. rank[x] <= rank[d] /\ rank[d] <= rank[x] /\ rank[x] \in Nat /\ rank[d] \in Nat
      BY <1>1, <1>3, <1>4
    <2>2. rank[x] = rank[d]
      BY <2>1
    <2> QED BY <1>1, <1>3, <2>2 DEF RankOK
  <1> QED
    BY <1>3, <1>4

LEMMA FirstOfOne ==
    ASSUME RankOK, TypeOK, NEW d, NEW l \in DOMAIN certs, Chain(l) \cap {d} # {}
    PROVE  First({d}, l) = d /\ d \in Chain(l)
  BY FirstIs

(* A cascade that starts later does not take a lease from an earlier one. *)
LEMMA FirstKept ==
    ASSUME RankOK, TypeOK, NEW done \in SUBSET DOMAIN certs, NEW x \in DOMAIN certs,
           \A d \in done : rank[d] < rank[x], NEW l \in DOMAIN certs
    PROVE  /\ Chain(l) \cap done # {} => First(done \cup {x}, l) = First(done, l)
           /\ Chain(l) \cap done = {} /\ x \in Chain(l) => First(done \cup {x}, l) = x
  <1> DEFINE S == Chain(l) \cap done
             T == Chain(l) \cap (done \cup {x})
  <1>1. rank[x] \in Nat /\ \A d \in done : rank[d] \in Nat
    BY DEF RankOK, TypeOK
  <1>2. ASSUME S # {} PROVE First(done \cup {x}, l) = First(done, l)
    <2>1. PICK d : d = First(done, l)
      OBVIOUS
    <2>2. d \in S /\ \A e \in S : rank[d] <= rank[e]
      BY <1>2, <2>1, FirstIs
    <2>3. d \in T /\ \A e \in T : rank[d] <= rank[e]
      BY <1>1, <2>2
    <2>4. d = First(done \cup {x}, l)
      BY <2>3, FirstIs
    <2> QED BY <2>1, <2>4
  <1>3. ASSUME S = {}, x \in Chain(l) PROVE First(done \cup {x}, l) = x
    <2>1. T = {x}
      BY <1>3
    <2> QED BY <2>1, FirstIs
  <1> QED
    BY <1>2, <1>3

LEMMA FirstSame ==
    ASSUME UNCHANGED <<certs, rank>>
    PROVE  \A done, l : Chain(l)' = Chain(l) /\ First(done, l)' = First(done, l)
  <1>1. \A l : Chain(l)' = Chain(l)
    BY DEF Chain, ClosedUnderParents
  <1> QED
    BY <1>1 DEF First
-----------------------------------------------------------------------------
(***************************************************************************)
(* What has become of each lease, step by step.                            *)
(***************************************************************************)
LEMMA StatusNext ==
    ASSUME NEW due \in SUBSET DOMAIN certs', Collected(due)',
           NEW done, done = due \ Elements(job'.due),
           \A l \in DOMAIN certs' : LeaseOK(done, l)', RenewalAllowed'
    PROVE  JobStatus'
  BY DEF JobStatus, Started

(* The parts of the kernel that a job looks at are those it found. *)
LEMMA AllowedKept ==
    ASSUME TypeOK, RenewalAllowed, Locked, Locked', UNCHANGED <<certs, identities>>,
           clock' \in Nat, clock <= clock',
           job'.op = job.op, job'.lease = job.lease, job'.terms = job.terms,
           job'.records = job.records
    PROVE  RenewalAllowed'
  <1>1. Visible.records = job.records /\ Visible'.records = job.records
    BY DEF Visible
  <1>2. ASSUME job.op = "renew" PROVE RenewalAllowed'
    <2>1. PICK now \in 0 .. clock :
              Kernel!MayRenew(job.lease, job.records[job.lease].generation, job.terms, now)
      BY <1>2 DEF RenewalAllowed
    <2>2. PICK l, g, t : l = job.lease /\ g = job.records[job.lease].generation /\ t = job.terms
      OBVIOUS
    <2>3. Kernel!MayRenew(l, g, t, now)'
      BY <1>1, <2>1, <2>2, KernelKept
    <2>4. now \in 0 .. clock'
      BY DEF TypeOK
    <2> QED BY <2>2, <2>3, <2>4 DEF RenewalAllowed
  <1> QED
    BY <1>2 DEF RenewalAllowed

LEMMA StartRevokeStatus ==
    ASSUME ShapeInv, NEW l \in DOMAIN certs, NEW expected, StartRevoke(l, expected)
    PROVE  JobStatus'
  <1>1. /\ ShapeInv' /\ job'.op = "revoke" /\ job'.lease = l /\ job'.due = <<>>
        /\ job'.walk = Walk(l) /\ job'.at = "walk" /\ job'.todo = <<>>
        /\ job'.records = records /\ job'.log = log
    BY StartRevokeShape
  <1>2. Live(l) /\ UNCHANGED <<certs, records, log, rank>>
    BY DEF StartRevoke, MayRevoke, vars
  <1>3. TypeOK /\ RankOK /\ Walk(l).root = l /\ Elements(<<>>) = {}
    BY NothingDue DEF ShapeInv, Walk
  <1>4. Collected({l})'
    BY <1>1, <1>2, <1>3 DEF Collected, Started, WasLive, Live, Ascending
  <1>5. ASSUME NEW m \in DOMAIN certs PROVE LeaseOK({l}, m)'
    <2>1. First({l}, m)' = First({l}, m) /\ Chain(m)' = Chain(m)
      BY <1>2, FirstSame
    <2>2. Chain(m) \cap {l} # {} => First({l}, m) = l
      BY <1>3, FirstOfOne
    <2> QED BY <1>1, <1>2, <1>3, <2>1, <2>2 DEF LeaseOK, Struck, Waits
  <1>6. RenewalAllowed'
    BY <1>1 DEF RenewalAllowed
  <1>7. {l} = {l} \ Elements(job'.due) /\ {l} \in SUBSET DOMAIN certs'
    BY <1>1, <1>2, <1>3
  <1> QED
    BY <1>2, <1>4, <1>5, <1>6, <1>7, StatusNext

LEMMA StartRefreshStatus ==
    ASSUME ShapeInv, NEW now \in 0 .. clock, StartRefresh(now)
    PROVE  JobStatus'
  <1>1. /\ ShapeInv' /\ job'.op = "refresh" /\ job'.due = Sorted(Due(now))
        /\ job'.at = "due" /\ job'.todo = <<>> /\ job'.records = records /\ job'.log = log
    BY StartRefreshShape
  <1>2. Due(now) # {} /\ UNCHANGED <<certs, records, log, rank, clock>>
    BY DEF StartRefresh, vars
  <1>3. PICK due : due = Due(now)
    OBVIOUS
  <1>4. TypeOK /\ RankOK /\ due \in SUBSET LeaseIds /\ due \subseteq DOMAIN certs
    BY <1>3, DueIds DEF ShapeInv
  <1>5. Elements(job'.due) = due /\ Ascending(job'.due)
    BY <1>1, <1>3, <1>4, SortedFacts
  <1>6. due = DueThen(now)'
    BY <1>1, <1>2, <1>3 DEF DueThen, Due, Live, WasLive
  <1>7. Collected(due)'
    <2>1. \A d \in due : WasLive(d)'
      BY <1>1, <1>3 DEF Due, Live, WasLive
    <2>2. Ascending(job.due)'
      BY <1>2, <1>5 DEF Ascending
    <2>3. Started(due)' = {}
      BY <1>5 DEF Started
    <2>4. \E t \in 0 .. clock' : due = DueThen(t)'
      BY <1>2, <1>6
    <2> QED BY <1>1, <1>2, <1>3, <1>4, <1>5, <2>1, <2>2, <2>3, <2>4 DEF Collected
  <1>8. \A l \in DOMAIN certs' : LeaseOK({}, l)'
    BY <1>1, <1>2 DEF LeaseOK, Struck
  <1>9. RenewalAllowed'
    BY <1>1 DEF RenewalAllowed
  <1> QED
    BY <1>2, <1>4, <1>5, <1>7, <1>8, <1>9, StatusNext

LEMMA StartRenewStatus ==
    ASSUME ShapeInv, NEW old \in DOMAIN certs, NEW expected, NEW terms \in Offers,
           NEW id \in NewLeaseIds, NEW now \in 0 .. clock,
           expected = records[old].generation, StartRenew(old, expected, terms, id, now)
    PROVE  JobStatus'
  <1>1. /\ ShapeInv' /\ job'.op = "renew" /\ job'.lease = old /\ job'.id = id
        /\ job'.terms = terms /\ job'.due = <<>> /\ job'.walk = Walk(old)
        /\ job'.at = "walk" /\ job'.todo = <<>> /\ job'.records = records /\ job'.log = log
        /\ records'[old] = Retired(records[old], id)
        /\ \A l \in DOMAIN certs \ {old} : records'[l] = records[l]
    BY StartRenewShape
  <1>2. /\ ~Locked /\ MayRenew(old, expected, terms, now) /\ Live(old)
        /\ UNCHANGED <<certs, identities, log, rank, clock>>
    BY DEF StartRenew, MayRenew, ValidateActiveRecord, Live, LiveStates
  <1>3. TypeOK /\ RankOK /\ Walk(old).root = old /\ Elements(<<>>) = {}
    BY NothingDue DEF ShapeInv, Walk
  <1>4. Collected({old})'
    BY <1>1, <1>2, <1>3 DEF Collected, Started, WasLive, Live, Ascending
  <1>5. ASSUME NEW m \in DOMAIN certs PROVE LeaseOK({old}, m)'
    <2>1. First({old}, m)' = First({old}, m) /\ Chain(m)' = Chain(m)
      BY <1>2, FirstSame
    <2>2. Chain(m) \cap {old} # {} => First({old}, m) = old
      BY <1>3, FirstOfOne
    <2>3. old \in Chain(old)
      BY LeafInChain
    <2>4. CASE m = old
      BY <1>1, <1>2, <1>3, <2>1, <2>2, <2>3, <2>4
         DEF LeaseOK, Struck, Waits, EndRecord, EndLog, WasLive, Live
    <2>5. CASE m # old
      BY <1>1, <1>2, <1>3, <2>1, <2>2, <2>5 DEF LeaseOK, Struck, Waits
    <2> QED BY <2>4, <2>5
  <1>6. RenewalAllowed'
    <2>1. Locked'
      BY <1>1 DEF Locked, Free
    <2>2. Visible.records = records /\ Visible'.records = records
      BY <1>1, <1>2, <2>1 DEF Visible
    <2>3. Kernel!MayRenew(old, expected, terms, now)
      BY <1>2, KernelUnlocked
    <2>4. Kernel!MayRenew(old, expected, terms, now)'
      BY <1>2, <2>2, <2>3, KernelKept
    <2>5. expected = job'.records[job'.lease].generation
      BY <1>1
    <2> QED BY <1>1, <1>2, <2>4, <2>5 DEF RenewalAllowed
  <1>7. {old} = {old} \ Elements(job'.due) /\ {old} \in SUBSET DOMAIN certs'
    BY <1>1, <1>2, <1>3
  <1> QED
    BY <1>2, <1>4, <1>5, <1>6, <1>7, StatusNext

(* The leases a walk has found are those its root strikes first or later. *)
LEMMA WalkOnStatus ==
    ASSUME StatusInv, WalkOn
    PROVE  JobStatus'
  <1>1. ShapeInv /\ TypeOK /\ RankOK /\ Locked /\ JobStatus /\ job.at = "walk"
    BY DEF StatusInv, ShapeInv, WalkOn
  <1>2. /\ ShapeInv' /\ JobShape /\ WalkOK(job.walk) /\ job.walk \in Walks
        /\ job.walk.pending # <<>> /\ job'.walk = Visit(job.walk) /\ job'.due = job.due
        /\ job'.op = job.op /\ job'.lease = job.lease /\ job'.id = job.id
        /\ job'.terms = job.terms /\ job'.records = job.records /\ job'.log = job.log
        /\ \/ job'.at = "walk"
           \/ /\ job'.at = "revoke"
              /\ Elements(job'.todo) = IF job.op = "revoke"
                                       THEN DescendantsIncluding(job.walk.root)
                                       ELSE DescendantsIncluding(job.walk.root)
                                              \ {job.walk.root}
    BY <1>1, WalkOnShape
  <1>3. UNCHANGED <<certs, records, identities, log, clock, rank>>
    BY DEF WalkOn, vars
  <1>4. job'.walk.root = job.walk.root /\ job.walk.root \in DOMAIN certs
    BY <1>1, <1>2, VisitOK DEF WalkOK
  <1>5. PICK due \in SUBSET DOMAIN certs :
            Collected(due) /\ \A l \in DOMAIN certs : LeaseOK(Started(due), l)
    BY <1>1 DEF JobStatus
  <1>6. PICK done : done = Started(due)
    OBVIOUS
  <1>7. done = due \ Elements(job'.due) /\ Started(due)' = done
    BY <1>2, <1>6 DEF Started
  <1>8. Collected(due)'
    BY <1>1, <1>2, <1>3, <1>4, <1>5, <1>6, <1>7 DEF Collected, WasLive, Ascending, DueThen
  <1>9. ASSUME NEW l \in DOMAIN certs PROVE LeaseOK(done, l)'
    <2>1. First(done, l)' = First(done, l) /\ Chain(l)' = Chain(l)
      BY <1>3, FirstSame
    <2>2. Struck(done, l)' <=> Struck(done, l)
      BY <1>2, <2>1 DEF Struck, WasLive
    <2>3. ASSUME Struck(done, l), First(done, l) = job.walk.root,
                 l = job.walk.root => job.op = "revoke", job'.at = "revoke"
          PROVE  l \in Elements(job'.todo)
      <3>1. job.walk.root \in Chain(l)
        BY <1>1, <2>3, FirstIs DEF Struck
      <3>2. l \in DescendantsIncluding(job.walk.root)
        BY <1>4, <3>1, BelowIsAbove
      <3> QED BY <1>2, <2>3, <3>2
    <2>4. Struck(done, l) => (Waits(done, l)' <=> Waits(done, l))
      BY <1>1, <1>2, <1>4, <2>1, <2>3 DEF Waits
    <2>5. /\ EndRecord(First(done, l), l)' = EndRecord(First(done, l), l)
          /\ EndLog(First(done, l), l)' = EndLog(First(done, l), l)
      BY <1>2, <2>1 DEF EndRecord, EndLog
    <2>6. LeaseOK(done, l)
      BY <1>5, <1>6
    <2> QED BY <1>2, <1>3, <2>2, <2>4, <2>5, <2>6 DEF LeaseOK
  <1>10. Locked' /\ RenewalAllowed
    BY <1>1, <1>2 DEF JobStatus, Locked, Free, JobShape, Jobs
  <1>11. RenewalAllowed'
    BY <1>1, <1>2, <1>3, <1>10, AllowedKept DEF TypeOK
  <1> QED
    BY <1>3, <1>5, <1>7, <1>8, <1>9, <1>11, StatusNext

LEMMA EndsAreFinal ==
    \A d, l : EndRecord(d, l).state \notin LiveStates
  BY DEF EndRecord, Moved, Retired, LiveStates

LEMMA RevokeOnStatus ==
    ASSUME StatusInv, RevokeOn
    PROVE  JobStatus'
  <1>0. PICK x, root : x = Head(job.todo) /\ root = job.walk.root
    OBVIOUS
  <1>1. ShapeInv /\ TypeOK /\ RankOK /\ Locked /\ JobStatus
    BY DEF StatusInv, ShapeInv, RevokeOn
  <1>2. /\ ShapeInv' /\ JobShape /\ job.at = "revoke"
        /\ certs' = certs /\ rank' = rank /\ clock' = clock /\ identities' = identities
        /\ x \in DOMAIN certs /\ x \in Elements(job.todo)
        /\ Elements(job.todo) = {x} \cup Elements(job'.todo) /\ x \notin Elements(job'.todo)
        /\ job'.at = "revoke" /\ job'.walk = job.walk /\ job'.due = job.due
        /\ job'.op = job.op /\ job'.lease = job.lease /\ job'.id = job.id
        /\ job'.terms = job.terms /\ job'.records = job.records /\ job'.log = job.log
        /\ \A m \in DOMAIN certs \ {x} : records'[m] = records[m] /\ log'[m] = log[m]
        /\ \/ /\ Live(x)
              /\ records'[x] = Moved(records[x], "Revoked")
              /\ log'[x] = Append(log[x], Event("LeaseRevoked",
                                               IF x = root THEN NoLease ELSE root))
           \/ /\ ~Live(x)
              /\ records'[x] = records[x] /\ log'[x] = log[x]
    BY <1>0, <1>1, RevokeOnShape DEF CauseOf
  <1>3. PICK due \in SUBSET DOMAIN certs :
            Collected(due) /\ \A l \in DOMAIN certs : LeaseOK(Started(due), l)
    BY <1>1 DEF JobStatus
  <1>4. PICK done : done = Started(due)
    OBVIOUS
  <1>5. done = due \ Elements(job'.due) /\ Started(due)' = done
    BY <1>2, <1>4 DEF Started
  <1>6. Collected(due)'
    BY <1>1, <1>2, <1>3, <1>4, <1>5 DEF Collected, WasLive, Ascending, DueThen
  <1>7. /\ root \in DOMAIN certs /\ root \in done /\ x \in DescendantsIncluding(root)
        /\ x = root => job.op = "revoke"
    BY <1>0, <1>2, <1>3, <1>4 DEF JobShape, TodoOK, Collected
  <1>8. root \in Chain(x) \cap done
    BY <1>2, <1>7, BelowIsAbove
  <1>9. ASSUME NEW l \in DOMAIN certs PROVE LeaseOK(done, l)'
    <2>1. PICK d : d = First(done, l)
      OBVIOUS
    <2>2. First(done, l)' = d /\ Chain(l)' = Chain(l)
      BY <1>2, <2>1, FirstSame
    <2>3. Struck(done, l)' <=> Struck(done, l)
      BY <1>2, <2>2 DEF Struck, WasLive
    <2>4. EndRecord(d, l)' = EndRecord(d, l) /\ EndLog(d, l)' = EndLog(d, l)
      BY <1>2 DEF EndRecord, EndLog
    <2>5. LeaseOK(done, l)
      BY <1>3, <1>4
    <2>6. CASE l # x
      <3>1. Waits(done, l)' <=> Waits(done, l)
        BY <1>2, <2>1, <2>2, <2>6 DEF Waits
      <3> QED BY <1>2, <2>1, <2>2, <2>3, <2>4, <2>5, <2>6, <3>1 DEF LeaseOK
    <2>7. CASE l = x
      <3>1. ~Waits(done, l)'
        BY <1>2, <2>7 DEF Waits
      <3>2. Struck(done, l) <=> WasLive(l)
        BY <1>8, <2>7 DEF Struck
      <3>3. CASE ~WasLive(l)
        <4>1. records[l] = job.records[l] /\ log[l] = job.log[l] /\ ~Live(l)
          BY <2>5, <3>2, <3>3 DEF LeaseOK, WasLive, Live
        <4> QED BY <1>2, <2>3, <2>7, <3>2, <3>3, <4>1 DEF LeaseOK
      <3>4. CASE WasLive(l) /\ d = root
        <4>1. Waits(done, l)
          BY <1>0, <1>2, <1>7, <2>1, <2>7, <3>4 DEF Waits
        <4>2. records[l] = job.records[l] /\ log[l] = job.log[l] /\ Live(l)
          BY <2>5, <3>4, <4>1 DEF LeaseOK, WasLive, Live
        <4>3. records'[l] = EndRecord(d, l) /\ log'[l] = EndLog(d, l)
          BY <1>2, <1>7, <2>7, <3>4, <4>2 DEF EndRecord, EndLog
        <4> QED BY <2>2, <2>3, <2>4, <3>1, <3>2, <3>4, <4>3 DEF LeaseOK
      <3>5. CASE WasLive(l) /\ d # root
        <4>1. ~Waits(done, l)
          BY <1>0, <2>1, <3>5 DEF Waits
        <4>2. records[l] = EndRecord(d, l) /\ log[l] = EndLog(d, l)
          BY <2>1, <2>5, <3>2, <3>5, <4>1 DEF LeaseOK
        <4>3. ~Live(l)
          BY <4>2, EndsAreFinal DEF Live
        <4>4. records'[l] = EndRecord(d, l) /\ log'[l] = EndLog(d, l)
          BY <1>2, <2>7, <4>2, <4>3
        <4> QED BY <2>2, <2>3, <2>4, <3>1, <3>2, <3>5, <4>4 DEF LeaseOK
      <3> QED BY <3>3, <3>4, <3>5
    <2> QED BY <2>6, <2>7
  <1>10. Locked' /\ RenewalAllowed
    BY <1>1, <1>2 DEF JobStatus, Locked, Free, JobShape, Jobs
  <1>11. RenewalAllowed'
    BY <1>1, <1>2, <1>10, AllowedKept DEF TypeOK
  <1> QED
    BY <1>2, <1>3, <1>5, <1>6, <1>9, <1>11, StatusNext

LEMMA AscendingTail ==
    ASSUME RankOK, NEW s \in Seq(LeaseIds), s # <<>>, Ascending(s)
    PROVE  Ascending(Tail(s)) /\ \A e \in Elements(Tail(s)) : rank[Head(s)] < rank[e]
  <1> DEFINE t == Tail(s)
  <1>1. /\ Head(s) = s[1] /\ Len(s) \in Nat \ {0} /\ DOMAIN s = 1 .. Len(s)
        /\ DOMAIN t = 1 .. Len(s) - 1
        /\ \A i \in DOMAIN t : i + 1 \in DOMAIN s /\ t[i] = s[i + 1]
    OBVIOUS
  <1> HIDE DEF t
  <1>2. ASSUME NEW i \in DOMAIN t, NEW j \in DOMAIN t, i < j PROVE rank[t[i]] < rank[t[j]]
    <2>1. i + 1 < j + 1
      BY <1>1, <1>2
    <2> QED BY <1>1, <2>1 DEF Ascending
  <1>3. ASSUME NEW i \in DOMAIN t PROVE rank[s[1]] < rank[t[i]]
    <2>1. 1 < i + 1 /\ 1 \in DOMAIN s
      BY <1>1
    <2> QED BY <1>1, <2>1 DEF Ascending
  <1> QED
    BY <1>1, <1>2, <1>3 DEF Ascending, Elements, t

(* The sweep comes to the next due lease: either a cascade before it has ended
   it, or its own starts. *)
LEMMA DueOnStatus ==
    ASSUME StatusInv, DueOn
    PROVE  JobStatus'
  <1>0. PICK x : x = Head(job.due)
    OBVIOUS
  <1>1. ShapeInv /\ TypeOK /\ RankOK /\ Locked /\ JobStatus
    BY DEF StatusInv, ShapeInv, DueOn
  <1>2. /\ ShapeInv' /\ JobShape /\ job.op = "refresh" /\ job.due # <<>>
        /\ job.at # "walk" /\ job.todo = <<>>
        /\ certs' = certs /\ rank' = rank /\ clock' = clock /\ identities' = identities
        /\ x \in DOMAIN certs
        /\ Elements(job.due) = {x} \cup Elements(job'.due) /\ x \notin Elements(job'.due)
        /\ job'.due = Tail(job.due)
        /\ job'.todo = <<>> /\ job'.op = job.op
        /\ job'.records = job.records /\ job'.log = job.log
        /\ \A m \in DOMAIN certs \ {x} : records'[m] = records[m] /\ log'[m] = log[m]
        /\ \/ /\ Live(x) /\ job'.at = "walk" /\ job'.walk = Walk(x)
              /\ records'[x] = Moved(records[x], "Expired")
              /\ log'[x] = Append(log[x], Event("LeaseExpired", NoLease))
           \/ /\ ~Live(x) /\ job'.at = "due"
              /\ records'[x] = records[x] /\ log'[x] = log[x]
    BY <1>0, <1>1, DueOnShape
  <1>3. PICK due \in SUBSET DOMAIN certs :
            Collected(due) /\ \A l \in DOMAIN certs : LeaseOK(Started(due), l)
    BY <1>1 DEF JobStatus
  <1>4. PICK done : done = Started(due)
    OBVIOUS
  <1>5. /\ \A d \in due : WasLive(d)
        /\ Elements(job.due) \subseteq due /\ Ascending(job.due)
        /\ \A d \in done, e \in Elements(job.due) : rank[d] < rank[e]
        /\ \E now \in 0 .. clock : due = DueThen(now)
    BY <1>2, <1>3, <1>4 DEF Collected
  <1>6. /\ x \in due /\ x \notin done /\ WasLive(x) /\ done \in SUBSET DOMAIN certs
        /\ done \cup {x} = due \ Elements(job'.due) /\ Started(due)' = done \cup {x}
        /\ \A d \in done : rank[d] < rank[x]
    BY <1>2, <1>3, <1>4, <1>5 DEF Started
  <1>7. /\ Ascending(job'.due) /\ \A e \in Elements(job'.due) : rank[x] < rank[e]
    <2>1. job.due \in Seq(LeaseIds)
      BY <1>2 DEF JobShape, Jobs
    <2> QED BY <1>0, <1>1, <1>2, <1>5, <2>1, AscendingTail
  <1>8. Elements(<<>>) = {} /\ Walk(x).root = x
    BY NothingDue DEF Walk
  <1>9. Collected(due)'
    <2>1. /\ due \subseteq DOMAIN certs' /\ due # {} /\ \A d \in due : WasLive(d)'
          /\ Elements(job'.due) \subseteq due
      BY <1>2, <1>5, <1>6 DEF WasLive
    <2>2. Ascending(job.due)'
      BY <1>2, <1>7 DEF Ascending
    <2>3. \A d \in done \cup {x}, e \in Elements(job'.due) : rank'[d] < rank'[e]
      BY <1>2, <1>5, <1>7
    <2>4. job'.at # "due" => job'.walk.root \in done \cup {x}
      BY <1>2, <1>8
    <2>5. job'.op = "refresh" /\ \E now \in 0 .. clock' : due = DueThen(now)'
      BY <1>2, <1>5 DEF DueThen, WasLive
    <2> QED BY <1>6, <2>1, <2>2, <2>3, <2>4, <2>5 DEF Collected
  <1>10. \A l : ~Waits(done, l)
    BY <1>2, <1>8 DEF Waits
  <1>11. \A l \in DOMAIN certs :
            IF Struck(done, l)
            THEN /\ records[l] = EndRecord(First(done, l), l) /\ log[l] = EndLog(First(done, l), l)
                 /\ ~Live(l)
            ELSE records[l] = job.records[l] /\ log[l] = job.log[l]
    BY <1>3, <1>4, <1>10, EndsAreFinal DEF LeaseOK, Live
  <1>12. Live(x) <=> Chain(x) \cap done = {}
    BY <1>2, <1>6, <1>11 DEF Struck, WasLive, Live
  <1>13. ASSUME NEW l \in DOMAIN certs PROVE LeaseOK(done \cup {x}, l)'
    <2>0. PICK d, next : d = First(next, l) /\ next = done \cup {x}
      OBVIOUS
    <2>1. First(next, l)' = d /\ Chain(l)' = Chain(l)
      BY <1>2, <2>0, FirstSame
    <2>2. EndRecord(d, l)' = IF l # d THEN Moved(job.records[l], "Revoked")
                             ELSE Moved(job.records[l], "Expired")
      BY <1>2 DEF EndRecord
    <2>3. EndLog(d, l)' = IF l # d THEN Append(job.log[l], Event("LeaseRevoked", d))
                          ELSE Append(job.log[l], Event("LeaseExpired", NoLease))
      BY <1>2 DEF EndLog
    <2>4. /\ Chain(l) \cap done # {} => d = First(done, l) /\ d \in done
          /\ Chain(l) \cap done = {} /\ x \in Chain(l) => d = x
      <3>1. Chain(l) \cap done # {} => d = First(done, l)
        BY <1>1, <1>2, <1>6, <2>0, FirstKept
      <3>2. Chain(l) \cap done # {} => First(done, l) \in done
        BY <1>1, FirstIs
      <3>3. Chain(l) \cap done = {} /\ x \in Chain(l) => d = x
        BY <1>1, <1>2, <1>6, <2>0, FirstKept
      <3> QED BY <3>1, <3>2, <3>3
    <2>5. Struck(next, l)' <=> WasLive(l) /\ Chain(l) \cap next # {}
      BY <1>2, <2>1 DEF Struck, WasLive
    <2>6. Waits(next, l)' <=> Live(x) /\ d = x /\ l # x
      BY <1>2, <1>8, <2>1 DEF Waits
    <2>7. CASE ~WasLive(l)
      <3>1. l # x /\ ~Struck(done, l) /\ ~Struck(next, l)'
        BY <1>6, <2>5, <2>7 DEF Struck
      <3>2. records[l] = job.records[l] /\ log[l] = job.log[l]
        BY <1>11, <3>1
      <3> QED BY <1>2, <2>0, <3>1, <3>2 DEF LeaseOK
    <2>8. CASE WasLive(l) /\ Chain(l) \cap done # {}
      <3>1. Struck(done, l) /\ Struck(next, l)' /\ ~Waits(next, l)' /\ d = First(done, l)
        BY <1>6, <2>0, <2>4, <2>5, <2>6, <2>8 DEF Struck
      <3>2. records[l] = EndRecord(d, l) /\ log[l] = EndLog(d, l) /\ ~Live(l)
        BY <1>11, <3>1
      <3>3. records'[l] = records[l] /\ log'[l] = log[l]
        BY <1>2, <3>2
      <3>4. EndRecord(d, l)' = EndRecord(d, l) /\ EndLog(d, l)' = EndLog(d, l)
        BY <1>2 DEF EndRecord, EndLog
      <3> QED BY <2>0, <2>1, <3>1, <3>2, <3>3, <3>4 DEF LeaseOK
    <2>9. CASE WasLive(l) /\ Chain(l) \cap done = {}
      <3>1. records[l] = job.records[l] /\ log[l] = job.log[l]
        BY <1>11, <2>9 DEF Struck
      <3>2. CASE l = x
        <4>1. l \in Chain(l) /\ Live(x)
          BY <1>12, <2>9, <3>2, LeafInChain
        <4>2. d = x /\ Struck(next, l)' /\ ~Waits(next, l)'
          BY <2>0, <2>4, <2>5, <2>6, <2>9, <3>2, <4>1
        <4>3. records'[l] = EndRecord(d, l)' /\ log'[l] = EndLog(d, l)'
          BY <1>2, <2>2, <2>3, <3>1, <3>2, <4>1, <4>2
        <4> QED BY <2>0, <2>1, <4>2, <4>3 DEF LeaseOK
      <3>3. CASE l # x
        <4>1. x \in Chain(l) => Live(x)
          <5>1. x \in Chain(l) => Chain(x) \subseteq Chain(l)
            BY ChainOfChain
          <5> QED BY <1>12, <2>9, <5>1
        <4>2. ~Struck(next, l)' \/ Waits(next, l)'
          BY <2>0, <2>4, <2>5, <2>6, <2>9, <3>3, <4>1
        <4>3. records'[l] = records[l] /\ log'[l] = log[l]
          BY <1>2, <3>3
        <4> QED BY <1>2, <2>0, <3>1, <4>2, <4>3 DEF LeaseOK
      <3> QED BY <3>2, <3>3
    <2> QED BY <2>7, <2>8, <2>9
  <1>14. RenewalAllowed'
    BY <1>2 DEF RenewalAllowed
  <1> QED
    BY <1>2, <1>3, <1>6, <1>9, <1>13, <1>14, StatusNext

LEMMA IdleStatus ==
    ASSUME StatusInv, Locked, UNCHANGED <<kernelVars, rank, job>>,
           clock' \in 0 .. MaxTime, clock <= clock'
    PROVE  JobStatus'
  <1>1. /\ certs' = certs /\ records' = records /\ identities' = identities
        /\ log' = log /\ rank' = rank /\ job' = job
    BY DEF kernelVars
  <1>2. ShapeInv /\ TypeOK /\ JobStatus /\ RenewalAllowed
    BY DEF StatusInv, ShapeInv, JobStatus
  <1>3. clock \in Nat /\ clock' \in Nat
    BY <1>2, BoundAssumption DEF TypeOK
  <1>4. PICK due \in SUBSET DOMAIN certs :
            Collected(due) /\ \A l \in DOMAIN certs : LeaseOK(Started(due), l)
    BY <1>2 DEF JobStatus
  <1>5. PICK done : done = Started(due)
    OBVIOUS
  <1>6. done = due \ Elements(job'.due) /\ Started(due)' = done
    BY <1>1, <1>5 DEF Started
  <1>7. Collected(due)'
    <2>1. \A now \in 0 .. clock : now \in 0 .. clock' /\ DueThen(now)' = DueThen(now)
      BY <1>1, <1>3 DEF DueThen, WasLive
    <2> QED BY <1>1, <1>4, <1>5, <1>6, <2>1 DEF Collected, WasLive, Ascending
  <1>8. ASSUME NEW l \in DOMAIN certs PROVE LeaseOK(done, l)'
    <2>1. PICK d : d = First(done, l)
      OBVIOUS
    <2>2. First(done, l)' = d /\ Chain(l)' = Chain(l)
      BY <1>1, <2>1, FirstSame
    <2>3. /\ Struck(done, l)' <=> Struck(done, l)
          /\ Waits(done, l)' <=> Waits(done, l)
          /\ EndRecord(d, l)' = EndRecord(d, l) /\ EndLog(d, l)' = EndLog(d, l)
      BY <1>1, <2>1, <2>2 DEF Struck, WasLive, Waits, EndRecord, EndLog
    <2>4. LeaseOK(done, l)
      BY <1>4, <1>5
    <2> QED BY <1>1, <2>1, <2>2, <2>3, <2>4 DEF LeaseOK
  <1>9. RenewalAllowed'
    BY <1>1, <1>2, <1>3, AllowedKept DEF Locked
  <1> QED
    BY <1>1, <1>4, <1>6, <1>7, <1>8, <1>9, StatusNext

LEMMA SampledBefore ==
    ASSUME TypeOK
    PROVE  \A now \in Samples : now \in 0 .. clock
  BY DEF Samples

LEMMA StatusStep == StatusInv /\ [LoopNext]_lvars => StatusInv'
  <1> SUFFICES ASSUME StatusInv, [LoopNext]_lvars PROVE StatusInv'
    OBVIOUS
  <1>1. ShapeInv /\ TypeOK /\ ShapeInv'
    BY ShapeStep DEF StatusInv, ShapeInv
  <1>2. CASE StartSome
    <2>1. CASE \E l \in DOMAIN certs : StartRevoke(l, records[l].generation)
      BY <1>1, <2>1, StartRevokeStatus DEF StatusInv
    <2>2. CASE \E now \in Samples : StartRefresh(now)
      BY <1>1, <2>2, StartRefreshStatus, SampledBefore DEF StatusInv
    <2>3. CASE \E old \in DOMAIN certs, terms \in Offers, id \in NewLeaseIds, now \in Samples :
                  StartRenew(old, records[old].generation, terms, id, now)
      <3>1. PICK old \in DOMAIN certs, terms \in Offers, id \in NewLeaseIds, now \in Samples :
                  StartRenew(old, records[old].generation, terms, id, now)
        BY <2>3
      <3>2. now \in 0 .. clock
        BY <1>1, SampledBefore
      <3>3. PICK expected : expected = records[old].generation
        OBVIOUS
      <3>4. StartRenew(old, expected, terms, id, now)
        BY <3>1, <3>3
      <3>5. JobStatus'
        BY <1>1, <3>2, <3>3, <3>4, StartRenewStatus
      <3> QED BY <1>1, <3>5 DEF StatusInv
    <2> QED BY <1>2, <2>1, <2>2, <2>3 DEF StartSome
  <1>3. CASE WalkOn \/ RevokeOn \/ DueOn
    BY <1>1, <1>3, WalkOnStatus, RevokeOnStatus, DueOnStatus DEF StatusInv
  <1>4. CASE Return \/ FinishRenew
    BY <1>1, <1>4 DEF Return, FinishRenew, Locked, StatusInv
  <1>5. CASE Atomic(DelegateSome) \/ Atomic(PauseSome) \/ Atomic(ResumeSome)
    BY <1>1, <1>5, AtomicShape DEF StatusInv, Locked
  <1>6. CASE UNCHANGED <<kernelVars, rank, job>> /\ clock' \in {clock, clock + 1}
    <2>1. clock' \in 0 .. MaxTime /\ clock <= clock'
      BY <1>1, <1>6 DEF ShapeInv, TypeOK
    <2>2. Locked => JobStatus'
      BY <1>6, <2>1, IdleStatus
    <2> QED BY <1>1, <1>6, <2>2 DEF StatusInv, Locked
  <1> QED
    BY <1>2, <1>3, <1>4, <1>5, <1>6 DEF LoopNext, LoopStep, lvars, vars, kernelVars, Tick

LEMMA StatusInvariant == LoopSpec => []StatusInv
  <1>1. LoopInit => StatusInv
    BY InitShape DEF LoopInit, StatusInv, Locked
  <1> QED
    BY <1>1, StatusStep, PTL DEF LoopSpec
-----------------------------------------------------------------------------
(***************************************************************************)
(* The loops implement the kernel.                                         *)
(***************************************************************************)
LEMMA KernelValues ==
    /\ Kernel!NoLease = NoLease /\ Kernel!ActiveRecord = ActiveRecord
    /\ \A record, s : Kernel!Moved(record, s) = Moved(record, s)
    /\ \A record, id : Kernel!Retired(record, id) = Retired(record, id)
    /\ \A kind, related : Kernel!Event(kind, related) = Event(kind, related)
    /\ \A f, k, v : Kernel!Put(f, k, v) = Put(f, k, v)
    /\ \A old, id : Kernel!RootAfterRenewal(old, id) = RootAfterRenewal(old, id)
  BY DEF NoLease, Kernel!NoLease, ActiveRecord, Kernel!ActiveRecord, Moved, Kernel!Moved,
         Retired, Kernel!Retired, Event, Kernel!Event, Put, Kernel!Put,
         RootAfterRenewal, Kernel!RootAfterRenewal

LEMMA SamplesSeen ==
    ASSUME TypeOK
    PROVE  Kernel!Samples = 0 .. clock
  <1>1. clock \in 0 .. MaxTime /\ MaxTime \in Nat
    BY BoundAssumption DEF TypeOK
  <1> QED
    BY <1>1 DEF Kernel!Samples

(* The cascade the kernel shows is that of the records the operation found. *)
LEMMA CascadeSeen ==
    ASSUME Locked, JobShape, NEW r \in DOMAIN certs
    PROVE  /\ Visible.records = job.records /\ Visible.log = job.log
           /\ \A l : Kernel!Live(l) <=> WasLive(l)
           /\ Kernel!RecordsAfterCascade(r) =
                 [l \in DOMAIN certs |->
                     IF l # r /\ r \in Chain(l) /\ WasLive(l)
                     THEN Moved(job.records[l], "Revoked") ELSE job.records[l]]
           /\ Kernel!LogAfterCascade(r) =
                 [l \in DOMAIN certs |->
                     IF l # r /\ r \in Chain(l) /\ WasLive(l)
                     THEN Append(job.log[l], Event("LeaseRevoked", r)) ELSE job.log[l]]
  <1>1. Visible.records = job.records /\ Visible.log = job.log
    BY DEF Visible
  <1>2. DOMAIN job.records = DOMAIN certs /\ DOMAIN job.log = DOMAIN certs
    BY DEF JobShape, Jobs
  <1>3. \A l : Kernel!Live(l) <=> WasLive(l)
    BY <1>1 DEF Kernel!Live, WasLive, LiveStates, Kernel!LiveStates
  <1>4. PICK below : below = Kernel!LiveBelow(r)
    OBVIOUS
  <1>5. \A l \in DOMAIN certs : l \in below <=> l # r /\ r \in Chain(l) /\ WasLive(l)
    BY <1>3, <1>4, KernelTree, BelowIsAbove DEF Kernel!LiveBelow
  <1>6. Kernel!RecordsAfterCascade(r) =
           [l \in DOMAIN certs |->
               IF l \in below THEN Moved(job.records[l], "Revoked") ELSE job.records[l]]
    BY <1>1, <1>2, <1>4, KernelValues DEF Kernel!RecordsAfterCascade
  <1>7. Kernel!LogAfterCascade(r) =
           [l \in DOMAIN certs |->
               IF l \in below THEN Append(job.log[l], Event("LeaseRevoked", r)) ELSE job.log[l]]
    BY <1>1, <1>2, <1>4, KernelValues DEF Kernel!LogAfterCascade
  <1> QED
    BY <1>1, <1>3, <1>5, <1>6, <1>7

(* When no lease waits any more, the operation has done to each what it does. *)
LEMMA AllStruck ==
    ASSUME StatusInv, Locked, job.at # "walk", job.todo = <<>>, job.due = <<>>
    PROVE  \E due \in SUBSET DOMAIN certs :
              /\ due # {} /\ \A d \in due : WasLive(d)
              /\ IF job.op = "refresh" THEN \E now \in 0 .. clock : due = DueThen(now)
                                       ELSE due = {job.lease}
              /\ \A l \in DOMAIN certs :
                    IF Struck(due, l)
                    THEN /\ records[l] = EndRecord(First(due, l), l)
                         /\ log[l] = EndLog(First(due, l), l)
                    ELSE records[l] = job.records[l] /\ log[l] = job.log[l]
  <1>1. PICK due \in SUBSET DOMAIN certs :
            Collected(due) /\ \A l \in DOMAIN certs : LeaseOK(Started(due), l)
    BY DEF StatusInv, JobStatus
  <1>2. Elements(<<>>) = {}
    BY NothingDue
  <1>3. Started(due) = due /\ \A l : ~Waits(due, l)
    BY <1>2 DEF Started, Waits
  <1> WITNESS due \in SUBSET DOMAIN certs
  <1>4. /\ due # {} /\ \A d \in due : WasLive(d)
        /\ IF job.op = "refresh" THEN \E now \in 0 .. clock : due = DueThen(now)
                                 ELSE due = {job.lease}
    BY <1>1 DEF Collected
  <1>5. \A l \in DOMAIN certs : LeaseOK(due, l)
    BY <1>1, <1>3
  <1> QED
    BY <1>3, <1>4, <1>5 DEF LeaseOK

(* The same for the cascade of one lease. *)
LEMMA OneStruck ==
    ASSUME StatusInv, Locked, job.at = "revoke", job.todo = <<>>, job.op # "refresh"
    PROVE  /\ job.lease \in DOMAIN certs /\ WasLive(job.lease)
           /\ \A l \in DOMAIN certs :
                 IF WasLive(l) /\ job.lease \in Chain(l)
                 THEN records[l] = EndRecord(job.lease, l) /\ log[l] = EndLog(job.lease, l)
                 ELSE records[l] = job.records[l] /\ log[l] = job.log[l]
  <1>1. JobShape /\ TypeOK /\ RankOK
    BY DEF StatusInv, ShapeInv
  <1>2. job.due = <<>> /\ job.lease \in DOMAIN certs
    BY <1>1 DEF JobShape
  <1>3. PICK due \in SUBSET DOMAIN certs :
              /\ \A d \in due : WasLive(d)
              /\ due = {job.lease}
              /\ \A l \in DOMAIN certs :
                    IF Struck(due, l)
                    THEN /\ records[l] = EndRecord(First(due, l), l)
                         /\ log[l] = EndLog(First(due, l), l)
                    ELSE records[l] = job.records[l] /\ log[l] = job.log[l]
    BY <1>2, AllStruck
  <1>4. ASSUME NEW l \in DOMAIN certs
        PROVE  /\ Struck(due, l) <=> WasLive(l) /\ job.lease \in Chain(l)
               /\ Struck(due, l) => First(due, l) = job.lease
    BY <1>1, <1>3, FirstOfOne DEF Struck
  <1> QED
    BY <1>2, <1>3, <1>4

LEMMA ReturnRevokes ==
    ASSUME StatusInv, Return, job.op = "revoke"
    PROVE  Kernel!RevokeSome
  <1>0. PICK r, g : r = job.lease /\ g = job.records[r].generation
    OBVIOUS
  <1>1. /\ Locked /\ job.at = "revoke" /\ job.todo = <<>> /\ JobShape /\ TypeOK
        /\ ~Locked' /\ UNCHANGED <<vars, rank, events>>
    BY DEF Return, StatusInv, ShapeInv, Locked
  <1>2. /\ r \in DOMAIN certs /\ WasLive(r)
        /\ \A l \in DOMAIN certs :
              IF WasLive(l) /\ r \in Chain(l)
              THEN records[l] = EndRecord(r, l) /\ log[l] = EndLog(r, l)
              ELSE records[l] = job.records[l] /\ log[l] = job.log[l]
    BY <1>0, <1>1, OneStruck
  <1>3. /\ Visible.records = job.records /\ Visible.log = job.log
        /\ Visible'.records = records /\ Visible'.log = log
    BY <1>1 DEF Visible, vars
  <1>4. Kernel!MayRevoke(r, g)
    BY <1>0, <1>1, <1>2, <1>3, CascadeSeen DEF Kernel!MayRevoke, Kernel!RequireGeneration
  <1>5. r \in Chain(r)
    BY <1>2, LeafInChain
  <1>6. records = [Kernel!RecordsAfterCascade(r) EXCEPT ![r] = Moved(@, "Revoked")]
    <2> DEFINE f == [l \in DOMAIN certs |->
                        IF l # r /\ r \in Chain(l) /\ WasLive(l)
                        THEN Moved(job.records[l], "Revoked") ELSE job.records[l]]
    <2>1. Kernel!RecordsAfterCascade(r) = f
      BY <1>1, <1>2, CascadeSeen
    <2>2. \A l \in DOMAIN certs :
             records[l] = IF l = r THEN Moved(job.records[l], "Revoked") ELSE f[l]
      BY <1>2, <1>5 DEF EndRecord
    <2>3. DOMAIN records = DOMAIN certs /\ records = [l \in DOMAIN certs |-> records[l]]
      BY <1>1 DEF TypeOK
    <2>4. records = [f EXCEPT ![r] = Moved(@, "Revoked")]
      BY <1>2, <2>2, <2>3
    <2> QED BY <2>1, <2>4
  <1>7. log = [Kernel!LogAfterCascade(r) EXCEPT ![r] = Append(@, Event("LeaseRevoked", NoLease))]
    <2> DEFINE f == [l \in DOMAIN certs |->
                        IF l # r /\ r \in Chain(l) /\ WasLive(l)
                        THEN Append(job.log[l], Event("LeaseRevoked", r)) ELSE job.log[l]]
    <2>1. Kernel!LogAfterCascade(r) = f
      BY <1>1, <1>2, CascadeSeen
    <2>2. \A l \in DOMAIN certs :
             log[l] = IF l = r THEN Append(job.log[l], Event("LeaseRevoked", NoLease)) ELSE f[l]
      BY <1>2, <1>5 DEF EndLog
    <2>3. DOMAIN log = DOMAIN certs /\ log = [l \in DOMAIN certs |-> log[l]]
      BY <1>1 DEF TypeOK
    <2>4. log = [f EXCEPT ![r] = Append(@, Event("LeaseRevoked", NoLease))]
      BY <1>2, <2>2, <2>3
    <2> QED BY <2>1, <2>4
  <1>8. Kernel!Revoke(r, g)
    BY <1>1, <1>3, <1>4, <1>6, <1>7, KernelValues DEF Kernel!Revoke, vars
  <1> QED
    BY <1>0, <1>2, <1>3, <1>8 DEF Kernel!RevokeSome

LEMMA ReturnRefreshes ==
    ASSUME StatusInv, Return, job.op = "refresh"
    PROVE  Kernel!RefreshSome
  <1>1. /\ Locked /\ job.at # "walk" /\ job.todo = <<>> /\ job.due = <<>> /\ JobShape
        /\ TypeOK /\ RankOK /\ ~Locked' /\ UNCHANGED <<vars, rank, events>>
    BY DEF Return, StatusInv, ShapeInv, Locked
  <1>2. PICK due \in SUBSET DOMAIN certs :
              /\ due # {} /\ \A d \in due : WasLive(d)
              /\ \E now \in 0 .. clock : due = DueThen(now)
              /\ \A l \in DOMAIN certs :
                    IF Struck(due, l)
                    THEN /\ records[l] = EndRecord(First(due, l), l)
                         /\ log[l] = EndLog(First(due, l), l)
                    ELSE records[l] = job.records[l] /\ log[l] = job.log[l]
    BY <1>1, AllStruck
  <1>3. PICK now \in 0 .. clock : due = DueThen(now)
    BY <1>2
  <1>4. /\ Visible.records = job.records /\ Visible.log = job.log
        /\ Visible'.records = records /\ Visible'.log = log
        /\ \A l : Kernel!Live(l) <=> WasLive(l)
    BY <1>1 DEF Visible, vars, Kernel!Live, WasLive, LiveStates, Kernel!LiveStates
  <1>5. Kernel!Due(now) = due
    BY <1>3, <1>4 DEF Kernel!Due, DueThen
  <1>6. PICK sweep \in Injection(due, 1 .. Cardinality(due)) :
            \A l, m \in due : rank[l] < rank[m] => sweep[l] < sweep[m]
    BY <1>1, <1>2, Placed DEF TypeOK
  <1>7. /\ sweep \in [due -> 1 .. Cardinality(due)]
        /\ \A l, m \in due : sweep[l] = sweep[m] => l = m
        /\ \A l \in due : sweep[l] \in Nat /\ rank[l] \in Nat
    BY <1>1, <1>2, <1>6 DEF Injection, IsInjective, TypeOK, RankOK
  <1>8. sweep \in Kernel!Sweeps(due)
    BY <1>7, KernelCardinality DEF Kernel!Sweeps
  <1>9. PICK ended : ended = Kernel!EndedBy(due, sweep)
    OBVIOUS
  <1>10. /\ DOMAIN ended = {l \in DOMAIN certs : Struck(due, l)}
         /\ \A l \in DOMAIN ended :
               ended[l] = CHOOSE d \in Chain(l) \cap due :
                             \A e \in Chain(l) \cap due : sweep[d] <= sweep[e]
    BY <1>4, <1>9, KernelTree DEF Kernel!EndedBy, Struck
  <1>11. ASSUME NEW l \in DOMAIN ended PROVE ended[l] = First(due, l)
    <2> DEFINE S == Chain(l) \cap due
    <2>1. PICK d : d = First(due, l)
      OBVIOUS
    <2>2. l \in DOMAIN certs /\ S # {}
      BY <1>10 DEF Struck
    <2>3. d \in S /\ \A e \in S : rank[d] <= rank[e]
      BY <1>1, <2>1, <2>2, FirstIs
    <2>4. ASSUME NEW e \in S PROVE sweep[d] <= sweep[e]
      <3>1. CASE rank[d] < rank[e]
        BY <1>6, <1>7, <2>3, <3>1
      <3>2. CASE rank[d] = rank[e]
        <4>1. d = e
          BY <1>1, <1>2, <2>3, <3>2 DEF RankOK, TypeOK
        <4> QED BY <1>7, <4>1
      <3> QED BY <1>7, <2>3, <3>1, <3>2
    <2>5. ASSUME NEW c \in S, \A e \in S : sweep[c] <= sweep[e] PROVE c = d
      <3>1. sweep[c] <= sweep[d] /\ sweep[d] <= sweep[c]
        BY <2>3, <2>4, <2>5
      <3>2. sweep[c] = sweep[d]
        BY <1>7, <2>3, <3>1
      <3> QED BY <1>7, <2>3, <3>2
    <2>6. PICK c : c = CHOOSE z \in S : \A e \in S : sweep[z] <= sweep[e]
      OBVIOUS
    <2>7. c \in S /\ \A e \in S : sweep[c] <= sweep[e]
      BY <2>3, <2>4, <2>6
    <2> QED BY <1>10, <2>1, <2>5, <2>6, <2>7
  <1>12. /\ DOMAIN job.records = DOMAIN certs /\ DOMAIN job.log = DOMAIN certs
         /\ records = [l \in DOMAIN certs |-> records[l]] /\ log = [l \in DOMAIN certs |-> log[l]]
    BY <1>1 DEF JobShape, Jobs, TypeOK
  <1>13. \A l \in DOMAIN certs :
            /\ records[l] = IF l \notin DOMAIN ended THEN job.records[l]
                            ELSE Moved(job.records[l], IF ended[l] = l THEN "Expired" ELSE "Revoked")
            /\ log[l] = IF l \notin DOMAIN ended THEN job.log[l]
                        ELSE Append(job.log[l], IF ended[l] = l THEN Event("LeaseExpired", NoLease)
                                                ELSE Event("LeaseRevoked", ended[l]))
    BY <1>2, <1>10, <1>11 DEF EndRecord, EndLog
  <1>14. /\ records = [l \in DOMAIN job.records |->
                IF l \notin DOMAIN ended THEN job.records[l]
                ELSE Moved(job.records[l], IF ended[l] = l THEN "Expired" ELSE "Revoked")]
         /\ log = [l \in DOMAIN job.log |->
                IF l \notin DOMAIN ended THEN job.log[l]
                ELSE Append(job.log[l], IF ended[l] = l THEN Event("LeaseExpired", NoLease)
                                        ELSE Event("LeaseRevoked", ended[l]))]
    BY <1>12, <1>13
  <1>15. Kernel!RefreshExpirations(now)
    BY <1>1, <1>2, <1>4, <1>5, <1>8, <1>9, <1>14, KernelValues DEF Kernel!RefreshExpirations, vars
  <1> QED
    BY <1>1, <1>15, SamplesSeen DEF Kernel!RefreshSome

LEMMA FinishRenews ==
    ASSUME StatusInv, FinishRenew
    PROVE  Kernel!RenewSome
  <1>0. PICK r, g, id, terms : /\ r = job.lease /\ g = job.records[r].generation
                               /\ id = job.id /\ terms = job.terms
    OBVIOUS
  <1>1. /\ ShapeInv /\ TypeOK /\ JobShape /\ Locked /\ ~Locked'
        /\ job.op = "renew" /\ job.at = "revoke" /\ job.todo = <<>>
        /\ id \in LeaseIds \ DOMAIN certs
        /\ certs' = Put(certs, id, RenewedCertificate(r, terms))
        /\ records' = Put(records, id, ActiveRecord)
        /\ log' = Put(log, id, <<Event("LeaseRenewed", r)>>)
        /\ rootLease' = RootAfterRenewal(r, id) /\ identities' = identities
    BY <1>0, FinishRenewShape DEF StatusInv, ShapeInv, Locked, Issues
  <1>2. /\ r \in DOMAIN certs /\ WasLive(r)
        /\ \A l \in DOMAIN certs :
              IF WasLive(l) /\ r \in Chain(l)
              THEN records[l] = EndRecord(r, l) /\ log[l] = EndLog(r, l)
              ELSE records[l] = job.records[l] /\ log[l] = job.log[l]
    BY <1>0, <1>1, OneStruck
  <1>3. /\ Visible.records = job.records /\ Visible.log = job.log
        /\ Visible'.records = records' /\ Visible'.log = log'
    BY <1>1 DEF Visible
  <1>4. PICK now \in 0 .. clock : Kernel!MayRenew(r, g, terms, now)
    BY <1>0, <1>1 DEF StatusInv, JobStatus, RenewalAllowed
  <1>5. r \in Chain(r)
    BY <1>2, LeafInChain
  <1>6. records = [Kernel!RecordsAfterCascade(r) EXCEPT ![r] = Retired(@, id)]
    <2> DEFINE f == [l \in DOMAIN certs |->
                        IF l # r /\ r \in Chain(l) /\ WasLive(l)
                        THEN Moved(job.records[l], "Revoked") ELSE job.records[l]]
    <2>1. Kernel!RecordsAfterCascade(r) = f
      BY <1>1, <1>2, CascadeSeen
    <2>2. \A l \in DOMAIN certs :
             records[l] = IF l = r THEN Retired(job.records[l], id) ELSE f[l]
      BY <1>0, <1>1, <1>2, <1>5 DEF EndRecord
    <2>3. DOMAIN records = DOMAIN certs /\ records = [l \in DOMAIN certs |-> records[l]]
      BY <1>1 DEF TypeOK
    <2>4. records = [f EXCEPT ![r] = Retired(@, id)]
      BY <1>2, <2>2, <2>3
    <2> QED BY <2>1, <2>4
  <1>7. log = Kernel!LogAfterCascade(r)
    <2> DEFINE f == [l \in DOMAIN certs |->
                        IF l # r /\ r \in Chain(l) /\ WasLive(l)
                        THEN Append(job.log[l], Event("LeaseRevoked", r)) ELSE job.log[l]]
    <2>1. Kernel!LogAfterCascade(r) = f
      BY <1>1, <1>2, CascadeSeen
    <2>2. \A l \in DOMAIN certs : log[l] = f[l]
      BY <1>1, <1>2 DEF EndLog
    <2>3. DOMAIN log = DOMAIN certs /\ log = [l \in DOMAIN certs |-> log[l]]
      BY <1>1 DEF TypeOK
    <2>4. log = f
      BY <2>2, <2>3
    <2> QED BY <2>1, <2>4
  <1>8. Kernel!Renew(r, g, terms, id, now)
    <2>1. certs' = Kernel!Put(certs, id, RenewedCertificate(r, terms))
      BY <1>1, KernelValues
    <2>2. Visible'.records = Kernel!Put([Kernel!RecordsAfterCascade(r) EXCEPT
                                            ![r] = Kernel!Retired(@, id)], id, Kernel!ActiveRecord)
      BY <1>1, <1>3, <1>6, KernelValues
    <2>3. Visible'.log = Kernel!Put(Kernel!LogAfterCascade(r), id,
                                    <<Kernel!Event("LeaseRenewed", r)>>)
      BY <1>1, <1>3, <1>7, KernelValues
    <2>4. rootLease' = Kernel!RootAfterRenewal(r, id) /\ identities' = identities
      BY <1>1, KernelValues
    <2> QED BY <1>4, <2>1, <2>2, <2>3, <2>4 DEF Kernel!Renew, RenewedCertificate
  <1>9. terms \in Offers /\ id \in Kernel!NewLeaseIds /\ now \in Kernel!Samples
    <2>1. terms \in Offers /\ id \in NewLeaseIds
      BY <1>0, <1>1 DEF JobShape, RenewalOK
    <2> QED BY <1>1, <2>1, KernelTree, SamplesSeen
  <1> QED
    BY <1>0, <1>2, <1>3, <1>8, <1>9 DEF Kernel!RenewSome

(* An operation without a loop is a step of the kernel as it stands: nobody
   holds the lock before it or after it. *)
LEMMA Atomics ==
    ASSUME TypeOK, ~Locked, ~Locked'
    PROVE  /\ DelegateSome => Kernel!DelegateSome
           /\ PauseSome => Kernel!PauseSome
           /\ ResumeSome => Kernel!ResumeSome
  <1>1. /\ Visible.records = records /\ Visible.log = log
        /\ Visible'.records = records' /\ Visible'.log = log'
    BY DEF Visible
  <1>2. Kernel!Bounded = Bounded /\ \A now \in Samples : now \in Kernel!Samples
    BY <1>1, SamplesSeen, SampledBefore DEF Kernel!Bounded, Bounded
  <1>3. ASSUME NEW parent, NEW g, NEW child, NEW key, NEW terms, NEW id, NEW now,
               Delegate(parent, g, child, key, terms, id, now)
        PROVE  Kernel!Delegate(parent, g, child, key, terms, id, now)
    <2>1. /\ Kernel!RequireGeneration(parent, g) /\ Kernel!ValidateActiveRecord(parent, now)
          /\ Kernel!IdentityIsNew(child, key) /\ Kernel!ValidateDelegationRequest(parent, terms, now)
          /\ Kernel!DepthAllowsChild(parent) /\ Kernel!ValidateChain(parent, now)
      BY <1>3, KernelUnlocked, KernelIdentities DEF Delegate
    <2>2. /\ identities' = Kernel!Put(identities, child,
                [key |-> key, issuer |-> certs[parent].agent,
                 issuerKey |-> identities[certs[parent].agent].key])
          /\ certs' = Kernel!Put(certs, id,
                [agent |-> child, parentAgent |-> certs[parent].agent, parent |-> parent,
                 renewedFrom |-> Kernel!NoLease, issuerKey |-> identities[certs[parent].agent].key,
                 terms |-> terms])
          /\ rootLease' = rootLease
      BY <1>3, KernelValues DEF Delegate
    <2>3. Visible'.records = Kernel!Put(Visible.records, id, Kernel!ActiveRecord)
      BY <1>1, <1>3, KernelValues DEF Delegate
    <2>4. Visible'.log = Kernel!Put(Visible.log, id, <<Kernel!Event("IdentityRegistered", parent),
                                                      Kernel!Event("LeaseDelegated", parent)>>)
      BY <1>1, <1>3, KernelValues DEF Delegate
    <2> QED BY <2>1, <2>2, <2>3, <2>4 DEF Kernel!Delegate
  <1>4. DelegateSome => Kernel!DelegateSome
    BY <1>1, <1>2, <1>3, KernelTree DEF DelegateSome, Kernel!DelegateSome
  <1>5. ASSUME NEW l, NEW g, NEW from, NEW to, NEW kind, NEW now,
               Transition(l, g, from, to, kind, now)
        PROVE  Kernel!Transition(l, g, from, to, kind, now)
    <2>1. Kernel!MayTransition(l, g, from, now)
      BY <1>1, <1>5, KernelUnlocked DEF Transition, MayTransition, Kernel!MayTransition
    <2>2. Visible'.records = [Visible.records EXCEPT ![l] = Kernel!Moved(@, to)]
      BY <1>1, <1>5, KernelValues DEF Transition
    <2>3. Visible'.log = [Visible.log EXCEPT ![l] = Append(@, Kernel!Event(kind, Kernel!NoLease))]
      BY <1>1, <1>5, KernelValues DEF Transition
    <2> QED BY <1>5, <2>1, <2>2, <2>3 DEF Transition, Kernel!Transition
  <1>6. PauseSome => Kernel!PauseSome
    BY <1>1, <1>2, <1>5 DEF PauseSome, Kernel!PauseSome, Pause, Kernel!Pause
  <1>7. ResumeSome => Kernel!ResumeSome
    BY <1>1, <1>2, <1>5 DEF ResumeSome, Kernel!ResumeSome, Resume, Kernel!Resume
  <1> QED
    BY <1>4, <1>6, <1>7

(* Taking the lock and every turn of a loop are invisible. *)
LEMMA TurnsUnseen ==
    ASSUME ShapeInv,
           StartSome \/ WalkOn \/ RevokeOn \/ DueOn
    PROVE  UNCHANGED Kernel!vars
  <1>1. CASE StartSome
    <2>1. /\ ~Locked /\ UNCHANGED <<certs, identities, rootLease, log, clock>>
          /\ job'.records = records /\ job'.log = log /\ job'.op # "none"
      BY <1>1 DEF StartSome, StartRevoke, StartRefresh, StartRenew, Job, vars
    <2>2. Locked'
      BY <2>1 DEF Locked, Free
    <2> QED BY <2>1, <2>2 DEF Visible, Kernel!vars
  <1>2. CASE WalkOn \/ RevokeOn \/ DueOn
    <2>1. /\ Locked /\ UNCHANGED <<certs, identities, rootLease, clock>>
      BY <1>2 DEF WalkOn, RevokeOn, DueOn, vars
    <2>2. job.op # "none" /\ job \in Jobs
      BY <2>1 DEF ShapeInv, JobShape, Jobs
    <2>3. job'.op = job.op /\ job'.records = job.records /\ job'.log = job.log
      BY <1>2, <2>2 DEF WalkOn, RevokeOn, DueOn, Jobs
    <2>4. Locked'
      BY <2>2, <2>3 DEF Locked, Free
    <2> QED BY <2>1, <2>3, <2>4 DEF Visible, Kernel!vars
  <1> QED
    BY <1>1, <1>2

LEMMA KernelSimulated == StatusInv /\ [LoopNext]_lvars => [Kernel!Next]_(Kernel!vars)
  <1> SUFFICES ASSUME StatusInv, [LoopNext]_lvars PROVE [Kernel!Next]_(Kernel!vars)
    OBVIOUS
  <1>0. ShapeInv /\ TypeOK
    BY DEF StatusInv, ShapeInv
  <1>1. CASE StartSome \/ WalkOn \/ RevokeOn \/ DueOn
    BY <1>0, <1>1, TurnsUnseen
  <1>2. CASE Return
    <2>1. UNCHANGED clock
      BY <1>2 DEF Return, vars
    <2>2. Kernel!RevokeSome \/ Kernel!RefreshSome
      BY <1>2, ReturnRevokes, ReturnRefreshes DEF Return
    <2> QED BY <2>1, <2>2 DEF Kernel!Next, Kernel!KernelStep
  <1>3. CASE FinishRenew
    <2>1. UNCHANGED clock
      BY <1>3 DEF FinishRenew
    <2> QED BY <1>3, <2>1, FinishRenews DEF Kernel!Next, Kernel!KernelStep
  <1>4. CASE Atomic(DelegateSome) \/ Atomic(PauseSome) \/ Atomic(ResumeSome)
    <2>1. ~Locked /\ ~Locked' /\ UNCHANGED clock /\ (DelegateSome \/ PauseSome \/ ResumeSome)
      BY <1>4 DEF Atomic, Locked
    <2>2. Kernel!DelegateSome \/ Kernel!PauseSome \/ Kernel!ResumeSome
      BY <1>0, <2>1, Atomics
    <2> QED BY <2>1, <2>2, Zenon DEF Kernel!Next, Kernel!KernelStep
  <1>5. CASE Tick /\ UNCHANGED <<rank, events, job>>
    <2>1. UNCHANGED Kernel!kernelVars
      BY <1>5 DEF Tick, kernelVars, Kernel!kernelVars, Visible, Locked
    <2> QED BY <1>5, <2>1 DEF Tick, Kernel!Tick, Kernel!Next
  <1>6. CASE UNCHANGED lvars
    <2>1. UNCHANGED Kernel!vars
      BY <1>6 DEF lvars, vars, Kernel!vars, Visible, Locked
    <2> QED BY <2>1
  <1> QED
    BY <1>1, <1>2, <1>3, <1>4, <1>5, <1>6 DEF LoopNext, LoopStep

LEMMA KernelStarts == LoopInit => Kernel!Init
  <1> SUFFICES ASSUME LoopInit PROVE Kernel!Init
    OBVIOUS
  <1>1. Visible.records = records /\ Visible.log = log
    BY DEF LoopInit, Visible, Locked
  <1>2. PICK id \in LeaseIds : (\A m \in LeaseIds : id <= m) /\ Bootstrap(id)
    BY DEF LoopInit, Init
  <1>3. Kernel!ValidateRootRequest(RootTerms, 0)
    BY <1>2, KernelCapabilities DEF Bootstrap, ValidateRootRequest, Kernel!ValidateRootRequest
  <1>4. Kernel!Bootstrap(id)
    BY <1>1, <1>2, <1>3, KernelValues DEF Bootstrap, Kernel!Bootstrap
  <1> QED
    BY <1>2, <1>4 DEF LoopInit, Init, Kernel!Init

(* The loops of revoke, refresh_expirations and renew implement the kernel of
   AuthorityKernel: for every tree, every order of the lease ids and every set
   of due leases, what an operation has done when it gives the write lock back
   is one step of the kernel, and no turn before that can be seen. *)
THEOREM LoopsImplementKernel == LoopSpec => ImplementsKernel
  BY StatusInvariant, KernelSimulated, KernelStarts, PTL
     DEF LoopSpec, ImplementsKernel, Kernel!Spec
=============================================================================
