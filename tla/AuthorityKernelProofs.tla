------------------------ MODULE AuthorityKernelProofs ------------------------
(***************************************************************************)
(* Machine-checked theorems about AuthorityKernel, for every value of its  *)
(* constants that meets the module's assumptions.                          *)
(***************************************************************************)
EXTENDS AuthorityKernel, WellFoundedInduction, TLAPS

(***************************************************************************)
(* The walks over the lease tree.                                          *)
(***************************************************************************)

(* validate_chain looks at the leaf itself. *)
LEMMA LeafInChain == \A leaf \in DOMAIN certs : leaf \in Chain(leaf)
  BY DEF Chain

(* The chain of a lease's parent is part of the chain of the lease. *)
LEMMA ChainOfParent ==
    ASSUME NEW l \in DOMAIN certs, certs[l].parent \in DOMAIN certs
    PROVE  Chain(certs[l].parent) \subseteq Chain(l)
  BY DEF Chain, ClosedUnderParents

(* A cascade reaches the lease it starts from ... *)
LEMMA RootInDescendants == \A r \in DOMAIN certs : r \in DescendantsIncluding(r)
  BY DEF DescendantsIncluding

(* ... and every child of a lease it reaches. *)
LEMMA DescendantsClosed ==
    ASSUME NEW r, NEW c \in DOMAIN certs, certs[c].parent \in DescendantsIncluding(r)
    PROVE  c \in DescendantsIncluding(r)
  BY DEF DescendantsIncluding, ClosedUnderChildren

(* A set of leases that holds r and is closed under children holds every
   descendant of r. *)
LEMMA DescendantsLeast ==
    ASSUME NEW r, NEW S \in SUBSET DOMAIN certs, r \in S, ClosedUnderChildren(S)
    PROVE  DescendantsIncluding(r) \subseteq S
  BY DEF DescendantsIncluding
-----------------------------------------------------------------------------
(***************************************************************************)
(* Type correctness.                                                       *)
(***************************************************************************)

(* delegate and renew act only on a lease whose subject and issuer are
   registered identities. *)
LEMMA ValidChainIdentities ==
    ASSUME NEW l \in DOMAIN certs, NEW now, ValidateChain(l, now)
    PROVE  /\ certs[l].agent \in DOMAIN identities
           /\ certs[l].parentAgent # NoAgent => certs[l].parentAgent \in DOMAIN identities
  <1>1. l \in Chain(l)
    BY LeafInChain
  <1>2. ValidateCertificateEntry(l)
    BY <1>1 DEF ValidateChain, ChainIsSound
  <1> QED
    BY <1>2 DEF ValidateCertificateEntry

(* The record a cascade leaves behind is a record. *)
LEMMA MovedType ==
    ASSUME NEW record \in Records, NEW s \in LeaseStates
    PROVE  Moved(record, s) \in Records
  BY DEF Moved, Records

(* A cascade from a lease leaves records and events behind, and the lease
   itself to its caller. *)
LEMMA CascadeType ==
    ASSUME TypeOK, NEW r \in DOMAIN certs
    PROVE  /\ RecordsAfterCascade(r) \in [DOMAIN certs -> Records]
           /\ LogAfterCascade(r) \in [DOMAIN certs -> Seq(Events)]
           /\ RecordsAfterCascade(r)[r] = records[r]
  <1>1. \A l \in DOMAIN certs : Moved(records[l], "Revoked") \in Records
    BY MovedType DEF TypeOK, LeaseStates
  <1>2. RecordsAfterCascade(r) \in [DOMAIN certs -> Records]
    BY <1>1 DEF TypeOK, RecordsAfterCascade
  <1>3. Event("LeaseRevoked", r) \in Events
    BY DEF TypeOK, Event, Events, EventKinds
  <1>4. LogAfterCascade(r) \in [DOMAIN certs -> Seq(Events)]
    BY <1>3 DEF TypeOK, LogAfterCascade
  <1> QED
    BY <1>2, <1>4 DEF TypeOK, LiveBelow, RecordsAfterCascade

(* Bootstrap builds a well-formed kernel. *)
LEMMA InitType == Init => TypeOK
  <1> SUFFICES ASSUME Init PROVE TypeOK
    OBVIOUS
  <1>1. PICK id \in LeaseIds : Bootstrap(id)
    BY DEF Init
  <1>2. certs \in [{id} -> Certificates]
    BY <1>1, IdAssumption, TermsAssumption DEF Bootstrap, Certificates
  <1>3. records \in [{id} -> Records]
    BY <1>1 DEF Bootstrap, ActiveRecord, Records, LeaseStates
  <1>4. log \in [{id} -> Seq(Events)]
    BY <1>1 DEF Bootstrap, Event, Events, EventKinds
  <1>5. identities \in [{RootAgent} -> Identities]
    BY <1>1, IdAssumption DEF Bootstrap, Identities
  <1> QED
    BY <1>1, <1>2, <1>3, <1>4, <1>5, IdAssumption, BoundAssumption DEF TypeOK, Init, Bootstrap

(* delegate adds a well-formed identity and a well-formed lease. *)
LEMMA DelegateType ==
    ASSUME TypeOK, UNCHANGED clock,
           NEW parent \in DOMAIN certs, NEW expected, NEW child \in Agents,
           NEW key \in Keys, NEW terms \in Terms, NEW id \in LeaseIds, NEW now,
           Delegate(parent, expected, child, key, terms, id, now)
    PROVE  TypeOK'
  <1> DEFINE issuer == certs[parent].agent
  <1>1. issuer \in DOMAIN identities
    BY ValidChainIdentities DEF Delegate
  <1>2. issuer \in Agents /\ identities[issuer].key \in Keys
    BY <1>1 DEF TypeOK, Identities
  <1>3. parent \in LeaseIds
    BY DEF TypeOK
  <1>4. [key |-> key, issuer |-> issuer, issuerKey |-> identities[issuer].key] \in Identities
    BY <1>2 DEF Identities
  <1>5. [agent |-> child, parentAgent |-> issuer, parent |-> parent,
         renewedFrom |-> NoLease, issuerKey |-> identities[issuer].key,
         terms |-> terms] \in Certificates
    BY <1>2, <1>3 DEF Certificates
  <1>6. ActiveRecord \in Records
    BY DEF ActiveRecord, Records, LeaseStates
  <1>7. <<Event("IdentityRegistered", parent), Event("LeaseDelegated", parent)>> \in Seq(Events)
    BY <1>3 DEF Event, Events, EventKinds
  <1>8. /\ DOMAIN certs' = DOMAIN certs \cup {id}
        /\ certs' \in [DOMAIN certs \cup {id} -> Certificates]
    BY <1>5 DEF Delegate, Put, TypeOK
  <1>9. records' \in [DOMAIN certs \cup {id} -> Records]
    BY <1>6 DEF Delegate, Put, TypeOK
  <1>10. log' \in [DOMAIN certs \cup {id} -> Seq(Events)]
    BY <1>7 DEF Delegate, Put, TypeOK
  <1>11. /\ DOMAIN identities' = DOMAIN identities \cup {child}
         /\ identities' \in [DOMAIN identities \cup {child} -> Identities]
    BY <1>4 DEF Delegate, Put, TypeOK
  <1> QED
    BY <1>8, <1>9, <1>10, <1>11 DEF TypeOK, Delegate

(* pause and resume keep the record a record. *)
LEMMA TransitionType ==
    ASSUME TypeOK, UNCHANGED clock,
           NEW l \in DOMAIN certs, NEW expected, NEW from, NEW to \in LeaseStates,
           NEW kind \in EventKinds, NEW now,
           Transition(l, expected, from, to, kind, now)
    PROVE  TypeOK'
  <1>1. Moved(records[l], to) \in Records
    BY MovedType DEF TypeOK
  <1>2. Event(kind, NoLease) \in Events
    BY DEF Event, Events
  <1>3. records' \in [DOMAIN certs -> Records]
    BY <1>1 DEF TypeOK, Transition
  <1>4. log' \in [DOMAIN certs -> Seq(Events)]
    BY <1>2 DEF TypeOK, Transition
  <1> QED
    BY <1>3, <1>4 DEF TypeOK, Transition

(* revoke moves the lease and everything below it. *)
LEMMA RevokeType ==
    ASSUME TypeOK, UNCHANGED clock, NEW r \in DOMAIN certs, NEW expected,
           Revoke(r, expected)
    PROVE  TypeOK'
  <1>1. Moved(records[r], "Revoked") \in Records
    BY MovedType DEF TypeOK, LeaseStates
  <1>2. Event("LeaseRevoked", NoLease) \in Events
    BY DEF Event, Events, EventKinds
  <1>3. records' \in [DOMAIN certs -> Records]
    BY <1>1, CascadeType DEF Revoke
  <1>4. log' \in [DOMAIN certs -> Seq(Events)]
    BY <1>2, CascadeType DEF Revoke
  <1> QED
    BY <1>3, <1>4 DEF TypeOK, Revoke

(* A nonempty set of leases has one that comes first in a sweep. *)
LEMMA FirstInSweep ==
    ASSUME NEW due, NEW sweep \in [due -> Nat], NEW S \in SUBSET due, S # {}
    PROVE  \E d \in S : \A e \in S : sweep[d] <= sweep[e]
  <1> DEFINE places == {sweep[d] : d \in S}
             before == {ss \in Nat \X Nat : ss[1] < ss[2]}
  <1>1. places \subseteq Nat /\ places # {}
    OBVIOUS
  <1>2. IsWellFoundedOn(before, Nat)
    BY NatLessThanWellFounded DEF OpToRel
  <1> HIDE DEF places, before
  <1>3. PICK n \in places : \A m \in places : ~(<<m, n>> \in before)
    BY <1>1, <1>2, WFMin
  <1>4. ASSUME NEW m \in places PROVE n <= m
    <2>1. m \in Nat /\ n \in Nat
      BY <1>1
    <2>2. m < n => <<m, n>> \in before
      BY <2>1 DEF before
    <2> QED BY <1>3, <2>1, <2>2
  <1> QED
    BY <1>4 DEF places

(* The sweep of refresh_expirations numbers the due leases. *)
LEMMA SweepPlaces ==
    ASSUME NEW now, NEW sweep \in Sweeps(Due(now))
    PROVE  Due(now) \in SUBSET DOMAIN certs /\ sweep \in [Due(now) -> Nat]
  <1> DEFINE due == Due(now)
  <1>1. due \subseteq DOMAIN certs
    BY DEF Due
  <1>2. \A n : 1 .. n \subseteq Nat
    OBVIOUS
  <1> HIDE DEF due
  <1>3. sweep \in [due -> 1 .. Cardinality(due)]
    BY DEF Sweeps, due
  <1>4. due \in SUBSET DOMAIN certs /\ sweep \in [due -> Nat]
    BY <1>1, <1>2, <1>3
  <1> QED
    BY <1>4 DEF due

(* A lease that a sweep ends is ended by a due lease of its own chain. *)
LEMMA EndedByDue ==
    ASSUME NEW due \in SUBSET DOMAIN certs, NEW sweep \in [due -> Nat],
           NEW l \in DOMAIN EndedBy(due, sweep)
    PROVE  EndedBy(due, sweep)[l] \in Chain(l) \cap due
  <1> DEFINE S == Chain(l) \cap due
             first(d) == \A e \in S : sweep[d] <= sweep[e]
  <1>1. S \in SUBSET due /\ S # {}
    BY DEF EndedBy
  <1>2. \E d \in S : first(d)
    BY <1>1, FirstInSweep
  <1>3. EndedBy(due, sweep)[l] = CHOOSE d \in S : first(d)
    BY DEF EndedBy
  <1> QED
    BY <1>2, <1>3

(* A sweep leaves records and events behind. *)
LEMMA RefreshType ==
    ASSUME TypeOK, UNCHANGED clock, NEW now, RefreshExpirations(now)
    PROVE  TypeOK'
  <1> DEFINE due == Due(now)
  <1>1. PICK sweep \in Sweeps(due) :
          LET ended == EndedBy(due, sweep) IN
          /\ records' = [l \in DOMAIN records |->
                IF l \notin DOMAIN ended THEN records[l]
                ELSE Moved(records[l], IF ended[l] = l THEN "Expired" ELSE "Revoked")]
          /\ log' = [l \in DOMAIN log |->
                IF l \notin DOMAIN ended THEN log[l]
                ELSE Append(log[l], IF ended[l] = l THEN Event("LeaseExpired", NoLease)
                                                  ELSE Event("LeaseRevoked", ended[l]))]
    BY DEF RefreshExpirations
  <1> DEFINE ended == EndedBy(due, sweep)
  <1>2. due \in SUBSET DOMAIN certs /\ sweep \in [due -> Nat]
    BY <1>1, SweepPlaces
  <1>3. \A l \in DOMAIN ended : ended[l] \in DOMAIN certs
    BY <1>2, EndedByDue
  <1>4. \A l \in DOMAIN certs : /\ Moved(records[l], "Expired") \in Records
                               /\ Moved(records[l], "Revoked") \in Records
    BY MovedType DEF TypeOK, LeaseStates
  <1>5. /\ Event("LeaseExpired", NoLease) \in Events
        /\ \A l \in DOMAIN certs : Event("LeaseRevoked", l) \in Events
    BY DEF TypeOK, Event, Events, EventKinds
  <1> HIDE DEF due, ended
  <1>6. records' \in [DOMAIN certs -> Records]
    BY <1>1, <1>4 DEF TypeOK, ended
  <1>7. log' \in [DOMAIN certs -> Seq(Events)]
    BY <1>1, <1>3, <1>5 DEF TypeOK, ended
  <1> QED
    BY <1>6, <1>7 DEF TypeOK, RefreshExpirations

(* renew adds a well-formed lease and retires the old one. *)
LEMMA RenewType ==
    ASSUME TypeOK, UNCHANGED clock,
           NEW old \in DOMAIN certs, NEW expected, NEW terms \in Terms,
           NEW id \in LeaseIds, NEW now, Renew(old, expected, terms, id, now)
    PROVE  TypeOK'
  <1> DEFINE cert   == certs[old]
             issuer == IF cert.parentAgent = NoAgent THEN cert.agent ELSE cert.parentAgent
             new    == [cert EXCEPT !.renewedFrom = old, !.terms = terms,
                                    !.issuerKey = identities[issuer].key]
  <1>1. identities[issuer].key \in Keys
    BY ValidChainIdentities DEF Renew, MayRenew, TypeOK, Identities
  <1>2. cert \in Certificates /\ old \in LeaseIds
    BY DEF TypeOK
  <1>3. new \in Certificates
    BY <1>1, <1>2 DEF Certificates
  <1>4. Retired(records[old], id) \in Records
    BY DEF TypeOK, Retired, Records, LeaseStates
  <1>5. ActiveRecord \in Records
    BY DEF ActiveRecord, Records, LeaseStates
  <1>6. <<Event("LeaseRenewed", old)>> \in Seq(Events)
    BY <1>2 DEF Event, Events, EventKinds
  <1>7. DOMAIN certs' = DOMAIN certs \cup {id} /\ certs' \in [DOMAIN certs \cup {id} -> Certificates]
    BY <1>3 DEF Renew, Put, TypeOK
  <1>8. [RecordsAfterCascade(old) EXCEPT ![old] = Retired(@, id)] \in [DOMAIN certs -> Records]
    BY <1>4, CascadeType
  <1>9. records' \in [DOMAIN certs \cup {id} -> Records]
    BY <1>5, <1>8 DEF Renew, Put
  <1>10. log' \in [DOMAIN certs \cup {id} -> Seq(Events)]
    BY <1>6, CascadeType DEF Renew, Put
  <1>11. rootLease' \in DOMAIN certs \cup {id}
    BY DEF Renew, RootAfterRenewal, TypeOK
  <1> QED
    BY <1>7, <1>9, <1>10, <1>11 DEF TypeOK, Renew

(* Every reachable state of the kernel is well formed: its maps have the same
   keys and every lease, record, identity and event in them is one. *)
THEOREM TypeCorrect == Spec => []TypeOK
  <1>1. Init => TypeOK
    BY InitType
  <1>2. TypeOK /\ [Next]_vars => TypeOK'
    <2> SUFFICES ASSUME TypeOK, [Next]_vars PROVE TypeOK'
      OBVIOUS
    <2>1. CASE Tick
      BY <2>1, BoundAssumption DEF Tick, kernelVars, TypeOK
    <2>2. CASE DelegateSome /\ UNCHANGED clock
      BY <2>2, DelegateType, TermsAssumption DEF DelegateSome, NewLeaseIds, Unused
    <2>3. CASE RenewSome /\ UNCHANGED clock
      BY <2>3, RenewType, TermsAssumption DEF RenewSome, NewLeaseIds, Unused
    <2>4. CASE PauseSome /\ UNCHANGED clock
      BY <2>4, TransitionType DEF PauseSome, Bounded, Pause, LeaseStates, EventKinds
    <2>5. CASE ResumeSome /\ UNCHANGED clock
      BY <2>5, TransitionType DEF ResumeSome, Bounded, Resume, LeaseStates, EventKinds
    <2>6. CASE RevokeSome /\ UNCHANGED clock
      BY <2>6, RevokeType DEF RevokeSome
    <2>7. CASE RefreshSome /\ UNCHANGED clock
      BY <2>7, RefreshType DEF RefreshSome
    <2>8. CASE UNCHANGED vars
      BY <2>8 DEF vars, TypeOK
    <2> QED
      BY <2>1, <2>2, <2>3, <2>4, <2>5, <2>6, <2>7, <2>8 DEF Next, KernelStep
  <1> QED
    BY <1>1, <1>2, PTL DEF Spec
-----------------------------------------------------------------------------
(***************************************************************************)
(* What the operations do to the lease records, in the terms the safety    *)
(* invariants are stated in.                                               *)
(***************************************************************************)

(* After a cascade from r a lease is live only if it was live and is r itself
   or not a descendant of r; and only live descendants are touched. *)
LEMMA CascadeShape ==
    ASSUME TypeOK, NEW r \in DOMAIN certs, NEW l \in DOMAIN certs
    PROVE  /\ RecordsAfterCascade(r)[l].state \in LiveStates =>
                 Live(l) /\ (l = r \/ l \notin DescendantsIncluding(r))
           /\ l = r \/ l \notin DescendantsIncluding(r) =>
                 RecordsAfterCascade(r)[l] = records[l]
  <1>1. RecordsAfterCascade(r)[l] = IF l \in LiveBelow(r) THEN Moved(records[l], "Revoked")
                                                         ELSE records[l]
    BY DEF RecordsAfterCascade, TypeOK
  <1>2. Moved(records[l], "Revoked").state \notin LiveStates
    BY DEF Moved, LiveStates
  <1>3. CASE l \in LiveBelow(r)
    BY <1>1, <1>2, <1>3 DEF LiveBelow
  <1>4. CASE l \notin LiveBelow(r)
    <2>1. RecordsAfterCascade(r)[l] = records[l]
      BY <1>1, <1>4
    <2>2. records[l].state \in LiveStates => l = r \/ l \notin DescendantsIncluding(r)
      BY <1>4 DEF LiveBelow, Live
    <2> QED BY <2>1, <2>2 DEF Live
  <1> QED
    BY <1>3, <1>4

(* A sweep ends exactly the live leases with a due lease on their chain. *)
LEMMA RefreshShape ==
    ASSUME TypeOK, NEW now, RefreshExpirations(now), NEW l \in DOMAIN certs
    PROVE  /\ records'[l].state \in LiveStates => Live(l) /\ Chain(l) \cap Due(now) = {}
           /\ Chain(l) \cap Due(now) = {} => records'[l] = records[l]
  <1>1. PICK sweep \in Sweeps(Due(now)) :
          records' = [m \in DOMAIN records |->
             IF m \notin DOMAIN EndedBy(Due(now), sweep) THEN records[m]
             ELSE Moved(records[m],
                        IF EndedBy(Due(now), sweep)[m] = m THEN "Expired" ELSE "Revoked")]
    BY DEF RefreshExpirations
  <1> DEFINE ended == EndedBy(Due(now), sweep)
  <1>2. l \in DOMAIN ended <=> Live(l) /\ Chain(l) \cap Due(now) # {}
    BY DEF EndedBy
  <1>3. /\ Moved(records[l], "Expired").state \notin LiveStates
        /\ Moved(records[l], "Revoked").state \notin LiveStates
    BY DEF Moved, LiveStates
  <1>4. l \in DOMAIN records
    BY DEF TypeOK
  <1> HIDE DEF ended
  <1>5. l \notin DOMAIN ended => records'[l] = records[l]
    BY <1>1, <1>4 DEF ended
  <1>6. l \in DOMAIN ended => records'[l].state \notin LiveStates
    BY <1>1, <1>3, <1>4 DEF ended
  <1> QED
    BY <1>2, <1>5, <1>6 DEF Live
-----------------------------------------------------------------------------
(***************************************************************************)
(* Transitive revocation.  LiveUnderLive alone is not inductive: renew     *)
(* ends everything below the lease it retires and issues the successor     *)
(* under the old lease's parent, which must not lie below the old lease.   *)
(* Leases are issued after their parents, so the tree has no cycle.        *)
(***************************************************************************)
IssuedInOrder ==
    /\ \A l \in DOMAIN certs, m \in Unused : l < m
    /\ \A l \in DOMAIN certs :
          /\ certs[l].parent < l
          /\ certs[l].parent # NoLease => certs[l].parent \in DOMAIN certs

TreeInv == TypeOK /\ IssuedInOrder /\ LiveUnderLive

(* A lease's parent does not lie below the lease. *)
LEMMA ParentNotBelow ==
    ASSUME TypeOK, IssuedInOrder, NEW l \in DOMAIN certs
    PROVE  certs[l].parent \notin DescendantsIncluding(l)
  <1> DEFINE S == {m \in DOMAIN certs : l <= m}
  <1>1. \A m \in DOMAIN certs : m \in Nat /\ certs[m].parent \in Nat
    BY IdAssumption DEF TypeOK, Certificates, NoLease
  <1>2. l \in S /\ ClosedUnderChildren(S)
    BY <1>1 DEF ClosedUnderChildren, IssuedInOrder
  <1>3. DescendantsIncluding(l) \subseteq S
    BY <1>2, DescendantsLeast
  <1> QED
    BY <1>1, <1>3 DEF IssuedInOrder

(* Operations that issue no lease keep the order of issue. *)
LEMMA OrderUnchanged ==
    ASSUME IssuedInOrder, UNCHANGED certs
    PROVE  IssuedInOrder'
  BY DEF IssuedInOrder, Unused

(* A new lease under a known parent keeps the order of issue. *)
LEMMA OrderExtended ==
    ASSUME TypeOK, IssuedInOrder, NEW id \in NewLeaseIds, NEW cert,
           certs' = Put(certs, id, cert),
           cert.parent \in DOMAIN certs \cup {NoLease}
    PROVE  IssuedInOrder'
  <1>1. id \in LeaseIds /\ id \notin DOMAIN certs /\ \A m \in Unused : id <= m
    BY DEF NewLeaseIds, Unused
  <1>2. DOMAIN certs' = DOMAIN certs \cup {id} /\ certs'[id] = cert
        /\ \A l \in DOMAIN certs : certs'[l] = certs[l]
    BY <1>1 DEF Put
  <1>3. Unused' = Unused \ {id}
    BY <1>2 DEF Unused
  <1>4. Unused \subseteq Nat /\ DOMAIN certs \subseteq Nat /\ id \in Unused /\ id > 0
    BY <1>1, IdAssumption DEF Unused, TypeOK, NoLease
  <1>5. ASSUME NEW l \in DOMAIN certs', NEW m \in Unused'
        PROVE  l < m
    BY <1>1, <1>2, <1>3, <1>4, <1>5 DEF IssuedInOrder
  <1>6. cert.parent < id
    BY <1>4 DEF IssuedInOrder, NoLease
  <1>7. ASSUME NEW l \in DOMAIN certs'
        PROVE  /\ certs'[l].parent < l
               /\ certs'[l].parent # NoLease => certs'[l].parent \in DOMAIN certs'
    BY <1>2, <1>6 DEF IssuedInOrder
  <1> QED
    BY <1>5, <1>7 DEF IssuedInOrder, NoLease

(* delegate issues a lease under an active parent and touches no other. *)
LEMMA DelegateTree ==
    ASSUME TreeInv, NEW parent \in DOMAIN certs, NEW expected, NEW child, NEW key,
           NEW terms, NEW id \in NewLeaseIds, NEW now,
           Delegate(parent, expected, child, key, terms, id, now)
    PROVE  IssuedInOrder' /\ LiveUnderLive'
  <1> DEFINE issuer == certs[parent].agent
             cert == [agent |-> child, parentAgent |-> issuer, parent |-> parent,
                      renewedFrom |-> NoLease, issuerKey |-> identities[issuer].key,
                      terms |-> terms]
  <1>1. certs' = Put(certs, id, cert) /\ records' = Put(records, id, ActiveRecord)
    BY DEF Delegate
  <1>2. IssuedInOrder'
    BY <1>1, OrderExtended DEF TreeInv
  <1>3. id \notin DOMAIN certs /\ DOMAIN records = DOMAIN certs
    BY DEF NewLeaseIds, Unused, TreeInv, TypeOK
  <1>4. records[parent].state = "Active"
    BY DEF Delegate, ValidateActiveRecord
  <1>5. /\ DOMAIN certs' = DOMAIN certs \cup {id}
        /\ certs'[id].parent = parent
        /\ \A l \in DOMAIN certs : certs'[l] = certs[l] /\ records'[l] = records[l]
    BY <1>1, <1>3 DEF Put
  <1>6. \A l \in DOMAIN certs : certs[l].parent # NoLease => certs[l].parent \in DOMAIN certs
    BY DEF TreeInv, IssuedInOrder
  <1> QED
    BY <1>2, <1>4, <1>5, <1>6 DEF LiveUnderLive, TreeInv, Live, LiveStates

(* pause and resume exchange one live state for the other. *)
LEMMA TransitionTree ==
    ASSUME TreeInv, NEW l \in DOMAIN certs, NEW expected, NEW from \in LiveStates,
           NEW to \in LiveStates, NEW kind, NEW now,
           Transition(l, expected, from, to, kind, now)
    PROVE  IssuedInOrder' /\ LiveUnderLive'
  <1>1. IssuedInOrder'
    BY OrderUnchanged DEF TreeInv, Transition
  <1>2. Live(l) /\ Moved(records[l], to).state = to
    BY DEF Transition, MayTransition, Live, Moved
  <1>3. \A m \in DOMAIN certs : (records'[m].state \in LiveStates <=> Live(m))
    BY <1>2 DEF Transition, Live, TreeInv, TypeOK
  <1>4. \A m \in DOMAIN certs : certs[m].parent # NoLease => certs[m].parent \in DOMAIN certs
    BY DEF TreeInv, IssuedInOrder
  <1> QED
    BY <1>1, <1>3, <1>4 DEF LiveUnderLive, Live, TreeInv, Transition

(* revoke leaves no live lease below the revoked one: if a surviving lease's
   parent were revoked, the lease would be a descendant too. *)
LEMMA RevokeTree ==
    ASSUME TreeInv, NEW r \in DOMAIN certs, NEW expected, Revoke(r, expected)
    PROVE  IssuedInOrder' /\ LiveUnderLive'
  <1>1. IssuedInOrder'
    BY OrderUnchanged DEF TreeInv, Revoke
  <1>2. /\ records' = [RecordsAfterCascade(r) EXCEPT ![r] = Moved(@, "Revoked")]
        /\ certs' = certs
    BY DEF Revoke
  <1>3. DOMAIN RecordsAfterCascade(r) = DOMAIN certs
    BY DEF RecordsAfterCascade, TreeInv, TypeOK
  <1>4. records'[r].state \notin LiveStates
    BY <1>2, <1>3 DEF Moved, LiveStates
  <1>5. \A l \in DOMAIN certs : l # r => records'[l] = RecordsAfterCascade(r)[l]
    BY <1>2, <1>3
  <1>6. ASSUME NEW l \in DOMAIN certs, records'[l].state \in LiveStates,
               certs[l].parent # NoLease
        PROVE  records'[certs[l].parent].state \in LiveStates
    <2> DEFINE p == certs[l].parent
    <2>1. p \in DOMAIN certs
      BY <1>6 DEF TreeInv, IssuedInOrder
    <2>2. l # r /\ Live(l) /\ l \notin DescendantsIncluding(r)
      BY <1>4, <1>5, <1>6, CascadeShape DEF TreeInv
    <2>3. Live(p)
      BY <1>6, <2>2 DEF TreeInv, LiveUnderLive
    <2>4. p \notin DescendantsIncluding(r)
      BY <2>2, DescendantsClosed
    <2>5. p # r
      BY <2>4, RootInDescendants
    <2>6. records'[p] = records[p]
      BY <1>5, <2>1, <2>4, <2>5, CascadeShape DEF TreeInv
    <2> QED BY <2>3, <2>6 DEF Live
  <1> QED
    BY <1>1, <1>2, <1>6 DEF LiveUnderLive, Live

(* A sweep leaves no live lease below one it ended: the parent's chain is part
   of the lease's chain. *)
LEMMA RefreshTree ==
    ASSUME TreeInv, NEW now, RefreshExpirations(now)
    PROVE  IssuedInOrder' /\ LiveUnderLive'
  <1>1. IssuedInOrder'
    BY OrderUnchanged DEF TreeInv, RefreshExpirations
  <1>2. certs' = certs
    BY DEF RefreshExpirations
  <1>3. ASSUME NEW l \in DOMAIN certs, records'[l].state \in LiveStates,
               certs[l].parent # NoLease
        PROVE  records'[certs[l].parent].state \in LiveStates
    <2> DEFINE p == certs[l].parent
    <2>1. p \in DOMAIN certs
      BY <1>3 DEF TreeInv, IssuedInOrder
    <2>2. Live(l) /\ Chain(l) \cap Due(now) = {}
      BY <1>3, RefreshShape DEF TreeInv
    <2>3. Chain(p) \cap Due(now) = {}
      BY <2>1, <2>2, ChainOfParent
    <2>4. records'[p] = records[p]
      BY <2>1, <2>3, RefreshShape DEF TreeInv
    <2>5. Live(p)
      BY <1>3, <2>2 DEF TreeInv, LiveUnderLive
    <2> QED BY <2>4, <2>5 DEF Live
  <1> QED
    BY <1>1, <1>2, <1>3 DEF LiveUnderLive, Live

(* renew issues the successor under the old lease's parent, which the cascade
   below the old lease does not reach. *)
LEMMA RenewTree ==
    ASSUME TreeInv, NEW old \in DOMAIN certs, NEW expected, NEW terms,
           NEW id \in NewLeaseIds, NEW now, Renew(old, expected, terms, id, now)
    PROVE  IssuedInOrder' /\ LiveUnderLive'
  <1> DEFINE issuer == IF certs[old].parentAgent = NoAgent THEN certs[old].agent
                                                           ELSE certs[old].parentAgent
             new == [certs[old] EXCEPT !.renewedFrom = old, !.terms = terms,
                                       !.issuerKey = identities[issuer].key]
             ended == [RecordsAfterCascade(old) EXCEPT ![old] = Retired(@, id)]
  <1>1. certs' = Put(certs, id, new) /\ records' = Put(ended, id, ActiveRecord)
    BY DEF Renew
  <1>2. new.parent = certs[old].parent
    BY DEF TreeInv, TypeOK, Certificates
  <1>3. \A l \in DOMAIN certs : certs[l].parent # NoLease => certs[l].parent \in DOMAIN certs
    BY DEF TreeInv, IssuedInOrder
  <1>4. IssuedInOrder'
    <2>1. new.parent \in DOMAIN certs \cup {NoLease}
      BY <1>2, <1>3
    <2> QED BY <1>1, <2>1, OrderExtended DEF TreeInv
  <1>5. id \notin DOMAIN certs /\ DOMAIN RecordsAfterCascade(old) = DOMAIN certs
    BY DEF NewLeaseIds, Unused, RecordsAfterCascade, TreeInv, TypeOK
  <1>6. /\ DOMAIN certs' = DOMAIN certs \cup {id}
        /\ certs'[id].parent = certs[old].parent
        /\ \A l \in DOMAIN certs : certs'[l] = certs[l]
    BY <1>1, <1>2, <1>5 DEF Put
  <1>7. records'[old].state \notin LiveStates
    BY <1>1, <1>5 DEF Put, Retired, LiveStates
  <1>8. \A l \in DOMAIN certs : l # old => records'[l] = RecordsAfterCascade(old)[l]
    BY <1>1, <1>5 DEF Put
  <1>9. ASSUME NEW p \in DOMAIN certs, Live(p), p \notin DescendantsIncluding(old)
        PROVE  records'[p].state \in LiveStates
    <2>1. p # old
      BY <1>9, RootInDescendants
    <2>2. records'[p] = records[p]
      BY <1>8, <1>9, <2>1, CascadeShape DEF TreeInv
    <2> QED BY <1>9, <2>2 DEF Live
  <1>10. ASSUME NEW l \in DOMAIN certs, records'[l].state \in LiveStates,
                certs[l].parent # NoLease
         PROVE  records'[certs[l].parent].state \in LiveStates
    <2> DEFINE p == certs[l].parent
    <2>1. p \in DOMAIN certs
      BY <1>3, <1>10
    <2>2. l # old /\ Live(l) /\ l \notin DescendantsIncluding(old)
      BY <1>7, <1>8, <1>10, CascadeShape DEF TreeInv
    <2>3. Live(p)
      BY <1>10, <2>2 DEF TreeInv, LiveUnderLive
    <2>4. p \notin DescendantsIncluding(old)
      BY <2>2, DescendantsClosed
    <2> QED BY <1>9, <2>1, <2>3, <2>4
  <1>11. ASSUME certs[old].parent # NoLease
         PROVE  records'[certs[old].parent].state \in LiveStates
    <2> DEFINE p == certs[old].parent
    <2>1. p \in DOMAIN certs
      BY <1>3, <1>11
    <2>2. Live(old)
      BY DEF Renew, MayRenew, ValidateActiveRecord, Live, LiveStates
    <2>3. Live(p)
      BY <1>11, <2>2 DEF TreeInv, LiveUnderLive
    <2>4. p \notin DescendantsIncluding(old)
      BY ParentNotBelow DEF TreeInv
    <2> QED BY <1>9, <2>1, <2>3, <2>4
  <1> QED
    BY <1>4, <1>6, <1>10, <1>11 DEF LiveUnderLive, Live

(* The lease tree is built in order and no lease outlives its parent. *)
LEMMA TreeInvariant == Spec => []TreeInv
  <1>1. Init => TreeInv
    <2> SUFFICES ASSUME Init PROVE TreeInv
      OBVIOUS
    <2>1. PICK id \in LeaseIds : (\A m \in LeaseIds : id <= m) /\ Bootstrap(id)
      BY DEF Init
    <2>2. IssuedInOrder
      BY <2>1, IdAssumption DEF IssuedInOrder, Unused, Bootstrap, NoLease
    <2>3. LiveUnderLive
      BY <2>1 DEF LiveUnderLive, Bootstrap
    <2> QED BY <2>2, <2>3, InitType DEF TreeInv
  <1>2. TreeInv /\ TypeOK' /\ [Next]_vars => TreeInv'
    <2> SUFFICES ASSUME TreeInv, TypeOK', [Next]_vars PROVE IssuedInOrder' /\ LiveUnderLive'
      BY DEF TreeInv
    <2>1. CASE Tick
      BY <2>1 DEF Tick, kernelVars, TreeInv, IssuedInOrder, Unused, LiveUnderLive, Live
    <2>2. CASE DelegateSome
      BY <2>2, DelegateTree DEF DelegateSome
    <2>3. CASE RenewSome
      BY <2>3, RenewTree DEF RenewSome
    <2>4. CASE PauseSome
      BY <2>4, TransitionTree DEF PauseSome, Bounded, Pause, LiveStates
    <2>5. CASE ResumeSome
      BY <2>5, TransitionTree DEF ResumeSome, Bounded, Resume, LiveStates
    <2>6. CASE RevokeSome
      BY <2>6, RevokeTree DEF RevokeSome
    <2>7. CASE RefreshSome
      BY <2>7, RefreshTree DEF RefreshSome
    <2>8. CASE UNCHANGED vars
      BY <2>8 DEF vars, TreeInv, IssuedInOrder, Unused, LiveUnderLive, Live
    <2> QED
      BY <2>1, <2>2, <2>3, <2>4, <2>5, <2>6, <2>7, <2>8 DEF Next, KernelStep
  <1> QED
    BY <1>1, <1>2, TypeCorrect, PTL DEF Spec

(* In every reachable state no lease is live under a parent that has been
   revoked, retired by renewal or swept as expired: authority ends with the
   authority it was delegated from, at any depth and in any interleaving of
   the kernel's operations. *)
THEOREM TransitiveRevocation == Spec => []LiveUnderLive
  <1>1. TreeInv => LiveUnderLive
    BY DEF TreeInv
  <1> QED
    BY <1>1, TreeInvariant, PTL
=============================================================================
