------------------------ MODULE AuthorityKernelSafety ------------------------
(***************************************************************************)
(* What no operation of the authority kernel may do, and what authority a  *)
(* lease may carry: the action properties and the lease-by-lease           *)
(* invariants of AuthorityKernel, for every value of its constants.        *)
(*                                                                         *)
(* Each operation is first reduced to what it does to certificates and     *)
(* records: it revises records, or it issues one lease.                    *)
(***************************************************************************)
EXTENDS AuthorityKernelProofs

(***************************************************************************)
(* The shape of the operations.                                            *)
(***************************************************************************)

\* Some live records move, to a state other than Retired; nothing else changes.
Revises ==
    /\ UNCHANGED <<certs, identities, rootLease>>
    /\ DOMAIN records' = DOMAIN certs
    /\ \A l \in DOMAIN certs :
          \/ records'[l] = records[l]
          \/ /\ Live(l)
             /\ \E s \in LeaseStates \ {"Retired"} : records'[l] = Moved(records[l], s)

\* The lease id is issued with a certificate; no other certificate changes.
Issues(id, cert) ==
    /\ id \in LeaseIds \ DOMAIN certs
    /\ DOMAIN certs' = DOMAIN certs \cup {id}
    /\ certs'[id] = cert
    /\ records'[id] = ActiveRecord
    /\ \A l \in DOMAIN certs : certs'[l] = certs[l]

DelegatedCertificate(parent, child, terms) ==
    [agent |-> child, parentAgent |-> certs[parent].agent, parent |-> parent,
     renewedFrom |-> NoLease, issuerKey |-> identities[certs[parent].agent].key,
     terms |-> terms]

RenewedCertificate(old, terms) ==
    LET issuer == IF certs[old].parentAgent = NoAgent THEN certs[old].agent
                                                      ELSE certs[old].parentAgent
    IN  [certs[old] EXCEPT !.renewedFrom = old, !.terms = terms,
                           !.issuerKey = identities[issuer].key]

(* pause and resume move one live record. *)
LEMMA TransitionRevises ==
    ASSUME TypeOK, NEW l \in DOMAIN certs, NEW expected, NEW from \in LiveStates,
           NEW to \in LiveStates, NEW kind, NEW now,
           Transition(l, expected, from, to, kind, now)
    PROVE  Revises
  <1>1. Live(l)
    BY DEF Transition, MayTransition, Live
  <1>2. to \in LeaseStates \ {"Retired"}
    BY DEF LeaseStates, LiveStates
  <1> QED
    BY <1>1, <1>2 DEF Revises, Transition, TypeOK

(* A cascade moves the live leases below its start to Revoked. *)
LEMMA CascadeMoves ==
    ASSUME TypeOK, NEW r \in DOMAIN certs, NEW l \in DOMAIN certs
    PROVE  \/ RecordsAfterCascade(r)[l] = records[l]
           \/ /\ l # r
              /\ Live(l)
              /\ RecordsAfterCascade(r)[l] = Moved(records[l], "Revoked")
  BY DEF TypeOK, RecordsAfterCascade, LiveBelow

(* revoke moves the lease and the live leases below it. *)
LEMMA RevokeRevises ==
    ASSUME TypeOK, NEW r \in DOMAIN certs, NEW expected, Revoke(r, expected)
    PROVE  Revises
  <1>1. Live(r)
    BY DEF Revoke, MayRevoke
  <1>2. "Revoked" \in LeaseStates \ {"Retired"}
    BY DEF LeaseStates
  <1>3. /\ records' = [RecordsAfterCascade(r) EXCEPT ![r] = Moved(@, "Revoked")]
        /\ UNCHANGED <<certs, identities, rootLease>>
    BY DEF Revoke
  <1>4. DOMAIN RecordsAfterCascade(r) = DOMAIN certs /\ RecordsAfterCascade(r)[r] = records[r]
    BY CascadeType
  <1>5. records'[r] = Moved(records[r], "Revoked")
    BY <1>3, <1>4
  <1>6. \A l \in DOMAIN certs \ {r} : records'[l] = RecordsAfterCascade(r)[l]
    BY <1>3, <1>4
  <1> QED
    BY <1>1, <1>2, <1>3, <1>4, <1>5, <1>6, CascadeMoves DEF Revises

(* A sweep moves the live leases that have a due one on their chain. *)
LEMMA RefreshRevises ==
    ASSUME TypeOK, NEW now, RefreshExpirations(now)
    PROVE  Revises
  <1>1. PICK sweep \in Sweeps(Due(now)) :
          records' = [m \in DOMAIN records |->
             IF m \notin DOMAIN EndedBy(Due(now), sweep) THEN records[m]
             ELSE Moved(records[m],
                        IF EndedBy(Due(now), sweep)[m] = m THEN "Expired" ELSE "Revoked")]
    BY DEF RefreshExpirations
  <1> DEFINE ended == EndedBy(Due(now), sweep)
  <1>2. \A l \in DOMAIN ended : Live(l)
    BY DEF EndedBy
  <1>3. {"Expired", "Revoked"} \subseteq LeaseStates \ {"Retired"}
    BY DEF LeaseStates
  <1>4. DOMAIN records = DOMAIN certs /\ UNCHANGED <<certs, identities, rootLease>>
    BY DEF TypeOK, RefreshExpirations
  <1> HIDE DEF ended
  <1> QED
    BY <1>1, <1>2, <1>3, <1>4 DEF Revises, ended

(* delegate issues a lease to an agent it registers. *)
LEMMA DelegateIssues ==
    ASSUME TypeOK, NEW parent \in DOMAIN certs, NEW expected, NEW child, NEW key,
           NEW terms, NEW id \in NewLeaseIds, NEW now,
           Delegate(parent, expected, child, key, terms, id, now)
    PROVE  /\ Issues(id, DelegatedCertificate(parent, child, terms))
           /\ \A l \in DOMAIN certs : records'[l] = records[l]
           /\ child \notin DOMAIN identities
           /\ DOMAIN identities' = DOMAIN identities \cup {child}
           /\ rootLease' = rootLease
  <1>1. id \in LeaseIds \ DOMAIN certs /\ DOMAIN records = DOMAIN certs
    BY DEF NewLeaseIds, Unused, TypeOK
  <1> QED
    BY <1>1 DEF Delegate, Issues, DelegatedCertificate, Put, IdentityIsNew

(* renew issues the successor, retires the old lease and moves the live leases
   below it. *)
LEMMA RenewIssues ==
    ASSUME TypeOK, NEW old \in DOMAIN certs, NEW expected, NEW terms,
           NEW id \in NewLeaseIds, NEW now, Renew(old, expected, terms, id, now)
    PROVE  /\ Issues(id, RenewedCertificate(old, terms))
           /\ Live(old)
           /\ records'[old] = Retired(records[old], id)
           /\ \A l \in DOMAIN certs \ {old} :
                 \/ records'[l] = records[l]
                 \/ Live(l) /\ records'[l] = Moved(records[l], "Revoked")
           /\ identities' = identities
           /\ rootLease' = RootAfterRenewal(old, id)
  <1> DEFINE ended == [RecordsAfterCascade(old) EXCEPT ![old] = Retired(@, id)]
  <1>1. id \in LeaseIds \ DOMAIN certs
    BY DEF NewLeaseIds, Unused
  <1>2. /\ certs' = Put(certs, id, RenewedCertificate(old, terms))
        /\ records' = Put(ended, id, ActiveRecord)
        /\ identities' = identities
        /\ rootLease' = RootAfterRenewal(old, id)
    BY DEF Renew, RenewedCertificate
  <1>3. DOMAIN RecordsAfterCascade(old) = DOMAIN certs
        /\ RecordsAfterCascade(old)[old] = records[old]
    BY CascadeType
  <1>4. Issues(id, RenewedCertificate(old, terms))
    BY <1>1, <1>2 DEF Issues, Put
  <1>5. Live(old)
    BY DEF Renew, MayRenew, ValidateActiveRecord, Live, LiveStates
  <1>6. records'[old] = Retired(records[old], id)
    BY <1>1, <1>2, <1>3 DEF Put
  <1>7. \A l \in DOMAIN certs \ {old} : records'[l] = RecordsAfterCascade(old)[l]
    BY <1>1, <1>2, <1>3 DEF Put
  <1> QED
    BY <1>2, <1>4, <1>5, <1>6, <1>7, CascadeMoves

(* Every step of the kernel revises records, delegates or renews. *)
LEMMA StepKinds ==
    ASSUME TypeOK, [Next]_vars
    PROVE  Revises \/ DelegateSome \/ RenewSome
  <1>1. CASE Tick \/ UNCHANGED vars
    BY <1>1 DEF Tick, kernelVars, vars, Revises, TypeOK
  <1>2. CASE PauseSome
    BY <1>2, TransitionRevises DEF PauseSome, Bounded, Pause, LiveStates
  <1>3. CASE ResumeSome
    BY <1>3, TransitionRevises DEF ResumeSome, Bounded, Resume, LiveStates
  <1>4. CASE RevokeSome
    BY <1>4, RevokeRevises DEF RevokeSome
  <1>5. CASE RefreshSome
    BY <1>5, RefreshRevises DEF RefreshSome
  <1> QED
    BY <1>1, <1>2, <1>3, <1>4, <1>5 DEF Next, KernelStep
-----------------------------------------------------------------------------
(***************************************************************************)
(* What a step may never do.                                               *)
(***************************************************************************)

(* A record that changes was live and its generation goes up by one; nothing a
   lease was issued with changes. *)
LEMMA RecordsOnlyMove ==
    ASSUME TypeOK, [Next]_vars, NEW l \in DOMAIN certs
    PROVE  /\ l \in DOMAIN certs' /\ certs'[l] = certs[l]
           /\ \/ records'[l] = records[l]
              \/ Live(l) /\ records'[l].generation = records[l].generation + 1
  <1>1. CASE Revises
    BY <1>1 DEF Revises, Moved
  <1>2. CASE DelegateSome
    BY <1>2, DelegateIssues DEF DelegateSome, Issues
  <1>3. CASE RenewSome
    <2>1. PICK old \in DOMAIN certs, terms \in Offers, id \in NewLeaseIds, now \in Samples :
             Renew(old, records[old].generation, terms, id, now)
      BY <1>3 DEF RenewSome
    <2>2. /\ Issues(id, RenewedCertificate(old, terms))
          /\ Live(old)
          /\ records'[old] = Retired(records[old], id)
          /\ l # old => \/ records'[l] = records[l]
                        \/ Live(l) /\ records'[l] = Moved(records[l], "Revoked")
      BY <2>1, RenewIssues
    <2> QED BY <2>2 DEF Issues, Retired, Moved
  <1> QED
    BY <1>1, <1>2, <1>3, StepKinds

(* A generation is never reused: whatever changes a lease record, on whichever
   path of whichever operation, raises its generation by exactly one. *)
THEOREM GenerationsFence == Spec => GenerationFence
  <1>1. TypeOK /\ [Next]_vars =>
          [\A l \in DOMAIN certs :
              records'[l] # records[l] =>
                  records'[l].generation = records[l].generation + 1]_vars
    BY RecordsOnlyMove
  <1> QED
    BY <1>1, TypeCorrect, PTL DEF Spec, GenerationFence

(* Revoked, Retired and Expired are final and certificates are immutable. *)
THEOREM EndingIsFinal == Spec => EndedIsFinal
  <1>1. TypeOK /\ [Next]_vars =>
          [\A l \in DOMAIN certs :
              /\ l \in DOMAIN certs' /\ certs'[l] = certs[l]
              /\ ~Live(l) => records'[l] = records[l]]_vars
    BY RecordsOnlyMove
  <1> QED
    BY <1>1, TypeCorrect, PTL DEF Spec, EndedIsFinal
-----------------------------------------------------------------------------
(***************************************************************************)
(* Who holds leases.  That delegate refuses a registered agent keeps an    *)
(* agent from a second lease only because every holder is registered.      *)
(***************************************************************************)
HoldersRegistered == \A l \in DOMAIN certs : certs[l].agent \in DOMAIN identities

HolderInv == TypeOK /\ HoldersRegistered /\ OneLiveLeasePerAgent

(* Whoever gets a lease in a step is either registered in that step or gives up
   the live lease that is renewed. *)
LEMMA HolderOfIssued ==
    ASSUME HolderInv, [Next]_vars
    PROVE  \/ Revises
           \/ \E id, cert : /\ Issues(id, cert)
                            /\ cert.agent \notin DOMAIN identities
                            /\ cert.agent \in DOMAIN identities'
                            /\ DOMAIN identities \subseteq DOMAIN identities'
                            /\ \A l \in DOMAIN certs : records'[l] = records[l]
           \/ \E id, cert : \E old \in DOMAIN certs :
                  /\ Issues(id, cert)
                  /\ cert.agent = certs[old].agent
                  /\ identities' = identities
                  /\ Live(old)
                  /\ records'[old].state \notin LiveStates
                  /\ \A l \in DOMAIN certs : records'[l].state \in LiveStates => Live(l)
  <1>1. TypeOK
    BY DEF HolderInv
  <1>2. CASE DelegateSome
    <2>1. PICK parent \in DOMAIN certs, child \in Agents, key \in Keys, terms \in Offers,
               id \in NewLeaseIds, now \in Samples :
             Delegate(parent, records[parent].generation, child, key, terms, id, now)
      BY <1>2 DEF DelegateSome
    <2> DEFINE cert == DelegatedCertificate(parent, child, terms)
    <2>2. cert.agent = child
      BY DEF DelegatedCertificate
    <2> HIDE DEF cert
    <2>3. /\ Issues(id, cert)
          /\ child \notin DOMAIN identities
          /\ DOMAIN identities' = DOMAIN identities \cup {child}
          /\ \A l \in DOMAIN certs : records'[l] = records[l]
      BY <1>1, <2>1, DelegateIssues DEF cert
    <2> QED BY <2>2, <2>3
  <1>3. CASE RenewSome
    <2>1. PICK old \in DOMAIN certs, terms \in Offers, id \in NewLeaseIds, now \in Samples :
             Renew(old, records[old].generation, terms, id, now)
      BY <1>3 DEF RenewSome
    <2> DEFINE cert == RenewedCertificate(old, terms)
    <2>2. cert.agent = certs[old].agent
      BY <1>1 DEF RenewedCertificate, TypeOK, Certificates
    <2> HIDE DEF cert
    <2>3. /\ Issues(id, cert)
          /\ Live(old)
          /\ records'[old] = Retired(records[old], id)
          /\ \A l \in DOMAIN certs \ {old} :
                \/ records'[l] = records[l]
                \/ Live(l) /\ records'[l] = Moved(records[l], "Revoked")
          /\ identities' = identities
      BY <1>1, <2>1, RenewIssues DEF cert
    <2>4. records'[old].state \notin LiveStates
      BY <2>3 DEF Retired, LiveStates
    <2>5. \A l \in DOMAIN certs : records'[l].state \in LiveStates => Live(l)
      BY <2>3, <2>4 DEF Live
    <2> QED BY <2>2, <2>3, <2>4, <2>5
  <1> QED
    BY <1>1, <1>2, <1>3, StepKinds

(* Every holder is registered and holds at most one live lease. *)
LEMMA HolderStep == HolderInv /\ TypeOK' /\ [Next]_vars => HolderInv'
  <1> SUFFICES ASSUME HolderInv, TypeOK', [Next]_vars
               PROVE  HoldersRegistered' /\ OneLiveLeasePerAgent'
    BY DEF HolderInv
  <1> USE DEF HolderInv, HoldersRegistered, OneLiveLeasePerAgent
  <1>1. CASE Revises
    <2>1. \A l \in DOMAIN certs : records'[l].state \in LiveStates => Live(l)
      BY <1>1 DEF Revises, Live
    <2> QED BY <1>1, <2>1 DEF Revises, Live
  <1>2. ASSUME NEW id, NEW cert, Issues(id, cert),
               cert.agent \notin DOMAIN identities, cert.agent \in DOMAIN identities',
               DOMAIN identities \subseteq DOMAIN identities',
               \A l \in DOMAIN certs : records'[l] = records[l]
        PROVE  HoldersRegistered' /\ OneLiveLeasePerAgent'
    BY <1>2 DEF Issues, Live
  <1>3. ASSUME NEW id, NEW cert, NEW old \in DOMAIN certs, Issues(id, cert),
               cert.agent = certs[old].agent, identities' = identities,
               Live(old), records'[old].state \notin LiveStates,
               \A l \in DOMAIN certs : records'[l].state \in LiveStates => Live(l)
        PROVE  HoldersRegistered' /\ OneLiveLeasePerAgent'
    BY <1>3 DEF Issues, Live
  <1> QED
    BY <1>1, <1>2, <1>3, HolderOfIssued

LEMMA HolderInvariant == Spec => []HolderInv
  <1>1. Init => HolderInv
    BY InitType DEF Init, Bootstrap, HolderInv, HoldersRegistered, OneLiveLeasePerAgent
  <1> QED
    BY <1>1, HolderStep, TypeCorrect, PTL DEF Spec

(* No agent ever holds two live leases, whatever is delegated and renewed. *)
THEOREM OneLeasePerAgent == Spec => []OneLiveLeasePerAgent
  <1>1. HolderInv => OneLiveLeasePerAgent
    BY DEF HolderInv
  <1> QED
    BY <1>1, HolderInvariant, PTL

(* An agent whose last live lease has ended never gets another. *)
THEOREM AgentsStayEnded == Spec => EndedAgentStaysEnded
  <1>1. HolderInv /\ [Next]_vars =>
          [\A a \in DOMAIN identities :
              (\A l \in DOMAIN certs : certs[l].agent = a => ~Live(l)) =>
              (\A l \in DOMAIN certs' :
                  certs'[l].agent = a => records'[l].state \notin LiveStates)]_vars
    <2> SUFFICES ASSUME HolderInv, [Next]_vars, NEW a \in DOMAIN identities,
                        \A l \in DOMAIN certs : certs[l].agent = a => ~Live(l),
                        NEW l \in DOMAIN certs', certs'[l].agent = a
                 PROVE  records'[l].state \notin LiveStates
      OBVIOUS
    <2>1. CASE Revises
      BY <2>1 DEF Revises, Live
    <2>2. ASSUME NEW id, NEW cert, Issues(id, cert), cert.agent \notin DOMAIN identities,
                 \A m \in DOMAIN certs : records'[m] = records[m]
          PROVE  records'[l].state \notin LiveStates
      BY <2>2 DEF Issues, Live
    <2>3. ASSUME NEW id, NEW cert, NEW old \in DOMAIN certs, Issues(id, cert),
                 cert.agent = certs[old].agent, Live(old),
                 \A m \in DOMAIN certs : records'[m].state \in LiveStates => Live(m)
          PROVE  records'[l].state \notin LiveStates
      BY <2>3 DEF Issues
    <2> QED
      BY <2>1, <2>2, <2>3, HolderOfIssued
  <1> QED
    BY <1>1, HolderInvariant, PTL DEF Spec, EndedAgentStaysEnded
-----------------------------------------------------------------------------
(***************************************************************************)
(* The root.  RootLeaseIsCurrent speaks of parentless leases only, so it   *)
(* takes the fact that root_lease_id names one: otherwise the renewal of a *)
(* delegated lease might move it.                                          *)
(***************************************************************************)
RootHasNoParent == certs[rootLease].parent = NoLease

RootInv == TypeOK /\ RootHasNoParent /\ RootLeaseIsCurrent

(* Revising records neither retires a lease nor brings one back. *)
LEMMA RevisesRoot ==
    ASSUME RootInv, Revises
    PROVE  RootHasNoParent' /\ RootLeaseIsCurrent'
  <1>1. \A l \in DOMAIN certs : (records'[l].state = "Retired" <=> records[l].state = "Retired")
    BY DEF Revises, Moved, Live, LiveStates
  <1> QED
    BY <1>1 DEF Revises, RootInv, RootHasNoParent, RootLeaseIsCurrent

(* delegate issues a lease that has a parent. *)
LEMMA DelegateRoot ==
    ASSUME RootInv, NEW parent \in DOMAIN certs, NEW expected, NEW child, NEW key,
           NEW terms, NEW id \in NewLeaseIds, NEW now,
           Delegate(parent, expected, child, key, terms, id, now)
    PROVE  RootHasNoParent' /\ RootLeaseIsCurrent'
  <1> DEFINE cert == DelegatedCertificate(parent, child, terms)
  <1>1. cert.parent # NoLease
    BY IdAssumption DEF DelegatedCertificate, RootInv, TypeOK, NoLease
  <1> HIDE DEF cert
  <1>2. /\ Issues(id, cert)
        /\ \A l \in DOMAIN certs : records'[l] = records[l]
        /\ rootLease' = rootLease
    BY DelegateIssues DEF cert, RootInv
  <1> QED
    BY <1>1, <1>2 DEF Issues, RootInv, RootHasNoParent, RootLeaseIsCurrent, TypeOK

(* The successor of the root lease becomes the root lease; the renewal of any
   other lease leaves the root alone. *)
LEMMA RenewRoot ==
    ASSUME RootInv, NEW old \in DOMAIN certs, NEW expected, NEW terms,
           NEW id \in NewLeaseIds, NEW now, Renew(old, expected, terms, id, now)
    PROVE  RootHasNoParent' /\ RootLeaseIsCurrent'
  <1> DEFINE cert == RenewedCertificate(old, terms)
  <1>1. cert.parent = certs[old].parent
    BY DEF RenewedCertificate, RootInv, TypeOK, Certificates
  <1> HIDE DEF cert
  <1>2. /\ Issues(id, cert)
        /\ Live(old)
        /\ records'[old] = Retired(records[old], id)
        /\ \A l \in DOMAIN certs \ {old} :
              \/ records'[l] = records[l]
              \/ Live(l) /\ records'[l] = Moved(records[l], "Revoked")
        /\ rootLease' = IF rootLease = old THEN id ELSE rootLease
    BY RenewIssues DEF cert, RootInv, RootAfterRenewal
  <1>3. \A l \in DOMAIN certs \ {old} :
           (records'[l].state = "Retired" <=> records[l].state = "Retired")
    <2>1. \A l \in DOMAIN certs : Live(l) => records[l].state # "Retired"
      BY DEF Live, LiveStates
    <2>2. \A l \in DOMAIN certs : Moved(records[l], "Revoked").state # "Retired"
      BY DEF Moved
    <2> QED BY <1>2, <2>1, <2>2
  <1>4. records'[old].state = "Retired" /\ records[old].state # "Retired"
    BY <1>2 DEF Retired, Live, LiveStates
  <1>5. records'[id].state # "Retired"
    BY <1>2 DEF Issues, ActiveRecord
  <1>6. CASE rootLease = old
    BY <1>1, <1>2, <1>3, <1>4, <1>5, <1>6
       DEF Issues, RootInv, RootHasNoParent, RootLeaseIsCurrent, TypeOK
  <1>7. CASE rootLease # old
    <2>1. certs[old].parent # NoLease
      BY <1>4, <1>7 DEF RootInv, RootLeaseIsCurrent
    <2> QED
      BY <1>1, <1>2, <1>3, <1>7, <2>1
         DEF Issues, RootInv, RootHasNoParent, RootLeaseIsCurrent, TypeOK
  <1> QED
    BY <1>6, <1>7

LEMMA RootInvariant == Spec => []RootInv
  <1>1. Init => RootInv
    <2> SUFFICES ASSUME Init PROVE RootHasNoParent /\ RootLeaseIsCurrent
      BY InitType DEF RootInv
    <2>1. PICK id \in LeaseIds : Bootstrap(id)
      BY DEF Init
    <2> QED
      BY <2>1 DEF Bootstrap, RootHasNoParent, RootLeaseIsCurrent, ActiveRecord
  <1>2. RootInv /\ TypeOK' /\ [Next]_vars => RootInv'
    <2> SUFFICES ASSUME RootInv, TypeOK', [Next]_vars
                 PROVE  RootHasNoParent' /\ RootLeaseIsCurrent'
      BY DEF RootInv
    <2>1. CASE Revises
      BY <2>1, RevisesRoot
    <2>2. CASE DelegateSome
      BY <2>2, DelegateRoot DEF DelegateSome
    <2>3. CASE RenewSome
      BY <2>3, RenewRoot DEF RenewSome
    <2> QED
      BY <2>1, <2>2, <2>3, StepKinds DEF RootInv
  <1> QED
    BY <1>1, <1>2, TypeCorrect, PTL DEF Spec

(* root_lease_id always names the one parentless lease that was not renewed
   away. *)
THEOREM RootIsCurrent == Spec => []RootLeaseIsCurrent
  <1>1. RootInv => RootLeaseIsCurrent
    BY DEF RootInv
  <1> QED
    BY <1>1, RootInvariant, PTL
-----------------------------------------------------------------------------
(***************************************************************************)
(* What a lease grants.  Both bounds, the mission's and the ancestors',    *)
(* rest on two facts about single certificates: what a lease makes         *)
(* delegable it grants, and its parent bounds it.  The second survives     *)
(* renewal although renew never looks at the parent's authority, because   *)
(* the lease it replaces was bounded already.                              *)
(***************************************************************************)
DelegableIsGranted ==
    \A l \in DOMAIN certs :
        AuthorityIsSubsetOf(certs[l].terms.delegable, certs[l].terms.granted)

AttenuatedUnder(child, parent) ==
    /\ AuthorityIsSubsetOf(child.terms.granted, parent.terms.delegable)
    /\ child.terms.tools \subseteq parent.terms.tools
    /\ child.terms.expires <= parent.terms.expires

AttenuatedUnderParent ==
    \A l \in DOMAIN certs :
        certs[l].parent # NoLease => AttenuatedUnder(certs[l], certs[certs[l].parent])

TermsInv == TreeInv /\ DelegableIsGranted /\ WithinMission /\ AttenuatedUnderParent

(* is_subset_of on sets of capabilities is transitive. *)
LEMMA SubsetTransitive ==
    ASSUME NEW A \in SUBSET Capabilities, NEW B \in SUBSET Capabilities,
           NEW C \in SUBSET Capabilities,
           AuthorityIsSubsetOf(A, B), AuthorityIsSubsetOf(B, C)
    PROVE  AuthorityIsSubsetOf(A, C)
  BY NarrowerAssumption DEF AuthorityIsSubsetOf

(* An issued lease keeps the bounds if its own certificate meets them. *)
LEMMA IssuedTerms ==
    ASSUME TermsInv, NEW id, NEW cert, Issues(id, cert),
           AuthorityIsSubsetOf(cert.terms.delegable, cert.terms.granted),
           AuthorityIsSubsetOf(cert.terms.granted, MissionCapabilities),
           cert.terms.tools \subseteq MissionTools,
           cert.terms.expires <= MissionExpiry,
           cert.parent # NoLease =>
              /\ cert.parent \in DOMAIN certs
              /\ AttenuatedUnder(cert, certs[cert.parent])
    PROVE  DelegableIsGranted' /\ WithinMission' /\ AttenuatedUnderParent'
  <1>1. /\ DOMAIN certs' = DOMAIN certs \cup {id}
        /\ certs'[id] = cert
        /\ \A l \in DOMAIN certs : certs'[l] = certs[l]
    BY DEF Issues
  <1>2. \A l \in DOMAIN certs : certs[l].parent # NoLease => certs[l].parent \in DOMAIN certs
    BY DEF TermsInv, TreeInv, IssuedInOrder
  <1>3. DelegableIsGranted'
    BY <1>1 DEF TermsInv, DelegableIsGranted
  <1>4. WithinMission'
    BY <1>1 DEF TermsInv, WithinMission
  <1>5. AttenuatedUnderParent'
    BY <1>1, <1>2 DEF TermsInv, AttenuatedUnderParent
  <1> QED
    BY <1>3, <1>4, <1>5

(* The capability sets of certificates, and of the mission, are capability sets. *)
LEMMA CapabilitySets ==
    ASSUME TypeOK, NEW l \in DOMAIN certs
    PROVE  /\ certs[l].terms.granted \in SUBSET Capabilities
           /\ certs[l].terms.delegable \in SUBSET Capabilities
           /\ MissionCapabilities \in SUBSET Capabilities
  BY TermsAssumption DEF TypeOK, Certificates, Terms

(* delegate compares a new lease with its parent. *)
LEMMA DelegateTerms ==
    ASSUME TermsInv, NEW parent \in DOMAIN certs, NEW expected, NEW child, NEW key,
           NEW terms \in Terms, NEW id \in NewLeaseIds, NEW now,
           Delegate(parent, expected, child, key, terms, id, now)
    PROVE  DelegableIsGranted' /\ WithinMission' /\ AttenuatedUnderParent'
  <1> DEFINE cert == DelegatedCertificate(parent, child, terms)
             above == certs[parent].terms
  <1>1. TypeOK
    BY DEF TermsInv, TreeInv
  <1>2. Issues(id, cert)
    BY <1>1, DelegateIssues
  <1>3. cert.terms = terms /\ cert.parent = parent
    BY DEF DelegatedCertificate
  <1>4. /\ AuthorityIsSubsetOf(terms.delegable, terms.granted)
        /\ AuthorityIsSubsetOf(terms.granted, above.delegable)
        /\ terms.tools \subseteq above.tools
        /\ terms.expires <= above.expires
        /\ terms.expires <= MissionExpiry
    BY DEF Delegate, ValidateDelegationRequest, ValidateAuthoritySets,
           ValidateManifestAttenuation
  <1>5. AuthorityIsSubsetOf(terms.granted, MissionCapabilities)
    <2>1. /\ AuthorityIsSubsetOf(above.delegable, above.granted)
          /\ AuthorityIsSubsetOf(above.granted, MissionCapabilities)
      BY DEF TermsInv, DelegableIsGranted, WithinMission
    <2>2. terms.granted \in SUBSET Capabilities
      BY DEF Terms
    <2>3. AuthorityIsSubsetOf(above.delegable, MissionCapabilities)
      BY <1>1, <2>1, CapabilitySets, SubsetTransitive
    <2> QED
      BY <1>1, <1>4, <2>2, <2>3, CapabilitySets, SubsetTransitive
  <1>6. terms.tools \subseteq MissionTools
    BY <1>4 DEF TermsInv, WithinMission
  <1>7. AttenuatedUnder(cert, certs[parent])
    BY <1>3, <1>4 DEF AttenuatedUnder
  <1> HIDE DEF cert, above
  <1> QED
    BY <1>2, <1>3, <1>4, <1>5, <1>6, <1>7, IssuedTerms

(* renew compares a new lease with the lease it replaces. *)
LEMMA RenewTerms ==
    ASSUME TermsInv, NEW old \in DOMAIN certs, NEW expected, NEW terms \in Terms,
           NEW id \in NewLeaseIds, NEW now, Renew(old, expected, terms, id, now)
    PROVE  DelegableIsGranted' /\ WithinMission' /\ AttenuatedUnderParent'
  <1> DEFINE cert == RenewedCertificate(old, terms)
             before == certs[old].terms
             parent == certs[old].parent
  <1>1. TypeOK
    BY DEF TermsInv, TreeInv
  <1>2. Issues(id, cert)
    BY <1>1, RenewIssues
  <1>3. cert.terms = terms /\ cert.parent = parent
    BY <1>1 DEF RenewedCertificate, TypeOK, Certificates
  <1>4. /\ AuthorityIsSubsetOf(terms.delegable, terms.granted)
        /\ AuthorityIsSubsetOf(terms.granted, before.granted)
        /\ terms.tools \subseteq before.tools
        /\ terms.expires <= MissionExpiry
        /\ parent # NoLease => /\ parent \in DOMAIN certs
                               /\ terms.expires <= certs[parent].terms.expires
    BY DEF Renew, MayRenew, ValidateRenewalRequest, RenewalLifetime, ValidateAuthoritySets,
           ValidateManifestAttenuation
  <1>5. terms.granted \in SUBSET Capabilities
    BY DEF Terms
  <1>6. AuthorityIsSubsetOf(terms.granted, MissionCapabilities)
    <2>1. AuthorityIsSubsetOf(before.granted, MissionCapabilities)
      BY DEF TermsInv, WithinMission
    <2> QED
      BY <1>1, <1>4, <1>5, <2>1, CapabilitySets, SubsetTransitive
  <1>7. terms.tools \subseteq MissionTools
    BY <1>4 DEF TermsInv, WithinMission
  <1>8. ASSUME parent # NoLease PROVE AttenuatedUnder(cert, certs[parent])
    <2>1. AttenuatedUnder(certs[old], certs[parent])
      BY <1>8 DEF TermsInv, AttenuatedUnderParent
    <2>2. AuthorityIsSubsetOf(terms.granted, certs[parent].terms.delegable)
      BY <1>1, <1>4, <1>5, <1>8, <2>1, CapabilitySets, SubsetTransitive DEF AttenuatedUnder
    <2> QED
      BY <1>3, <1>4, <1>8, <2>1, <2>2 DEF AttenuatedUnder
  <1> HIDE DEF cert, before, parent
  <1> QED
    BY <1>2, <1>3, <1>4, <1>6, <1>7, <1>8, IssuedTerms

LEMMA TermsInvariant == Spec => []TermsInv
  <1>1. Init /\ TreeInv => TermsInv
    <2> SUFFICES ASSUME Init PROVE DelegableIsGranted /\ WithinMission /\ AttenuatedUnderParent
      BY DEF TermsInv
    <2>1. PICK id \in LeaseIds : Bootstrap(id)
      BY DEF Init
    <2> QED
      BY <2>1 DEF Bootstrap, DelegableIsGranted, WithinMission, AttenuatedUnderParent,
                  ValidateRootRequest, ValidateAuthoritySets
  <1>2. TermsInv /\ TreeInv' /\ [Next]_vars => TermsInv'
    <2> SUFFICES ASSUME TermsInv, TreeInv', [Next]_vars
                 PROVE  DelegableIsGranted' /\ WithinMission' /\ AttenuatedUnderParent'
      BY DEF TermsInv
    <2>1. CASE Revises
      BY <2>1 DEF Revises, TermsInv, DelegableIsGranted, WithinMission, AttenuatedUnderParent
    <2>2. CASE DelegateSome
      BY <2>2, DelegateTerms, TermsAssumption DEF DelegateSome
    <2>3. CASE RenewSome
      BY <2>3, RenewTerms, TermsAssumption DEF RenewSome
    <2> QED
      BY <2>1, <2>2, <2>3, StepKinds DEF TermsInv, TreeInv
  <1> QED
    BY <1>1, <1>2, TreeInvariant, PTL DEF Spec

(* No lease ever carries authority, tools or lifetime beyond the mission. *)
THEOREM StaysWithinMission == Spec => []WithinMission
  <1>1. TermsInv => WithinMission
    BY DEF TermsInv
  <1> QED
    BY <1>1, TermsInvariant, PTL

(* A set of leases that holds the leaf and is closed under parents holds its
   chain. *)
LEMMA ChainLeast ==
    ASSUME NEW leaf, NEW S \in SUBSET DOMAIN certs, leaf \in S, ClosedUnderParents(S)
    PROVE  Chain(leaf) \subseteq S
  BY DEF Chain

(* Every ancestor bounds what a lease grants, however long the chain and
   however often its leases were renewed. *)
THEOREM AttenuatedByEveryAncestor == Spec => []AttenuatedAlongChain
  <1>1. TermsInv => AttenuatedAlongChain
    <2> SUFFICES ASSUME TermsInv, NEW l \in DOMAIN certs
                 PROVE  \A a \in Chain(l) \ {l} : AttenuatedUnder(certs[l], certs[a])
      BY DEF AttenuatedAlongChain, AttenuatedUnder
    <2>1. TypeOK
      BY DEF TermsInv, TreeInv
    <2> DEFINE S == {a \in DOMAIN certs : a = l \/ AttenuatedUnder(certs[l], certs[a])}
    <2>2. ASSUME NEW a \in S, certs[a].parent \in DOMAIN certs
          PROVE  certs[a].parent \in S
      <3> DEFINE p == certs[a].parent
      <3>1. AttenuatedUnder(certs[a], certs[p])
        BY <2>1, <2>2, IdAssumption DEF TermsInv, AttenuatedUnderParent, TypeOK, NoLease
      <3>2. CASE a = l
        BY <2>2, <3>1, <3>2
      <3>3. CASE AttenuatedUnder(certs[l], certs[a])
        <4>1. AuthorityIsSubsetOf(certs[a].terms.delegable, certs[a].terms.granted)
          BY DEF TermsInv, DelegableIsGranted
        <4>2. AuthorityIsSubsetOf(certs[l].terms.granted, certs[a].terms.granted)
          BY <2>1, <3>3, <4>1, CapabilitySets, SubsetTransitive DEF AttenuatedUnder
        <4>3. AuthorityIsSubsetOf(certs[l].terms.granted, certs[p].terms.delegable)
          BY <2>1, <2>2, <3>1, <4>2, CapabilitySets, SubsetTransitive DEF AttenuatedUnder
        <4>4. certs[l].terms.tools \subseteq certs[p].terms.tools
          BY <3>1, <3>3 DEF AttenuatedUnder
        <4>5. \A m \in {l, a, p} : certs[m].terms.expires \in Nat
          BY <2>1, <2>2 DEF TypeOK, Certificates, Terms
        <4>6. certs[l].terms.expires <= certs[p].terms.expires
          BY <3>1, <3>3, <4>5 DEF AttenuatedUnder
        <4> QED
          BY <2>2, <4>3, <4>4, <4>6 DEF AttenuatedUnder
      <3> QED BY <3>2, <3>3
    <2>3. Chain(l) \subseteq S
      <3>1. ClosedUnderParents(S)
        BY <2>2 DEF ClosedUnderParents
      <3>2. l \in S /\ S \in SUBSET DOMAIN certs
        OBVIOUS
      <3> HIDE DEF S
      <3> QED BY <3>1, <3>2, ChainLeast
    <2> QED BY <2>3
  <1> QED
    BY <1>1, TermsInvariant, PTL
=============================================================================
