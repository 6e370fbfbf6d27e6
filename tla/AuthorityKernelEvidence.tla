----------------------- MODULE AuthorityKernelEvidence -----------------------
(***************************************************************************)
(* What the authority kernel leaves for others to examine, for every value *)
(* of the constants: chains that pass validate_chain but for the states of *)
(* their leases, and events that are complete evidence of the records.     *)
(***************************************************************************)
EXTENDS AuthorityKernelSafety, FiniteSetTheorems

(***************************************************************************)
(* Chains.                                                                 *)
(*                                                                         *)
(* validate_chain looks at whole chains of leases and of identities.  The  *)
(* inductive invariant is about single certificates and identities and     *)
(* their neighbours, and about the depth of a chain; that a chain of       *)
(* leases ends at a root, and the identity chain beside it too, follows.   *)
(***************************************************************************)
FiniteKernel == IsFiniteSet(DOMAIN certs)

DepthBounded == \A l \in DOMAIN certs : Cardinality(Chain(l)) <= MaxDepth

SetsValidated == \A l \in DOMAIN certs : ValidateAuthoritySets(certs[l].terms)

\* A certificate names its parent's agent and describes the same base.
ParentsMatch ==
    \A l \in DOMAIN certs :
        IF certs[l].parent = NoLease THEN certs[l].parentAgent = NoAgent
        ELSE /\ certs[l].parentAgent = certs[certs[l].parent].agent
             /\ certs[l].terms.base = certs[certs[l].parent].terms.base

Issuer(cert) == IF cert.parentAgent = NoAgent THEN cert.agent ELSE cert.parentAgent

\* The identity of a lease's agent was issued by whoever issued the lease.
IssuersMatch ==
    \A l \in DOMAIN certs :
        /\ Issuer(certs[l]) \in DOMAIN identities
        /\ identities[Issuer(certs[l])].key = certs[l].issuerKey
        /\ identities[certs[l].agent].issuer = certs[l].parentAgent

IdentitiesMatch ==
    \A a \in DOMAIN identities :
        IF identities[a].issuer = NoAgent
        THEN identities[a].issuerKey = identities[a].key
        ELSE /\ identities[a].issuer \in DOMAIN identities
             /\ identities[a].issuerKey = identities[identities[a].issuer].key

RenewalMatches(l, prior) ==
    /\ prior \in DOMAIN certs
    /\ certs[prior].agent = certs[l].agent
    /\ records[prior].state = "Retired"
    /\ records[prior].renewedBy = l

RenewalsMatch ==
    \A l \in DOMAIN certs :
        certs[l].renewedFrom # NoLease => RenewalMatches(l, certs[l].renewedFrom)

LocalInv ==
    /\ SetsValidated
    /\ ParentsMatch
    /\ IssuersMatch
    /\ IdentitiesMatch
    /\ RenewalsMatch

ChainInv ==
    /\ TermsInv
    /\ HolderInv
    /\ FiniteKernel
    /\ DepthBounded
    /\ LocalInv
-----------------------------------------------------------------------------
(***************************************************************************)
(* From neighbours to chains.                                              *)
(***************************************************************************)

(* validate_chain goes on from every lease to its parent. *)
LEMMA ChainClosed ==
    ASSUME NEW l \in DOMAIN certs, NEW m \in Chain(l), certs[m].parent \in DOMAIN certs
    PROVE  certs[m].parent \in Chain(l)
  BY DEF Chain, ClosedUnderParents

(* Walking up from any lease reaches a root: the earliest lease on the chain
   has no parent. *)
LEMMA ChainHasRoot ==
    ASSUME TypeOK, IssuedInOrder, NEW l \in DOMAIN certs
    PROVE  \E m \in Chain(l) : certs[m].parent = NoLease
  <1> DEFINE order == [m \in DOMAIN certs |-> m]
  <1>1. order \in [DOMAIN certs -> Nat]
    BY IdAssumption DEF TypeOK
  <1>2. Chain(l) \in SUBSET DOMAIN certs /\ Chain(l) # {}
    BY LeafInChain DEF Chain
  <1> HIDE DEF order
  <1>3. PICK first \in Chain(l) : \A e \in Chain(l) : order[first] <= order[e]
    BY <1>1, <1>2, FirstInSweep
  <1>4. \A m \in DOMAIN certs : order[m] = m /\ m \in Nat
    BY IdAssumption DEF order, TypeOK
  <1>5. ASSUME certs[first].parent # NoLease PROVE FALSE
    <2> DEFINE p == certs[first].parent
    <2>1. p \in DOMAIN certs /\ p < first
      BY <1>2, <1>5 DEF IssuedInOrder
    <2>2. p \in Chain(l)
      BY <2>1, ChainClosed
    <2>3. first <= p
      BY <1>2, <1>3, <1>4, <2>2
    <2> QED BY <1>2, <1>4, <2>1, <2>3
  <1> QED
    BY <1>5

(* The identities behind a lease belong to the agents of its chain ... *)
LEMMA IdentitiesOnChain ==
    ASSUME TypeOK, IssuedInOrder, HoldersRegistered, ParentsMatch, IssuersMatch,
           NEW l \in DOMAIN certs
    PROVE  IdentityChain(certs[l].agent) \subseteq {certs[m].agent : m \in Chain(l)}
  <1> DEFINE S == {certs[m].agent : m \in Chain(l)}
  <1>1. Chain(l) \subseteq DOMAIN certs
    BY DEF Chain
  <1>2. S \subseteq DOMAIN identities
    BY <1>1 DEF HoldersRegistered
  <1>3. certs[l].agent \in S
    BY LeafInChain
  <1>4. ASSUME NEW a \in S, identities[a].issuer \in DOMAIN identities
        PROVE  identities[a].issuer \in S
    <2>1. PICK m \in Chain(l) : a = certs[m].agent
      OBVIOUS
    <2>2. identities[a].issuer = certs[m].parentAgent /\ certs[m].parentAgent # NoAgent
      BY <1>1, <1>4, <2>1, IdAssumption DEF IssuersMatch, TypeOK
    <2>3. /\ certs[m].parent # NoLease
          /\ certs[m].parentAgent = certs[certs[m].parent].agent
      BY <1>1, <2>2 DEF ParentsMatch
    <2>4. certs[m].parent \in Chain(l)
      BY <1>1, <2>3, ChainClosed DEF IssuedInOrder
    <2> QED BY <2>2, <2>3, <2>4
  <1>5. ClosedUnderIssuers(S)
    BY <1>4 DEF ClosedUnderIssuers
  <1> HIDE DEF S
  <1>6. IdentityChain(certs[l].agent) \subseteq S
    BY <1>2, <1>3, <1>5 DEF IdentityChain
  <1> QED
    BY <1>6 DEF S

(* ... and every agent of the chain is met by validate_identity_chain. *)
LEMMA ChainInIdentities ==
    ASSUME TypeOK, HoldersRegistered, ParentsMatch, IssuersMatch,
           NEW l \in DOMAIN certs, NEW m \in Chain(l)
    PROVE  certs[m].agent \in IdentityChain(certs[l].agent)
  <1> DEFINE I == IdentityChain(certs[l].agent)
             S == {k \in DOMAIN certs : certs[k].agent \in I}
  <1>1. l \in S
    BY DEF IdentityChain, HoldersRegistered
  <1>2. \A a \in I : identities[a].issuer \in DOMAIN identities => identities[a].issuer \in I
    BY DEF IdentityChain, ClosedUnderIssuers
  <1> HIDE DEF I
  <1>3. ASSUME NEW k \in S, certs[k].parent \in DOMAIN certs
        PROVE  certs[k].parent \in S
    <2>1. certs[k].parent # NoLease
      BY <1>3, IdAssumption DEF TypeOK
    <2>2. /\ identities[certs[k].agent].issuer = certs[k].parentAgent
          /\ certs[k].parentAgent = certs[certs[k].parent].agent
      BY <2>1 DEF IssuersMatch, ParentsMatch
    <2>3. certs[k].parentAgent \in DOMAIN identities
      BY <1>3, <2>2 DEF HoldersRegistered
    <2> QED BY <1>2, <1>3, <2>2, <2>3
  <1>4. ClosedUnderParents(S)
    BY <1>3 DEF ClosedUnderParents
  <1>5. S \in SUBSET DOMAIN certs
    OBVIOUS
  <1> HIDE DEF S
  <1>6. m \in S
    BY <1>1, <1>4, <1>5, ChainLeast
  <1> QED
    BY <1>6 DEF S, I

(* The identity of every holder is anchored, and no deeper than its lease. *)
LEMMA IdentityChainValid ==
    ASSUME ChainInv, NEW l \in DOMAIN certs
    PROVE  ValidateIdentityChain(certs[l].agent)
  <1> DEFINE I == IdentityChain(certs[l].agent)
             A == {certs[m].agent : m \in Chain(l)}
  <1>1. TypeOK /\ IssuedInOrder /\ HoldersRegistered
    BY DEF ChainInv, TermsInv, TreeInv, HolderInv
  <1>2. ParentsMatch /\ IssuersMatch /\ IdentitiesMatch
    BY DEF ChainInv, LocalInv
  <1>3. I \subseteq DOMAIN identities
    BY DEF IdentityChain
  <1>4. \A a \in I : IF identities[a].issuer = NoAgent
                     THEN identities[a].issuerKey = identities[a].key
                     ELSE /\ identities[a].issuer \in DOMAIN identities
                          /\ identities[a].issuerKey = identities[identities[a].issuer].key
    BY <1>2, <1>3 DEF IdentitiesMatch
  <1>5. \E a \in I : identities[a].issuer = NoAgent
    <2>1. PICK m \in Chain(l) : certs[m].parent = NoLease
      BY <1>1, ChainHasRoot
    <2>2. m \in DOMAIN certs
      BY DEF Chain
    <2>3. identities[certs[m].agent].issuer = NoAgent
      BY <1>2, <2>1, <2>2 DEF ParentsMatch, IssuersMatch
    <2>4. certs[m].agent \in I
      BY <1>1, <1>2, ChainInIdentities
    <2> QED BY <2>3, <2>4
  <1>6. Cardinality(I) <= MaxDepth
    <2>1. Chain(l) \in SUBSET DOMAIN certs
      BY DEF Chain
    <2>2. IsFiniteSet(Chain(l)) /\ Cardinality(Chain(l)) <= MaxDepth
      BY <2>1, FS_Subset DEF ChainInv, FiniteKernel, DepthBounded
    <2>3. IsFiniteSet(A) /\ Cardinality(A) <= Cardinality(Chain(l))
      <3> DEFINE f == [m \in Chain(l) |-> certs[m].agent]
      <3>1. f \in Surjection(Chain(l), A)
        BY DEF Surjection
      <3> HIDE DEF f, A
      <3> QED BY <2>2, <3>1, FS_Surjection
    <2>4. I \in SUBSET A
      BY <1>1, <1>2, IdentitiesOnChain
    <2> HIDE DEF I, A
    <2>5. IsFiniteSet(I) /\ Cardinality(I) <= Cardinality(A)
      BY <2>3, <2>4, FS_Subset
    <2>6. Cardinality(I) \in Nat /\ Cardinality(A) \in Nat /\ Cardinality(Chain(l)) \in Nat
      BY <2>2, <2>3, <2>5, FS_CardinalityType
    <2> QED BY <2>2, <2>3, <2>5, <2>6, BoundAssumption
  <1> QED
    BY <1>4, <1>5, <1>6 DEF ValidateIdentityChain

(* Nothing but the state of its leases is wrong with any chain. *)
LEMMA ChainsAreSound ==
    ASSUME ChainInv
    PROVE  OnlyInactivityBreaksAChain
  <1> SUFFICES ASSUME NEW leaf \in DOMAIN certs PROVE ChainIsSound(leaf)
    BY DEF OnlyInactivityBreaksAChain
  <1>1. TypeOK /\ IssuedInOrder /\ HoldersRegistered /\ AttenuatedUnderParent
    BY DEF ChainInv, TermsInv, TreeInv, HolderInv
  <1>2. SetsValidated /\ ParentsMatch /\ IssuersMatch /\ RenewalsMatch
    BY DEF ChainInv, LocalInv
  <1>3. Chain(leaf) \subseteq DOMAIN certs
    BY DEF Chain
  <1>4. \E l \in Chain(leaf) : certs[l].parent = NoLease
    BY <1>1, ChainHasRoot
  <1>5. Cardinality(Chain(leaf)) <= MaxDepth
    BY DEF ChainInv, DepthBounded
  <1>6. ASSUME NEW l \in DOMAIN certs PROVE ValidateCertificateEntry(l)
    BY <1>1, <1>2, IdentityChainValid
       DEF ValidateCertificateEntry, HoldersRegistered, IssuersMatch, Issuer, RenewalsMatch,
           RenewalMatches
  <1>7. ASSUME NEW l \in DOMAIN certs, certs[l].parent # NoLease
        PROVE  /\ certs[l].parent \in DOMAIN certs
               /\ ValidateParentChild(certs[l].parent, l)
    BY <1>1, <1>2, <1>7
       DEF ValidateParentChild, ValidateManifestAttenuation, IssuedInOrder, SetsValidated,
           ParentsMatch, AttenuatedUnderParent, AttenuatedUnder
  <1> QED
    BY <1>3, <1>4, <1>5, <1>6, <1>7 DEF ChainIsSound
-----------------------------------------------------------------------------
(***************************************************************************)
(* How chains grow.                                                        *)
(***************************************************************************)

(* A new lease lengthens no chain that was there before ... *)
LEMMA ChainsKeep ==
    ASSUME IssuedInOrder, NEW id, NEW cert, Issues(id, cert), TypeOK', NEW l \in DOMAIN certs
    PROVE  Chain(l)' \subseteq Chain(l)
  <1> PICK S : S = Chain(l)
    OBVIOUS
  <1>1. /\ DOMAIN certs' = DOMAIN certs \cup {id}
        /\ \A m \in DOMAIN certs : certs'[m] = certs[m]
        /\ DOMAIN certs' \subseteq LeaseIds
    BY DEF Issues, TypeOK
  <1>2. S \subseteq DOMAIN certs /\ l \in S
    BY LeafInChain DEF Chain
  <1>3. ASSUME NEW m \in S, certs'[m].parent \in DOMAIN certs'
        PROVE  certs'[m].parent \in S
    <2>1. certs'[m].parent = certs[m].parent /\ certs[m].parent # NoLease
      BY <1>1, <1>2, <1>3, IdAssumption
    <2>2. certs[m].parent \in DOMAIN certs
      BY <1>2, <2>1 DEF IssuedInOrder
    <2> QED BY <2>1, <2>2, ChainClosed
  <1>4. S \subseteq DOMAIN certs' /\ ClosedUnderParents(S)'
    BY <1>1, <1>2, <1>3 DEF ClosedUnderParents
  <1>5. Chain(l)' \subseteq S
    BY <1>2, <1>4 DEF Chain
  <1> QED BY <1>5

(* ... and its own chain is its parent's, with the new lease on top. *)
LEMMA ChainOfIssued ==
    ASSUME IssuedInOrder, NEW id, NEW cert, Issues(id, cert), TypeOK',
           NEW S \in SUBSET DOMAIN certs,
           \A m \in S : certs[m].parent \in DOMAIN certs => certs[m].parent \in S,
           cert.parent # NoLease => cert.parent \in S
    PROVE  Chain(id)' \subseteq S \cup {id}
  <1> DEFINE T == S \cup {id}
  <1>1. /\ DOMAIN certs' = DOMAIN certs \cup {id}
        /\ certs'[id] = cert
        /\ \A m \in DOMAIN certs : certs'[m] = certs[m]
        /\ DOMAIN certs' \subseteq LeaseIds
    BY DEF Issues, TypeOK
  <1>2. ASSUME NEW m \in T, certs'[m].parent \in DOMAIN certs'
        PROVE  certs'[m].parent \in T
    <2>1. certs'[m].parent # NoLease
      BY <1>1, <1>2, IdAssumption
    <2>2. CASE m = id
      BY <1>1, <2>1, <2>2
    <2>3. CASE m \in S
      BY <1>1, <2>1, <2>3 DEF IssuedInOrder
    <2> QED BY <2>2, <2>3
  <1>3. T \subseteq DOMAIN certs' /\ id \in T
    BY <1>1
  <1> HIDE DEF T
  <1>4. ClosedUnderParents(T)'
    BY <1>2 DEF ClosedUnderParents
  <1>5. Chain(id)' \subseteq T
    BY <1>3, <1>4 DEF Chain
  <1> QED BY <1>5 DEF T

(* Issuing one lease keeps the kernel finite and every chain within the depth
   limit, if the new chain is. *)
LEMMA IssuedDepth ==
    ASSUME ChainInv, TypeOK', NEW id, NEW cert, Issues(id, cert),
           NEW S \in SUBSET DOMAIN certs,
           \A m \in S : certs[m].parent \in DOMAIN certs => certs[m].parent \in S,
           cert.parent # NoLease => cert.parent \in S,
           Cardinality(S) < MaxDepth
    PROVE  FiniteKernel' /\ DepthBounded'
  <1>1. DOMAIN certs' = DOMAIN certs \cup {id} /\ id \notin DOMAIN certs
    BY DEF Issues
  <1>2. IsFiniteSet(DOMAIN certs) /\ IssuedInOrder
    BY DEF ChainInv, FiniteKernel, TermsInv, TreeInv
  <1>3. FiniteKernel'
    BY <1>1, <1>2, FS_AddElement DEF FiniteKernel
  <1>4. ASSUME NEW l \in DOMAIN certs PROVE Cardinality(Chain(l)') <= MaxDepth
    <2>1. IsFiniteSet(Chain(l)) /\ Cardinality(Chain(l)) <= MaxDepth
      <3>1. Chain(l) \in SUBSET DOMAIN certs
        BY DEF Chain
      <3> QED BY <1>2, <3>1, FS_Subset DEF ChainInv, DepthBounded
    <2>2. IsFiniteSet(Chain(l)') /\ Cardinality(Chain(l)') <= Cardinality(Chain(l))
      <3>1. Chain(l)' \in SUBSET Chain(l)
        BY <1>2, ChainsKeep
      <3> QED BY <2>1, <3>1, FS_Subset
    <2>3. Cardinality(Chain(l)) \in Nat /\ Cardinality(Chain(l)') \in Nat
      BY <2>1, <2>2, FS_CardinalityType
    <2> QED BY <2>1, <2>2, <2>3, BoundAssumption
  <1>5. Cardinality(Chain(id)') <= MaxDepth
    <2>1. IsFiniteSet(S) /\ Cardinality(S) \in Nat
      BY <1>2, FS_Subset, FS_CardinalityType
    <2>2. /\ IsFiniteSet(S \cup {id})
          /\ Cardinality(S \cup {id}) = Cardinality(S) + 1
      BY <1>1, <2>1, FS_AddElement
    <2>3. /\ IsFiniteSet(Chain(id)')
          /\ Cardinality(Chain(id)') <= Cardinality(S \cup {id})
      <3>1. Chain(id)' \in SUBSET (S \cup {id})
        BY <1>2, ChainOfIssued
      <3> QED BY <2>2, <3>1, FS_Subset
    <2>4. Cardinality(Chain(id)') \in Nat
      BY <2>3, FS_CardinalityType
    <2> QED BY <2>1, <2>2, <2>3, <2>4, BoundAssumption
  <1>6. DepthBounded'
    BY <1>1, <1>4, <1>5 DEF DepthBounded
  <1> QED BY <1>3, <1>6

(* Operations that issue no lease change no certificate and no renewal. *)
LEMMA RevisesChains ==
    ASSUME ChainInv, Revises
    PROVE  FiniteKernel' /\ DepthBounded' /\ LocalInv'
  <1>1. certs' = certs /\ identities' = identities
    BY DEF Revises
  <1>2. FiniteKernel'
    BY <1>1 DEF ChainInv, FiniteKernel
  <1>3. \A l \in DOMAIN certs : Chain(l)' = Chain(l)
    BY <1>1 DEF Chain, ClosedUnderParents
  <1>4. DepthBounded'
    BY <1>1, <1>3 DEF ChainInv, DepthBounded
  <1>5. SetsValidated' /\ ParentsMatch' /\ IssuersMatch' /\ IdentitiesMatch'
    BY <1>1 DEF ChainInv, LocalInv, SetsValidated, ParentsMatch, IssuersMatch, IdentitiesMatch
  <1>6. \A l \in DOMAIN certs : records[l].state = "Retired" => records'[l] = records[l]
    BY DEF Revises, Live, LiveStates
  <1>7. RenewalsMatch'
    BY <1>1, <1>6 DEF ChainInv, LocalInv, RenewalsMatch, RenewalMatches
  <1> QED
    BY <1>2, <1>4, <1>5, <1>7 DEF LocalInv

(* delegate issues the identity and the lease in the name of the parent's
   agent, one level below the parent. *)
LEMMA DelegateChains ==
    ASSUME ChainInv, TypeOK', NEW parent \in DOMAIN certs, NEW expected, NEW child,
           NEW key, NEW terms, NEW id \in NewLeaseIds, NEW now,
           Delegate(parent, expected, child, key, terms, id, now)
    PROVE  FiniteKernel' /\ DepthBounded' /\ LocalInv'
  <1> DEFINE cert == DelegatedCertificate(parent, child, terms)
             issuer == certs[parent].agent
  <1>1. TypeOK /\ HoldersRegistered /\ IssuedInOrder
    BY DEF ChainInv, TermsInv, TreeInv, HolderInv
  <1>2. /\ Issues(id, cert)
        /\ \A l \in DOMAIN certs : records'[l] = records[l]
        /\ child \notin DOMAIN identities
        /\ DOMAIN identities' = DOMAIN identities \cup {child}
    BY <1>1, DelegateIssues
  <1>3. /\ identities'[child] = [key |-> key, issuer |-> issuer,
                                 issuerKey |-> identities[issuer].key]
        /\ \A a \in DOMAIN identities : identities'[a] = identities[a]
    BY <1>2 DEF Delegate, Put
  <1>4. issuer \in DOMAIN identities /\ issuer # NoAgent /\ child # issuer
    BY <1>1, <1>2, IdAssumption DEF HoldersRegistered, TypeOK
  <1>5. /\ cert.agent = child /\ cert.parentAgent = issuer /\ cert.parent = parent
        /\ cert.renewedFrom = NoLease /\ cert.issuerKey = identities[issuer].key
        /\ cert.terms = terms
    BY DEF DelegatedCertificate
  <1>6. parent # NoLease
    BY <1>1, IdAssumption DEF TypeOK
  <1>7. /\ ValidateAuthoritySets(terms)
        /\ terms.base = certs[parent].terms.base
        /\ Cardinality(Chain(parent)) < MaxDepth
    BY DEF Delegate, ValidateDelegationRequest, ValidateManifestAttenuation, DepthAllowsChild
  <1> HIDE DEF cert, issuer
  <1>8. /\ id \notin DOMAIN certs
        /\ DOMAIN certs' = DOMAIN certs \cup {id}
        /\ certs'[id] = cert
        /\ \A l \in DOMAIN certs : certs'[l] = certs[l]
    BY <1>2 DEF Issues
  <1>9. FiniteKernel' /\ DepthBounded'
    <2>1. Chain(parent) \in SUBSET DOMAIN certs /\ parent \in Chain(parent)
      BY LeafInChain DEF Chain
    <2>2. \A m \in Chain(parent) :
             certs[m].parent \in DOMAIN certs => certs[m].parent \in Chain(parent)
      BY ChainClosed
    <2> QED BY <1>2, <1>5, <1>7, <2>1, <2>2, IssuedDepth
  <1>10. SetsValidated'
    BY <1>5, <1>7, <1>8 DEF ChainInv, LocalInv, SetsValidated
  <1>11. ParentsMatch'
    <2>1. certs'[id].parentAgent = certs'[parent].agent
          /\ certs'[id].terms.base = certs'[parent].terms.base
      BY <1>5, <1>7, <1>8 DEF issuer
    <2> QED
      BY <1>1, <1>5, <1>6, <1>8, <2>1 DEF ChainInv, LocalInv, ParentsMatch, IssuedInOrder
  <1>12. IssuersMatch'
    <2>1. Issuer(cert) = issuer
      BY <1>4, <1>5 DEF Issuer
    <2>2. \A l \in DOMAIN certs : Issuer(certs[l]) \in DOMAIN identities
      BY DEF ChainInv, LocalInv, IssuersMatch
    <2> QED
      BY <1>1, <1>2, <1>3, <1>4, <1>5, <1>8, <2>1, <2>2
         DEF ChainInv, LocalInv, IssuersMatch, HoldersRegistered
  <1>13. IdentitiesMatch'
    BY <1>2, <1>3, <1>4 DEF ChainInv, LocalInv, IdentitiesMatch
  <1>14. RenewalsMatch'
    BY <1>2, <1>5, <1>8 DEF ChainInv, LocalInv, RenewalsMatch, RenewalMatches
  <1> QED
    BY <1>9, <1>10, <1>11, <1>12, <1>13, <1>14 DEF LocalInv

(* Above a lease its chain holds leases issued earlier only. *)
LEMMA ChainIsEarlier ==
    ASSUME TypeOK, IssuedInOrder, NEW l \in DOMAIN certs, NEW m \in Chain(l)
    PROVE  m <= l
  <1> DEFINE S == {k \in DOMAIN certs : k <= l}
  <1>1. \A k \in DOMAIN certs : k \in Nat /\ certs[k].parent \in Nat
    BY IdAssumption DEF TypeOK, Certificates, NoLease
  <1>2. l \in S /\ ClosedUnderParents(S)
    BY <1>1 DEF ClosedUnderParents, IssuedInOrder
  <1>3. Chain(l) \subseteq S
    BY <1>2, ChainLeast
  <1> QED
    BY <1>3

(* renew puts the successor where the old lease was: under the same parent,
   with the same agent and the same issuer. *)
LEMMA RenewChains ==
    ASSUME ChainInv, TypeOK', NEW old \in DOMAIN certs, NEW expected, NEW terms,
           NEW id \in NewLeaseIds, NEW now, Renew(old, expected, terms, id, now)
    PROVE  FiniteKernel' /\ DepthBounded' /\ LocalInv'
  <1> DEFINE cert == RenewedCertificate(old, terms)
  <1>1. TypeOK /\ HoldersRegistered /\ IssuedInOrder
    BY DEF ChainInv, TermsInv, TreeInv, HolderInv
  <1>2. /\ Issues(id, cert)
        /\ Live(old)
        /\ records'[old] = Retired(records[old], id)
        /\ \A l \in DOMAIN certs \ {old} :
              \/ records'[l] = records[l]
              \/ Live(l) /\ records'[l] = Moved(records[l], "Revoked")
        /\ identities' = identities
    BY <1>1, RenewIssues
  <1>3. /\ cert.agent = certs[old].agent /\ cert.parentAgent = certs[old].parentAgent
        /\ cert.parent = certs[old].parent /\ cert.renewedFrom = old
        /\ cert.issuerKey = identities[Issuer(certs[old])].key
        /\ cert.terms = terms
    BY <1>1 DEF RenewedCertificate, Issuer, TypeOK, Certificates
  <1>4. ValidateAuthoritySets(terms) /\ terms.base = certs[old].terms.base
    BY DEF Renew, MayRenew, ValidateRenewalRequest, ValidateManifestAttenuation
  <1> HIDE DEF cert
  <1>5. /\ id \notin DOMAIN certs
        /\ DOMAIN certs' = DOMAIN certs \cup {id}
        /\ certs'[id] = cert
        /\ \A l \in DOMAIN certs : certs'[l] = certs[l]
    BY <1>2 DEF Issues
  <1>6. FiniteKernel' /\ DepthBounded'
    <2> DEFINE S == Chain(old) \ {old}
    <2>1. \A m \in DOMAIN certs : m \in Nat /\ certs[m].parent \in Nat
      BY <1>1, IdAssumption DEF TypeOK, Certificates, NoLease
    <2>2. Chain(old) \in SUBSET DOMAIN certs /\ old \in Chain(old)
      BY LeafInChain DEF Chain
    <2>3. S \in SUBSET DOMAIN certs
      BY <2>2
    <2>4. ASSUME NEW m \in Chain(old), certs[m].parent \in DOMAIN certs
          PROVE  certs[m].parent \in S
      <3>1. certs[m].parent \in Chain(old)
        BY <2>4, ChainClosed
      <3>2. certs[m].parent < m /\ m <= old
        BY <1>1, <2>2, ChainIsEarlier DEF IssuedInOrder
      <3> QED BY <2>1, <2>2, <3>1, <3>2
    <2>5. cert.parent # NoLease => cert.parent \in S
      BY <1>1, <1>3, <2>2, <2>4 DEF IssuedInOrder
    <2>6. Cardinality(S) < MaxDepth
      <3>1. IsFiniteSet(Chain(old)) /\ Cardinality(Chain(old)) <= MaxDepth
        BY <2>2, FS_Subset DEF ChainInv, FiniteKernel, DepthBounded
      <3>2. Cardinality(Chain(old)) \in Nat
        BY <3>1, FS_CardinalityType
      <3>3. Cardinality(S) = Cardinality(Chain(old)) - 1
        BY <2>2, <3>1, FS_RemoveElement
      <3> QED BY <3>1, <3>2, <3>3, BoundAssumption
    <2> HIDE DEF S
    <2>7. \A m \in S : certs[m].parent \in DOMAIN certs => certs[m].parent \in S
      BY <2>4 DEF S
    <2> QED BY <1>2, <2>3, <2>5, <2>6, <2>7, IssuedDepth
  <1>7. SetsValidated'
    BY <1>3, <1>4, <1>5 DEF ChainInv, LocalInv, SetsValidated
  <1>8. ParentsMatch'
    BY <1>1, <1>3, <1>4, <1>5 DEF ChainInv, LocalInv, ParentsMatch, IssuedInOrder
  <1>9. IssuersMatch'
    <2>1. Issuer(cert) = Issuer(certs[old])
      BY <1>3 DEF Issuer
    <2> QED
      BY <1>2, <1>3, <1>5, <2>1 DEF ChainInv, LocalInv, IssuersMatch
  <1>10. IdentitiesMatch'
    BY <1>2 DEF ChainInv, LocalInv, IdentitiesMatch
  <1>11. RenewalsMatch'
    <2>1. \A l \in DOMAIN certs : records[l].state = "Retired" => records'[l] = records[l]
      BY <1>2 DEF Live, LiveStates
    <2>2. records'[old].state = "Retired" /\ records'[old].renewedBy = id
      BY <1>2 DEF Retired
    <2> QED
      BY <1>3, <1>5, <2>1, <2>2 DEF ChainInv, LocalInv, RenewalsMatch, RenewalMatches
  <1> QED
    BY <1>6, <1>7, <1>8, <1>9, <1>10, <1>11 DEF LocalInv

LEMMA ChainInvariant == Spec => []ChainInv
  <1>1. Init /\ TermsInv /\ HolderInv => ChainInv
    <2> SUFFICES ASSUME Init, TypeOK PROVE FiniteKernel /\ DepthBounded /\ LocalInv
      BY DEF ChainInv, HolderInv
    <2>1. PICK id \in LeaseIds : Bootstrap(id)
      BY DEF Init
    <2>2. DOMAIN certs = {id}
      BY <2>1 DEF Bootstrap
    <2>3. FiniteKernel
      BY <2>2, FS_Singleton DEF FiniteKernel
    <2>4. DepthBounded
      <3>1. ASSUME NEW l \in DOMAIN certs PROVE Cardinality(Chain(l)) <= MaxDepth
        <4>1. Chain(l) = {id}
          BY <2>2, LeafInChain DEF Chain
        <4>2. Cardinality({id}) = 1
          BY FS_Singleton
        <4> QED BY <4>1, <4>2, BoundAssumption
      <3> QED BY <3>1 DEF DepthBounded
    <2>5. LocalInv
      BY <2>1 DEF Bootstrap, LocalInv, SetsValidated, ParentsMatch, IssuersMatch, Issuer,
                  IdentitiesMatch, RenewalsMatch, ValidateRootRequest
    <2> QED BY <2>3, <2>4, <2>5
  <1>2. ChainInv /\ TermsInv' /\ HolderInv' /\ [Next]_vars => ChainInv'
    <2> SUFFICES ASSUME ChainInv, TypeOK', [Next]_vars
                 PROVE  FiniteKernel' /\ DepthBounded' /\ LocalInv'
      BY DEF ChainInv, HolderInv
    <2>1. CASE Revises
      BY <2>1, RevisesChains
    <2>2. CASE DelegateSome
      BY <2>2, DelegateChains DEF DelegateSome
    <2>3. CASE RenewSome
      BY <2>3, RenewChains DEF RenewSome
    <2> QED
      BY <2>1, <2>2, <2>3, StepKinds DEF ChainInv, HolderInv
  <1> QED
    BY <1>1, <1>2, TermsInvariant, HolderInvariant, PTL DEF Spec

(* Every chain the kernel ever built is sound: its depth, certificates,
   identities, signatures and renewal links pass validate_chain, so that only
   an inactive lease makes it refuse one. *)
THEOREM ChainsStaySound == Spec => []OnlyInactivityBreaksAChain
  <1>1. ChainInv => OnlyInactivityBreaksAChain
    BY ChainsAreSound
  <1> QED
    BY <1>1, ChainInvariant, PTL
-----------------------------------------------------------------------------
(***************************************************************************)
(* Events.                                                                 *)
(*                                                                         *)
(* Each record that an operation moves gets one event that tells where to. *)
(* Retirement is told by the first event of the successor, so the          *)
(* invariant ties first events to retired leases in both directions.       *)
(***************************************************************************)
MoveKinds == {"LeasePaused", "LeaseResumed", "LeaseRevoked", "LeaseExpired"}

Moves(events) == {i \in DOMAIN events : events[i].kind \in MoveKinds}

\* The state an event leaves its lease in.
StateOf(kind) ==
    IF kind = "LeasePaused" THEN "Paused"
    ELSE IF kind = "LeaseRevoked" THEN "Revoked"
    ELSE IF kind = "LeaseExpired" THEN "Expired"
    ELSE "Active"

\* The record of l moves and the event e tells of it.
Logged(l, e) ==
    /\ Live(l)
    /\ e \in Events
    /\ e.kind \in MoveKinds
    /\ records'[l] = Moved(records[l], StateOf(e.kind))
    /\ log'[l] = Append(log[l], e)

RevisesLogged ==
    /\ certs' = certs
    /\ \A l \in DOMAIN certs :
          \/ records'[l] = records[l] /\ log'[l] = log[l]
          \/ \E e : Logged(l, e)

RenewalsTold ==
    /\ \A m \in DOMAIN certs :
          log[m][1].kind = "LeaseRenewed" =>
              /\ log[m][1].related \in DOMAIN certs
              /\ records[log[m][1].related].state = "Retired"
    /\ \A l \in DOMAIN certs :
          records[l].state = "Retired" =>
              \E m \in DOMAIN certs : log[m][1] = Event("LeaseRenewed", l)

GenerationsTold ==
    \A l \in DOMAIN certs :
        records[l].generation =
            Cardinality(Moves(log[l])) + (IF records[l].state = "Retired" THEN 1 ELSE 0)

\* Only an active lease is renewed, so the last event of a retired one says so.
StatesTold ==
    \A l \in DOMAIN certs :
        StateOf(log[l][Len(log[l])].kind) =
            IF records[l].state = "Retired" THEN "Active" ELSE records[l].state

EventInv ==
    /\ TypeOK
    /\ \A l \in DOMAIN certs : log[l] # <<>>
    /\ RenewalsTold
    /\ GenerationsTold
    /\ StatesTold
-----------------------------------------------------------------------------
(***************************************************************************)
(* Sequences of events.                                                    *)
(***************************************************************************)

(* A sequence of events records finitely many moves. *)
LEMMA MovesFinite ==
    ASSUME NEW events \in Seq(Events)
    PROVE  IsFiniteSet(Moves(events)) /\ Cardinality(Moves(events)) \in Nat
  <1>1. Moves(events) \in SUBSET (1 .. Len(events)) /\ Len(events) \in Nat
    BY DEF Moves
  <1>2. IsFiniteSet(1 .. Len(events))
    BY <1>1, FS_Interval
  <1> QED
    BY <1>1, <1>2, FS_Subset, FS_CardinalityType

(* Appending a move counts one more. *)
LEMMA MoveAppended ==
    ASSUME NEW events \in Seq(Events), NEW e \in Events, e.kind \in MoveKinds, events # <<>>
    PROVE  /\ Append(events, e) # <<>>
           /\ Append(events, e)[1] = events[1]
           /\ Append(events, e)[Len(Append(events, e))] = e
           /\ Cardinality(Moves(Append(events, e))) = Cardinality(Moves(events)) + 1
  <1> DEFINE n == Len(events) + 1
  <1>1. n - 1 \in Nat /\ n - 1 >= 1
    OBVIOUS
  <1>2. /\ DOMAIN Append(events, e) = 1 .. n
        /\ \A i \in 1 .. n : Append(events, e)[i] = IF i = n THEN e ELSE events[i]
        /\ Len(Append(events, e)) = n
    OBVIOUS
  <1>3. Moves(Append(events, e)) = Moves(events) \cup {n}
    BY <1>1, <1>2 DEF Moves
  <1>4. n \notin Moves(events)
    BY <1>1 DEF Moves
  <1>5. Cardinality(Moves(events) \cup {n}) = Cardinality(Moves(events)) + 1
    BY <1>4, MovesFinite, FS_AddElement
  <1> QED
    BY <1>1, <1>2, <1>3, <1>5
-----------------------------------------------------------------------------
(***************************************************************************)
(* What each operation logs.                                               *)
(***************************************************************************)

(* pause and resume append the event of the state they move to. *)
LEMMA TransitionLogged ==
    ASSUME TypeOK, NEW l \in DOMAIN certs, NEW expected, NEW from \in LiveStates, NEW to,
           NEW kind \in MoveKinds, StateOf(kind) = to, NEW now,
           Transition(l, expected, from, to, kind, now)
    PROVE  RevisesLogged
  <1> DEFINE e == Event(kind, NoLease)
  <1>1. e \in Events /\ e.kind = kind
    BY DEF Event, Events, EventKinds, MoveKinds
  <1>2. Live(l)
    BY DEF Transition, MayTransition, Live
  <1> HIDE DEF e
  <1>3. Logged(l, e)
    BY <1>1, <1>2 DEF Transition, Logged, TypeOK, e
  <1> QED
    BY <1>3 DEF Transition, RevisesLogged, TypeOK

(* A cascade tells of each lease it revokes. *)
LEMMA CascadeLogged ==
    ASSUME TypeOK, NEW r \in DOMAIN certs, NEW l \in DOMAIN certs
    PROVE  \/ /\ RecordsAfterCascade(r)[l] = records[l]
              /\ LogAfterCascade(r)[l] = log[l]
           \/ /\ l # r
              /\ Live(l)
              /\ RecordsAfterCascade(r)[l] = Moved(records[l], "Revoked")
              /\ LogAfterCascade(r)[l] = Append(log[l], Event("LeaseRevoked", r))
  BY DEF TypeOK, RecordsAfterCascade, LogAfterCascade, LiveBelow

LEMMA RevokedEvent ==
    ASSUME TypeOK, NEW r \in DOMAIN certs \cup {NoLease}
    PROVE  /\ Event("LeaseRevoked", r) \in Events
           /\ Event("LeaseRevoked", r).kind \in MoveKinds
           /\ StateOf(Event("LeaseRevoked", r).kind) = "Revoked"
  BY DEF Event, Events, EventKinds, MoveKinds, StateOf, TypeOK

(* revoke tells of the lease and of everything below it. *)
LEMMA RevokeLogged ==
    ASSUME TypeOK, NEW r \in DOMAIN certs, NEW expected, Revoke(r, expected)
    PROVE  RevisesLogged
  <1>1. Live(r) /\ certs' = certs
    BY DEF Revoke, MayRevoke
  <1>2. /\ records' = [RecordsAfterCascade(r) EXCEPT ![r] = Moved(@, "Revoked")]
        /\ log' = [LogAfterCascade(r) EXCEPT ![r] = Append(@, Event("LeaseRevoked", NoLease))]
    BY DEF Revoke
  <1>3. /\ DOMAIN RecordsAfterCascade(r) = DOMAIN certs
        /\ DOMAIN LogAfterCascade(r) = DOMAIN certs
    BY CascadeType
  <1>4. RecordsAfterCascade(r)[r] = records[r] /\ LogAfterCascade(r)[r] = log[r]
    BY CascadeLogged
  <1>5. Logged(r, Event("LeaseRevoked", NoLease))
    BY <1>1, <1>2, <1>3, <1>4, RevokedEvent DEF Logged
  <1>6. ASSUME NEW l \in DOMAIN certs \ {r}
        PROVE  \/ records'[l] = records[l] /\ log'[l] = log[l]
               \/ Logged(l, Event("LeaseRevoked", r))
    <2>1. records'[l] = RecordsAfterCascade(r)[l] /\ log'[l] = LogAfterCascade(r)[l]
      BY <1>2, <1>3
    <2> QED BY <2>1, CascadeLogged, RevokedEvent DEF Logged
  <1> QED
    BY <1>1, <1>5, <1>6 DEF RevisesLogged

(* A sweep tells of each lease it ends, by expiry or below an expired one. *)
LEMMA RefreshLogged ==
    ASSUME TypeOK, NEW now, RefreshExpirations(now)
    PROVE  RevisesLogged
  <1> DEFINE due == Due(now)
  <1>1. PICK sweep \in Sweeps(due) :
          LET ended == EndedBy(due, sweep) IN
          /\ records' = [l \in DOMAIN records |->
                IF l \notin DOMAIN ended THEN records[l]
                ELSE Moved(records[l], IF ended[l] = l THEN "Expired" ELSE "Revoked")]
          /\ log' = [l \in DOMAIN log |->
                IF l \notin DOMAIN ended THEN log[l]
                ELSE Append(log[l], IF ended[l] = l THEN Event("LeaseExpired", NoLease)
                                                  ELSE Event("LeaseRevoked", ended[l]))]
    BY DEF RefreshExpirations
  <1> DEFINE ended == EndedBy(due, sweep)
  <1>2. due \in SUBSET DOMAIN certs /\ sweep \in [due -> Nat]
    BY <1>1, SweepPlaces
  <1>3. \A l \in DOMAIN ended : ended[l] \in DOMAIN certs
    BY <1>2, EndedByDue
  <1>4. \A l \in DOMAIN ended : Live(l)
    BY DEF EndedBy
  <1>5. DOMAIN records = DOMAIN certs /\ DOMAIN log = DOMAIN certs /\ certs' = certs
    BY DEF TypeOK, RefreshExpirations
  <1> HIDE DEF due, ended
  <1>6. ASSUME NEW l \in DOMAIN certs
        PROVE  (records'[l] = records[l] /\ log'[l] = log[l]) \/ \E e : Logged(l, e)
    <2>1. CASE l \notin DOMAIN ended
      BY <1>1, <1>5, <2>1 DEF ended
    <2>2. CASE l \in DOMAIN ended /\ ended[l] = l
      <3> DEFINE e == Event("LeaseExpired", NoLease)
      <3>1. e \in Events /\ e.kind \in MoveKinds /\ StateOf(e.kind) = "Expired"
        BY DEF Event, Events, EventKinds, MoveKinds, StateOf
      <3>2. records'[l] = Moved(records[l], "Expired") /\ log'[l] = Append(log[l], e)
        BY <1>1, <1>5, <2>2 DEF ended
      <3> QED BY <1>4, <2>2, <3>1, <3>2 DEF Logged
    <2>3. CASE l \in DOMAIN ended /\ ended[l] # l
      <3> DEFINE e == Event("LeaseRevoked", ended[l])
      <3>1. records'[l] = Moved(records[l], "Revoked") /\ log'[l] = Append(log[l], e)
        BY <1>1, <1>5, <2>3 DEF ended
      <3> QED BY <1>3, <1>4, <2>3, <3>1, RevokedEvent DEF Logged
    <2> QED BY <2>1, <2>2, <2>3
  <1> QED
    BY <1>5, <1>6 DEF RevisesLogged
-----------------------------------------------------------------------------
(***************************************************************************)
(* The invariant.                                                          *)
(***************************************************************************)

(* A lease that stays as it is, or moves and is told of, keeps its evidence
   complete. *)
LEMMA LeaseTold ==
    ASSUME EventInv, NEW l \in DOMAIN certs, log'[l] \in Seq(Events),
           (records'[l] = records[l] /\ log'[l] = log[l]) \/ \E e : Logged(l, e)
    PROVE  /\ log'[l] # <<>>
           /\ log'[l][1] = log[l][1]
           /\ (records'[l].state = "Retired" <=> records[l].state = "Retired")
           /\ records'[l].generation = Cardinality(Moves(log'[l]))
                 + (IF records'[l].state = "Retired" THEN 1 ELSE 0)
           /\ StateOf(log'[l][Len(log'[l])].kind) =
                 IF records'[l].state = "Retired" THEN "Active" ELSE records'[l].state
  <1>1. CASE records'[l] = records[l] /\ log'[l] = log[l]
    BY <1>1 DEF EventInv, GenerationsTold, StatesTold
  <1>2. ASSUME NEW e, Logged(l, e)
        PROVE  /\ log'[l] # <<>>
               /\ log'[l][1] = log[l][1]
               /\ records'[l].state # "Retired" /\ records[l].state # "Retired"
               /\ records'[l].generation = Cardinality(Moves(log'[l]))
               /\ records'[l].state = StateOf(log'[l][Len(log'[l])].kind)
    <2>1. log[l] \in Seq(Events) /\ log[l] # <<>>
      BY DEF EventInv, TypeOK
    <2>2. /\ log'[l] # <<>> /\ log'[l][1] = log[l][1]
          /\ log'[l][Len(log'[l])] = e
          /\ Cardinality(Moves(log'[l])) = Cardinality(Moves(log[l])) + 1
      BY <1>2, <2>1, MoveAppended DEF Logged
    <2>3. records[l].state # "Retired"
      BY <1>2 DEF Logged, Live, LiveStates
    <2>4. /\ records'[l].state = StateOf(e.kind)
          /\ records'[l].generation = records[l].generation + 1
      BY <1>2 DEF Logged, Moved
    <2>5. StateOf(e.kind) # "Retired"
      BY DEF StateOf
    <2>6. records[l].generation = Cardinality(Moves(log[l]))
      <3>1. Cardinality(Moves(log[l])) \in Nat
        BY <2>1, MovesFinite
      <3> QED BY <2>3, <3>1 DEF EventInv, GenerationsTold
    <2> QED BY <2>2, <2>3, <2>4, <2>5, <2>6
  <1>3. Cardinality(Moves(log'[l])) + 0 = Cardinality(Moves(log'[l]))
    BY MovesFinite
  <1> QED
    BY <1>1, <1>2, <1>3

(* A step that tells of every record it moves keeps the evidence complete. *)
LEMMA RevisesEvents ==
    ASSUME EventInv, TypeOK', RevisesLogged
    PROVE  EventInv'
  <1>1. ASSUME NEW l \in DOMAIN certs
        PROVE  /\ log'[l] # <<>>
               /\ log'[l][1] = log[l][1]
               /\ (records'[l].state = "Retired" <=> records[l].state = "Retired")
               /\ records'[l].generation = Cardinality(Moves(log'[l]))
                     + (IF records'[l].state = "Retired" THEN 1 ELSE 0)
               /\ StateOf(log'[l][Len(log'[l])].kind) =
                     IF records'[l].state = "Retired" THEN "Active" ELSE records'[l].state
    <2>1. log'[l] \in Seq(Events)
      BY DEF RevisesLogged, TypeOK
    <2> QED BY <2>1, LeaseTold DEF RevisesLogged
  <1>2. certs' = certs
    BY DEF RevisesLogged
  <1>3. \A l \in DOMAIN certs' : log'[l] # <<>>
    BY <1>1, <1>2
  <1>4. RenewalsTold'
    <2>1. ASSUME NEW m \in DOMAIN certs, log'[m][1].kind = "LeaseRenewed"
          PROVE  /\ log'[m][1].related \in DOMAIN certs
                 /\ records'[log'[m][1].related].state = "Retired"
      BY <1>1, <2>1 DEF EventInv, RenewalsTold
    <2>2. ASSUME NEW l \in DOMAIN certs, records'[l].state = "Retired"
          PROVE  \E m \in DOMAIN certs : log'[m][1] = Event("LeaseRenewed", l)
      BY <1>1, <2>2 DEF EventInv, RenewalsTold
    <2> QED BY <1>2, <2>1, <2>2 DEF RenewalsTold, Event
  <1>5. GenerationsTold'
    BY <1>1, <1>2 DEF GenerationsTold
  <1>6. StatesTold'
    BY <1>1, <1>2 DEF StatesTold
  <1> QED
    BY <1>3, <1>4, <1>5, <1>6 DEF EventInv

(* The log a new lease starts with says that it is active and has not moved. *)
LEMMA FreshLog ==
    ASSUME NEW events \in Seq(Events), events # <<>>,
           \A i \in 1 .. Len(events) : events[i].kind \notin MoveKinds
    PROVE  /\ Cardinality(Moves(events)) = 0
           /\ StateOf(events[Len(events)].kind) = "Active"
  <1>1. Moves(events) = {}
    BY DEF Moves
  <1>2. Len(events) \in 1 .. Len(events)
    OBVIOUS
  <1>3. events[Len(events)].kind \notin MoveKinds
    BY <1>2
  <1> QED
    BY <1>1, <1>3, FS_EmptySet DEF StateOf, MoveKinds

(* delegate tells of the new lease. *)
LEMMA DelegateEvents ==
    ASSUME EventInv, TypeOK', NEW parent \in DOMAIN certs, NEW expected, NEW child,
           NEW key, NEW terms, NEW id \in NewLeaseIds, NEW now,
           Delegate(parent, expected, child, key, terms, id, now)
    PROVE  EventInv'
  <1> DEFINE first == Event("IdentityRegistered", parent)
             second == Event("LeaseDelegated", parent)
  <1>1. /\ id \notin DOMAIN certs
        /\ DOMAIN certs' = DOMAIN certs \cup {id}
        /\ records'[id] = ActiveRecord
        /\ \A l \in DOMAIN certs : records'[l] = records[l]
    <2>1. TypeOK
      BY DEF EventInv
    <2>2. /\ Issues(id, DelegatedCertificate(parent, child, terms))
          /\ \A l \in DOMAIN certs : records'[l] = records[l]
      BY <2>1, DelegateIssues
    <2> QED BY <2>2 DEF Issues
  <1>2. log' = Put(log, id, <<first, second>>) /\ DOMAIN log = DOMAIN certs
    BY DEF Delegate, EventInv, TypeOK
  <1>3. /\ log'[id] = <<first, second>>
        /\ \A l \in DOMAIN certs : log'[l] = log[l]
    BY <1>1, <1>2 DEF Put
  <1>4. first \in Events /\ second \in Events
    BY DEF Event, Events, EventKinds, EventInv, TypeOK
  <1>5. /\ first.kind = "IdentityRegistered"
        /\ first.kind \notin MoveKinds /\ second.kind \notin MoveKinds
    BY DEF Event, MoveKinds
  <1> HIDE DEF first, second
  <1>6. /\ log'[id] \in Seq(Events) /\ log'[id] # <<>> /\ log'[id][1] = first
        /\ \A i \in 1 .. Len(log'[id]) : log'[id][i].kind \notin MoveKinds
    BY <1>3, <1>4, <1>5
  <1>7. Cardinality(Moves(log'[id])) = 0 /\ StateOf(log'[id][Len(log'[id])].kind) = "Active"
    BY <1>6, FreshLog
  <1>8. records'[id].state = "Active" /\ records'[id].generation = 0
    BY <1>1 DEF ActiveRecord
  <1>9. RenewalsTold'
    <2>1. log'[id][1].kind # "LeaseRenewed"
      BY <1>5, <1>6
    <2> QED BY <1>1, <1>3, <1>8, <2>1 DEF EventInv, RenewalsTold, Event
  <1>10. GenerationsTold'
    BY <1>1, <1>3, <1>7, <1>8 DEF EventInv, GenerationsTold
  <1>11. StatesTold'
    BY <1>1, <1>3, <1>7, <1>8 DEF EventInv, StatesTold
  <1> QED
    BY <1>1, <1>3, <1>6, <1>9, <1>10, <1>11 DEF EventInv

(* renew tells of the successor, whose first event names the retired lease, and
   of everything it ends below that lease. *)
LEMMA RenewEvents ==
    ASSUME EventInv, TypeOK', NEW old \in DOMAIN certs, NEW expected, NEW terms,
           NEW id \in NewLeaseIds, NEW now, Renew(old, expected, terms, id, now)
    PROVE  EventInv'
  <1> DEFINE first == Event("LeaseRenewed", old)
  <1>1. TypeOK
    BY DEF EventInv
  <1>2. /\ id \notin DOMAIN certs
        /\ DOMAIN certs' = DOMAIN certs \cup {id}
        /\ records'[id] = ActiveRecord
        /\ Live(old)
        /\ records'[old] = Retired(records[old], id)
    BY <1>1, RenewIssues DEF Issues
  <1>3. /\ records' = Put([RecordsAfterCascade(old) EXCEPT ![old] = Retired(@, id)],
                          id, ActiveRecord)
        /\ log' = Put(LogAfterCascade(old), id, <<first>>)
    BY DEF Renew
  <1>4. /\ DOMAIN RecordsAfterCascade(old) = DOMAIN certs
        /\ DOMAIN LogAfterCascade(old) = DOMAIN certs
    BY <1>1, CascadeType
  <1>5. /\ log'[id] = <<first>>
        /\ \A l \in DOMAIN certs : log'[l] = LogAfterCascade(old)[l]
        /\ \A l \in DOMAIN certs \ {old} : records'[l] = RecordsAfterCascade(old)[l]
    BY <1>2, <1>3, <1>4 DEF Put
  <1>6. first \in Events /\ first.kind = "LeaseRenewed" /\ first.related = old
        /\ first.kind \notin MoveKinds
    BY <1>1 DEF Event, Events, EventKinds, MoveKinds, TypeOK
  <1>7. log'[old] = log[old]
    BY <1>1, <1>5, CascadeLogged
  <1>8. ASSUME NEW l \in DOMAIN certs \ {old}
        PROVE  /\ log'[l] # <<>>
               /\ log'[l][1] = log[l][1]
               /\ (records'[l].state = "Retired" <=> records[l].state = "Retired")
               /\ records'[l].generation = Cardinality(Moves(log'[l]))
                     + (IF records'[l].state = "Retired" THEN 1 ELSE 0)
               /\ StateOf(log'[l][Len(log'[l])].kind) =
                     IF records'[l].state = "Retired" THEN "Active" ELSE records'[l].state
    <2>1. (records'[l] = records[l] /\ log'[l] = log[l]) \/ \E e : Logged(l, e)
      BY <1>1, <1>5, CascadeLogged, RevokedEvent DEF Logged
    <2>2. log'[l] \in Seq(Events)
      BY <1>2 DEF TypeOK
    <2> QED BY <2>1, <2>2, LeaseTold
  <1>9. /\ records'[old].state = "Retired" /\ records[old].state # "Retired"
        /\ records'[old].generation = records[old].generation + 1
        /\ records[old].generation = Cardinality(Moves(log[old]))
    <2>1. records[old].state # "Retired"
      BY <1>2 DEF Live, LiveStates
    <2>2. Cardinality(Moves(log[old])) \in Nat
      BY <1>1, MovesFinite DEF TypeOK
    <2>3. records[old].generation = Cardinality(Moves(log[old]))
      BY <2>1, <2>2 DEF EventInv, GenerationsTold
    <2> QED BY <1>2, <2>1, <2>3 DEF Retired
  <1> HIDE DEF first
  <1>10. /\ log'[id] \in Seq(Events) /\ log'[id] # <<>> /\ log'[id][1] = first
         /\ \A i \in 1 .. Len(log'[id]) : log'[id][i].kind \notin MoveKinds
    BY <1>5, <1>6
  <1>11. Cardinality(Moves(log'[id])) = 0 /\ StateOf(log'[id][Len(log'[id])].kind) = "Active"
    BY <1>10, FreshLog
  <1>12. records'[id].state = "Active" /\ records'[id].generation = 0
    BY <1>2 DEF ActiveRecord
  <1>13. RenewalsTold'
    <2>1. ASSUME NEW m \in DOMAIN certs', log'[m][1].kind = "LeaseRenewed"
          PROVE  /\ log'[m][1].related \in DOMAIN certs'
                 /\ records'[log'[m][1].related].state = "Retired"
      <3>1. CASE m = id
        BY <1>2, <1>6, <1>9, <1>10, <3>1
      <3>2. CASE m \in DOMAIN certs
        <4>1. log'[m][1] = log[m][1]
          BY <1>7, <1>8, <3>2
        <4>2. /\ log[m][1].related \in DOMAIN certs
              /\ records[log[m][1].related].state = "Retired"
          BY <2>1, <3>2, <4>1 DEF EventInv, RenewalsTold
        <4> QED BY <1>2, <1>8, <1>9, <4>1, <4>2
      <3> QED BY <1>2, <3>1, <3>2
    <2>2. ASSUME NEW l \in DOMAIN certs', records'[l].state = "Retired"
          PROVE  \E m \in DOMAIN certs' : log'[m][1] = Event("LeaseRenewed", l)
      <3>1. CASE l = old
        BY <1>2, <1>10, <3>1 DEF first
      <3>2. CASE l # old
        <4>1. l \in DOMAIN certs /\ records[l].state = "Retired"
          BY <1>2, <1>8, <1>12, <2>2, <3>2
        <4>2. PICK m \in DOMAIN certs : log[m][1] = Event("LeaseRenewed", l)
          BY <4>1 DEF EventInv, RenewalsTold
        <4>3. log'[m][1] = log[m][1]
          BY <1>7, <1>8
        <4> QED BY <1>2, <4>2, <4>3
      <3> QED BY <3>1, <3>2
    <2> QED BY <2>1, <2>2 DEF RenewalsTold, Event
  <1>14. GenerationsTold'
    BY <1>2, <1>7, <1>8, <1>9, <1>11, <1>12 DEF GenerationsTold
  <1>15. StatesTold'
    <2>1. records[old].state = "Active"
      BY DEF Renew, MayRenew, ValidateActiveRecord
    <2>2. StateOf(log'[old][Len(log'[old])].kind) = "Active"
      BY <1>7, <2>1 DEF EventInv, StatesTold
    <2> QED BY <1>2, <1>8, <1>9, <1>11, <1>12, <2>2 DEF StatesTold
  <1>16. \A l \in DOMAIN certs' : log'[l] # <<>>
    BY <1>2, <1>7, <1>8, <1>10 DEF EventInv
  <1> QED
    BY <1>13, <1>14, <1>15, <1>16 DEF EventInv

LEMMA EventInvariant == Spec => []EventInv
  <1>1. Init => EventInv
    <2> SUFFICES ASSUME Init PROVE EventInv
      OBVIOUS
    <2>1. PICK id \in LeaseIds : Bootstrap(id)
      BY DEF Init
    <2> DEFINE first == Event("IdentityRegistered", NoLease)
               second == Event("LeaseIssued", NoLease)
    <2>2. /\ DOMAIN certs = {id}
          /\ records[id] = ActiveRecord
          /\ log[id] = <<first, second>>
      BY <2>1 DEF Bootstrap
    <2>3. first \in Events /\ second \in Events
      BY DEF Event, Events, EventKinds
    <2>4. /\ first.kind = "IdentityRegistered"
          /\ first.kind \notin MoveKinds /\ second.kind \notin MoveKinds
      BY DEF Event, MoveKinds
    <2> HIDE DEF first, second
    <2>5. /\ log[id] \in Seq(Events) /\ log[id] # <<>> /\ log[id][1] = first
          /\ \A i \in 1 .. Len(log[id]) : log[id][i].kind \notin MoveKinds
      BY <2>2, <2>3, <2>4
    <2>6. Cardinality(Moves(log[id])) = 0 /\ StateOf(log[id][Len(log[id])].kind) = "Active"
      BY <2>5, FreshLog
    <2>7. records[id].state = "Active" /\ records[id].generation = 0
      BY <2>2 DEF ActiveRecord
    <2> QED
      BY <2>2, <2>4, <2>5, <2>6, <2>7, InitType
         DEF EventInv, RenewalsTold, GenerationsTold, StatesTold
  <1>2. EventInv /\ TypeOK' /\ [Next]_vars => EventInv'
    <2> SUFFICES ASSUME EventInv, TypeOK', [Next]_vars PROVE EventInv'
      OBVIOUS
    <2>0. TypeOK
      BY DEF EventInv
    <2>1. CASE Tick \/ UNCHANGED vars
      <3>1. RevisesLogged
        BY <2>1 DEF Tick, kernelVars, vars, RevisesLogged
      <3> QED BY <3>1, RevisesEvents
    <2>2. CASE DelegateSome
      BY <2>2, DelegateEvents DEF DelegateSome
    <2>3. CASE RenewSome
      BY <2>3, RenewEvents DEF RenewSome
    <2>4. CASE PauseSome
      <3>1. "LeasePaused" \in MoveKinds /\ StateOf("LeasePaused") = "Paused"
        BY DEF MoveKinds, StateOf
      <3> QED
        BY <2>0, <2>4, <3>1, TransitionLogged, RevisesEvents
           DEF PauseSome, Bounded, Pause, LiveStates
    <2>5. CASE ResumeSome
      <3>1. "LeaseResumed" \in MoveKinds /\ StateOf("LeaseResumed") = "Active"
        BY DEF MoveKinds, StateOf
      <3> QED
        BY <2>0, <2>5, <3>1, TransitionLogged, RevisesEvents
           DEF ResumeSome, Bounded, Resume, LiveStates
    <2>6. CASE RevokeSome
      BY <2>0, <2>6, RevokeLogged, RevisesEvents DEF RevokeSome
    <2>7. CASE RefreshSome
      BY <2>0, <2>7, RefreshLogged, RevisesEvents DEF RefreshSome
    <2> QED
      BY <2>1, <2>2, <2>3, <2>4, <2>5, <2>6, <2>7 DEF Next, KernelStep
  <1> QED
    BY <1>1, <1>2, TypeCorrect, PTL DEF Spec

(* The events alone determine the state and the generation of every lease
   record, after any number of operations. *)
THEOREM EventsAreComplete == Spec => []EventsReconstructRecords
  <1>1. EventInv => EventsReconstructRecords
    <2> SUFFICES ASSUME EventInv, NEW l \in DOMAIN certs
                 PROVE  LET moves   == {i \in DOMAIN log[l] : log[l][i].kind \in
                                 {"LeasePaused", "LeaseResumed", "LeaseRevoked", "LeaseExpired"}}
                            last    == log[l][Len(log[l])].kind
                            renewed == \E m \in DOMAIN log : Event("LeaseRenewed", l) = log[m][1]
                        IN  /\ records[l].generation = Cardinality(moves) + (IF renewed THEN 1 ELSE 0)
                            /\ records[l].state = CASE renewed                 -> "Retired"
                                                    [] last = "LeasePaused"    -> "Paused"
                                                    [] last = "LeaseRevoked"   -> "Revoked"
                                                    [] last = "LeaseExpired"   -> "Expired"
                                                    [] OTHER                   -> "Active"
      BY DEF EventsReconstructRecords
    <2> DEFINE last    == log[l][Len(log[l])].kind
               renewed == \E m \in DOMAIN log : Event("LeaseRenewed", l) = log[m][1]
    <2>1. DOMAIN log = DOMAIN certs
      BY DEF EventInv, TypeOK
    <2>2. renewed <=> records[l].state = "Retired"
      <3>1. Event("LeaseRenewed", l).kind = "LeaseRenewed" /\ Event("LeaseRenewed", l).related = l
        BY DEF Event
      <3> QED BY <2>1, <3>1 DEF EventInv, RenewalsTold
    <2>3. records[l].generation =
             Cardinality(Moves(log[l])) + (IF records[l].state = "Retired" THEN 1 ELSE 0)
      BY DEF EventInv, GenerationsTold
    <2>4. StateOf(last) = IF records[l].state = "Retired" THEN "Active" ELSE records[l].state
      BY DEF EventInv, StatesTold
    <2> HIDE DEF last, renewed
    <2>5. records[l].state = CASE renewed                 -> "Retired"
                               [] last = "LeasePaused"    -> "Paused"
                               [] last = "LeaseRevoked"   -> "Revoked"
                               [] last = "LeaseExpired"   -> "Expired"
                               [] OTHER                   -> "Active"
      <3>1. CASE renewed
        <4>1. last \notin {"LeasePaused", "LeaseRevoked", "LeaseExpired"}
          BY <2>2, <2>4, <3>1 DEF StateOf
        <4> QED BY <2>2, <3>1, <4>1
      <3>2. CASE ~renewed
        BY <2>2, <2>4, <3>2 DEF StateOf
      <3> QED BY <3>1, <3>2
    <2> QED
      BY <2>2, <2>3, <2>5 DEF Moves, MoveKinds, last, renewed
  <1> QED
    BY <1>1, EventInvariant, PTL
=============================================================================
