--------------------------- MODULE AuthorityKernel ---------------------------
(***************************************************************************)
(* The in-memory authority kernel (authority_kernel.rs and                 *)
(* authority_kernel/validation.rs): mission-scoped identities, authority   *)
(* leases that form a delegation tree, and the operations that issue,      *)
(* suspend, renew and end them.                                            *)
(*                                                                         *)
(* Every operation holds the write lock of the one RwLock from its first   *)
(* read to its last write, so one operation is one action.  A rejected     *)
(* call returns before its first write and is a stuttering step.  What is  *)
(* not atomic is the caller: `now' and the expected generation are read    *)
(* before the lock is taken and may be stale when it is granted.           *)
(*                                                                         *)
(* Certificates and identities are immutable, so a LeaseRef (a lease id    *)
(* and the digest of its certificate) is modelled by the lease id, and a   *)
(* digest of an identity by the identity.  A signature is modelled by the  *)
(* key that made it.                                                       *)
(***************************************************************************)
EXTENDS Integers, Sequences, FiniteSets

CONSTANTS
    LeaseIds,       \* lease ids, numbered in the order they are drawn
    Agents,         \* agent ids
    NoAgent,        \* the absent agent id (Option::None)
    RootAgent,      \* the agent bootstrap registers
    Keys,           \* key ids; a KeyCustody is identified with its key
    RootKey,        \* the key of the root custody
    Capabilities,   \* nexus capabilities
    All,            \* Capability::All
    Narrower,       \* pairs <<c, d>> with c.is_subset_of(d)
    Tools,          \* (tool id, tool manifest digest) bindings
    Bases,          \* (version, model, runtime, registry root) of a manifest
    Contexts,       \* semantic context digests
    MissionCapabilities, MissionTools, MissionExpiry,  \* the mission envelope
    RootTerms,      \* what bootstrap is asked to put into the root lease
    Offers,         \* what callers ask delegate and renew to put into a lease
    MaxDepth,       \* MAX_AUTHORITY_CHAIN_DEPTH
    MaxTime,        \* bound on the clock
    MaxLag,         \* bound on how stale a caller's `now' may be
    MaxGeneration   \* bound on the generation pause and resume may reach

VARIABLES
    certs,          \* lease id -> certificate and manifest, for every lease issued
    records,        \* lease id -> mutable lease record
    identities,     \* agent id -> identity certificate
    rootLease,      \* root_lease_id
    log,            \* lease id -> the authority events naming that lease, in order
    clock           \* real time

kernelVars == <<certs, records, identities, rootLease, log>>
vars == <<certs, records, identities, rootLease, log, clock>>

NoLease == 0

ASSUME IdAssumption ==
    /\ LeaseIds \subseteq Nat \ {NoLease}
    /\ NoAgent \notin Agents
    /\ RootAgent \in Agents
    /\ RootKey \in Keys
    /\ All \in Capabilities

ASSUME BoundAssumption ==
    /\ MaxDepth \in Nat \ {0}
    /\ MissionExpiry \in Nat
    /\ MaxTime \in Nat
    /\ MaxLag \in Nat
    /\ MaxGeneration \in Nat

(***************************************************************************)
(* External: nexus' Capability::is_subset_of, taken to be a preorder.      *)
(***************************************************************************)
ASSUME NarrowerAssumption ==
    /\ \A c \in Capabilities : <<c, c>> \in Narrower
    /\ \A c, d, e \in Capabilities :
          <<c, d>> \in Narrower /\ <<d, e>> \in Narrower => <<c, e>> \in Narrower

(***************************************************************************)
(* The content of a certificate that its requester chooses, and the        *)
(* manifest whose digest it carries (permissions, base, tools).            *)
(***************************************************************************)
Terms == [granted     : SUBSET Capabilities,
          delegable   : SUBSET Capabilities,
          permissions : SUBSET Capabilities,
          base        : Bases,
          tools       : SUBSET Tools,
          context     : Contexts,
          expires     : Nat]

ASSUME TermsAssumption ==
    /\ MissionCapabilities \subseteq Capabilities
    /\ MissionTools \subseteq Tools
    /\ RootTerms \in Terms
    /\ Offers \subseteq Terms

Certificates == [agent       : Agents,
                 parentAgent : Agents \cup {NoAgent},
                 parent      : LeaseIds \cup {NoLease},
                 renewedFrom : LeaseIds \cup {NoLease},
                 issuerKey   : Keys,
                 terms       : Terms]

Identities == [key : Keys, issuer : Agents \cup {NoAgent}, issuerKey : Keys]

LeaseStates == {"Active", "Paused", "Revoked", "Retired", "Expired"}
LiveStates == {"Active", "Paused"}

Records == [state      : LeaseStates,
            generation : Nat,
            renewedBy  : LeaseIds \cup {NoLease}]

EventKinds == {"IdentityRegistered", "LeaseIssued", "LeaseDelegated",
               "LeasePaused", "LeaseResumed", "LeaseRevoked", "LeaseExpired",
               "LeaseRenewed"}

Event(kind, related) == [kind |-> kind, related |-> related]
Events == [kind : EventKinds, related : LeaseIds \cup {NoLease}]

\* LeaseRecord::active
ActiveRecord == [state |-> "Active", generation |-> 0, renewedBy |-> NoLease]

\* HashMap::insert
Put(f, k, v) == [x \in DOMAIN f \cup {k} |-> IF x = k THEN v ELSE f[x]]

Live(l) == records[l].state \in LiveStates

\* The values of Utc::now() a caller may have sampled before it got the lock.
Samples == {t \in 0 .. clock : clock - t <= MaxLag}
-----------------------------------------------------------------------------
(***************************************************************************)
(* Walks over the lease tree.  Both are least fixed points: the smallest   *)
(* set that holds the start and is closed under children, or under         *)
(* parents.                                                                *)
(***************************************************************************)
ClosedUnderChildren(S) == \A c \in DOMAIN certs : certs[c].parent \in S => c \in S

\* Mutant: a cascade that stops at the children.
ChildrenIncluding(r) == {r} \cup {c \in DOMAIN certs : certs[c].parent = r}

DescendantsIncluding(r) ==
    LET closed == {S \in SUBSET DOMAIN certs : r \in S /\ ClosedUnderChildren(S)}
    IN  {l \in DOMAIN certs : \A S \in closed : l \in S}

ClosedUnderParents(S) ==
    \A l \in S : certs[l].parent \in DOMAIN certs => certs[l].parent \in S

Chain(leaf) ==
    LET closed == {S \in SUBSET DOMAIN certs : leaf \in S /\ ClosedUnderParents(S)}
    IN  {l \in DOMAIN certs : \A S \in closed : l \in S}

ClosedUnderIssuers(S) ==
    \A a \in S : identities[a].issuer \in DOMAIN identities => identities[a].issuer \in S

IdentityChain(leaf) ==
    LET closed == {S \in SUBSET DOMAIN identities : leaf \in S /\ ClosedUnderIssuers(S)}
    IN  {a \in DOMAIN identities : \A S \in closed : a \in S}
-----------------------------------------------------------------------------
(***************************************************************************)
(* Validation.                                                             *)
(***************************************************************************)
AuthorityIsSubsetOf(child, parent) ==
    \A requested \in child : \E granted \in parent : <<requested, granted>> \in Narrower

ValidateAuthoritySets(terms) ==
    /\ All \notin terms.granted \cup terms.delegable
    /\ AuthorityIsSubsetOf(terms.delegable, terms.granted)

\* A version-1 manifest; its tools are a set, so it binds no tool twice.
ValidateManifest(terms) == terms.permissions = terms.granted

ValidateManifestAttenuation(child, parent) ==
    /\ child.base = parent.base
    /\ child.tools \subseteq parent.tools

RequireGeneration(l, expected) == records[l].generation = expected

\* validate_active_record without an expected generation
ValidateActiveRecord(l, now) ==
    /\ records[l].state = "Active"
    /\ now < certs[l].terms.expires

ValidateParentChild(parent, child) ==
    /\ certs[child].parentAgent = certs[parent].agent
    /\ certs[child].terms.expires <= certs[parent].terms.expires
    /\ AuthorityIsSubsetOf(certs[child].terms.granted, certs[parent].terms.delegable)
    /\ ValidateAuthoritySets(certs[child].terms)
    /\ ValidateManifestAttenuation(certs[child].terms, certs[parent].terms)

ValidateIdentityChain(agent) ==
    LET chain == IdentityChain(agent) IN
    /\ \A a \in chain :
          IF identities[a].issuer = NoAgent
          THEN identities[a].issuerKey = identities[a].key
          ELSE /\ identities[a].issuer \in DOMAIN identities
               /\ identities[a].issuerKey = identities[identities[a].issuer].key
    /\ \E a \in chain : identities[a].issuer = NoAgent
    /\ Cardinality(chain) <= MaxDepth

ValidateCertificateEntry(l) ==
    LET cert   == certs[l]
        issuer == IF cert.parentAgent = NoAgent THEN cert.agent ELSE cert.parentAgent
        prior  == cert.renewedFrom
    IN  /\ cert.agent \in DOMAIN identities
        /\ ValidateIdentityChain(cert.agent)
        /\ issuer \in DOMAIN identities
        /\ identities[issuer].key = cert.issuerKey
        /\ prior # NoLease =>
              /\ prior \in DOMAIN certs
              /\ certs[prior].agent = cert.agent
              /\ records[prior].state = "Retired"
              /\ records[prior].renewedBy = l

\* Everything validate_chain asks of a chain besides its leases being active.
ChainIsSound(leaf) ==
    LET chain == Chain(leaf) IN
    /\ \E l \in chain : certs[l].parent = NoLease
    /\ Cardinality(chain) <= MaxDepth
    /\ \A l \in chain :
          /\ ValidateCertificateEntry(l)
          /\ certs[l].parent # NoLease =>
                /\ certs[l].parent \in DOMAIN certs
                /\ ValidateParentChild(certs[l].parent, l)

\* validate_chain with the leaf's own manifest as the current one
ValidateChain(leaf, now) ==
    /\ leaf \in DOMAIN certs
    /\ \A l \in Chain(leaf) : ValidateActiveRecord(l, now)
    /\ ChainIsSound(leaf)

ObservedGenerations(leaf) == [l \in Chain(leaf) |-> records[l].generation]

ValidateRootRequest(terms, now) ==
    /\ now < MissionExpiry
    /\ now < terms.expires
    /\ terms.expires <= MissionExpiry
    /\ ValidateAuthoritySets(terms)
    /\ AuthorityIsSubsetOf(terms.granted, MissionCapabilities)
    /\ ValidateManifest(terms)
    /\ terms.tools \subseteq MissionTools

ValidateDelegationRequest(parent, terms, now) ==
    /\ now < terms.expires
    /\ terms.expires <= certs[parent].terms.expires
    /\ terms.expires <= MissionExpiry
    /\ ValidateAuthoritySets(terms)
    /\ AuthorityIsSubsetOf(terms.granted, certs[parent].terms.delegable)
    /\ ValidateManifest(terms)
    /\ ValidateManifestAttenuation(terms, certs[parent].terms)

\* Mutant: a renewal held to the mission's lifetime only.
RenewalLifetimeWithoutParent(old, terms, now) ==
    now < terms.expires /\ terms.expires <= MissionExpiry

\* Mutant: a renewal of the root, which has no parent, held to no lifetime.
RenewalLifetimeWithoutMission(old, terms, now) ==
    LET parent == certs[old].parent IN
    /\ now < terms.expires
    /\ parent # NoLease => terms.expires <= certs[parent].terms.expires

RenewalLifetime(old, terms, now) ==
    LET parent == certs[old].parent IN
    /\ now < terms.expires
    /\ terms.expires <= MissionExpiry
    /\ parent # NoLease => /\ parent \in DOMAIN certs
                           /\ ValidateActiveRecord(parent, now)
                           /\ terms.expires <= certs[parent].terms.expires

ValidateRenewalRequest(old, terms, now) ==
    /\ RenewalLifetime(old, terms, now)
    /\ terms.context = certs[old].terms.context
    /\ ValidateAuthoritySets(terms)
    /\ AuthorityIsSubsetOf(terms.granted, certs[old].terms.granted)
    /\ AuthorityIsSubsetOf(terms.delegable, certs[old].terms.delegable)
    /\ ValidateManifest(terms)
    /\ ValidateManifestAttenuation(terms, certs[old].terms)
-----------------------------------------------------------------------------
(***************************************************************************)
(* Bootstrap.                                                              *)
(***************************************************************************)
Bootstrap(id) ==
    /\ ValidateRootRequest(RootTerms, 0)
    /\ identities = [a \in {RootAgent} |->
                        [key |-> RootKey, issuer |-> NoAgent, issuerKey |-> RootKey]]
    /\ certs = [l \in {id} |->
                   [agent |-> RootAgent, parentAgent |-> NoAgent, parent |-> NoLease,
                    renewedFrom |-> NoLease, issuerKey |-> RootKey,
                    terms |-> RootTerms]]
    /\ records = [l \in {id} |-> ActiveRecord]
    /\ rootLease = id
    /\ log = [l \in {id} |-> <<Event("IdentityRegistered", NoLease),
                               Event("LeaseIssued", NoLease)>>]

Init == clock = 0 /\ \E id \in LeaseIds : (\A m \in LeaseIds : id <= m) /\ Bootstrap(id)
-----------------------------------------------------------------------------
(***************************************************************************)
(* Operations.                                                             *)
(***************************************************************************)
(***************************************************************************)
(* new_lease_id draws a random UUID.  Ids are only compared for equality,  *)
(* but for the order refresh_expirations sorts them in; that order is left *)
(* open there, so the ids may be numbered as they are drawn.               *)
(***************************************************************************)
Unused == LeaseIds \ DOMAIN certs
NewLeaseIds == {id \in Unused : \A m \in Unused : id <= m}

\* Mutant: a lease one level too deep.
DepthAllowsChildTooDeep(parent) == Cardinality(Chain(parent)) <= MaxDepth
DepthAllowsChild(parent) == Cardinality(Chain(parent)) < MaxDepth

\* Mutant: only the key must be new.
KeyIsNew(child, key) == \A a \in DOMAIN identities : identities[a].key # key
IdentityIsNew(child, key) ==
    /\ child \notin DOMAIN identities
    /\ \A a \in DOMAIN identities : identities[a].key # key

Delegate(parent, expected, child, key, terms, id, now) ==
    /\ RequireGeneration(parent, expected)
    /\ ValidateActiveRecord(parent, now)
    /\ IdentityIsNew(child, key)
    /\ ValidateDelegationRequest(parent, terms, now)
    /\ DepthAllowsChild(parent)
    /\ ValidateChain(parent, now)
    /\ LET issuer == certs[parent].agent IN
       /\ identities' = Put(identities, child,
             [key |-> key, issuer |-> issuer, issuerKey |-> identities[issuer].key])
       /\ certs' = Put(certs, id,
             [agent |-> child, parentAgent |-> issuer, parent |-> parent,
              renewedFrom |-> NoLease, issuerKey |-> identities[issuer].key,
              terms |-> terms])
    /\ records' = Put(records, id, ActiveRecord)
    /\ log' = Put(log, id, <<Event("IdentityRegistered", parent),
                             Event("LeaseDelegated", parent)>>)
    /\ UNCHANGED rootLease

\* Mutants: a generation counted down, and one left alone.
MovedDown(record, s) == [record EXCEPT !.state = s, !.generation = @ - 1]
MovedSilently(record, s) == [record EXCEPT !.state = s]

\* entry.record.state = s; entry.record.generation += 1
Moved(record, s) == [state |-> s, generation |-> record.generation + 1,
                     renewedBy |-> record.renewedBy]

MayTransition(l, expected, from, now) ==
    /\ RequireGeneration(l, expected)
    /\ records[l].state = from
    /\ now < certs[l].terms.expires

Transition(l, expected, from, to, kind, now) ==
    /\ MayTransition(l, expected, from, now)
    /\ records' = [records EXCEPT ![l] = Moved(@, to)]
    /\ log' = [log EXCEPT ![l] = Append(@, Event(kind, NoLease))]
    /\ UNCHANGED <<certs, identities, rootLease>>

Pause(l, expected, now) == Transition(l, expected, "Active", "Paused", "LeasePaused", now)
Resume(l, expected, now) == Transition(l, expected, "Paused", "Active", "LeaseResumed", now)

\* Mutant: a cascade that does not skip the leases already ended.
Below(r) == DescendantsIncluding(r) \ {r}

\* The live leases a cascade from r revokes, r itself apart.
LiveBelow(r) == {l \in DescendantsIncluding(r) \ {r} : Live(l)}

RecordsAfterCascade(r) ==
    LET below == LiveBelow(r) IN
    [l \in DOMAIN records |->
        IF l \in below THEN Moved(records[l], "Revoked") ELSE records[l]]

\* Mutant: a cascade that leaves no evidence.
LogWithoutCascade(r) == log
LogAfterCascade(r) ==
    LET below == LiveBelow(r) IN
    [l \in DOMAIN log |->
        IF l \in below THEN Append(log[l], Event("LeaseRevoked", r)) ELSE log[l]]

\* Mutant: only an active lease may be revoked.
MayRevokeActive(r, expected) == RequireGeneration(r, expected) /\ records[r].state = "Active"
MayRevoke(r, expected) == RequireGeneration(r, expected) /\ Live(r)

Revoke(r, expected) ==
    /\ MayRevoke(r, expected)
    /\ records' = [RecordsAfterCascade(r) EXCEPT ![r] = Moved(@, "Revoked")]
    /\ log' = [LogAfterCascade(r) EXCEPT ![r] = Append(@, Event("LeaseRevoked", NoLease))]
    /\ UNCHANGED <<certs, identities, rootLease>>

(***************************************************************************)
(* refresh_expirations walks the due leases in id order; each one still    *)
(* live expires and revokes its live descendants.  So the first due lease  *)
(* of a lease's chain in that order decides what becomes of the lease: it  *)
(* expires if it is that one itself, and is revoked by that one otherwise. *)
(* Two leases are never due in two sweeps, so the order of their random    *)
(* ids may be drawn when they are: sweep[l] is the place of l in it.       *)
(***************************************************************************)
Due(now) == {l \in DOMAIN certs : Live(l) /\ now >= certs[l].terms.expires}

Sweeps(due) == {sweep \in [due -> 1 .. Cardinality(due)] :
                    \A l, m \in due : sweep[l] = sweep[m] => l = m}

EndedBy(due, sweep) ==
    [l \in {m \in DOMAIN certs : Live(m) /\ Chain(m) \cap due # {}} |->
        CHOOSE d \in Chain(l) \cap due :
            \A e \in Chain(l) \cap due : sweep[d] <= sweep[e]]

RefreshExpirations(now) ==
    /\ Due(now) # {}
    /\ \E sweep \in Sweeps(Due(now)) :
       LET ended == EndedBy(Due(now), sweep) IN
       /\ records' = [l \in DOMAIN records |->
             IF l \notin DOMAIN ended THEN records[l]
             ELSE Moved(records[l], IF ended[l] = l THEN "Expired" ELSE "Revoked")]
       /\ log' = [l \in DOMAIN log |->
             IF l \notin DOMAIN ended THEN log[l]
             ELSE Append(log[l], IF ended[l] = l THEN Event("LeaseExpired", NoLease)
                                               ELSE Event("LeaseRevoked", ended[l]))]
    /\ UNCHANGED <<certs, identities, rootLease>>

\* Mutant: renewal that notes the successor and leaves the lease in force.
NotRetired(record, id) == [record EXCEPT !.generation = @ + 1, !.renewedBy = id]
Retired(record, id) == [state |-> "Retired", generation |-> record.generation + 1,
                        renewedBy |-> id]

\* Mutant: root_lease_id left at the retired lease.
RootNotFollowing(old, id) == rootLease
RootAfterRenewal(old, id) == IF rootLease = old THEN id ELSE rootLease

MayRenew(old, expected, terms, now) ==
    /\ RequireGeneration(old, expected)
    /\ ValidateActiveRecord(old, now)
    /\ ValidateRenewalRequest(old, terms, now)
    /\ ValidateChain(old, now)

Renew(old, expected, terms, id, now) ==
    /\ MayRenew(old, expected, terms, now)
    /\ LET cert   == certs[old]
           issuer == IF cert.parentAgent = NoAgent THEN cert.agent ELSE cert.parentAgent
       IN certs' = Put(certs, id, [cert EXCEPT !.renewedFrom = old, !.terms = terms,
                                               !.issuerKey = identities[issuer].key])
    /\ records' = Put([RecordsAfterCascade(old) EXCEPT ![old] = Retired(@, id)],
                      id, ActiveRecord)
    /\ log' = Put(LogAfterCascade(old), id, <<Event("LeaseRenewed", old)>>)
    /\ rootLease' = RootAfterRenewal(old, id)
    /\ UNCHANGED identities

Tick == clock < MaxTime /\ clock' = clock + 1 /\ UNCHANGED kernelVars

DelegateSome ==
    \E parent \in DOMAIN certs, child \in Agents, key \in Keys, terms \in Offers,
       id \in NewLeaseIds, now \in Samples :
          Delegate(parent, records[parent].generation, child, key, terms, id, now)

RenewSome ==
    \E old \in DOMAIN certs, terms \in Offers, id \in NewLeaseIds, now \in Samples :
        Renew(old, records[old].generation, terms, id, now)

\* Leases whose generation pause and resume may still raise.
Bounded == {l \in DOMAIN certs : records[l].generation < MaxGeneration}

PauseSome == \E l \in Bounded, now \in Samples : Pause(l, records[l].generation, now)
ResumeSome == \E l \in Bounded, now \in Samples : Resume(l, records[l].generation, now)
RevokeSome == \E l \in DOMAIN certs : Revoke(l, records[l].generation)
RefreshSome == \E now \in Samples : RefreshExpirations(now)

KernelStep == DelegateSome \/ RenewSome \/ PauseSome \/ ResumeSome \/ RevokeSome
                 \/ RefreshSome

Next == Tick \/ (KernelStep /\ UNCHANGED clock)

Spec == Init /\ [][Next]_vars
-----------------------------------------------------------------------------
(***************************************************************************)
(* Properties.                                                             *)
(***************************************************************************)

(* The kernel's maps agree on their keys and hold well-formed entries: every
   lease has a certificate, a record and events, and root_lease_id names one. *)
TypeOK ==
    /\ DOMAIN certs \subseteq LeaseIds
    /\ certs \in [DOMAIN certs -> Certificates]
    /\ records \in [DOMAIN certs -> Records]
    /\ log \in [DOMAIN certs -> Seq(Events)]
    /\ DOMAIN identities \subseteq Agents
    /\ identities \in [DOMAIN identities -> Identities]
    /\ rootLease \in DOMAIN certs
    /\ clock \in 0 .. MaxTime

(* Revocation, expiry and renewal are transitive: no lease stays usable or
   resumable under a parent that has ended, however deep the cascade went
   (descendants_including and its three callers). *)
LiveUnderLive ==
    \A l \in DOMAIN certs :
        Live(l) /\ certs[l].parent # NoLease => Live(certs[l].parent)

(* An agent never holds two live leases: renew retires the lease it replaces
   and delegate refuses a registered agent. *)
OneLiveLeasePerAgent ==
    \A l, m \in DOMAIN certs :
        Live(l) /\ Live(m) /\ certs[l].agent = certs[m].agent => l = m

(* No lease, after any number of delegations and renewals, carries authority,
   tools or lifetime beyond the mission. *)
WithinMission ==
    \A l \in DOMAIN certs :
        /\ AuthorityIsSubsetOf(certs[l].terms.granted, MissionCapabilities)
        /\ certs[l].terms.tools \subseteq MissionTools
        /\ certs[l].terms.expires <= MissionExpiry

(* Authority only shrinks down a chain: whatever any ancestor made delegable
   bounds what the lease grants, although renew compares a renewed lease with
   the lease it replaces and never with its parent's authority. *)
AttenuatedAlongChain ==
    \A l \in DOMAIN certs : \A a \in Chain(l) \ {l} :
        /\ AuthorityIsSubsetOf(certs[l].terms.granted, certs[a].terms.delegable)
        /\ certs[l].terms.tools \subseteq certs[a].terms.tools
        /\ certs[l].terms.expires <= certs[a].terms.expires

(* The certificates, identities, signatures, renewal links and depth of every
   chain the kernel built pass validate_chain: a chain is refused only because
   a lease on it is not active, and never through a lease that delegate or
   renew issued and no caller could ever use. *)
OnlyInactivityBreaksAChain == \A l \in DOMAIN certs : ChainIsSound(l)

(* root_lease_id is the head of the root's renewal history: the only lease
   without a parent that was not renewed away. *)
RootLeaseIsCurrent ==
    \A l \in DOMAIN certs :
        certs[l].parent = NoLease => (l = rootLease <=> records[l].state # "Retired")

(* The event log is complete evidence: the state and the generation of every
   lease record can be computed from the events alone.  Retirement has no event
   of its own; it is the successor's LeaseRenewed that tells of it. *)
EventsReconstructRecords ==
    \A l \in DOMAIN certs :
        LET moves   == {i \in DOMAIN log[l] : log[l][i].kind \in
                          {"LeasePaused", "LeaseResumed", "LeaseRevoked", "LeaseExpired"}}
            last    == log[l][Len(log[l])].kind
            renewed == \E m \in DOMAIN log : Event("LeaseRenewed", l) = log[m][1]
        IN  /\ records[l].generation = Cardinality(moves) + (IF renewed THEN 1 ELSE 0)
            /\ records[l].state = CASE renewed                 -> "Retired"
                                    [] last = "LeasePaused"    -> "Paused"
                                    [] last = "LeaseRevoked"   -> "Revoked"
                                    [] last = "LeaseExpired"   -> "Expired"
                                    [] OTHER                   -> "Active"

(* A generation names one value of a record for good: every change of a record
   raises its generation by one, so a caller holding an old generation cannot
   act on a record that has left and come back (pause, then resume). *)
GenerationFence ==
    [][\A l \in DOMAIN certs :
          records'[l] # records[l] =>
              records'[l].generation = records[l].generation + 1]_vars

(* Revoked, Retired and Expired are final, and nothing a lease was issued with
   is ever rewritten. *)
EndedIsFinal ==
    [][\A l \in DOMAIN certs :
          /\ l \in DOMAIN certs' /\ certs'[l] = certs[l]
          /\ ~Live(l) => records'[l] = records[l]]_vars

(* An agent whose last live lease has ended never gets another: delegate
   refuses a registered agent and renew refuses an ended lease. *)
EndedAgentStaysEnded ==
    [][\A a \in DOMAIN identities :
          (\A l \in DOMAIN certs : certs[l].agent = a => ~Live(l)) =>
          (\A l \in DOMAIN certs' :
              certs'[l].agent = a => records'[l].state \notin LiveStates)]_vars
=============================================================================
