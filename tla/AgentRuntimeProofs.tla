------------------------- MODULE AgentRuntimeProofs -------------------------
(***************************************************************************)
(* Machine-checked theorems about AgentRuntime: any number of concurrent   *)
(* calls of run_once, of operators and of auditors, for every value of the *)
(* constants.                                                              *)
(*                                                                         *)
(* The invariant says, place by place in run_once, what the attempt has    *)
(* seen, what it has written and what it holds.  What it has seen of the   *)
(* authority is still true exactly where it holds the read guard: kernel   *)
(* operations wait until no attempt does.                                  *)
(***************************************************************************)
EXTENDS AgentRuntime, AuthorityKernelSafety, FiniteSetTheorems, SequenceTheorems

\* The places inside the closure of commit_active_chain.
Inside == {"finalCommit", "checkCertificate", "issueTime", "mint"}

\* The places where the attempt keeps the generations it decided under.
Deciding == {"model", "finalLock", "finalCommit", "issued", "commitLock",
             "checkCertificate", "issueTime", "mint", "consumed", "start", "nexus"}

\* The places where it holds a token.
Licensed == {"consumed", "start", "nexus"}

\* The runtime delegates nothing: every lease is a root lease or was one.
NoDelegation == \A l \in DOMAIN certs : certs[l].parent = NoLease

KernelInv == RootInv /\ IssuedInOrder /\ NoDelegation
-----------------------------------------------------------------------------
(***************************************************************************)
(* The parts of the invariant.                                             *)
(***************************************************************************)
Shape ==
    /\ pc \in [Attempts -> Labels]
    /\ guards = {c \in Attempts : pc[c] \in Inside}
    /\ DOMAIN view = Attempts
    /\ DOMAIN token = Attempts
    /\ lost \subseteq Attempts
    /\ semanticContext \in Contexts
    /\ registry \in Bases
    /\ faults \in 0 .. MaxFaults
    /\ steps \in 0 .. MaxSteps
    /\ actions \in 0 .. MaxActions

IsView(v) ==
    /\ v = [now |-> v.now, context |-> v.context, lease |-> v.lease,
            generation |-> v.generation, observed |-> v.observed, base |-> v.base,
            expires |-> v.expires, validity |-> v.validity, answered |-> v.answered]
    /\ v.now \in Nat
    /\ v.expires \in Nat
    /\ v.validity \in Nat

\* The attempt remembers a generation of its lease.
Observes(v) == v.observed \in [{v.lease} -> Nat]

ViewInv(c) ==
    /\ IsView(view[c])
    /\ pc[c] \in {"idle", "done"} => view[c] = NoView
    /\ pc[c] \notin {"idle", "done"} => view[c].lease \in DOMAIN certs
    /\ IF pc[c] \in Deciding
       THEN Observes(view[c])
       ELSE view[c].observed = <<>>

\* What the attempt checked under the guard is true as long as it holds it.
GuardInv(c) ==
    LET v == view[c] IN
    /\ pc[c] \in Inside =>
          /\ records[v.lease].state = "Active"
          /\ records[v.lease].generation = v.observed[v.lease]
          /\ v.now < certs[v.lease].terms.expires
    /\ pc[c] \in {"checkCertificate", "issueTime", "mint"} =>
          certs[v.lease].terms.base = v.base
    /\ pc[c] \in {"finalLock", "finalCommit"} =>
          /\ v.answered = v.now
          /\ v.now < MissionExpiry

Consumed == [state |-> "Consumed", remaining |-> 0, generation |-> 1]

Planned == <<"ProtocolAccepted", "PlanAccepted">>

\* The evidence of an attempt under way.
UnderWay(c) ==
    /\ c \notin lost
    /\ pc[c] \in {"idle", "snapshot", "observe", "model"} =>
          history[c] = <<>> /\ authorization[c] = Absent
    /\ pc[c] \in {"finalLock", "finalCommit"} =>
          history[c] = <<"ProtocolAccepted">> /\ authorization[c] = Absent
    /\ pc[c] \in {"authorize", "authorizing"} =>
          history[c] = Planned /\ authorization[c] = Absent
    /\ pc[c] \in {"issued", "commitLock", "checkCertificate", "issueTime", "mint"} =>
          history[c] = Authorized /\ authorization[c] = Issued
    /\ pc[c] = "consumed" => history[c] = Authorized /\ authorization[c] = Consumed
    /\ pc[c] = "start" =>
          /\ history[c] = Authorized \o <<"AuthorizationConsumed">>
          /\ authorization[c] = Consumed
    /\ pc[c] = "nexus" =>
          /\ history[c] = Authorized \o <<"AuthorizationConsumed", "ExecutionStarted">>
          /\ authorization[c] = Consumed

\* The evidence of an attempt that has ended.
EndedUnauthorized(c) ==
    /\ c \notin lost
    /\ authorization[c] = Absent
    /\ history[c] \in {<<>>, <<"ModelFailed">>, <<"ProtocolRejected">>,
                       <<"ProtocolAccepted", "FinalProduced">>,
                       <<"ProtocolAccepted", "FinalRejected">>,
                       <<"ProtocolAccepted", "PlanAccepted", "ActionRejected">>}

EndedUnspent(c) ==
    /\ c \notin lost
    /\ authorization[c] = Issued
    /\ history[c] = Authorized \o <<"ExecutionRejectedBeforeNexus">>

EndedSpent(c) ==
    /\ c \notin lost
    /\ authorization[c] = Consumed
    /\ history[c] \in
          {Authorized \o <<"AuthorizationConsumed", "ExecutionRejectedBeforeNexus">>,
           Authorized \o <<"AuthorizationConsumed", "ExecutionStarted", "ExecutionCompleted">>,
           Authorized \o <<"AuthorizationConsumed", "ExecutionStarted", "ExecutionFailed">>}

EndedLost(c) ==
    /\ c \in lost
    /\ authorization[c] = Consumed
    /\ history[c] \in
          {Authorized \o <<"ExecutionRejectedBeforeNexus">>,
           Authorized \o <<"AuthorizationConsumed", "ExecutionStarted">>}

EvidenceInv(c) ==
    IF pc[c] = "done"
    THEN EndedUnauthorized(c) \/ EndedUnspent(c) \/ EndedSpent(c) \/ EndedLost(c)
    ELSE UnderWay(c)

TokenInv(c) ==
    /\ IF pc[c] \in Licensed
       THEN /\ token[c] # NoToken
            /\ token[c].lease = view[c].lease
            /\ token[c].issuedAt < certs[token[c].lease].terms.expires
            /\ token[c].expires <= Least(certs[token[c].lease].terms.expires, view[c].expires)
                                     + (token[c].mintedAt - token[c].issuedAt)
            /\ token[c].expires <= token[c].mintedAt + TokenValidity
       ELSE token[c] = NoToken
    /\ pc[c] = "mint" =>
          /\ view[c].validity <= TokenValidity
          /\ view[c].now + view[c].validity
                <= Least(certs[view[c].lease].terms.expires, view[c].expires)

AttemptInv(c) == ViewInv(c) /\ GuardInv(c) /\ EvidenceInv(c) /\ TokenInv(c)

\* The attempts that have used a step, and the ones that have used an action.
Stepped == {c \in Attempts : pc[c] = "model" \/ history[c] # <<>>}
Acted == {c \in Attempts : authorization[c] # Absent}

BudgetInv ==
    /\ IsFiniteSet(Stepped) /\ Cardinality(Stepped) <= steps
    /\ IsFiniteSet(Acted) /\ Cardinality(Acted) <= actions

\* A control-plane call under way names a lease; a sole operator's, the root lease.
ControlInv ==
    /\ DOMAIN control = Operators
    /\ \A o \in Operators :
          control[o] # Idle =>
              /\ control[o].kind \in ControlKinds
              /\ control[o].lease \in DOMAIN certs
              /\ control[o].terms \in Terms
              /\ control[o].since \in Nat
    /\ \A o \in Operators :
          Operators = {o} /\ control[o] # Idle =>
              /\ control[o].lease = rootLease
              /\ Live(rootLease) => records[rootLease].generation = control[o].generation

\* What an auditor copied is still true of the attempts that had ended.
AuditInv ==
    /\ DOMAIN audit = Auditors
    /\ \A u \in Auditors :
          audit[u] # Quiet =>
              /\ audit[u].events \in [Attempts -> Seq(MissionEventKinds)]
              /\ audit[u].lost \subseteq lost
              /\ \A c \in Attempts :
                    /\ audit[u].pc[c] = "idle" => audit[u].events[c] = <<>>
                    /\ audit[u].pc[c] = "done" =>
                          pc[c] = "done" /\ audit[u].events[c] = history[c]
                    /\ c \in audit[u].lost => audit[u].pc[c] = "done"

RuntimeInv ==
    /\ KernelInv
    /\ StoreTypeOK
    /\ Shape
    /\ \A c \in Attempts : AttemptInv(c)
    /\ BudgetInv
    /\ ControlInv
    /\ AuditInv
-----------------------------------------------------------------------------
(***************************************************************************)
(* The kernel under the runtime.                                           *)
(***************************************************************************)

(* A lease without a parent is its own chain. *)
LEMMA ChainIsLeaf ==
    ASSUME TypeOK, NoDelegation, NEW l \in DOMAIN certs
    PROVE  Chain(l) = {l}
  <1>1. \A m \in DOMAIN certs : certs[m].parent \notin DOMAIN certs
    BY IdAssumption DEF TypeOK, NoDelegation, NoLease
  <1>2. {l} \in SUBSET DOMAIN certs /\ ClosedUnderParents({l})
    BY <1>1 DEF ClosedUnderParents
  <1> QED
    BY <1>2, LeafInChain DEF Chain

(* What commit_active_chain observes is the generation of the leaf. *)
LEMMA ObservesLeaf ==
    ASSUME TypeOK, NoDelegation, NEW l \in DOMAIN certs
    PROVE  /\ ObservedGenerations(l) \in [{l} -> Nat]
           /\ ObservedGenerations(l)[l] = records[l].generation
           /\ records[l].generation \in Nat
  BY ChainIsLeaf DEF ObservedGenerations, TypeOK, Records

(* A chain that validates is active. *)
LEMMA ValidIsActive ==
    ASSUME NEW l \in DOMAIN certs, NEW now, ValidateChain(l, now)
    PROVE  records[l].state = "Active" /\ now < certs[l].terms.expires
  BY LeafInChain DEF ValidateChain, ValidateActiveRecord

\* What the steps of the runtime leave of what a lease was issued with.
CertsKept ==
    /\ DOMAIN certs \subseteq DOMAIN certs'
    /\ \A l \in DOMAIN certs : certs'[l] = certs[l]

\* A control-plane call or a sweep that takes effect.
KernelMoves ==
    \/ Revises
    \/ \E old \in DOMAIN certs, terms \in Terms, id \in NewLeaseIds, now \in Nat :
          Renew(old, records[old].generation, terms, id, now)

LEMMA RevisesKernel ==
    ASSUME KernelInv, Revises, TypeOK'
    PROVE  KernelInv' /\ CertsKept
  <1>1. certs' = certs
    BY DEF Revises
  <1>2. RootHasNoParent' /\ RootLeaseIsCurrent'
    BY RevisesRoot DEF KernelInv
  <1>3. IssuedInOrder'
    BY <1>1, OrderUnchanged DEF KernelInv
  <1>4. NoDelegation'
    BY <1>1 DEF KernelInv, NoDelegation
  <1> QED
    BY <1>1, <1>2, <1>3, <1>4 DEF KernelInv, RootInv, CertsKept

LEMMA RenewKernel ==
    ASSUME KernelInv, TypeOK', NEW old \in DOMAIN certs, NEW expected, NEW terms \in Terms,
           NEW id \in NewLeaseIds, NEW now, Renew(old, expected, terms, id, now)
    PROVE  KernelInv' /\ CertsKept
  <1> DEFINE cert == RenewedCertificate(old, terms)
  <1>1. cert.parent = NoLease
    BY DEF RenewedCertificate, KernelInv, RootInv, TypeOK, Certificates, NoDelegation
  <1> HIDE DEF cert
  <1>2. Issues(id, cert)
    BY RenewIssues DEF cert, KernelInv, RootInv
  <1>3. certs' = Put(certs, id, cert)
    BY DEF Renew, RenewedCertificate, cert
  <1>4. RootHasNoParent' /\ RootLeaseIsCurrent'
    BY RenewRoot DEF KernelInv
  <1>5. IssuedInOrder'
    BY <1>1, <1>3, OrderExtended DEF KernelInv, RootInv
  <1>6. NoDelegation' /\ CertsKept
    BY <1>1, <1>2 DEF KernelInv, NoDelegation, Issues, CertsKept
  <1> QED
    BY <1>4, <1>5, <1>6 DEF KernelInv, RootInv

(* A control-plane call that takes effect keeps the kernel's invariant. *)
LEMMA ApplyKernel ==
    ASSUME KernelInv, ControlInv, NEW o \in Operators, ControlApply(o)
    PROVE  /\ KernelInv' /\ CertsKept
           /\ KernelMoves
           /\ UNCHANGED clock
  <1> DEFINE q == control[o]
  <1>1. PICK now \in q.since .. clock :
          \/ q.kind = "pause" /\ Pause(q.lease, q.generation, now)
          \/ q.kind = "resume" /\ Resume(q.lease, q.generation, now)
          \/ q.kind = "revoke" /\ Revoke(q.lease, q.generation)
          \/ q.kind = "renew" /\ \E id \in NewLeaseIds :
                                    Renew(q.lease, q.generation, q.terms, id, now)
          \/ UNCHANGED kernelVars
    BY DEF ControlApply
  <1>2. q.lease \in DOMAIN certs /\ q.terms \in Terms /\ q.since \in Nat
    BY DEF ControlApply, ControlInv
  <1>3. TypeOK /\ UNCHANGED clock
    BY DEF KernelInv, RootInv, ControlApply
  <1>4. now \in Nat
    BY <1>2, <1>3 DEF TypeOK
  <1> HIDE DEF q
  <1>5. CASE Pause(q.lease, q.generation, now)
    <2>1. Revises
      BY <1>2, <1>3, <1>5, TransitionRevises DEF Pause, LiveStates
    <2>2. TypeOK'
      BY <1>2, <1>3, <1>5, TransitionType DEF Pause, LeaseStates, EventKinds
    <2> QED BY <1>3, <2>1, <2>2, RevisesKernel DEF KernelMoves
  <1>6. CASE Resume(q.lease, q.generation, now)
    <2>1. Revises
      BY <1>2, <1>3, <1>6, TransitionRevises DEF Resume, LiveStates
    <2>2. TypeOK'
      BY <1>2, <1>3, <1>6, TransitionType DEF Resume, LeaseStates, EventKinds
    <2> QED BY <1>3, <2>1, <2>2, RevisesKernel DEF KernelMoves
  <1>7. CASE Revoke(q.lease, q.generation)
    BY <1>2, <1>3, <1>7, RevokeRevises, RevokeType, RevisesKernel DEF KernelMoves
  <1>8. ASSUME NEW id \in NewLeaseIds, Renew(q.lease, q.generation, q.terms, id, now)
        PROVE  KernelInv' /\ CertsKept /\ KernelMoves
    <2>1. id \in LeaseIds
      BY DEF NewLeaseIds, Unused
    <2>2. TypeOK'
      BY <1>2, <1>3, <1>8, <2>1, RenewType
    <2>3. Renew(q.lease, records[q.lease].generation, q.terms, id, now)
      BY <1>8 DEF Renew, MayRenew, RequireGeneration
    <2> QED BY <1>2, <1>4, <1>8, <2>2, <2>3, RenewKernel DEF KernelMoves
  <1>9. CASE UNCHANGED kernelVars
    <2>1. Revises
      BY <1>3, <1>9 DEF kernelVars, Revises, TypeOK
    <2>2. TypeOK'
      BY <1>3, <1>9 DEF kernelVars, TypeOK
    <2> QED BY <1>3, <2>1, <2>2, RevisesKernel DEF KernelMoves
  <1> QED
    BY <1>1, <1>3, <1>5, <1>6, <1>7, <1>8, <1>9

(* So does the expiry sweep. *)
LEMMA SweepKernel ==
    ASSUME KernelInv, ControlRefresh
    PROVE  KernelInv' /\ CertsKept /\ Revises
  BY RefreshRevises, RefreshType, RevisesKernel DEF KernelInv, RootInv, ControlRefresh, RefreshSome
-----------------------------------------------------------------------------
(***************************************************************************)
(* The steps of one attempt.                                               *)
(***************************************************************************)

\* Where each attempt's state lives.
Placed ==
    /\ pc \in [Attempts -> Labels]
    /\ guards = {c \in Attempts : pc[c] \in Inside}
    /\ DOMAIN view = Attempts
    /\ DOMAIN token = Attempts
    /\ history = [c \in Attempts |-> history[c]]
    /\ authorization = [c \in Attempts |-> authorization[c]]

\* An attempt's step is its own: the other attempts are where they were.
OwnStep(c) ==
    /\ UNCHANGED <<vars, semanticContext, registry, clientVars>>
    /\ \A d \in Attempts \ {c} :
          /\ pc'[d] = pc[d]
          /\ view'[d] = view[d]
          /\ token'[d] = token[d]
          /\ history'[d] = history[d]
          /\ authorization'[d] = authorization[d]
          /\ d \in lost' <=> d \in lost
    /\ lost \subseteq lost' /\ lost' \subseteq lost \cup {c}

\* run_once returns after appending the attempt's last events.
Returns(c, kinds) ==
    /\ pc'[c] = "done"
    /\ view'[c] = NoView
    /\ token'[c] = NoToken
    /\ history'[c] = history[c] \o kinds
    /\ UNCHANGED <<steps, actions>>

LEMMA FinishStep ==
    ASSUME Placed, NEW c \in Attempts, NEW kinds, Finish(c, kinds)
    PROVE  /\ Returns(c, kinds)
           /\ \A d \in Attempts \ {c} : /\ pc'[d] = pc[d]
                                        /\ view'[d] = view[d]
                                        /\ token'[d] = token[d]
                                        /\ history'[d] = history[d]
           /\ DOMAIN view' = Attempts /\ DOMAIN token' = Attempts
           /\ history' = [d \in Attempts |-> history'[d]]
           /\ pc' \in [Attempts -> Labels]
           /\ guards' = guards \ {c}
  BY DEF Placed, Finish, Returns, AppendForAttempt, Goto, Released, Labels

LEMMA OneAttempt ==
    ASSUME Placed, lost \subseteq Attempts, NEW c \in Attempts, Proceed(c) \/ Caller(c)
    PROVE  OwnStep(c) /\ Placed'
  <1> USE DEF storeVars, Holding, clientVars, envVars
  <1>1. CASE /\ Call(c) \/ DropWaitingForModel(c) \/ DropInNexus(c)
             /\ UNCHANGED <<vars, envVars, clientVars>>
    <2>1. CASE Call(c)
      BY <1>1, <2>1 DEF OwnStep, Placed, Call, Goto, Labels, Inside
    <2>2. CASE DropWaitingForModel(c)
      BY <1>1, <2>2, FinishStep DEF OwnStep, Placed, DropWaitingForModel, Returns, Inside
    <2>3. CASE DropInNexus(c)
      BY <1>1, <2>3, FinishStep DEF OwnStep, Placed, DropInNexus, Returns, Inside
    <2> QED BY <1>1, <2>1, <2>2, <2>3
  <1>2. CASE /\ \/ ObserveSnapshot(c) \/ ObserveAuthority(c)
                \/ ModelFails(c) \/ ModelFinal(c) \/ LockForFinal(c) \/ CommitFinal(c)
             /\ UNCHANGED <<vars, envVars, clientVars>>
    <2>1. CASE ObserveSnapshot(c)
      BY <1>2, <2>1 DEF OwnStep, Placed, ObserveSnapshot, Goto, Labels, Inside
    <2>2. CASE ObserveAuthority(c)
      BY <1>2, <2>2, FinishStep
         DEF OwnStep, Placed, ObserveAuthority, Returns, Goto, Labels, Inside
    <2>3. CASE ModelFails(c)
      BY <1>2, <2>3, FinishStep DEF OwnStep, Placed, ModelFails, Returns, Inside
    <2>4. CASE ModelFinal(c)
      BY <1>2, <2>4, FinishStep
         DEF OwnStep, Placed, ModelFinal, Returns, Goto, AppendForAttempt, Labels, Inside
    <2>5. CASE LockForFinal(c)
      BY <1>2, <2>5, FinishStep
         DEF OwnStep, Placed, LockForFinal, Returns, Goto, Held, Labels, Inside
    <2>6. CASE CommitFinal(c)
      BY <1>2, <2>6, FinishStep DEF OwnStep, Placed, CommitFinal, Returns, Inside
    <2> QED BY <1>2, <2>1, <2>2, <2>3, <2>4, <2>5, <2>6
  <1>3. CASE /\ \/ ModelToolCall(c) \/ AuthorizeSnapshot(c) \/ AuthorizeAction(c)
             /\ UNCHANGED <<vars, envVars, clientVars>>
    <2>1. CASE ModelToolCall(c)
      BY <1>3, <2>1, FinishStep
         DEF OwnStep, Placed, ModelToolCall, Returns, Goto, AppendForAttempt, Labels, Inside
    <2>2. CASE AuthorizeSnapshot(c)
      BY <1>3, <2>2, FinishStep
         DEF OwnStep, Placed, AuthorizeSnapshot, Returns, Goto, Labels, Inside
    <2>3. CASE AuthorizeAction(c)
      BY <1>3, <2>3, FinishStep
         DEF OwnStep, Placed, AuthorizeAction, Returns, Goto, AppendForAttempt,
             InsertAuthorization, Labels, Inside
    <2> QED BY <1>3, <2>1, <2>2, <2>3
  <1>4. CASE /\ \/ ResolveTool(c) \/ LockForCommit(c) \/ CheckCertificate(c) \/ ReadIssueTime(c)
                \/ MintTokens(c) \/ NexusReturns(c)
             /\ UNCHANGED <<vars, envVars, clientVars>>
    <2>1. CASE ResolveTool(c)
      BY <1>4, <2>1, FinishStep DEF OwnStep, Placed, ResolveTool, Returns, Goto, Labels, Inside
    <2>2. CASE LockForCommit(c)
      BY <1>4, <2>2, FinishStep
         DEF OwnStep, Placed, LockForCommit, Returns, Goto, Held, Labels, Inside
    <2>3. CASE CheckCertificate(c)
      BY <1>4, <2>3, FinishStep
         DEF OwnStep, Placed, CheckCertificate, Returns, Goto, Labels, Inside
    <2>4. CASE ReadIssueTime(c)
      BY <1>4, <2>4, FinishStep
         DEF OwnStep, Placed, ReadIssueTime, Returns, Goto, Labels, Inside
    <2>5. CASE MintTokens(c)
      BY <1>4, <2>5, FinishStep
         DEF OwnStep, Placed, MintTokens, Returns, Goto, Released, ConsumeAuthorization,
             Labels, Inside
    <2>6. CASE NexusReturns(c)
      BY <1>4, <2>6, FinishStep DEF OwnStep, Placed, NexusReturns, Returns, Inside
    <2> QED BY <1>4, <2>1, <2>2, <2>3, <2>4, <2>5, <2>6
  <1>5. CASE /\ RecordConsumption(c) \/ RecordStart(c)
             /\ UNCHANGED <<vars, semanticContext, registry, clientVars>>
    <2>1. CASE RecordConsumption(c)
      BY <1>5, <2>1, FinishStep
         DEF OwnStep, Placed, RecordConsumption, Returns, Goto, AppendForAttempt, Labels, Inside
    <2>2. CASE RecordStart(c)
      BY <1>5, <2>2, FinishStep
         DEF OwnStep, Placed, RecordStart, Returns, Goto, AppendForAttempt, Labels, Inside
    <2> QED BY <1>5, <2>1, <2>2
  <1> QED
    BY <1>1, <1>2, <1>3, <1>4, <1>5 DEF Proceed, Caller
-----------------------------------------------------------------------------
(***************************************************************************)
(* What an attempt has seen.                                               *)
(***************************************************************************)

(* An attempt that has returned remembers nothing and holds nothing. *)
LEMMA ReturnForgets ==
    ASSUME NEW c \in Attempts, NEW kinds, Returns(c, kinds)
    PROVE  ViewInv(c)' /\ GuardInv(c)' /\ TokenInv(c)'
  BY DEF Returns, ViewInv, IsView, NoView, GuardInv, TokenInv, Deciding, Inside, Licensed

LEMMA ViewStep ==
    ASSUME KernelInv, Placed, NEW c \in Attempts, ViewInv(c), Proceed(c) \/ Caller(c)
    PROVE  ViewInv(c)'
  <1>1. /\ TypeOK /\ NoDelegation
        /\ clock \in Nat /\ rootLease \in DOMAIN certs
        /\ \A l \in DOMAIN certs : certs[l].terms.expires \in Nat
    BY DEF KernelInv, RootInv, TypeOK, Certificates, Terms
  <1>2. /\ CertificateValidity \in Nat /\ TokenValidity \in Nat
    BY RuntimeAssumption
  <1>3. \A v : v.lease \in DOMAIN certs /\ v.observed = ObservedGenerations(v.lease) => Observes(v)
    BY <1>1, ObservesLeaf DEF Observes
  <1>0. \A v, w : Observes(v) /\ w.lease = v.lease /\ w.observed = v.observed => Observes(w)
    BY DEF Observes
  <1>4. ASSUME NEW kinds, Finish(c, kinds)
        PROVE  ViewInv(c)'
    BY <1>4, FinishStep, ReturnForgets
  <1>5. certs' = certs
    BY DEF Proceed, Caller, vars
  <1> USE DEF ViewInv, IsView, Deciding, Goto, Placed
  <1>6. CASE Call(c)
    BY <1>1, <1>5, <1>6 DEF Call, NoView
  <1>7. CASE DropWaitingForModel(c) \/ DropInNexus(c) \/ ModelFails(c) \/ CommitFinal(c)
               \/ NexusReturns(c)
    BY <1>4, <1>7 DEF DropWaitingForModel, DropInNexus, ModelFails, CommitFinal, NexusReturns
  <1>8. CASE ObserveSnapshot(c)
    BY <1>5, <1>8 DEF ObserveSnapshot
  <1>9. CASE ObserveAuthority(c)
    <2>1. CASE \E kinds : Finish(c, kinds)
      BY <1>4, <2>1
    <2>2. CASE /\ Goto(c, "model")
               /\ view' = [view EXCEPT ![c].observed = ObservedGenerations(view[c].lease)]
      <3>1. view[c].lease \in DOMAIN certs
        BY <1>9 DEF ObserveAuthority
      <3> QED BY <1>3, <1>5, <2>2, <3>1
    <2> QED BY <1>9, <2>1, <2>2 DEF ObserveAuthority
  <1>10. CASE ModelFinal(c) \/ ModelToolCall(c)
    <2>1. CASE ModelFinal(c)
      BY <1>0, <1>1, <1>4, <1>5, <2>1 DEF ModelFinal, TimeOfAnswer, Holding
    <2>2. CASE ModelToolCall(c)
      BY <1>0, <1>1, <1>4, <1>5, <2>2 DEF ModelToolCall, Holding
    <2> QED BY <1>10, <2>1, <2>2
  <1>11. CASE LockForFinal(c) \/ LockForCommit(c) \/ CheckCertificate(c)
    BY <1>0, <1>4, <1>5, <1>11 DEF LockForFinal, LockForCommit, CheckCertificate
  <1>12. CASE AuthorizeSnapshot(c)
    BY <1>0, <1>4, <1>5, <1>12 DEF AuthorizeSnapshot
  <1>13. CASE AuthorizeAction(c)
    <2>1. CASE \E kinds : Finish(c, kinds)
      BY <1>4, <2>1
    <2>2. CASE /\ Goto(c, "issued")
               /\ view' = [view EXCEPT ![c].observed = ObservedGenerations(view[c].lease),
                                       ![c].expires = CertificateExpiry(view[c])]
      <3>1. view[c].lease \in DOMAIN certs /\ CertificateExpiry(view[c]) \in Nat
        BY <1>1, <1>2, <1>13 DEF AuthorizeAction, CertificateExpiry, Least
      <3> QED BY <1>3, <1>5, <2>2, <3>1
    <2> QED BY <1>13, <2>1, <2>2 DEF AuthorizeAction
  <1>14. CASE ResolveTool(c)
    BY <1>0, <1>1, <1>4, <1>5, <1>14 DEF ResolveTool
  <1>15. CASE ReadIssueTime(c)
    BY <1>0, <1>1, <1>2, <1>4, <1>5, <1>15 DEF ReadIssueTime, RemainingAuthority, Least
  <1>16. CASE MintTokens(c)
    BY <1>0, <1>4, <1>5, <1>16 DEF MintTokens
  <1>17. CASE RecordConsumption(c) \/ RecordStart(c)
    BY <1>0, <1>4, <1>5, <1>17 DEF RecordConsumption, RecordStart
  <1> QED
    BY <1>6, <1>7, <1>8, <1>9, <1>10, <1>11, <1>12, <1>13, <1>14, <1>15, <1>16, <1>17
       DEF Proceed, Caller

(* What commit_active_chain and its closure have checked when they go on. *)
LEMMA UnchangedAuthority ==
    ASSUME TypeOK, NoDelegation, NEW c, view[c].lease \in DOMAIN certs, AuthorityUnchanged(c)
    PROVE  /\ records[view[c].lease].state = "Active"
           /\ records[view[c].lease].generation = view[c].observed[view[c].lease]
           /\ view[c].now < certs[view[c].lease].terms.expires
  <1>1. ValidateChain(view[c].lease, view[c].now)
    BY DEF AuthorityUnchanged, ChainValidAt
  <1>2. ObservedGenerations(view[c].lease) = view[c].observed
    BY DEF AuthorityUnchanged
  <1> QED
    BY <1>1, <1>2, ValidIsActive, ObservesLeaf

(* What holds when the guard is taken holds until it is released. *)
LEMMA GuardStep ==
    ASSUME KernelInv, Placed, NEW c \in Attempts, ViewInv(c), GuardInv(c),
           Proceed(c) \/ Caller(c)
    PROVE  GuardInv(c)'
  <1>1. /\ TypeOK /\ NoDelegation
        /\ clock \in Nat
        /\ \A l \in DOMAIN certs : certs[l].terms.expires \in Nat
    BY DEF KernelInv, RootInv, TypeOK, Certificates, Terms
  <1>2. ASSUME NEW kinds, Finish(c, kinds)
        PROVE  GuardInv(c)'
    BY <1>2, FinishStep, ReturnForgets
  <1>3. certs' = certs /\ records' = records
    BY DEF Proceed, Caller, vars
  <1>4. /\ pc[c] \notin {"idle", "done"} => view[c].lease \in DOMAIN certs
        /\ IsView(view[c])
    BY DEF ViewInv
  <1> USE DEF GuardInv, Inside, Goto, Placed
  <1>5. CASE Call(c) \/ ObserveSnapshot(c) \/ ObserveAuthority(c) \/ ModelToolCall(c)
               \/ AuthorizeSnapshot(c) \/ AuthorizeAction(c) \/ ResolveTool(c)
    BY <1>2, <1>5 DEF Call, ObserveSnapshot, ObserveAuthority, ModelToolCall, AuthorizeSnapshot,
                      AuthorizeAction, ResolveTool
  <1>6. CASE DropWaitingForModel(c) \/ DropInNexus(c) \/ ModelFails(c) \/ CommitFinal(c)
               \/ NexusReturns(c) \/ MintTokens(c) \/ RecordConsumption(c) \/ RecordStart(c)
    BY <1>2, <1>6 DEF DropWaitingForModel, DropInNexus, ModelFails, CommitFinal, NexusReturns,
                      MintTokens, RecordConsumption, RecordStart
  <1>7. CASE ModelFinal(c)
    BY <1>2, <1>3, <1>4, <1>7 DEF ModelFinal, TimeOfAnswer, MissionUsable, IsView
  <1>8. CASE LockForFinal(c)
    BY <1>1, <1>2, <1>3, <1>4, <1>8, UnchangedAuthority DEF LockForFinal
  <1>9. CASE LockForCommit(c)
    BY <1>1, <1>2, <1>3, <1>4, <1>9, UnchangedAuthority DEF LockForCommit
  <1>10. CASE CheckCertificate(c)
    BY <1>2, <1>3, <1>10 DEF CheckCertificate
  <1>11. CASE ReadIssueTime(c)
    <2>1. CASE \E kinds : Finish(c, kinds)
      BY <1>2, <2>1
    <2>2. CASE /\ Goto(c, "mint")
               /\ RemainingAuthority(c) > 0
               /\ view' = [view EXCEPT ![c].now = clock,
                             ![c].validity = Least(TokenValidity, RemainingAuthority(c))]
      <3>1. clock < certs[view[c].lease].terms.expires
        BY <1>1, <1>4, <1>11, <2>2 DEF ReadIssueTime, RemainingAuthority, Least, IsView
      <3> QED BY <1>3, <1>4, <1>11, <2>2, <3>1 DEF ReadIssueTime, IsView
    <2> QED BY <1>11, <2>1, <2>2 DEF ReadIssueTime
  <1> QED
    BY <1>5, <1>6, <1>7, <1>8, <1>9, <1>10, <1>11 DEF Proceed, Caller

(* The token is held from the mint to the end of the execution, and was given
   no more time than the lease and the certificate had left. *)
LEMMA TokenStep ==
    ASSUME KernelInv, Placed, NEW c \in Attempts, ViewInv(c), GuardInv(c), TokenInv(c),
           Proceed(c) \/ Caller(c)
    PROVE  TokenInv(c)'
  <1>1. /\ clock \in Nat
        /\ \A l \in DOMAIN certs : certs[l].terms.expires \in Nat
    BY DEF KernelInv, RootInv, TypeOK, Certificates, Terms
  <1>2. TokenValidity \in Nat
    BY RuntimeAssumption
  <1>3. ASSUME NEW kinds, Finish(c, kinds)
        PROVE  TokenInv(c)'
    BY <1>3, FinishStep, ReturnForgets
  <1>4. certs' = certs
    BY DEF Proceed, Caller, vars
  <1>5. /\ pc[c] \notin {"idle", "done"} => view[c].lease \in DOMAIN certs
        /\ IsView(view[c])
    BY DEF ViewInv
  <1> USE DEF TokenInv, Licensed, Goto, Placed, Holding
  <1>6. CASE Call(c) \/ ObserveSnapshot(c) \/ ObserveAuthority(c) \/ ModelToolCall(c)
               \/ AuthorizeSnapshot(c) \/ AuthorizeAction(c) \/ ResolveTool(c)
    BY <1>3, <1>6 DEF Call, ObserveSnapshot, ObserveAuthority, ModelToolCall, AuthorizeSnapshot,
                      AuthorizeAction, ResolveTool
  <1>7. CASE DropWaitingForModel(c) \/ DropInNexus(c) \/ ModelFails(c) \/ CommitFinal(c)
               \/ NexusReturns(c) \/ ModelFinal(c) \/ LockForFinal(c) \/ LockForCommit(c)
               \/ CheckCertificate(c)
    BY <1>3, <1>7 DEF DropWaitingForModel, DropInNexus, ModelFails, CommitFinal, NexusReturns,
                      ModelFinal, LockForFinal, LockForCommit, CheckCertificate
  <1>8. CASE RecordConsumption(c) \/ RecordStart(c)
    BY <1>3, <1>4, <1>8 DEF RecordConsumption, RecordStart
  <1>9. CASE ReadIssueTime(c)
    <2>1. CASE \E kinds : Finish(c, kinds)
      BY <1>3, <2>1
    <2>2. CASE /\ Goto(c, "mint")
               /\ view' = [view EXCEPT ![c].now = clock,
                             ![c].validity = Least(TokenValidity, RemainingAuthority(c))]
               /\ UNCHANGED token
      <3> DEFINE validity == Least(TokenValidity, RemainingAuthority(c))
                 limit == Least(certs[view[c].lease].terms.expires, view[c].expires)
      <3>1. limit \in Nat
        BY <1>1, <1>5, <1>9 DEF ReadIssueTime, Least, IsView
      <3>2. validity <= TokenValidity /\ clock + validity <= limit
        BY <1>1, <1>2, <3>1 DEF RemainingAuthority, Least
      <3>3. /\ view'[c].now = clock /\ view'[c].validity = validity
            /\ view'[c].lease = view[c].lease /\ view'[c].expires = view[c].expires
        BY <1>5, <2>2 DEF IsView
      <3> HIDE DEF validity
      <3> QED BY <1>4, <1>9, <2>2, <3>2, <3>3 DEF ReadIssueTime
    <2> QED BY <1>9, <2>1, <2>2 DEF ReadIssueTime
  <1>10. CASE MintTokens(c)
    <2>1. CASE \E kinds : Finish(c, kinds)
      BY <1>3, <2>1
    <2>2. CASE /\ Goto(c, "consumed")
               /\ UNCHANGED view
               /\ token' = [token EXCEPT ![c] =
                     [lease    |-> view[c].lease, issuedAt |-> view[c].now,
                      mintedAt |-> clock, expires  |-> clock + view[c].validity]]
      <3> DEFINE limit == Least(certs[view[c].lease].terms.expires, view[c].expires)
      <3>1. /\ limit \in Nat /\ view[c].lease \in DOMAIN certs
            /\ view[c].now \in Nat /\ view[c].validity \in Nat
        BY <1>1, <1>5, <1>10 DEF MintTokens, Least, IsView
      <3>2. /\ view[c].now < certs[view[c].lease].terms.expires
            /\ view[c].validity <= TokenValidity
            /\ view[c].now + view[c].validity <= limit
        BY <1>10 DEF MintTokens, GuardInv, Inside
      <3>3. /\ token'[c].lease = view[c].lease
            /\ token'[c].issuedAt = view[c].now
            /\ token'[c].mintedAt = clock
            /\ token'[c].expires = clock + view[c].validity
        BY <2>2
      <3>4. token'[c] # NoToken
        BY <3>1, <3>3, IdAssumption DEF NoToken, KernelInv, RootInv, TypeOK
      <3> HIDE DEF limit
      <3>5. /\ clock + view[c].validity <= limit + (clock - view[c].now)
            /\ clock + view[c].validity <= clock + TokenValidity
        BY <1>1, <1>2, <3>1, <3>2
      <3> QED BY <1>4, <2>2, <3>2, <3>3, <3>4, <3>5 DEF limit
    <2> QED BY <1>10, <2>1, <2>2 DEF MintTokens
  <1> QED
    BY <1>6, <1>7, <1>8, <1>9, <1>10 DEF Proceed, Caller
-----------------------------------------------------------------------------
(***************************************************************************)
(* The evidence of an attempt.                                             *)
(***************************************************************************)

(* Appending one event and then another is appending both. *)
LEMMA AppendTwice ==
    ASSUME NEW S, NEW s \in Seq(S), NEW a \in S, NEW b \in S
    PROVE  (s \o <<a>>) \o <<b>> = s \o <<a, b>>
  <1>1. (s \o <<a>>) \o <<b>> \in Seq(S) /\ s \o <<a, b>> \in Seq(S)
    OBVIOUS
  <1>2. Len((s \o <<a>>) \o <<b>>) = Len(s \o <<a, b>>)
    OBVIOUS
  <1>3. \A i \in 1 .. Len(s \o <<a, b>>) :
           ((s \o <<a>>) \o <<b>>)[i] = (s \o <<a, b>>)[i]
    OBVIOUS
  <1> QED
    BY <1>1, <1>2, <1>3, SeqEqual

LEMMA AppendOne ==
    ASSUME NEW S, NEW a \in S, NEW b \in S
    PROVE  <<a>> \o <<b>> = <<a, b>>
  <1>1. <<a>> \o <<b>> \in Seq(S) /\ <<a, b>> \in Seq(S)
    OBVIOUS
  <1>2. Len(<<a>> \o <<b>>) = Len(<<a, b>>)
    OBVIOUS
  <1>3. \A i \in 1 .. Len(<<a, b>>) : (<<a>> \o <<b>>)[i] = <<a, b>>[i]
    OBVIOUS
  <1> QED
    BY <1>1, <1>2, <1>3, SeqEqual

LEMMA AppendThird ==
    ASSUME NEW S, NEW a \in S, NEW b \in S, NEW d \in S
    PROVE  <<a, b>> \o <<d>> = <<a, b, d>>
  <1>1. <<a, b>> \o <<d>> \in Seq(S) /\ <<a, b, d>> \in Seq(S)
    OBVIOUS
  <1>2. Len(<<a, b>> \o <<d>>) = Len(<<a, b, d>>)
    OBVIOUS
  <1>3. \A i \in 1 .. Len(<<a, b, d>>) : (<<a, b>> \o <<d>>)[i] = <<a, b, d>>[i]
    OBVIOUS
  <1> QED
    BY <1>1, <1>2, <1>3, SeqEqual

LEMMA AppendAfterTwo ==
    ASSUME NEW S, NEW s \in Seq(S), NEW a \in S, NEW b \in S, NEW d \in S
    PROVE  (s \o <<a, b>>) \o <<d>> = s \o <<a, b, d>>
  <1>1. (s \o <<a, b>>) \o <<d>> \in Seq(S) /\ s \o <<a, b, d>> \in Seq(S)
    OBVIOUS
  <1>2. Len((s \o <<a, b>>) \o <<d>>) = Len(s \o <<a, b, d>>)
    OBVIOUS
  <1>3. \A i \in 1 .. Len(s \o <<a, b, d>>) :
           ((s \o <<a, b>>) \o <<d>>)[i] = (s \o <<a, b, d>>)[i]
    OBVIOUS
  <1> QED
    BY <1>1, <1>2, <1>3, SeqEqual

LEMMA PlannedIsAuthorized == Planned \o <<"ActionAuthorized", "AuthorizationIssued">> = Authorized
  <1> DEFINE s == Planned \o <<"ActionAuthorized", "AuthorizationIssued">>
  <1>1. s \in Seq(MissionEventKinds) /\ Authorized \in Seq(MissionEventKinds)
    BY DEF Planned, Authorized, MissionEventKinds
  <1>2. Len(s) = 4 /\ Len(Authorized) = 4
    BY DEF Planned, Authorized
  <1>3. \A i \in 1 .. 4 : s[i] = Authorized[i]
    BY DEF Planned, Authorized
  <1> HIDE DEF s
  <1>4. s = Authorized
    BY <1>1, <1>2, <1>3, SeqEqual
  <1> QED BY <1>4 DEF s

(* Where the histories of run_once lead. *)
LEMMA Continuations ==
    /\ \A s \in Seq(MissionEventKinds) : <<>> \o s = s /\ s \o <<>> = s
    /\ \A b \in {"FinalProduced", "FinalRejected"} :
          <<"ProtocolAccepted">> \o <<b>> = <<"ProtocolAccepted", b>>
    /\ Planned \o <<"ActionRejected">> = <<"ProtocolAccepted", "PlanAccepted", "ActionRejected">>
    /\ Planned \o <<"ActionAuthorized", "AuthorizationIssued">> = Authorized
    /\ \A b \in {"ExecutionStarted", "ExecutionRejectedBeforeNexus"} :
          (Authorized \o <<"AuthorizationConsumed">>) \o <<b>>
             = Authorized \o <<"AuthorizationConsumed", b>>
    /\ \A b \in {"ExecutionCompleted", "ExecutionFailed"} :
          (Authorized \o <<"AuthorizationConsumed", "ExecutionStarted">>) \o <<b>>
             = Authorized \o <<"AuthorizationConsumed", "ExecutionStarted", b>>
    /\ (Authorized \o <<"AuthorizationConsumed", "ExecutionStarted">>) \o <<>>
          = Authorized \o <<"AuthorizationConsumed", "ExecutionStarted">>
  <1>1. Authorized \in Seq(MissionEventKinds)
    BY DEF Authorized, MissionEventKinds
  <1>2. {"ExecutionStarted", "ExecutionRejectedBeforeNexus", "AuthorizationConsumed",
         "ExecutionCompleted", "ExecutionFailed", "ProtocolAccepted", "PlanAccepted",
         "ActionRejected", "FinalProduced", "FinalRejected"} \subseteq MissionEventKinds
    BY DEF MissionEventKinds
  <1>3. Authorized \o <<"AuthorizationConsumed", "ExecutionStarted">> \in Seq(MissionEventKinds)
    BY <1>1, <1>2
  <1>4. \A s \in Seq(MissionEventKinds) : <<>> \o s = s /\ s \o <<>> = s
    BY ConcatEmptySeq
  <1>5. \A b \in {"FinalProduced", "FinalRejected"} :
          <<"ProtocolAccepted">> \o <<b>> = <<"ProtocolAccepted", b>>
    BY <1>2, AppendOne
  <1>6. Planned \o <<"ActionRejected">> = <<"ProtocolAccepted", "PlanAccepted", "ActionRejected">>
    BY <1>2, AppendThird DEF Planned
  <1>7. \A b \in {"ExecutionStarted", "ExecutionRejectedBeforeNexus"} :
          (Authorized \o <<"AuthorizationConsumed">>) \o <<b>>
             = Authorized \o <<"AuthorizationConsumed", b>>
    BY <1>1, <1>2, AppendTwice
  <1>8. \A b \in {"ExecutionCompleted", "ExecutionFailed"} :
          (Authorized \o <<"AuthorizationConsumed", "ExecutionStarted">>) \o <<b>>
             = Authorized \o <<"AuthorizationConsumed", "ExecutionStarted", b>>
    BY <1>1, <1>2, AppendAfterTwo
  <1> QED
    BY <1>3, <1>4, <1>5, <1>6, <1>7, <1>8, PlannedIsAuthorized

LEMMA EvidenceStep ==
    ASSUME Placed, lost \subseteq Attempts, NEW c \in Attempts, EvidenceInv(c),
           Proceed(c) \/ Caller(c)
    PROVE  EvidenceInv(c)'
  <1>1. ASSUME NEW kinds, Finish(c, kinds)
        PROVE  pc'[c] = "done" /\ history'[c] = history[c] \o kinds
    BY <1>1, FinishStep DEF Returns
  <1>2. {<<>>, <<"ModelFailed">>, <<"ProtocolRejected">>, <<"ProtocolAccepted">>, Planned,
         <<"ProtocolAccepted", "FinalRejected">>,
         <<"ProtocolAccepted", "PlanAccepted", "ActionRejected">>} \subseteq Seq(MissionEventKinds)
    BY DEF MissionEventKinds, Planned
  <1> DOMAIN pc = Attempts /\ DOMAIN history = Attempts /\ DOMAIN authorization = Attempts
    BY DEF Placed
  <1> USE DEF EvidenceInv, UnderWay, Goto, Holding, storeVars
  <1>3. CASE Call(c) \/ ObserveSnapshot(c)
    BY <1>3 DEF Call, ObserveSnapshot, EndedUnauthorized
  <1>4. CASE ObserveAuthority(c) \/ DropWaitingForModel(c) \/ ModelFails(c)
    <2>1. /\ pc[c] \in {"observe", "model"} /\ history[c] = <<>>
          /\ c \notin lost' /\ authorization'[c] = Absent
      BY <1>4 DEF ObserveAuthority, DropWaitingForModel, ModelFails
    <2>2. \/ pc'[c] = "model" /\ history'[c] = <<>>
          \/ /\ pc'[c] = "done"
             /\ \E kinds \in {<<>>, <<"ModelFailed">>, <<"ProtocolRejected">>} :
                   history'[c] = <<>> \o kinds
      BY <1>1, <1>4, <2>1 DEF ObserveAuthority, DropWaitingForModel, ModelFails
    <2> QED BY <1>2, <2>1, <2>2, Continuations DEF EndedUnauthorized
  <1>5. CASE ModelFinal(c)
    <2>1. /\ pc[c] = "model" /\ history[c] = <<>> /\ authorization[c] = Absent
          /\ c \notin lost' /\ authorization'[c] = Absent
      BY <1>5 DEF ModelFinal
    <2>2. \/ pc'[c] = "finalLock" /\ history'[c] = <<"ProtocolAccepted">>
          \/ pc'[c] = "done" /\ history'[c] = <<"ProtocolAccepted", "FinalRejected">>
      BY <1>1, <1>2, <1>5, <2>1, Continuations DEF ModelFinal, AppendForAttempt
    <2> QED BY <2>1, <2>2 DEF EndedUnauthorized
  <1>6. CASE LockForFinal(c) \/ CommitFinal(c)
    <2>1. /\ pc[c] \in {"finalLock", "finalCommit"} /\ history[c] = <<"ProtocolAccepted">>
          /\ c \notin lost' /\ authorization'[c] = Absent
      BY <1>6 DEF LockForFinal, CommitFinal
    <2>2. \/ pc'[c] = "finalCommit" /\ history'[c] = <<"ProtocolAccepted">>
          \/ /\ pc'[c] = "done"
             /\ \E b \in {"FinalProduced", "FinalRejected"} :
                   history'[c] = <<"ProtocolAccepted">> \o <<b>>
      BY <1>1, <1>6, <2>1 DEF LockForFinal, CommitFinal
    <2>3. \/ pc'[c] = "finalCommit" /\ history'[c] = <<"ProtocolAccepted">>
          \/ /\ pc'[c] = "done"
             /\ \E b \in {"FinalProduced", "FinalRejected"} :
                   history'[c] = <<"ProtocolAccepted", b>>
      BY <2>2, Continuations
    <2> QED BY <2>1, <2>3 DEF EndedUnauthorized
  <1>7. CASE ModelToolCall(c)
    <2>1. /\ pc[c] = "model" /\ history[c] = <<>>
          /\ c \notin lost' /\ authorization'[c] = Absent
      BY <1>7 DEF ModelToolCall
    <2>2. \/ pc'[c] = "authorize" /\ history'[c] = Planned
          \/ /\ pc'[c] = "done"
             /\ history'[c] = <<"ProtocolAccepted", "PlanAccepted", "ActionRejected">>
      BY <1>1, <1>2, <1>7, <2>1, Continuations DEF ModelToolCall, AppendForAttempt, Planned
    <2> QED BY <2>1, <2>2 DEF EndedUnauthorized
  <1>8. CASE AuthorizeSnapshot(c)
    <2>1. /\ pc[c] = "authorize" /\ history[c] = Planned
          /\ c \notin lost' /\ authorization'[c] = Absent
      BY <1>8 DEF AuthorizeSnapshot
    <2>2. \/ pc'[c] = "authorizing" /\ history'[c] = Planned
          \/ pc'[c] = "done" /\ history'[c] = Planned \o <<"ActionRejected">>
      BY <1>1, <1>8, <2>1 DEF AuthorizeSnapshot
    <2> QED BY <2>1, <2>2, Continuations DEF EndedUnauthorized
  <1>9. CASE AuthorizeAction(c)
    <2>1. /\ pc[c] = "authorizing" /\ history[c] = Planned /\ authorization[c] = Absent
          /\ c \notin lost'
      BY <1>9 DEF AuthorizeAction
    <2>2. \/ /\ pc'[c] = "issued" /\ authorization'[c] = Issued
             /\ history'[c] = Planned \o <<"ActionAuthorized", "AuthorizationIssued">>
          \/ /\ pc'[c] = "done" /\ authorization'[c] = Absent
             /\ history'[c] = Planned \o <<"ActionRejected">>
      BY <1>1, <1>9, <2>1 DEF AuthorizeAction, AppendForAttempt, InsertAuthorization
    <2> QED BY <2>1, <2>2, Continuations DEF EndedUnauthorized
  <1>10. CASE ResolveTool(c) \/ LockForCommit(c) \/ CheckCertificate(c) \/ ReadIssueTime(c)
    BY <1>1, <1>10 DEF ResolveTool, LockForCommit, CheckCertificate, ReadIssueTime, EndedUnspent
  <1>11. CASE MintTokens(c)
    BY <1>1, <1>11 DEF MintTokens, ConsumeAuthorization, Issued, Consumed, EndedUnspent
  <1>12. CASE RecordConsumption(c)
    BY <1>1, <1>12 DEF RecordConsumption, AppendForAttempt, EndedLost
  <1>13. CASE RecordStart(c)
    <2>1. /\ history[c] = Authorized \o <<"AuthorizationConsumed">>
          /\ c \notin lost' /\ authorization'[c] = Consumed
      BY <1>13 DEF RecordStart
    <2>2. \/ pc'[c] = "nexus" /\ history'[c] = history[c] \o <<"ExecutionStarted">>
          \/ pc'[c] = "done" /\ history'[c] = history[c] \o <<"ExecutionRejectedBeforeNexus">>
      BY <1>1, <1>13 DEF RecordStart, AppendForAttempt
    <2> QED BY <2>1, <2>2, Continuations DEF EndedSpent
  <1>14. CASE NexusReturns(c)
    <2>1. /\ history[c] = Authorized \o <<"AuthorizationConsumed", "ExecutionStarted">>
          /\ c \notin lost' /\ authorization'[c] = Consumed
      BY <1>14 DEF NexusReturns
    <2>2. \E kind \in {"ExecutionCompleted", "ExecutionFailed"} :
             pc'[c] = "done" /\ history'[c] = history[c] \o <<kind>>
      BY <1>1, <1>14 DEF NexusReturns
    <2> QED BY <2>1, <2>2, Continuations DEF EndedSpent
  <1>15. CASE DropInNexus(c)
    BY <1>1, <1>15, Continuations DEF DropInNexus, EndedLost
  <1> QED
    BY <1>3, <1>4, <1>5, <1>6, <1>7, <1>8, <1>9, <1>10, <1>11, <1>12, <1>13, <1>14, <1>15
       DEF Proceed, Caller
-----------------------------------------------------------------------------
(***************************************************************************)
(* All attempts together.                                                  *)
(***************************************************************************)

LEMMA InvariantPlaces == RuntimeInv => Placed /\ lost \subseteq Attempts
  BY DEF RuntimeInv, Shape, StoreTypeOK, Placed

\* The histories an attempt may have.
Histories ==
    {<<>>, <<"ModelFailed">>, <<"ProtocolRejected">>, <<"ProtocolAccepted">>, Planned,
     <<"ProtocolAccepted", "FinalProduced">>, <<"ProtocolAccepted", "FinalRejected">>,
     <<"ProtocolAccepted", "PlanAccepted", "ActionRejected">>, Authorized,
     Authorized \o <<"ExecutionRejectedBeforeNexus">>,
     Authorized \o <<"AuthorizationConsumed">>,
     Authorized \o <<"AuthorizationConsumed", "ExecutionStarted">>,
     Authorized \o <<"AuthorizationConsumed", "ExecutionRejectedBeforeNexus">>,
     Authorized \o <<"AuthorizationConsumed", "ExecutionStarted", "ExecutionCompleted">>,
     Authorized \o <<"AuthorizationConsumed", "ExecutionStarted", "ExecutionFailed">>}

LEMMA HistoriesTyped == Histories \subseteq Seq(MissionEventKinds)
  <1>1. Authorized \in Seq(MissionEventKinds)
    BY DEF Authorized, MissionEventKinds
  <1>2. {<<>>, <<"ModelFailed">>, <<"ProtocolRejected">>, <<"ProtocolAccepted">>, Planned,
         <<"ProtocolAccepted", "FinalProduced">>, <<"ProtocolAccepted", "FinalRejected">>,
         <<"ProtocolAccepted", "PlanAccepted", "ActionRejected">>} \subseteq Seq(MissionEventKinds)
    BY DEF MissionEventKinds, Planned
  <1>3. {Authorized \o <<"ExecutionRejectedBeforeNexus">>,
         Authorized \o <<"AuthorizationConsumed">>,
         Authorized \o <<"AuthorizationConsumed", "ExecutionStarted">>,
         Authorized \o <<"AuthorizationConsumed", "ExecutionRejectedBeforeNexus">>,
         Authorized \o <<"AuthorizationConsumed", "ExecutionStarted", "ExecutionCompleted">>,
         Authorized \o <<"AuthorizationConsumed", "ExecutionStarted", "ExecutionFailed">>}
           \subseteq Seq(MissionEventKinds)
    BY <1>1 DEF MissionEventKinds
  <1> QED
    BY <1>1, <1>2, <1>3, Zenon DEF Histories

LEMMA RecordsTyped == {Absent, Issued, Consumed} \subseteq AuthorizationRecords
  BY DEF Absent, Issued, Consumed, AuthorizationRecords

EvidenceIsHistory ==
    \A c \in Attempts : pc[c] \in Labels /\ EvidenceInv(c) =>
        history[c] \in Histories /\ authorization[c] \in {Absent, Issued, Consumed}

(* Wherever an attempt stands, its evidence is one of these histories. *)
LEMMA EvidenceHistories == EvidenceIsHistory
  <1> SUFFICES ASSUME NEW c \in Attempts, pc[c] \in Labels, EvidenceInv(c)
               PROVE  history[c] \in Histories /\ authorization[c] \in {Absent, Issued, Consumed}
    BY DEF EvidenceIsHistory
  <1>1. CASE pc[c] = "done"
    <2>1. CASE EndedUnauthorized(c)
      BY <2>1, Zenon DEF EndedUnauthorized, Histories
    <2>2. CASE EndedUnspent(c)
      BY <2>2, Zenon DEF EndedUnspent, Histories
    <2>3. CASE EndedSpent(c)
      BY <2>3, Zenon DEF EndedSpent, Histories
    <2>4. CASE EndedLost(c)
      BY <2>4, Zenon DEF EndedLost, Histories
    <2> QED BY <1>1, <2>1, <2>2, <2>3, <2>4 DEF EvidenceInv
  <1>2. CASE pc[c] # "done"
    <2>1. pc[c] \in {"idle", "snapshot", "observe", "model"}
          \/ pc[c] \in {"finalLock", "finalCommit"}
          \/ pc[c] \in {"authorize", "authorizing"}
          \/ pc[c] \in {"issued", "commitLock", "checkCertificate", "issueTime", "mint"}
          \/ pc[c] = "consumed" \/ pc[c] = "start" \/ pc[c] = "nexus"
      BY <1>2 DEF Labels
    <2>2. UnderWay(c)
      BY <1>2 DEF EvidenceInv
    <2> QED BY <2>1, <2>2, Zenon DEF UnderWay, Histories
  <1> QED
    BY <1>1, <1>2

LEMMA EvidenceHistoriesNext == EvidenceIsHistory'
  BY EvidenceHistories, PTL

(* A step of one attempt keeps what is known of every attempt. *)
LEMMA AttemptStep ==
    ASSUME RuntimeInv, NEW c \in Attempts, Proceed(c) \/ Caller(c)
    PROVE  /\ \A d \in Attempts : AttemptInv(d)'
           /\ StoreTypeOK'
  <1>1. Placed /\ lost \subseteq Attempts
    BY InvariantPlaces
  <1>2. OwnStep(c) /\ Placed'
    BY <1>1, OneAttempt
  <1>3. KernelInv /\ AttemptInv(c)
    BY DEF RuntimeInv
  <1>4. AttemptInv(c)'
    BY <1>1, <1>3, ViewStep, GuardStep, TokenStep, EvidenceStep DEF AttemptInv
  <1>5. ASSUME NEW d \in Attempts \ {c}
        PROVE  AttemptInv(d)'
    <2>1. AttemptInv(d)
      BY DEF RuntimeInv
    <2>2. /\ certs' = certs /\ records' = records
          /\ pc'[d] = pc[d] /\ view'[d] = view[d] /\ token'[d] = token[d]
          /\ history'[d] = history[d] /\ authorization'[d] = authorization[d]
          /\ (d \in lost' <=> d \in lost)
      BY <1>2 DEF OwnStep, vars
    <2>3. ViewInv(d)'
      BY <2>1, <2>2 DEF AttemptInv, ViewInv, IsView, Observes
    <2>4. GuardInv(d)'
      BY <2>1, <2>2 DEF AttemptInv, GuardInv
    <2>5. EvidenceInv(d)'
      BY <2>1, <2>2 DEF AttemptInv, EvidenceInv, UnderWay, EndedUnauthorized, EndedUnspent,
                        EndedSpent, EndedLost
    <2>6. TokenInv(d)'
      BY <2>1, <2>2 DEF AttemptInv, TokenInv
    <2> QED BY <2>3, <2>4, <2>5, <2>6 DEF AttemptInv
  <1>6. \A d \in Attempts : AttemptInv(d)'
    BY <1>4, <1>5
  <1>7. \A d \in Attempts : /\ history'[d] \in Seq(MissionEventKinds)
                            /\ authorization'[d] \in AuthorizationRecords
    <2>1. \A d \in Attempts : (pc[d] \in Labels)' /\ EvidenceInv(d)'
      BY <1>2, <1>6 DEF Placed, AttemptInv
    <2>2. \A d \in Attempts : history'[d] \in Histories
                               /\ authorization'[d] \in {Absent, Issued, Consumed}
      BY <2>1, EvidenceHistoriesNext DEF EvidenceIsHistory
    <2> QED BY <2>2, HistoriesTyped, RecordsTyped
  <1>8. StoreTypeOK'
    BY <1>2, <1>7 DEF StoreTypeOK, Placed
  <1> QED
    BY <1>6, <1>8

(* A step that is no attempt's keeps it too: one that changes records waits
   until nobody holds the read guard. *)
LEMMA OtherStep ==
    ASSUME RuntimeInv, UNCHANGED callVars, CertsKept, guards = {} \/ UNCHANGED records
    PROVE  /\ \A c \in Attempts : AttemptInv(c)'
           /\ StoreTypeOK'
  <1> USE DEF callVars
  <1>1. StoreTypeOK'
    BY DEF RuntimeInv, StoreTypeOK
  <1>2. ASSUME NEW c \in Attempts
        PROVE  AttemptInv(c)'
    <2>1. AttemptInv(c)
      BY DEF RuntimeInv
    <2>2. /\ pc[c] \notin {"idle", "done"} =>
                view[c].lease \in DOMAIN certs /\ view[c].lease \in DOMAIN certs'
                /\ certs'[view[c].lease] = certs[view[c].lease]
      BY <2>1 DEF AttemptInv, ViewInv, CertsKept
    <2>3. pc[c] \in Inside => UNCHANGED records
      BY DEF RuntimeInv, Shape
    <2>4. ViewInv(c)'
      BY <2>1, <2>2 DEF AttemptInv, ViewInv, IsView, Observes
    <2>5. GuardInv(c)'
      BY <2>1, <2>2, <2>3 DEF AttemptInv, GuardInv, Inside
    <2>6. EvidenceInv(c)'
      BY <2>1 DEF AttemptInv, EvidenceInv, UnderWay, EndedUnauthorized, EndedUnspent,
                  EndedSpent, EndedLost
    <2>7. TokenInv(c)'
      BY <2>1, <2>2 DEF AttemptInv, TokenInv, Licensed
    <2> QED BY <2>4, <2>5, <2>6, <2>7 DEF AttemptInv
  <1> QED
    BY <1>1, <1>2

(* The counters stay within their limits in a step of an attempt. *)
LEMMA CounterStep ==
    ASSUME RuntimeInv, NEW c \in Attempts, Proceed(c) \/ Caller(c)
    PROVE  Shape'
  <1>1. Placed /\ lost \subseteq Attempts
    BY InvariantPlaces
  <1>2. OwnStep(c) /\ Placed'
    BY <1>1, OneAttempt
  <1>3. /\ steps \in 0 .. MaxSteps /\ actions \in 0 .. MaxActions /\ faults \in 0 .. MaxFaults
        /\ MaxSteps \in Nat /\ MaxActions \in Nat /\ MaxFaults \in Nat
    BY RuntimeAssumption DEF RuntimeInv, Shape
  <1>4. faults' \in 0 .. MaxFaults
    <2>1. faults' = faults \/ (faults < MaxFaults /\ faults' = faults + 1)
      BY DEF Proceed, Caller, RecordConsumption, RecordStart, envVars
    <2> QED BY <1>3, <2>1
  <1>5. steps' = steps \/ (steps < MaxSteps /\ steps' = steps + 1)
    <2> USE DEF Finish
    <2>1. CASE ObserveAuthority(c)
      BY <2>1 DEF ObserveAuthority, MayReserve
    <2>2. CASE Caller(c)
      BY <2>2 DEF Caller, Call, DropWaitingForModel, DropInNexus
    <2>3. CASE ObserveSnapshot(c) \/ ModelFails(c) \/ ModelFinal(c) \/ LockForFinal(c)
                 \/ CommitFinal(c) \/ ModelToolCall(c) \/ AuthorizeSnapshot(c)
                 \/ AuthorizeAction(c) \/ ResolveTool(c)
      BY <2>3 DEF ObserveSnapshot, ModelFails, ModelFinal, LockForFinal, CommitFinal,
                  ModelToolCall, AuthorizeSnapshot, AuthorizeAction, ResolveTool
    <2>4. CASE LockForCommit(c) \/ CheckCertificate(c) \/ ReadIssueTime(c) \/ MintTokens(c)
                 \/ NexusReturns(c) \/ RecordConsumption(c) \/ RecordStart(c)
      BY <2>4 DEF LockForCommit, CheckCertificate, ReadIssueTime, MintTokens, NexusReturns,
                  RecordConsumption, RecordStart
    <2> QED BY <2>1, <2>2, <2>3, <2>4 DEF Proceed
  <1>6. actions' = actions \/ (actions < MaxActions /\ actions' = actions + 1)
    <2> USE DEF Finish
    <2>1. CASE AuthorizeAction(c)
      BY <2>1 DEF AuthorizeAction, MayReserve
    <2>2. CASE Caller(c)
      BY <2>2 DEF Caller, Call, DropWaitingForModel, DropInNexus
    <2>3. CASE ObserveSnapshot(c) \/ ObserveAuthority(c) \/ ModelFails(c) \/ ModelFinal(c)
                 \/ LockForFinal(c) \/ CommitFinal(c) \/ ModelToolCall(c)
                 \/ AuthorizeSnapshot(c) \/ ResolveTool(c)
      BY <2>3 DEF ObserveSnapshot, ObserveAuthority, ModelFails, ModelFinal, LockForFinal,
                  CommitFinal, ModelToolCall, AuthorizeSnapshot, ResolveTool
    <2>4. CASE LockForCommit(c) \/ CheckCertificate(c) \/ ReadIssueTime(c) \/ MintTokens(c)
                 \/ NexusReturns(c) \/ RecordConsumption(c) \/ RecordStart(c)
      BY <2>4 DEF LockForCommit, CheckCertificate, ReadIssueTime, MintTokens, NexusReturns,
                  RecordConsumption, RecordStart
    <2> QED BY <2>1, <2>2, <2>3, <2>4 DEF Proceed
  <1>7. steps' \in 0 .. MaxSteps /\ actions' \in 0 .. MaxActions
    BY <1>3, <1>5, <1>6
  <1>8. lost' \subseteq Attempts /\ semanticContext' \in Contexts /\ registry' \in Bases
    BY <1>1, <1>2 DEF OwnStep, RuntimeInv, Shape
  <1> QED
    BY <1>2, <1>4, <1>7, <1>8 DEF Shape, Placed
-----------------------------------------------------------------------------
(***************************************************************************)
(* The budgets.  Whoever leaves evidence has reserved a step before, and   *)
(* whoever has a record has reserved an action, in the step that checked   *)
(* the limit.                                                              *)
(***************************************************************************)
LEMMA AtMostOneMore ==
    ASSUME NEW S, IsFiniteSet(S), NEW x, NEW T, T \subseteq S \cup {x}
    PROVE  IsFiniteSet(T) /\ Cardinality(T) <= Cardinality(S) + 1
  <1>1. /\ IsFiniteSet(S \cup {x})
        /\ Cardinality(S \cup {x}) <= Cardinality(S) + 1
        /\ Cardinality(S) \in Nat /\ Cardinality(S \cup {x}) \in Nat
    BY FS_AddElement, FS_CardinalityType
  <1>2. IsFiniteSet(T) /\ Cardinality(T) <= Cardinality(S \cup {x}) /\ Cardinality(T) \in Nat
    BY <1>1, FS_Subset, FS_CardinalityType
  <1> QED
    BY <1>1, <1>2

LEMMA NoMore ==
    ASSUME NEW S, IsFiniteSet(S), NEW T, T \subseteq S
    PROVE  IsFiniteSet(T) /\ Cardinality(T) <= Cardinality(S)
  BY FS_Subset

(* Who uses a step counts it. *)
LEMMA SteppedGrows ==
    ASSUME RuntimeInv, NEW c \in Attempts, Proceed(c) \/ Caller(c)
    PROVE  \/ Stepped' \subseteq Stepped /\ steps' = steps
           \/ Stepped' \subseteq Stepped \cup {c} /\ steps' = steps + 1
  <1>1. Placed /\ lost \subseteq Attempts /\ EvidenceInv(c)
    BY InvariantPlaces DEF RuntimeInv, AttemptInv
  <1>2. OwnStep(c) /\ Placed'
    BY <1>1, OneAttempt
  <1>3. Stepped' \subseteq Stepped \cup {c}
    BY <1>2 DEF Stepped, OwnStep
  <1>4. CASE ObserveAuthority(c)
    <2>1. CASE steps' = steps + 1
      BY <1>3, <2>1
    <2>2. CASE Finish(c, <<>>)
      <3>1. /\ steps' = steps /\ pc'[c] = "done" /\ history'[c] = history[c] \o <<>>
        BY <1>1, <2>2, FinishStep DEF Returns
      <3>2. history[c] = <<>>
        BY <1>1, <1>4 DEF ObserveAuthority, EvidenceInv, UnderWay
      <3>3. c \notin Stepped'
        BY <3>1, <3>2, Continuations DEF Stepped
      <3> QED BY <1>3, <3>1, <3>3
    <2> QED BY <1>4, <2>1, <2>2 DEF ObserveAuthority
  <1>5. CASE Call(c) \/ ObserveSnapshot(c)
    <2>1. /\ steps' = steps /\ pc'[c] # "model" /\ history'[c] = <<>>
      BY <1>1, <1>5 DEF Call, ObserveSnapshot, EvidenceInv, UnderWay, Goto, Placed, storeVars
    <2> QED BY <1>3, <2>1 DEF Stepped
  <1>6. CASE pc[c] \notin {"idle", "snapshot", "observe", "done"} /\ steps' = steps
    <2>1. Authorized # <<>> /\ Planned # <<>> /\ <<"ProtocolAccepted">> # <<>>
      BY DEF Authorized, Planned
    <2>2. Authorized \o <<"AuthorizationConsumed">> # <<>>
          /\ Authorized \o <<"AuthorizationConsumed", "ExecutionStarted">> # <<>>
      BY DEF Authorized
    <2>3. pc[c] = "model" \/ history[c] # <<>>
      BY <1>1, <1>6, <2>1, <2>2 DEF EvidenceInv, UnderWay, Placed, Labels
    <2> QED BY <1>3, <1>6, <2>3 DEF Stepped
  <1>7. CASE DropWaitingForModel(c) \/ DropInNexus(c) \/ ModelFails(c) \/ ModelFinal(c)
               \/ LockForFinal(c) \/ CommitFinal(c) \/ ModelToolCall(c) \/ AuthorizeSnapshot(c)
               \/ AuthorizeAction(c)
    BY <1>6, <1>7 DEF DropWaitingForModel, DropInNexus, ModelFails, ModelFinal, LockForFinal,
                      CommitFinal, ModelToolCall, AuthorizeSnapshot, AuthorizeAction, Finish
  <1>8. CASE ResolveTool(c) \/ LockForCommit(c) \/ CheckCertificate(c) \/ ReadIssueTime(c)
               \/ MintTokens(c) \/ NexusReturns(c) \/ RecordConsumption(c) \/ RecordStart(c)
    BY <1>6, <1>8 DEF ResolveTool, LockForCommit, CheckCertificate, ReadIssueTime, MintTokens,
                      NexusReturns, RecordConsumption, RecordStart, Finish
  <1> QED
    BY <1>4, <1>5, <1>7, <1>8 DEF Proceed, Caller

(* Who gets an authorization record counts an action. *)
LEMMA ActedGrows ==
    ASSUME RuntimeInv, NEW c \in Attempts, Proceed(c) \/ Caller(c)
    PROVE  \/ Acted' \subseteq Acted /\ actions' = actions
           \/ Acted' \subseteq Acted \cup {c} /\ actions' = actions + 1
  <1>1. Placed /\ lost \subseteq Attempts /\ EvidenceInv(c)
    BY InvariantPlaces DEF RuntimeInv, AttemptInv
  <1>2. OwnStep(c) /\ Placed'
    BY <1>1, OneAttempt
  <1>3. Acted' \subseteq Acted \cup {c}
    BY <1>2 DEF Acted, OwnStep
  <1>4. CASE authorization'[c] = authorization[c] /\ actions' = actions
    BY <1>3, <1>4 DEF Acted
  <1> USE DEF Finish
  <1>5. CASE AuthorizeAction(c)
    BY <1>3, <1>4, <1>5 DEF AuthorizeAction
  <1>6. CASE MintTokens(c)
    <2>1. c \in Acted /\ actions' = actions
      BY <1>1, <1>6 DEF MintTokens, EvidenceInv, UnderWay, Issued, Absent, Acted
    <2> QED BY <1>3, <2>1
  <1>7. CASE Caller(c)
    BY <1>4, <1>7 DEF Caller, Call, DropWaitingForModel, DropInNexus, storeVars
  <1>8. CASE ObserveSnapshot(c) \/ ObserveAuthority(c) \/ ModelFails(c) \/ ModelFinal(c)
               \/ LockForFinal(c) \/ CommitFinal(c) \/ ModelToolCall(c)
    BY <1>4, <1>8 DEF ObserveSnapshot, ObserveAuthority, ModelFails, ModelFinal, LockForFinal,
                      CommitFinal, ModelToolCall, storeVars
  <1>9. CASE AuthorizeSnapshot(c) \/ ResolveTool(c) \/ LockForCommit(c) \/ CheckCertificate(c)
               \/ ReadIssueTime(c) \/ NexusReturns(c) \/ RecordConsumption(c) \/ RecordStart(c)
    BY <1>4, <1>9 DEF AuthorizeSnapshot, ResolveTool, LockForCommit, CheckCertificate,
                      ReadIssueTime, NexusReturns, RecordConsumption, RecordStart
  <1> QED
    BY <1>5, <1>6, <1>7, <1>8, <1>9 DEF Proceed

LEMMA BudgetStep ==
    ASSUME RuntimeInv, NEW c \in Attempts, Proceed(c) \/ Caller(c)
    PROVE  BudgetInv'
  <1>1. /\ IsFiniteSet(Stepped) /\ Cardinality(Stepped) <= steps
        /\ IsFiniteSet(Acted) /\ Cardinality(Acted) <= actions
        /\ steps \in Nat /\ actions \in Nat
    BY DEF RuntimeInv, BudgetInv, Shape
  <1>2. Cardinality(Stepped) \in Nat /\ Cardinality(Acted) \in Nat
    BY <1>1, FS_CardinalityType
  <1>3. IsFiniteSet(Stepped') /\ Cardinality(Stepped') <= steps'
    <2>1. PICK S : S = Stepped'
      OBVIOUS
    <2>2. \/ S \subseteq Stepped /\ steps' = steps
          \/ S \subseteq Stepped \cup {c} /\ steps' = steps + 1
      BY <2>1, SteppedGrows
    <2>3. CASE S \subseteq Stepped /\ steps' = steps
      <3>1. IsFiniteSet(S) /\ Cardinality(S) <= Cardinality(Stepped)
        BY <1>1, <2>3, NoMore
      <3>2. Cardinality(S) \in Nat
        BY <3>1, FS_CardinalityType
      <3> QED BY <1>1, <1>2, <2>1, <2>3, <3>1, <3>2
    <2>4. CASE S \subseteq Stepped \cup {c} /\ steps' = steps + 1
      <3>1. IsFiniteSet(S) /\ Cardinality(S) <= Cardinality(Stepped) + 1
        BY <1>1, <2>4, AtMostOneMore
      <3>2. Cardinality(S) \in Nat
        BY <3>1, FS_CardinalityType
      <3> QED BY <1>1, <1>2, <2>1, <2>4, <3>1, <3>2
    <2> QED BY <2>2, <2>3, <2>4
  <1>4. IsFiniteSet(Acted') /\ Cardinality(Acted') <= actions'
    <2>1. PICK S : S = Acted'
      OBVIOUS
    <2>2. \/ S \subseteq Acted /\ actions' = actions
          \/ S \subseteq Acted \cup {c} /\ actions' = actions + 1
      BY <2>1, ActedGrows
    <2>3. CASE S \subseteq Acted /\ actions' = actions
      <3>1. IsFiniteSet(S) /\ Cardinality(S) <= Cardinality(Acted)
        BY <1>1, <2>3, NoMore
      <3>2. Cardinality(S) \in Nat
        BY <3>1, FS_CardinalityType
      <3> QED BY <1>1, <1>2, <2>1, <2>3, <3>1, <3>2
    <2>4. CASE S \subseteq Acted \cup {c} /\ actions' = actions + 1
      <3>1. IsFiniteSet(S) /\ Cardinality(S) <= Cardinality(Acted) + 1
        BY <1>1, <2>4, AtMostOneMore
      <3>2. Cardinality(S) \in Nat
        BY <3>1, FS_CardinalityType
      <3> QED BY <1>1, <1>2, <2>1, <2>4, <3>1, <3>2
    <2> QED BY <2>2, <2>3, <2>4
  <1> QED
    BY <1>3, <1>4 DEF BudgetInv
-----------------------------------------------------------------------------
(***************************************************************************)
(* The control plane and the auditors.                                     *)
(***************************************************************************)

(* active_lease_snapshot names the root lease and its generation. *)
LEMMA ReadControl ==
    ASSUME RuntimeInv, NEW o \in Operators, NEW kind \in ControlKinds,
           NEW expires \in RenewalExpiries, ControlRead(o, kind, expires)
    PROVE  ControlInv'
  <1>1. /\ TypeOK /\ ControlInv /\ semanticContext \in Contexts /\ registry \in Bases
        /\ UNCHANGED vars
    BY DEF RuntimeInv, KernelInv, RootInv, Shape, ControlRead
  <1>2. expires \in Nat /\ RootTerms \in Terms
    BY TermsAssumption DEF RenewalExpiries, Terms
  <1>3. rootLease \in DOMAIN certs /\ certs[rootLease].terms \in Terms /\ clock \in Nat
    BY <1>1 DEF TypeOK, Certificates
  <1> DEFINE terms == IF kind # "renew" THEN RootTerms
                      ELSE [certs[rootLease].terms EXCEPT !.base = registry,
                               !.context = semanticContext, !.expires = expires]
             q == [kind |-> kind, lease |-> rootLease,
                   generation |-> records[rootLease].generation, terms |-> terms,
                   since |-> clock]
  <1>4. terms \in Terms
    BY <1>1, <1>2, <1>3 DEF Terms
  <1>5. control' = [control EXCEPT ![o] = q]
    BY DEF ControlRead
  <1> HIDE DEF terms
  <1>6. /\ q.kind \in ControlKinds /\ q.lease \in DOMAIN certs /\ q.terms \in Terms
        /\ q.since \in Nat
        /\ q.lease = rootLease /\ q.generation = records[rootLease].generation
    BY <1>3, <1>4
  <1> HIDE DEF q
  <1>7. DOMAIN control = Operators
    BY <1>1 DEF ControlInv
  <1> QED
    BY <1>1, <1>5, <1>6, <1>7 DEF ControlInv, vars, Live

(* When a control-plane call returns, the others still name leases. *)
LEMMA ApplyControl ==
    ASSUME RuntimeInv, NEW o \in Operators, ControlApply(o)
    PROVE  ControlInv'
  <1>1. CertsKept
    BY ApplyKernel DEF RuntimeInv
  <1>2. control' = [control EXCEPT ![o] = Idle] /\ ControlInv
    BY DEF ControlApply, RuntimeInv
  <1>3. DOMAIN control' = Operators /\ control'[o] = Idle
        /\ \A p \in Operators \ {o} : control'[p] = control[p]
    BY <1>2 DEF ControlInv
  <1> QED
    BY <1>1, <1>2, <1>3 DEF ControlInv, CertsKept

(* A sweep that leaves the root lease live leaves its generation alone. *)
LEMMA SweepControl ==
    ASSUME RuntimeInv, ControlRefresh
    PROVE  ControlInv'
  <1>1. CertsKept /\ Revises
    BY SweepKernel DEF RuntimeInv
  <1>2. TypeOK /\ ControlInv /\ UNCHANGED control /\ rootLease \in DOMAIN certs
    BY DEF RuntimeInv, KernelInv, RootInv, TypeOK, ControlRefresh, clientVars
  <1>3. PICK now \in Samples : RefreshExpirations(now)
    BY DEF ControlRefresh, RefreshSome
  <1>4. records'[rootLease].state \in LiveStates =>
           Live(rootLease) /\ records'[rootLease] = records[rootLease]
    BY <1>2, <1>3, RefreshShape
  <1>5. rootLease' = rootLease
    BY <1>1 DEF Revises
  <1> QED
    BY <1>1, <1>2, <1>4, <1>5 DEF ControlInv, CertsKept, Live

(* Any other step leaves the control-plane calls and the leases alone. *)
LEMMA OtherControl ==
    ASSUME RuntimeInv, UNCHANGED <<kernelVars, control>>
    PROVE  ControlInv'
  BY DEF RuntimeInv, ControlInv, kernelVars, Live

(* An attempt that has ended takes no step. *)
LEMMA DoneIsLast ==
    ASSUME NEW c \in Attempts, Proceed(c) \/ Caller(c)
    PROVE  pc[c] # "done"
  BY DEF Proceed, Caller, Call, DropWaitingForModel, DropInNexus, ObserveSnapshot,
         ObserveAuthority, ModelFails, ModelFinal, LockForFinal, CommitFinal, ModelToolCall,
         AuthorizeSnapshot, AuthorizeAction, ResolveTool, LockForCommit, CheckCertificate,
         ReadIssueTime, MintTokens, NexusReturns, RecordConsumption, RecordStart

(* What an auditor has copied stays true while attempts go on. *)
LEMMA AttemptAudit ==
    ASSUME RuntimeInv, NEW c \in Attempts, Proceed(c) \/ Caller(c)
    PROVE  AuditInv'
  <1>1. OwnStep(c)
    BY InvariantPlaces, OneAttempt
  <1>2. pc[c] # "done" /\ AuditInv
    BY DoneIsLast DEF RuntimeInv
  <1> QED
    BY <1>1, <1>2 DEF AuditInv, OwnStep, clientVars

(* What an auditor copies is true when it copies it. *)
LEMMA CopyAudit ==
    ASSUME RuntimeInv, NEW u \in Auditors, AuditCopyEvents(u)
    PROVE  AuditInv'
  <1> DEFINE copy == [events |-> history, pc |-> pc, lost |-> lost]
  <1>1. /\ audit' = [audit EXCEPT ![u] = copy]
        /\ UNCHANGED <<pc, history, lost>>
        /\ AuditInv
    BY DEF AuditCopyEvents, callVars, RuntimeInv
  <1>2. history \in [Attempts -> Seq(MissionEventKinds)]
    BY DEF RuntimeInv, StoreTypeOK
  <1>3. \A c \in Attempts : /\ pc[c] = "idle" => history[c] = <<>>
                            /\ c \in lost => pc[c] = "done"
    BY DEF RuntimeInv, AttemptInv, EvidenceInv, UnderWay
  <1>4. copy.events = history /\ copy.pc = pc /\ copy.lost = lost
    OBVIOUS
  <1> HIDE DEF copy
  <1>5. DOMAIN audit' = Auditors /\ audit'[u] = copy
        /\ \A w \in Auditors \ {u} : audit'[w] = audit[w]
    BY <1>1 DEF AuditInv
  <1> QED
    BY <1>1, <1>2, <1>3, <1>4, <1>5 DEF AuditInv

LEMMA ReturnAudit ==
    ASSUME RuntimeInv, NEW u \in Auditors, AuditReturn(u)
    PROVE  AuditInv'
  BY DEF AuditReturn, RuntimeInv, AuditInv, callVars

LEMMA OtherAudit ==
    ASSUME RuntimeInv, UNCHANGED <<callVars, audit>>
    PROVE  AuditInv'
  BY DEF RuntimeInv, AuditInv, callVars
-----------------------------------------------------------------------------
(***************************************************************************)
(* The invariant holds in every state.                                     *)
(***************************************************************************)
LEMMA InitRuntime == RuntimeInit => RuntimeInv
  <1> SUFFICES ASSUME RuntimeInit PROVE RuntimeInv
    OBVIOUS
  <1> USE DEF RuntimeInit
  <1>1. KernelInv
    <2>1. PICK id \in LeaseIds : Bootstrap(id) /\ \A m \in LeaseIds : id <= m
      BY DEF Init
    <2>2. TypeOK
      BY InitType
    <2>3. DOMAIN certs = {id} /\ certs[id].parent = NoLease /\ records[id].state = "Active"
          /\ rootLease = id
      BY <2>1 DEF Bootstrap, ActiveRecord
    <2>4. \A m \in LeaseIds : m \in Nat /\ m # NoLease
      BY IdAssumption
    <2>5. IssuedInOrder
      BY <2>1, <2>3, <2>4 DEF IssuedInOrder, Unused, NoLease
    <2> QED
      BY <2>2, <2>3, <2>5
         DEF KernelInv, RootInv, RootHasNoParent, RootLeaseIsCurrent, NoDelegation
  <1>2. StoreTypeOK
    BY DEF StoreInit, StoreTypeOK, Absent, AuthorizationRecords
  <1>3. Shape
    BY RuntimeAssumption, TermsAssumption DEF Shape, Labels, Inside, Terms
  <1>4. ASSUME NEW c \in Attempts
        PROVE  AttemptInv(c)
    <2>1. ViewInv(c) /\ GuardInv(c) /\ TokenInv(c)
      BY DEF ViewInv, IsView, NoView, GuardInv, TokenInv, Deciding, Inside, Licensed
    <2>2. EvidenceInv(c)
      BY DEF EvidenceInv, UnderWay, StoreInit
    <2> QED BY <2>1, <2>2 DEF AttemptInv
  <1>5. BudgetInv
    <2>1. Stepped = {} /\ Acted = {}
      BY DEF Stepped, Acted, StoreInit
    <2> QED BY <2>1, FS_EmptySet DEF BudgetInv
  <1>6. ControlInv
    BY DEF ControlInv
  <1>7. AuditInv
    BY DEF AuditInv
  <1> QED
    BY <1>1, <1>2, <1>3, <1>4, <1>5, <1>6, <1>7 DEF RuntimeInv

(* A step that is no attempt's leaves the attempts' counters alone. *)
LEMMA OtherShape ==
    ASSUME RuntimeInv, UNCHANGED callVars,
           semanticContext' \in Contexts, registry' \in Bases, faults' \in 0 .. MaxFaults
    PROVE  Shape' /\ BudgetInv'
  <1>1. Shape'
    BY DEF RuntimeInv, Shape, callVars
  <1>2. Stepped' = Stepped /\ Acted' = Acted /\ steps' = steps /\ actions' = actions
    BY DEF Stepped, Acted, callVars
  <1>3. BudgetInv'
    BY <1>2 DEF RuntimeInv, BudgetInv
  <1> QED
    BY <1>1, <1>3

LEMMA NextRuntime == RuntimeInv /\ [RuntimeNext]_rvars => RuntimeInv'
  <1> SUFFICES ASSUME RuntimeInv, [RuntimeNext]_rvars PROVE RuntimeInv'
    OBVIOUS
  <1>1. /\ semanticContext \in Contexts /\ registry \in Bases /\ faults \in 0 .. MaxFaults
        /\ MaxFaults \in Nat /\ KernelInv /\ ControlInv
    BY RuntimeAssumption DEF RuntimeInv, Shape
  <1>2. CASE UNCHANGED kernelVars /\ ~ControlRefresh /\ ~(\E o \in Operators : ControlApply(o))
    <2>1. KernelInv /\ clock \in 0 .. MaxTime
      BY <1>1 DEF KernelInv, RootInv, TypeOK
    <2>2. ASSUME clock' \in 0 .. MaxTime
          PROVE  KernelInv' /\ CertsKept
      BY <1>2, <2>1, <2>2
         DEF kernelVars, KernelInv, RootInv, TypeOK, RootHasNoParent, RootLeaseIsCurrent,
             IssuedInOrder, Unused, NoDelegation, CertsKept
    <2>3. ASSUME NEW c \in Attempts, Proceed(c) \/ Caller(c)
          PROVE  RuntimeInv'
      <3>1. UNCHANGED <<vars, control>>
        BY <2>3 DEF Proceed, Caller, clientVars
      <3>2. KernelInv'
        BY <2>1, <2>2, <3>1 DEF vars
      <3>3. ControlInv'
        BY <1>2, <3>1, OtherControl
      <3> QED
        BY <2>3, <3>2, <3>3, AttemptStep, CounterStep, BudgetStep, AttemptAudit DEF RuntimeInv
    <2>4. ASSUME UNCHANGED callVars, clock' \in 0 .. MaxTime,
                 semanticContext' \in Contexts, registry' \in Bases, faults' \in 0 .. MaxFaults,
                 ControlInv', AuditInv'
          PROVE  RuntimeInv'
      <3>1. UNCHANGED records
        BY <1>2 DEF kernelVars
      <3> QED
        BY <2>2, <2>4, <3>1, OtherStep, OtherShape DEF RuntimeInv
    <2>5. CASE \E o \in Operators, kind \in ControlKinds, expires \in RenewalExpiries :
                  ControlRead(o, kind, expires)
      BY <1>1, <2>1, <2>4, <2>5, ReadControl, OtherAudit DEF ControlRead, envVars, vars
    <2>6. CASE \E u \in Auditors : AuditCopyEvents(u) \/ AuditReturn(u)
      BY <1>1, <1>2, <2>1, <2>4, <2>6, OtherControl, CopyAudit, ReturnAudit
         DEF AuditCopyEvents, AuditReturn, envVars, vars
    <2>7. CASE ReplaceSemanticContext \/ ReplaceTool
      <3>1. faults' \in 0 .. MaxFaults /\ semanticContext' \in Contexts /\ registry' \in Bases
        BY <1>1, <2>7 DEF ReplaceSemanticContext, ReplaceTool
      <3>2. UNCHANGED <<callVars, control, audit, clock>>
        BY <2>7 DEF ReplaceSemanticContext, ReplaceTool, clientVars, vars
      <3> QED
        BY <1>2, <2>1, <2>4, <3>1, <3>2, OtherControl, OtherAudit
    <2>8. CASE PassTime \/ UNCHANGED rvars
      <3>1. clock' \in 0 .. MaxTime
        BY <2>1, <2>8, BoundAssumption DEF PassTime, Tick, rvars, vars
      <3>2. UNCHANGED <<callVars, envVars, control, audit>>
        BY <2>8 DEF PassTime, clientVars, rvars
      <3> QED
        BY <1>1, <1>2, <2>4, <3>1, <3>2, OtherControl, OtherAudit DEF envVars
    <2> QED
      BY <1>2, <2>3, <2>5, <2>6, <2>7, <2>8 DEF RuntimeNext
  <1>3. CASE ControlRefresh \/ \E o \in Operators : ControlApply(o)
    <2>1. guards = {} /\ UNCHANGED <<callVars, envVars, audit>>
      BY <1>3 DEF ControlRefresh, ControlApply, clientVars
    <2>2. KernelInv' /\ CertsKept
      BY <1>1, <1>3, SweepKernel, ApplyKernel
    <2>3. ControlInv'
      BY <1>3, SweepControl, ApplyControl
    <2>4. Shape' /\ BudgetInv'
      BY <1>1, <2>1, OtherShape DEF envVars
    <2>5. AuditInv'
      BY <2>1, OtherAudit
    <2> QED
      BY <2>1, <2>2, <2>3, <2>4, <2>5, OtherStep DEF RuntimeInv
  <1>4. UNCHANGED kernelVars \/ ControlRefresh \/ \E o \in Operators : ControlApply(o)
    BY DEF RuntimeNext, Proceed, Caller, ControlRead, AuditCopyEvents, AuditReturn,
           ReplaceSemanticContext, ReplaceTool, PassTime, Tick, rvars, vars, kernelVars
  <1> QED
    BY <1>2, <1>3, <1>4

(* What RuntimeInv says of every attempt, operator and auditor holds in every
   state of the runtime. *)
THEOREM RuntimeInvariant == RuntimeSpec => []RuntimeInv
  BY InitRuntime, NextRuntime, PTL DEF RuntimeSpec
=============================================================================
