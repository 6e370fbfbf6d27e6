---------------------------- MODULE AgentRuntime ----------------------------
(***************************************************************************)
(* The agent runtime (supervisor.rs, execution.rs): concurrent calls of    *)
(* run_once against one authority kernel and one mission store, while      *)
(* operators pause, resume, revoke and renew the root lease.               *)
(*                                                                         *)
(* A step of a call runs from one point where it reads shared state under  *)
(* a lock to the next; what it does to its own attempt in between belongs  *)
(* to the step.  The read guard that commit_active_chain holds while its   *)
(* closure runs is explicit: kernel operations write-lock the kernel and   *)
(* wait until no call holds it.  The runtime exposes no delegation, so the *)
(* only chain is the root lease.                                           *)
(*                                                                         *)
(* External: the model, which answers a call with anything, and Nexus,     *)
(* which may refuse to mint a token and may fail an execution.             *)
(***************************************************************************)
EXTENDS AuthorityKernel, MissionStore

CONSTANTS
    Operators,            \* concurrent users of the control-plane methods
    Auditors,             \* concurrent callers of verify_event_completeness
    Required,             \* required_capabilities of the tool the model calls
    TokenValidity,        \* TOKEN_VALIDITY
    CertificateValidity,  \* the five minutes of an action certificate
    MaxSteps,             \* resource_budget.max_steps
    MaxActions,           \* mission.max_actions
    MaxFaults             \* bound on failed appends and replaced tools or contexts

VARIABLES
    pc,               \* attempt -> where its run_once stands
    view,             \* attempt -> what its run_once has read or computed
    token,            \* attempt -> the Nexus token it holds
    guards,           \* attempts holding the authority read guard
    steps, actions,   \* steps_consumed, actions_consumed
    semanticContext,  \* digest of the runtime's semantic context
    registry,         \* the manifest base the tool registry yields now
    control,          \* operator -> its pending control-plane call
    audit,            \* auditor -> the events it has copied, and what it then saw
    faults,           \* faults so far
    lost              \* attempts whose evidence was lost (history variable)

callVars == <<pc, view, token, guards, steps, actions, history, authorization, lost>>
envVars == <<semanticContext, registry, faults>>
clientVars == <<control, audit>>
rvars == <<vars, callVars, envVars, clientVars>>

ASSUME RuntimeAssumption ==
    /\ Required \subseteq Capabilities
    /\ TokenValidity \in Nat \ {0}
    /\ CertificateValidity \in Nat \ {0}
    /\ MaxSteps \in Nat \ {0}
    /\ MaxActions \in Nat \ {0}
    /\ MaxFaults \in Nat

NoView == [now |-> 0, context |-> RootTerms.context, lease |-> NoLease, generation |-> 0,
           observed |-> <<>>, base |-> RootTerms.base, expires |-> 0, validity |-> 0,
           answered |-> 0]

NoToken == [lease |-> NoLease, issuedAt |-> 0, mintedAt |-> 0, expires |-> 0]

Idle == [kind |-> "idle", lease |-> NoLease, generation |-> 0, terms |-> RootTerms,
         since |-> 0]

Quiet == [events |-> <<>>, pc |-> <<>>, lost |-> {}]

RuntimeInit ==
    /\ Init
    /\ StoreInit
    /\ pc = [c \in Attempts |-> "idle"]
    /\ view = [c \in Attempts |-> NoView]
    /\ token = [c \in Attempts |-> NoToken]
    /\ guards = {}
    /\ steps = 0
    /\ actions = 0
    /\ semanticContext = RootTerms.context
    /\ registry = RootTerms.base
    /\ control = [o \in Operators |-> Idle]
    /\ audit = [u \in Auditors |-> Quiet]
    /\ faults = 0
    /\ lost = {}

\* Mutant: one more than the limit.
MayReserveOneMore(consumed, limit) == consumed <= limit
MayReserve(consumed, limit) == consumed < limit

Least(m, n) == IF m <= n THEN m ELSE n
MissionUsable(now) == now < MissionExpiry

Goto(c, label) == pc' = [pc EXCEPT ![c] = label]
Holding == <<guards, token>>

\* Mutant: an error path that keeps the guard.
StillHeld(c) == guards
Released(c) == guards \ {c}

\* Mutant: the authority is checked, and not held while the commit runs.
NotHeld(c) == guards
Held(c) == guards \cup {c}

\* run_once returns after appending the attempt's last events.
Finish(c, kinds) ==
    /\ AppendForAttempt(c, kinds)
    /\ Goto(c, "done")
    /\ view' = [view EXCEPT ![c] = NoView]
    /\ token' = [token EXCEPT ![c] = NoToken]
    /\ guards' = Released(c)
    /\ UNCHANGED <<steps, actions>>
-----------------------------------------------------------------------------
(***************************************************************************)
(* run_once up to the model's answer.                                      *)
(***************************************************************************)
Call(c) ==
    /\ pc[c] = "idle"
    /\ IF MissionUsable(clock)
       THEN /\ Goto(c, "snapshot")
            /\ view' = [view EXCEPT ![c].now = clock, ![c].context = semanticContext,
                                    ![c].lease = rootLease]
       ELSE Goto(c, "done") /\ UNCHANGED view
    /\ UNCHANGED <<Holding, steps, actions, storeVars, lost>>

ObserveSnapshot(c) ==
    /\ pc[c] = "snapshot"
    /\ Goto(c, "observe")
    /\ view' = [view EXCEPT ![c].generation = records[view[c].lease].generation]
    /\ UNCHANGED <<Holding, steps, actions, storeVars, lost>>

\* validate_active_chain and commit_active_chain with an expected leaf generation
ChainValidAt(l, expected, now) == RequireGeneration(l, expected) /\ ValidateChain(l, now)

ObserveAuthority(c) ==
    LET v == view[c] IN
    /\ pc[c] = "observe"
    /\ IF /\ certs[v.lease].agent = RootAgent
          /\ ChainValidAt(v.lease, v.generation, v.now)
          /\ certs[v.lease].terms.context = v.context
          /\ MayReserve(steps, MaxSteps)
       THEN /\ Goto(c, "model")
            /\ steps' = steps + 1
            /\ view' = [view EXCEPT ![c].observed = ObservedGenerations(v.lease)]
            /\ UNCHANGED <<Holding, actions, storeVars>>
       ELSE Finish(c, <<>>) /\ UNCHANGED authorization
    /\ UNCHANGED lost

\* The model fails, or its answer does not pass the protocol gate.
ModelFails(c) ==
    /\ pc[c] = "model"
    /\ \E kind \in {"ModelFailed", "ProtocolRejected"} : Finish(c, <<kind>>)
    /\ UNCHANGED <<authorization, lost>>

\* The caller drops the future while the model runs.
DropWaitingForModel(c) ==
    /\ pc[c] = "model"
    /\ Finish(c, <<>>)
    /\ UNCHANGED <<authorization, lost>>
-----------------------------------------------------------------------------
(***************************************************************************)
(* A final result: accept_model_final.                                     *)
(***************************************************************************)
\* Mutant: the time the call started at.
TimeOfCall(c) == view[c].now

\* The time accept_model_final is called with; `answered' is when the model answered.
TimeOfAnswer(c) == clock

ModelFinal(c) ==
    /\ pc[c] = "model"
    /\ IF MissionUsable(TimeOfAnswer(c))
       THEN /\ Goto(c, "finalLock")
            /\ AppendForAttempt(c, <<"ProtocolAccepted">>)
            /\ view' = [view EXCEPT ![c].now = TimeOfAnswer(c), ![c].answered = clock]
            /\ UNCHANGED <<Holding, steps, actions>>
       ELSE Finish(c, <<"ProtocolAccepted", "FinalRejected">>)
    /\ UNCHANGED <<authorization, lost>>

\* Mutant: any active root lease will do.
AuthorityStillActive(c) == ValidateChain(view[c].lease, view[c].now)

\* commit_active_chain validates the chain, its closure compares the generations.
AuthorityUnchanged(c) ==
    LET v == view[c] IN
    /\ ChainValidAt(v.lease, v.observed[v.lease], v.now)
    /\ ObservedGenerations(v.lease) = v.observed

LockForFinal(c) ==
    /\ pc[c] = "finalLock"
    /\ IF AuthorityUnchanged(c)
       THEN /\ Goto(c, "finalCommit")
            /\ guards' = Held(c)
            /\ UNCHANGED <<view, token, steps, actions, history>>
       ELSE Finish(c, <<"FinalRejected">>)
    /\ UNCHANGED <<authorization, lost>>

CommitFinal(c) ==
    /\ pc[c] = "finalCommit"
    /\ Finish(c, <<IF semanticContext = certs[view[c].lease].terms.context
                   THEN "FinalProduced" ELSE "FinalRejected">>)
    /\ UNCHANGED <<authorization, lost>>
-----------------------------------------------------------------------------
(***************************************************************************)
(* A tool call: ActionGate::authorize, then the mission's action budget    *)
(* and the authorization record.                                           *)
(***************************************************************************)
ModelToolCall(c) ==
    /\ pc[c] = "model"
    /\ IF MissionUsable(clock)
       THEN /\ Goto(c, "authorize")
            /\ AppendForAttempt(c, <<"ProtocolAccepted", "PlanAccepted">>)
            /\ view' = [view EXCEPT ![c].now = clock, ![c].lease = rootLease,
                                    ![c].observed = <<>>]
            /\ UNCHANGED <<Holding, steps, actions>>
       ELSE Finish(c, <<"ProtocolAccepted", "PlanAccepted", "ActionRejected">>)
    /\ UNCHANGED <<authorization, lost>>

\* The tool must still be the one bound at activation.
AuthorizeSnapshot(c) ==
    LET v == view[c] IN
    /\ pc[c] = "authorize"
    /\ IF certs[v.lease].terms.base = registry
       THEN /\ Goto(c, "authorizing")
            /\ view' = [view EXCEPT ![c].generation = records[v.lease].generation,
                                    ![c].base = registry]
            /\ UNCHANGED <<Holding, steps, actions, history>>
       ELSE Finish(c, <<"ActionRejected">>)
    /\ UNCHANGED <<authorization, lost>>

\* What authorize asks of the lease once it has the snapshot and the live manifest.
ActionWithinAuthority(v) ==
    LET cert == certs[v.lease] IN
    /\ ChainValidAt(v.lease, v.generation, v.now)
    /\ cert.terms.base = v.base
    /\ cert.agent = RootAgent
    /\ cert.terms.context = v.context
    /\ All \notin Required
    /\ AuthorityIsSubsetOf(Required, MissionCapabilities)
    /\ AuthorityIsSubsetOf(Required, cert.terms.granted)

\* The expiry of the action certificate.
CertificateExpiry(v) == Least(v.now + CertificateValidity, certs[v.lease].terms.expires)

\* wellFormed: the tool is in the mission and the arguments match its schema.
AuthorizeAction(c) ==
    LET v == view[c] IN
    /\ pc[c] = "authorizing"
    /\ \E wellFormed \in BOOLEAN :
       IF wellFormed /\ ActionWithinAuthority(v) /\ MayReserve(actions, MaxActions)
       THEN /\ actions' = actions + 1
            /\ AppendForAttempt(c, <<"ActionAuthorized", "AuthorizationIssued">>)
            /\ InsertAuthorization(c)
            /\ Goto(c, "issued")
            /\ view' = [view EXCEPT ![c].observed = ObservedGenerations(v.lease),
                                    ![c].expires = CertificateExpiry(v)]
            /\ UNCHANGED <<Holding, steps>>
       ELSE Finish(c, <<"ActionRejected">>) /\ UNCHANGED authorization
    /\ UNCHANGED lost
-----------------------------------------------------------------------------
(***************************************************************************)
(* NexusExecutionPort::execute.                                            *)
(***************************************************************************)
ResolveTool(c) ==
    /\ pc[c] = "issued"
    /\ IF registry = view[c].base
       THEN /\ Goto(c, "commitLock")
            /\ view' = [view EXCEPT ![c].now = clock]
            /\ UNCHANGED <<Holding, steps, actions, history>>
       ELSE Finish(c, <<"ExecutionRejectedBeforeNexus">>)
    /\ UNCHANGED <<authorization, lost>>

LockForCommit(c) ==
    /\ pc[c] = "commitLock"
    /\ IF AuthorityUnchanged(c) /\ certs[view[c].lease].terms.base = view[c].base
       THEN /\ Goto(c, "checkCertificate")
            /\ guards' = Held(c)
            /\ UNCHANGED <<view, token, steps, actions, history>>
       ELSE Finish(c, <<"ExecutionRejectedBeforeNexus">>)
    /\ UNCHANGED <<authorization, lost>>

\* What the certificate binds and its signature cannot differ: only it may expire.
ValidateActionCertificate(c) == view[c].now < view[c].expires

CheckCertificate(c) ==
    /\ pc[c] = "checkCertificate"
    /\ IF /\ semanticContext = certs[view[c].lease].terms.context
          /\ ValidateActionCertificate(c)
       THEN Goto(c, "issueTime") /\ UNCHANGED <<view, Holding, steps, actions, history>>
       ELSE Finish(c, <<"ExecutionRejectedBeforeNexus">>)
    /\ UNCHANGED <<authorization, lost>>

\* Mutant: the validity computed from the time the chain was validated at.
RemainingAtValidation(c) ==
    Least(certs[view[c].lease].terms.expires, view[c].expires) - view[c].now
RemainingAuthority(c) ==
    Least(certs[view[c].lease].terms.expires, view[c].expires) - clock

\* issue_now; the validity of the token is computed from it.
ReadIssueTime(c) ==
    /\ pc[c] = "issueTime"
    /\ IF RemainingAuthority(c) > 0
       THEN /\ Goto(c, "mint")
            /\ view' = [view EXCEPT ![c].now = clock,
                           ![c].validity = Least(TokenValidity, RemainingAuthority(c))]
            /\ UNCHANGED <<Holding, steps, actions, history>>
       ELSE Finish(c, <<"ExecutionRejectedBeforeNexus">>)
    /\ UNCHANGED <<authorization, lost>>

(***************************************************************************)
(* consume_authorization_with: Nexus mints the token, whose validity it    *)
(* counts from its own reading of the clock, and then the record is spent. *)
(* A mint that fails spends nothing.                                       *)
(***************************************************************************)
MintTokens(c) ==
    /\ pc[c] = "mint"
    /\ \/ /\ ConsumeAuthorization(c, 0)
          /\ token' = [token EXCEPT ![c] =
                [lease    |-> view[c].lease,
                 issuedAt |-> view[c].now,
                 mintedAt |-> clock,
                 expires  |-> clock + view[c].validity]]
          /\ guards' = Released(c)
          /\ Goto(c, "consumed")
          /\ UNCHANGED <<view, steps, actions, history>>
       \/ Finish(c, <<"ExecutionRejectedBeforeNexus">>) /\ UNCHANGED authorization
    /\ UNCHANGED lost

\* Mutant: a failed append is ignored.
RecordConsumptionOrNot(c) ==
    /\ pc[c] = "consumed"
    /\ \/ AppendForAttempt(c, <<"AuthorizationConsumed">>) /\ UNCHANGED <<lost, faults>>
       \/ faults < MaxFaults /\ faults' = faults + 1 /\ lost' = lost \cup {c} /\ UNCHANGED history
    /\ Goto(c, "start")
    /\ UNCHANGED <<view, Holding, steps, actions, authorization>>

RecordConsumption(c) ==
    /\ pc[c] = "consumed"
    /\ \/ /\ AppendForAttempt(c, <<"AuthorizationConsumed">>)
          /\ Goto(c, "start")
          /\ UNCHANGED <<view, Holding, steps, actions, lost, faults>>
       \/ /\ faults < MaxFaults
          /\ faults' = faults + 1
          /\ lost' = lost \cup {c}
          /\ Finish(c, <<"ExecutionRejectedBeforeNexus">>)
    /\ UNCHANGED authorization

RecordStart(c) ==
    /\ pc[c] = "start"
    /\ \/ /\ AppendForAttempt(c, <<"ExecutionStarted">>)
          /\ Goto(c, "nexus")
          /\ UNCHANGED <<view, Holding, steps, actions, faults>>
       \/ /\ faults < MaxFaults
          /\ faults' = faults + 1
          /\ Finish(c, <<"ExecutionRejectedBeforeNexus">>)
    /\ UNCHANGED <<authorization, lost>>

NexusReturns(c) ==
    /\ pc[c] = "nexus"
    /\ \E kind \in {"ExecutionCompleted", "ExecutionFailed"} : Finish(c, <<kind>>)
    /\ UNCHANGED <<authorization, lost>>

\* The caller drops the future while Nexus runs: no terminal event is appended.
DropInNexus(c) ==
    /\ pc[c] = "nexus"
    /\ Finish(c, <<>>)
    /\ lost' = lost \cup {c}
    /\ UNCHANGED authorization
-----------------------------------------------------------------------------
(***************************************************************************)
(* The control plane: active_lease_snapshot, then the kernel operation     *)
(* with the generation the snapshot showed, at a time sampled in between.  *)
(* A renewal between reading root_lease_id and reading the record makes    *)
(* the operation fail just as one after it, so the two reads are one step. *)
(***************************************************************************)
ControlRead(o, kind, expires) ==
    /\ control[o] = Idle
    /\ kind = "renew" => Unused # {}
    /\ kind \in {"pause", "resume"} => rootLease \in Bounded
    /\ control' = [control EXCEPT ![o] =
          [kind |-> kind, lease |-> rootLease, generation |-> records[rootLease].generation,
           terms |-> IF kind # "renew" THEN RootTerms
                     ELSE [certs[rootLease].terms EXCEPT !.base = registry,
                              !.context = semanticContext, !.expires = expires],
           since |-> clock]]
    /\ UNCHANGED <<vars, callVars, envVars, audit>>

ControlAllowed(q, now) ==
    CASE q.kind = "pause"  -> MayTransition(q.lease, q.generation, "Active", now)
      [] q.kind = "resume" -> MayTransition(q.lease, q.generation, "Paused", now)
      [] q.kind = "revoke" -> MayRevoke(q.lease, q.generation)
      [] q.kind = "renew"  -> MayRenew(q.lease, q.generation, q.terms, now)

ControlApply(o) ==
    LET q == control[o] IN
    /\ q # Idle
    /\ guards = {}
    /\ \E now \in q.since .. clock :
          \/ q.kind = "pause" /\ Pause(q.lease, q.generation, now)
          \/ q.kind = "resume" /\ Resume(q.lease, q.generation, now)
          \/ q.kind = "revoke" /\ Revoke(q.lease, q.generation)
          \/ q.kind = "renew" /\ \E id \in NewLeaseIds :
                                    Renew(q.lease, q.generation, q.terms, id, now)
          \/ ~ControlAllowed(q, now) /\ UNCHANGED kernelVars
    /\ control' = [control EXCEPT ![o] = Idle]
    /\ UNCHANGED <<clock, callVars, envVars, audit>>

ControlRefresh ==
    /\ guards = {}
    /\ RefreshSome
    /\ UNCHANGED <<clock, callVars, envVars, clientVars>>

(***************************************************************************)
(* verify_event_completeness: the events are copied under their lock; the  *)
(* records are looked at later, while calls go on.  pc and lost are kept   *)
(* to state what the verdict means.                                        *)
(***************************************************************************)
AuditCopyEvents(u) ==
    /\ audit[u] = Quiet
    /\ audit' = [audit EXCEPT ![u] = [events |-> history, pc |-> pc, lost |-> lost]]
    /\ UNCHANGED <<vars, callVars, envVars, control>>

AuditVerdict(u) == VerifyEventCompleteness(audit[u].events)

AuditReturn(u) ==
    /\ audit[u] # Quiet
    /\ audit' = [audit EXCEPT ![u] = Quiet]
    /\ UNCHANGED <<vars, callVars, envVars, control>>

\* The test-only writers that the commit checks are there for.
ReplaceSemanticContext ==
    /\ faults < MaxFaults
    /\ faults' = faults + 1
    /\ semanticContext' \in Contexts \ {semanticContext}
    /\ UNCHANGED <<vars, callVars, registry, clientVars>>

ReplaceTool ==
    /\ faults < MaxFaults
    /\ faults' = faults + 1
    /\ registry' \in Bases \ {registry}
    /\ UNCHANGED <<vars, callVars, semanticContext, clientVars>>

PassTime == Tick /\ UNCHANGED <<callVars, envVars, clientVars>>
-----------------------------------------------------------------------------
\* The steps run_once always goes on to take, the model and Nexus answering.
Proceed(c) ==
    \/ /\ \/ ObserveSnapshot(c) \/ ObserveAuthority(c)
          \/ ModelFails(c) \/ ModelFinal(c) \/ LockForFinal(c) \/ CommitFinal(c)
          \/ ModelToolCall(c) \/ AuthorizeSnapshot(c) \/ AuthorizeAction(c)
          \/ ResolveTool(c) \/ LockForCommit(c) \/ CheckCertificate(c) \/ ReadIssueTime(c)
          \/ MintTokens(c) \/ NexusReturns(c)
       /\ UNCHANGED <<vars, envVars, clientVars>>
    \/ /\ RecordConsumption(c) \/ RecordStart(c)
       /\ UNCHANGED <<vars, semanticContext, registry, clientVars>>

\* What only happens if the caller of run_once does it.
Caller(c) ==
    /\ Call(c) \/ DropWaitingForModel(c) \/ DropInNexus(c)
    /\ UNCHANGED <<vars, envVars, clientVars>>

ControlKinds == {"pause", "resume", "revoke", "renew"}
RenewalExpiries == {terms.expires : terms \in Offers}

RuntimeNext ==
    \/ \E c \in Attempts : Proceed(c) \/ Caller(c)
    \/ \E o \in Operators, kind \in ControlKinds, expires \in RenewalExpiries :
          ControlRead(o, kind, expires)
    \/ \E o \in Operators : ControlApply(o)
    \/ ControlRefresh
    \/ \E u \in Auditors : AuditCopyEvents(u) \/ AuditReturn(u)
    \/ ReplaceSemanticContext
    \/ ReplaceTool
    \/ PassTime

RuntimeSpec == RuntimeInit /\ [][RuntimeNext]_rvars

(***************************************************************************)
(* A started call keeps going and a started control-plane call gets the    *)
(* write lock once no reader holds it.  The model and Nexus are taken to   *)
(* answer; nothing makes anyone start a call, and time need not pass.      *)
(***************************************************************************)
Fairness ==
    /\ \A c \in Attempts : WF_rvars(Proceed(c))
    /\ \A o \in Operators : WF_rvars(ControlApply(o))

FairRuntimeSpec == RuntimeSpec /\ Fairness
-----------------------------------------------------------------------------
(***************************************************************************)
(* Properties.                                                             *)
(***************************************************************************)
Labels == {"idle", "snapshot", "observe", "model", "finalLock", "finalCommit", "authorize",
           "authorizing", "issued", "commitLock", "checkCertificate", "issueTime", "mint",
           "consumed", "start", "nexus", "done"}

(* The kernel and the store are well formed, a call is at a known place, holds
   the read guard only inside its commit closure, and remembers a lease that
   exists. *)
RuntimeTypeOK ==
    /\ TypeOK
    /\ StoreTypeOK
    /\ pc \in [Attempts -> Labels]
    /\ guards = {c \in Attempts :
                   pc[c] \in {"finalCommit", "checkCertificate", "issueTime", "mint"}}
    /\ \A c \in Attempts :
          /\ view[c].lease \in DOMAIN certs \cup {NoLease}
          /\ DOMAIN view[c].observed \subseteq DOMAIN certs
          /\ token[c] # NoToken => pc[c] \in {"consumed", "start", "nexus"}
    /\ semanticContext \in Contexts
    /\ registry \in Bases
    /\ \A o \in Operators : control[o].kind \in ControlKinds \cup {"idle"}
    /\ \A u \in Auditors : audit[u] # Quiet => audit[u].events \in [Attempts -> Seq(MissionEventKinds)]
    /\ faults \in 0 .. MaxFaults

(* A revocation, pause, renewal or expiry sweep that takes effect before a
   token is minted prevents the mint: at that moment the lease is the root
   lease, active, and unchanged since the action was authorized
   (commit_active_chain around the closure of execute_inner). *)
MintedUnderLiveAuthority ==
    [][\A c \in Attempts :
          token[c] = NoToken /\ token'[c] # NoToken =>
              LET l == token'[c].lease IN
              /\ l = rootLease
              /\ records[l].state = "Active"
              /\ records[l].generation = view[c].observed[l]
              /\ certs[l].terms.base = view[c].base]_rvars

(* A token outlives neither its lease nor its action certificate, apart from
   the time Nexus took to mint it after execute_inner read issue_now. *)
TokenWithinAuthority ==
    \A c \in Attempts :
        token[c] # NoToken =>
            /\ token[c].issuedAt < certs[token[c].lease].terms.expires
            /\ token[c].expires <= Least(certs[token[c].lease].terms.expires, view[c].expires)
                                     + (token[c].mintedAt - token[c].issuedAt)
            /\ token[c].expires <= token[c].mintedAt + TokenValidity

(* A final answer counts only under the authority the model was called with:
   the lease that was the root then is still the root, active, at the same
   generation, and the semantic context is the one it was issued for
   (accept_model_final). *)
FinalUnderObservedAuthority ==
    [][\A c \in Attempts :
          history'[c] = <<"ProtocolAccepted", "FinalProduced">> /\ history'[c] # history[c] =>
              LET l == view[c].lease IN
              /\ l = rootLease
              /\ records[l].state = "Active"
              /\ view[c].observed = ObservedGenerations(l)
              /\ semanticContext = certs[l].terms.context]_rvars

(* Nexus runs an action only on evidence: its authorization record is spent,
   and the events up to ExecutionStarted are all in the store, in order
   (execute_inner gives up when an append fails). *)
EffectNeedsEvidence ==
    \A c \in Attempts :
        pc[c] = "nexus" =>
            /\ authorization[c].state = "Consumed"
            /\ authorization[c].remaining = 0
            /\ history[c] = Authorized \o <<"AuthorizationConsumed", "ExecutionStarted">>
            /\ token[c] # NoToken

(* When no call is under way verify_event_completeness succeeds unless
   evidence was really lost: an append failed after the record was spent, or
   the caller dropped a call inside Nexus.  Neither kind of loss goes
   unnoticed, and no other ending of a call is reported as one. *)
EvidenceExposesLoss ==
    (\A c \in Attempts : pc[c] \in {"idle", "done"}) =>
        (VerifyEventCompleteness(history) <=> lost = {})

(* A verdict is worth something while calls go on: whoever hears that the
   history is complete knows that no evidence had been lost when the audit
   began, although the records are read after the events. *)
AuditIsSound ==
    \A u \in Auditors : audit[u] # Quiet /\ AuditVerdict(u) => audit[u].lost = {}

(* An audit raises no false alarm: it fails only if evidence is lost, or some
   call was under way when it copied the events or has moved on since. *)
AuditIsFair ==
    \A u \in Auditors : audit[u] # Quiet /\ ~AuditVerdict(u) =>
        \/ lost # {}
        \/ \E c \in Attempts : audit[u].pc[c] \notin {"idle", "done"} \/ pc[c] # audit[u].pc[c]

(* An answer that the model gives after the lease or the mission has expired is
   refused, also when no sweep has marked the lease: what accept_model_final
   compares with the expiry is a time not before the answer. *)
NoAnswerAfterExpiry ==
    [][\A c \in Attempts :
          history'[c] = <<"ProtocolAccepted", "FinalProduced">> /\ history'[c] # history[c] =>
              view[c].answered < Least(certs[view[c].lease].terms.expires, MissionExpiry)]_rvars

(* One operator alone is always obeyed: when its revoke returns, the root lease
   has ended, paused or renewed before as it may be and whatever the calls and
   the expiry sweep do meanwhile.  (With a second operator a renewal may come
   between the snapshot revoke takes and its application, and the renewed lease
   stays in force.) *)
SoleOperatorRevokes ==
    [][\A o \in Operators :
          Operators = {o} /\ control[o].kind = "revoke" /\ control'[o] = Idle =>
              records'[rootLease'].state \notin LiveStates]_rvars

(***************************************************************************)
(* The runtime seen as AgentPromise sees it.                               *)
(***************************************************************************)
PromisedAuthority ==
    [version  |-> <<rootLease, records[rootLease].generation>>,
     standing |-> CASE records[rootLease].state = "Active" -> "acting"
                    [] records[rootLease].state = "Paused" -> "suspended"
                    [] OTHER                               -> "ended"]

PromisedPhase(c) ==
    CASE pc[c] = "idle" -> "idle"
      [] pc[c] \in {"consumed", "start"} -> "licensed"
      [] pc[c] = "nexus" -> "acting"
      [] pc[c] = "done" ->
           CASE Occurrences("ExecutionStarted", history[c]) > 0 -> "acted"
             [] Occurrences("FinalProduced", history[c]) > 0 -> "answered"
             [] OTHER -> "closed"
      [] OTHER -> "open"

PromisedBasis(c) ==
    IF view[c].observed = <<>> THEN <<>>
    ELSE <<view[c].lease, view[c].observed[view[c].lease]>>

Promise == INSTANCE AgentPromise WITH
    authority <- PromisedAuthority,
    phase <- [c \in Attempts |-> PromisedPhase(c)],
    basis <- [c \in Attempts |-> PromisedBasis(c)]

(* The runtime keeps the promise of AgentPromise: the check under the authority
   lock and the mint or the final several steps later are one step, taken while
   the authority is the one the attempt decided under. *)
KeepsPromise == Promise!PromiseSpec

(* Concurrent calls share the budgets: no more attempts leave evidence than
   the agent has steps, and no more actions are authorized than the mission
   allows (reserve_budget). *)
BudgetsHold ==
    /\ Cardinality({c \in Attempts : history[c] # <<>>}) <= MaxSteps
    /\ Cardinality({c \in Attempts : authorization[c] # Absent}) <= MaxActions

(* Every started run_once returns and every started control-plane call gets
   the write lock and returns, whatever the others do: no error path keeps the
   read guard, and no two of them wait for each other. *)
EveryoneFinishes ==
    /\ \A c \in Attempts : pc[c] # "idle" ~> pc[c] = "done"
    /\ \A o \in Operators : control[o] # Idle ~> control[o] = Idle
=============================================================================
