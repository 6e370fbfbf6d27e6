------------------------- MODULE AgentRuntimeSafety -------------------------
(***************************************************************************)
(* What the agent runtime guarantees: the properties of AgentRuntime as    *)
(* theorems, for any number of concurrent calls, operators and auditors    *)
(* and every value of the constants.  They follow from the invariant of    *)
(* AgentRuntimeProofs.                                                     *)
(***************************************************************************)
EXTENDS AgentRuntimeProofs

(* The kernel and the store stay well formed, the read guard is held exactly
   inside the commit closures, and no attempt remembers a lease that does not
   exist. *)
THEOREM RuntimeTypeCorrect == RuntimeSpec => []RuntimeTypeOK
  <1>1. RuntimeInv => RuntimeTypeOK
    <2> SUFFICES ASSUME RuntimeInv PROVE RuntimeTypeOK
      OBVIOUS
    <2>1. /\ TypeOK /\ StoreTypeOK /\ pc \in [Attempts -> Labels]
          /\ semanticContext \in Contexts /\ registry \in Bases /\ faults \in 0 .. MaxFaults
      BY DEF RuntimeInv, KernelInv, RootInv, Shape
    <2>2. guards = {c \in Attempts :
                      pc[c] \in {"finalCommit", "checkCertificate", "issueTime", "mint"}}
      BY DEF RuntimeInv, Shape, Inside
    <2>3. ASSUME NEW c \in Attempts
          PROVE  /\ view[c].lease \in DOMAIN certs \cup {NoLease}
                 /\ DOMAIN view[c].observed \subseteq DOMAIN certs
                 /\ token[c] # NoToken => pc[c] \in {"consumed", "start", "nexus"}
      <3>1. ViewInv(c) /\ TokenInv(c)
        BY DEF RuntimeInv, AttemptInv
      <3>2. CASE pc[c] \in {"idle", "done"}
        BY <3>1, <3>2 DEF ViewInv, TokenInv, NoView, Licensed
      <3>3. CASE pc[c] \notin {"idle", "done"}
        BY <3>1, <3>3 DEF ViewInv, Observes, TokenInv, Licensed
      <3> QED BY <3>2, <3>3
    <2>4. \A o \in Operators : control[o].kind \in ControlKinds \cup {"idle"}
      BY DEF RuntimeInv, ControlInv, Idle
    <2>5. \A u \in Auditors :
             audit[u] # Quiet => audit[u].events \in [Attempts -> Seq(MissionEventKinds)]
      BY DEF RuntimeInv, AuditInv
    <2> QED
      BY <2>1, <2>2, <2>3, <2>4, <2>5 DEF RuntimeTypeOK
  <1> QED
    BY <1>1, RuntimeInvariant, PTL

(* No token outlives its lease or its action certificate by more than Nexus
   took to mint it. *)
THEOREM TokensStayWithinAuthority == RuntimeSpec => []TokenWithinAuthority
  <1>1. RuntimeInv => TokenWithinAuthority
    BY DEF RuntimeInv, AttemptInv, TokenInv, TokenWithinAuthority
  <1> QED
    BY <1>1, RuntimeInvariant, PTL

(* Nexus runs nothing whose authorization is not spent and on record. *)
THEOREM EffectsHaveEvidence == RuntimeSpec => []EffectNeedsEvidence
  <1>1. RuntimeInv => EffectNeedsEvidence
    <2> SUFFICES ASSUME RuntimeInv, NEW c \in Attempts, pc[c] = "nexus"
                 PROVE  /\ authorization[c].state = "Consumed"
                        /\ authorization[c].remaining = 0
                        /\ history[c] = Authorized \o <<"AuthorizationConsumed", "ExecutionStarted">>
                        /\ token[c] # NoToken
      BY DEF EffectNeedsEvidence
    <2>1. EvidenceInv(c) /\ TokenInv(c)
      BY DEF RuntimeInv, AttemptInv
    <2> QED
      BY <2>1 DEF EvidenceInv, UnderWay, Consumed, TokenInv, Licensed
  <1> QED
    BY <1>1, RuntimeInvariant, PTL

(* Concurrent calls never overdraw the agent's steps or the mission's actions. *)
THEOREM BudgetsAreKept == RuntimeSpec => []BudgetsHold
  <1>1. RuntimeInv => BudgetsHold
    <2> SUFFICES ASSUME RuntimeInv PROVE BudgetsHold
      OBVIOUS
    <2> DEFINE S == {c \in Attempts : history[c] # <<>>}
    <2>1. /\ IsFiniteSet(Stepped) /\ Cardinality(Stepped) <= steps
          /\ IsFiniteSet(Acted) /\ Cardinality(Acted) <= actions
          /\ steps \in 0 .. MaxSteps /\ actions \in 0 .. MaxActions
          /\ MaxSteps \in Nat /\ MaxActions \in Nat
      BY RuntimeAssumption DEF RuntimeInv, BudgetInv, Shape
    <2>2. S \subseteq Stepped
      BY DEF Stepped
    <2>3. Cardinality(S) <= Cardinality(Stepped) /\ Cardinality(S) \in Nat
          /\ Cardinality(Stepped) \in Nat
      BY <2>1, <2>2, NoMore, FS_CardinalityType
    <2>4. Cardinality(S) <= MaxSteps
      BY <2>1, <2>3
    <2>5. Cardinality(Acted) \in Nat
      BY <2>1, FS_CardinalityType
    <2>6. Cardinality(Acted) <= MaxActions
      BY <2>1, <2>5
    <2> QED
      BY <2>4, <2>6 DEF BudgetsHold, Acted
  <1> QED
    BY <1>1, RuntimeInvariant, PTL
-----------------------------------------------------------------------------
(***************************************************************************)
(* verify_event_completeness.                                              *)
(***************************************************************************)

\* What it asks of one attempt and its events.
Complete(c, events) ==
    /\ events # <<>> => ValidateAttempt(events)
    /\ authorization[c].state = "Consumed" => Occurrences("AuthorizationConsumed", events) >= 1

LEMMA OccurrencesSome ==
    ASSUME NEW S, NEW s \in Seq(S), NEW i \in 1 .. Len(s)
    PROVE  Occurrences(s[i], s) \in Nat \ {0}
  <1> DEFINE T == {j \in DOMAIN s : s[j] = s[i]}
  <1>1. IsFiniteSet(1 .. Len(s))
    BY FS_Interval
  <1>2. T \subseteq 1 .. Len(s) /\ i \in T
    OBVIOUS
  <1>3. IsFiniteSet(T)
    BY <1>1, <1>2, FS_Subset
  <1>4. Cardinality(T) \in Nat /\ Cardinality(T) # 0
    BY <1>2, <1>3, FS_CardinalityType, FS_EmptySet
  <1> QED
    BY <1>4 DEF Occurrences

LEMMA OccurrencesNone ==
    ASSUME NEW s, NEW kind, \A i \in DOMAIN s : s[i] # kind
    PROVE  Occurrences(kind, s) = 0
  <1>1. {i \in DOMAIN s : s[i] = kind} = {}
    OBVIOUS
  <1> QED
    BY <1>1, FS_EmptySet DEF Occurrences

(* An attempt that lost evidence is found out, whichever evidence it lost. *)
LEMMA LossShows ==
    ASSUME NEW c \in Attempts, EndedLost(c)
    PROVE  ~Complete(c, history[c])
  <1>1. authorization[c].state = "Consumed"
    BY DEF EndedLost, Consumed
  <1>2. CASE history[c] = Authorized \o <<"ExecutionRejectedBeforeNexus">>
    <2>1. \A i \in DOMAIN history[c] : history[c][i] # "AuthorizationConsumed"
      BY <1>2 DEF Authorized
    <2> QED BY <1>1, <2>1, OccurrencesNone DEF Complete
  <1>3. CASE history[c] = Authorized \o <<"AuthorizationConsumed", "ExecutionStarted">>
    <2> DEFINE h == Authorized \o <<"AuthorizationConsumed", "ExecutionStarted">>
    <2>1. Len(h) = 6 /\ h[6] = "ExecutionStarted"
      BY DEF Authorized
    <2>2. /\ Len(<<"ModelFailed">>) # 6 /\ Len(<<"ProtocolRejected">>) # 6
          /\ Len(<<"ProtocolAccepted", "FinalProduced">>) # 6
          /\ Len(<<"ProtocolAccepted", "FinalRejected">>) # 6
          /\ Len(<<"ProtocolAccepted", "PlanAccepted", "ActionRejected">>) # 6
      OBVIOUS
    <2>3. /\ Len(Authorized \o <<"ExecutionRejectedBeforeNexus">>) # 6
          /\ Len(Authorized \o <<"ExecutionFailed">>) # 6
          /\ (Authorized \o <<"AuthorizationConsumed", "ExecutionRejectedBeforeNexus">>)[6]
                = "ExecutionRejectedBeforeNexus"
          /\ Len(Authorized \o <<"AuthorizationConsumed", "ExecutionStarted",
                                 "ExecutionCompleted">>) # 6
          /\ Len(Authorized \o <<"AuthorizationConsumed", "ExecutionStarted",
                                 "ExecutionFailed">>) # 6
      BY DEF Authorized
    <2> HIDE DEF h
    <2>4. h \notin CompleteHistories
      BY <2>1, <2>2, <2>3 DEF CompleteHistories
    <2>5. h # <<>>
      BY <2>1
    <2> QED BY <1>3, <2>4, <2>5 DEF Complete, ValidateAttempt, h
  <1> QED
    BY <1>2, <1>3 DEF EndedLost

(* An attempt that has not begun or has ended, and lost nothing, is complete. *)
LEMMA NothingLostIsComplete ==
    ASSUME NEW c \in Attempts, pc[c] \in {"idle", "done"}, EvidenceInv(c), c \notin lost
    PROVE  Complete(c, history[c])
  <1>1. CASE history[c] = <<>> /\ authorization[c] = Absent
    BY <1>1 DEF Complete, Absent
  <1>2. CASE EndedUnauthorized(c)
    <2>1. history[c] = <<>> \/ history[c] \in CompleteHistories
      BY <1>2, Zenon DEF EndedUnauthorized, CompleteHistories
    <2> QED BY <1>2, <2>1 DEF EndedUnauthorized, Complete, ValidateAttempt, Absent
  <1>3. CASE EndedUnspent(c)
    <2>1. history[c] \in CompleteHistories
      BY <1>3, Zenon DEF EndedUnspent, CompleteHistories
    <2> QED BY <1>3, <2>1 DEF EndedUnspent, Complete, ValidateAttempt, Issued
  <1>4. CASE EndedSpent(c)
    <2>1. history[c] \in CompleteHistories
      BY <1>4, Zenon DEF EndedSpent, CompleteHistories
    <2>2. history[c] \in Histories
      BY <1>4, Zenon DEF EndedSpent, Histories
    <2>3. Len(history[c]) >= 5 /\ history[c][5] = "AuthorizationConsumed"
          /\ Len(history[c]) \in Nat
      BY <1>4 DEF EndedSpent, Authorized
    <2>4. Occurrences("AuthorizationConsumed", history[c]) >= 1
      BY <2>2, <2>3, HistoriesTyped, OccurrencesSome
    <2> QED BY <2>1, <2>4 DEF Complete, ValidateAttempt
  <1>5. ~EndedLost(c)
    BY DEF EndedLost
  <1> QED
    BY <1>1, <1>2, <1>3, <1>4, <1>5 DEF EvidenceInv, UnderWay

(* Once no call is under way, verify_event_completeness fails exactly when
   evidence was lost. *)
THEOREM LossIsExposed == RuntimeSpec => []EvidenceExposesLoss
  <1>1. RuntimeInv => EvidenceExposesLoss
    <2> SUFFICES ASSUME RuntimeInv, \A c \in Attempts : pc[c] \in {"idle", "done"}
                 PROVE  VerifyEventCompleteness(history) <=> lost = {}
      BY DEF EvidenceExposesLoss
    <2>1. \A c \in Attempts : EvidenceInv(c)
      BY DEF RuntimeInv, AttemptInv
    <2>2. VerifyEventCompleteness(history) <=> \A c \in Attempts : Complete(c, history[c])
      BY DEF VerifyEventCompleteness, Complete
    <2>3. ASSUME NEW c \in lost
          PROVE  ~VerifyEventCompleteness(history)
      <3>1. c \in Attempts
        BY DEF RuntimeInv, Shape
      <3>2. EndedLost(c)
        BY <2>1, <3>1 DEF EvidenceInv, UnderWay, EndedUnauthorized, EndedUnspent, EndedSpent
      <3> QED BY <2>2, <3>1, <3>2, LossShows
    <2>4. lost = {} => VerifyEventCompleteness(history)
      BY <2>1, <2>2, NothingLostIsComplete
    <2> QED BY <2>3, <2>4
  <1> QED
    BY <1>1, RuntimeInvariant, PTL

(* A verdict "complete" means that nothing had been lost when the audit began,
   although it compares old events with newer records. *)
THEOREM AuditsAreSound == RuntimeSpec => []AuditIsSound
  <1>1. RuntimeInv => AuditIsSound
    <2> SUFFICES ASSUME RuntimeInv, NEW u \in Auditors, audit[u] # Quiet, AuditVerdict(u),
                        NEW c \in audit[u].lost
                 PROVE  FALSE
      BY DEF AuditIsSound
    <2>1. c \in lost /\ c \in Attempts
      BY DEF RuntimeInv, AuditInv, Shape
    <2>2. pc[c] = "done" /\ audit[u].events[c] = history[c]
      BY <2>1 DEF RuntimeInv, AuditInv
    <2>3. EvidenceInv(c)
      BY <2>1 DEF RuntimeInv, AttemptInv
    <2>4. EndedLost(c)
      BY <2>1, <2>2, <2>3 DEF EvidenceInv, EndedUnauthorized, EndedUnspent, EndedSpent
    <2>5. Complete(c, audit[u].events[c])
      BY <2>1 DEF AuditVerdict, VerifyEventCompleteness, Complete
    <2> QED BY <2>1, <2>2, <2>4, <2>5, LossShows
  <1> QED
    BY <1>1, RuntimeInvariant, PTL

(* A verdict "incomplete" means that evidence is lost or that a call was under
   way: an audit of a runtime at rest raises no false alarm. *)
THEOREM AuditsAreFair == RuntimeSpec => []AuditIsFair
  <1>1. RuntimeInv => AuditIsFair
    <2> SUFFICES ASSUME RuntimeInv, NEW u \in Auditors, audit[u] # Quiet, lost = {},
                        \A c \in Attempts : audit[u].pc[c] \in {"idle", "done"}
                                            /\ pc[c] = audit[u].pc[c]
                 PROVE  AuditVerdict(u)
      BY DEF AuditIsFair
    <2>1. ASSUME NEW c \in Attempts
          PROVE  Complete(c, audit[u].events[c])
      <3>1. EvidenceInv(c) /\ pc[c] \in {"idle", "done"} /\ c \notin lost
        BY DEF RuntimeInv, AttemptInv
      <3>2. audit[u].events[c] = history[c]
        BY <3>1 DEF RuntimeInv, AuditInv, EvidenceInv, UnderWay
      <3> QED BY <3>1, <3>2, NothingLostIsComplete
    <2> QED
      BY <2>1 DEF AuditVerdict, VerifyEventCompleteness, Complete
  <1> QED
    BY <1>1, RuntimeInvariant, PTL
-----------------------------------------------------------------------------
(***************************************************************************)
(* What a step may never do.                                               *)
(***************************************************************************)

(* A token comes into being in one place only. *)
LEMMA OnlyMintGivesToken ==
    ASSUME Placed, NEW c \in Attempts, Proceed(c) \/ Caller(c),
           token[c] = NoToken, token'[c] # NoToken
    PROVE  pc[c] = "mint" /\ token'[c].lease = view[c].lease
  <1>1. ASSUME NEW kinds, Finish(c, kinds)
        PROVE  FALSE
    BY <1>1, FinishStep DEF Returns
  <1> USE DEF Holding, Placed
  <1>2. CASE MintTokens(c)
    BY <1>1, <1>2 DEF MintTokens
  <1>3. CASE Call(c) \/ DropWaitingForModel(c) \/ DropInNexus(c) \/ ObserveSnapshot(c)
               \/ ObserveAuthority(c) \/ ModelFails(c) \/ ModelFinal(c) \/ LockForFinal(c)
               \/ CommitFinal(c) \/ ModelToolCall(c)
    BY <1>1, <1>3 DEF Call, DropWaitingForModel, DropInNexus, ObserveSnapshot, ObserveAuthority,
                      ModelFails, ModelFinal, LockForFinal, CommitFinal, ModelToolCall
  <1>4. CASE AuthorizeSnapshot(c) \/ AuthorizeAction(c) \/ ResolveTool(c) \/ LockForCommit(c)
               \/ CheckCertificate(c) \/ ReadIssueTime(c) \/ NexusReturns(c)
               \/ RecordConsumption(c) \/ RecordStart(c)
    BY <1>1, <1>4 DEF AuthorizeSnapshot, AuthorizeAction, ResolveTool, LockForCommit,
                      CheckCertificate, ReadIssueTime, NexusReturns, RecordConsumption,
                      RecordStart
  <1> QED
    BY <1>2, <1>3, <1>4 DEF Proceed, Caller

(* The lease an attempt holds the guard on is the root lease. *)
LEMMA ActiveIsRoot ==
    ASSUME KernelInv, NEW l \in DOMAIN certs, records[l].state = "Active"
    PROVE  l = rootLease
  BY DEF KernelInv, RootInv, RootLeaseIsCurrent, NoDelegation

(* A step of the runtime is a step of one attempt, or leaves them all alone. *)
LEMMA WhoseStep ==
    ASSUME [RuntimeNext]_rvars
    PROVE  UNCHANGED callVars \/ \E c \in Attempts : Proceed(c) \/ Caller(c)
  BY DEF RuntimeNext, ControlRead, ControlApply, ControlRefresh, AuditCopyEvents, AuditReturn,
         ReplaceSemanticContext, ReplaceTool, PassTime, rvars

(* No token is minted under a lease that was revoked, paused, renewed or swept
   after the action was authorized. *)
THEOREM MintsNeedLiveAuthority == RuntimeSpec => MintedUnderLiveAuthority
  <1>1. RuntimeInv /\ [RuntimeNext]_rvars =>
          [\A c \in Attempts :
              token[c] = NoToken /\ token'[c] # NoToken =>
                  LET l == token'[c].lease IN
                  /\ l = rootLease
                  /\ records[l].state = "Active"
                  /\ records[l].generation = view[c].observed[l]
                  /\ certs[l].terms.base = view[c].base]_rvars
    <2> SUFFICES ASSUME RuntimeInv, [RuntimeNext]_rvars, NEW c \in Attempts,
                        token[c] = NoToken, token'[c] # NoToken
                 PROVE  /\ token'[c].lease = rootLease
                        /\ records[token'[c].lease].state = "Active"
                        /\ records[token'[c].lease].generation = view[c].observed[token'[c].lease]
                        /\ certs[token'[c].lease].terms.base = view[c].base
      OBVIOUS
    <2>1. Placed /\ lost \subseteq Attempts
      BY InvariantPlaces
    <2>2. Proceed(c) \/ Caller(c)
      BY <2>1, WhoseStep, OneAttempt DEF callVars, OwnStep
    <2>3. pc[c] = "mint" /\ token'[c].lease = view[c].lease
      BY <2>1, <2>2, OnlyMintGivesToken
    <2>4. KernelInv /\ ViewInv(c) /\ GuardInv(c)
      BY DEF RuntimeInv, AttemptInv
    <2>5. /\ view[c].lease \in DOMAIN certs
          /\ records[view[c].lease].state = "Active"
          /\ records[view[c].lease].generation = view[c].observed[view[c].lease]
          /\ certs[view[c].lease].terms.base = view[c].base
      BY <2>3, <2>4 DEF ViewInv, GuardInv, Inside
    <2> QED
      BY <2>3, <2>4, <2>5, ActiveIsRoot
  <1> QED
    BY <1>1, RuntimeInvariant, PTL DEF RuntimeSpec, MintedUnderLiveAuthority

\* The events with which an attempt may end or go on, other than a final result.
OtherEvents ==
    {<<"ModelFailed">>, <<"ProtocolRejected">>, <<"ProtocolAccepted">>,
     <<"ProtocolAccepted", "FinalRejected">>, <<"FinalRejected">>,
     <<"ProtocolAccepted", "PlanAccepted">>,
     <<"ProtocolAccepted", "PlanAccepted", "ActionRejected">>, <<"ActionRejected">>,
     <<"ActionAuthorized", "AuthorizationIssued">>, <<"ExecutionRejectedBeforeNexus">>,
     <<"AuthorizationConsumed">>, <<"ExecutionStarted">>, <<"ExecutionCompleted">>,
     <<"ExecutionFailed">>}

(* None of them makes a history end with a final result. *)
LEMMA OtherEventsAreNotFinal ==
    ASSUME NEW s \in Seq(MissionEventKinds), NEW kinds \in OtherEvents
    PROVE  s \o kinds # <<"ProtocolAccepted", "FinalProduced">>
  <1>1. kinds \in Seq(MissionEventKinds)
    <2>1. {<<"ModelFailed">>, <<"ProtocolRejected">>, <<"ProtocolAccepted">>,
           <<"ProtocolAccepted", "FinalRejected">>, <<"FinalRejected">>,
           <<"ProtocolAccepted", "PlanAccepted">>,
           <<"ProtocolAccepted", "PlanAccepted", "ActionRejected">>, <<"ActionRejected">>}
             \subseteq Seq(MissionEventKinds)
      BY DEF MissionEventKinds
    <2>2. {<<"ActionAuthorized", "AuthorizationIssued">>, <<"ExecutionRejectedBeforeNexus">>,
           <<"AuthorizationConsumed">>, <<"ExecutionStarted">>, <<"ExecutionCompleted">>,
           <<"ExecutionFailed">>} \subseteq Seq(MissionEventKinds)
      BY DEF MissionEventKinds
    <2> QED BY <2>1, <2>2, Zenon DEF OtherEvents
  <1>2. Len(kinds) \in 1 .. 3 /\ kinds[Len(kinds)] # "FinalProduced"
    BY SMTT(30) DEF OtherEvents
  <1>3. /\ Len(s \o kinds) = Len(s) + Len(kinds)
        /\ (s \o kinds)[Len(s) + Len(kinds)] = kinds[Len(kinds)]
    BY <1>1, <1>2, ConcatProperties, LenProperties
  <1>4. Len(<<"ProtocolAccepted", "FinalProduced">>) = 2
        /\ <<"ProtocolAccepted", "FinalProduced">>[2] = "FinalProduced"
    OBVIOUS
  <1> QED
    BY <1>2, <1>3, <1>4

(* A final result comes into being in one place only. *)
LEMMA OnlyCommitGivesFinal ==
    ASSUME Placed, NEW c \in Attempts, Proceed(c) \/ Caller(c),
           history[c] \in Seq(MissionEventKinds), history'[c] # history[c],
           history'[c] = <<"ProtocolAccepted", "FinalProduced">>
    PROVE  /\ pc[c] = "finalCommit"
           /\ semanticContext = certs[view[c].lease].terms.context
  <1>1. ASSUME NEW kinds, Finish(c, kinds)
        PROVE  kinds \notin OtherEvents \cup {<<>>}
    <2>1. history'[c] = history[c] \o kinds
      BY <1>1, FinishStep DEF Returns
    <2> QED BY <2>1, OtherEventsAreNotFinal, ConcatEmptySeq
  <1>2. ASSUME NEW kinds, AppendForAttempt(c, kinds)
        PROVE  kinds \notin OtherEvents
    <2>1. history'[c] = history[c] \o kinds
      BY <1>2 DEF AppendForAttempt, Placed
    <2> QED BY <2>1, OtherEventsAreNotFinal
  <1> USE DEF storeVars, OtherEvents
  <1>3. CASE CommitFinal(c)
    BY <1>1, <1>3 DEF CommitFinal
  <1>4. CASE Call(c) \/ DropWaitingForModel(c) \/ DropInNexus(c) \/ ObserveSnapshot(c)
               \/ ObserveAuthority(c) \/ ModelFails(c)
    BY <1>1, <1>4 DEF Call, DropWaitingForModel, DropInNexus, ObserveSnapshot, ObserveAuthority,
                      ModelFails
  <1>5. CASE ModelFinal(c) \/ LockForFinal(c) \/ ModelToolCall(c) \/ AuthorizeSnapshot(c)
    BY <1>1, <1>2, <1>5 DEF ModelFinal, LockForFinal, ModelToolCall, AuthorizeSnapshot
  <1>6. CASE AuthorizeAction(c) \/ ResolveTool(c) \/ LockForCommit(c) \/ CheckCertificate(c)
               \/ ReadIssueTime(c) \/ MintTokens(c)
    BY <1>1, <1>2, <1>6 DEF AuthorizeAction, ResolveTool, LockForCommit, CheckCertificate,
                            ReadIssueTime, MintTokens
  <1>7. CASE NexusReturns(c) \/ RecordConsumption(c) \/ RecordStart(c)
    BY <1>1, <1>2, <1>7 DEF NexusReturns, RecordConsumption, RecordStart
  <1> QED
    BY <1>3, <1>4, <1>5, <1>6, <1>7 DEF Proceed, Caller

(* What holds of an attempt in the step that produces its final result. *)
LEMMA FinalStep ==
    ASSUME RuntimeInv, [RuntimeNext]_rvars, NEW c \in Attempts,
           history'[c] = <<"ProtocolAccepted", "FinalProduced">>, history'[c] # history[c]
    PROVE  /\ view[c].lease = rootLease
           /\ records[view[c].lease].state = "Active"
           /\ view[c].observed = ObservedGenerations(view[c].lease)
           /\ semanticContext = certs[view[c].lease].terms.context
           /\ view[c].answered < Least(certs[view[c].lease].terms.expires, MissionExpiry)
  <1>1. Placed /\ lost \subseteq Attempts /\ history[c] \in Seq(MissionEventKinds)
    BY InvariantPlaces DEF RuntimeInv, StoreTypeOK
  <1>2. Proceed(c) \/ Caller(c)
    BY <1>1, WhoseStep, OneAttempt DEF callVars, OwnStep
  <1>3. pc[c] = "finalCommit" /\ semanticContext = certs[view[c].lease].terms.context
    BY <1>1, <1>2, OnlyCommitGivesFinal
  <1>4. KernelInv /\ TypeOK /\ NoDelegation /\ ViewInv(c) /\ GuardInv(c)
    BY DEF RuntimeInv, AttemptInv, KernelInv, RootInv
  <1>5. /\ view[c].lease \in DOMAIN certs
        /\ records[view[c].lease].state = "Active"
        /\ records[view[c].lease].generation = view[c].observed[view[c].lease]
        /\ view[c].answered = view[c].now
        /\ view[c].now < certs[view[c].lease].terms.expires /\ view[c].now < MissionExpiry
        /\ view[c].observed \in [{view[c].lease} -> Nat]
    BY <1>3, <1>4 DEF ViewInv, Observes, GuardInv, Inside, Deciding
  <1>6. ObservedGenerations(view[c].lease)
           = [l \in {view[c].lease} |-> view[c].observed[view[c].lease]]
    BY <1>4, <1>5, ChainIsLeaf DEF ObservedGenerations
  <1> QED
    BY <1>3, <1>4, <1>5, <1>6, ActiveIsRoot DEF Least

(* A final answer takes effect only under the authority the model was called
   with. *)
THEOREM FinalsNeedObservedAuthority == RuntimeSpec => FinalUnderObservedAuthority
  <1>1. RuntimeInv /\ [RuntimeNext]_rvars =>
          [\A c \in Attempts :
              history'[c] = <<"ProtocolAccepted", "FinalProduced">> /\ history'[c] # history[c] =>
                  LET l == view[c].lease IN
                  /\ l = rootLease
                  /\ records[l].state = "Active"
                  /\ view[c].observed = ObservedGenerations(l)
                  /\ semanticContext = certs[l].terms.context]_rvars
    BY FinalStep
  <1> QED
    BY <1>1, RuntimeInvariant, PTL DEF RuntimeSpec, FinalUnderObservedAuthority

(* An answer that the model gives after the lease or the mission has expired
   never counts. *)
THEOREM LateAnswersAreRefused == RuntimeSpec => NoAnswerAfterExpiry
  <1>1. RuntimeInv /\ [RuntimeNext]_rvars =>
          [\A c \in Attempts :
              history'[c] = <<"ProtocolAccepted", "FinalProduced">> /\ history'[c] # history[c] =>
                  view[c].answered
                     < Least(certs[view[c].lease].terms.expires, MissionExpiry)]_rvars
    BY FinalStep
  <1> QED
    BY <1>1, RuntimeInvariant, PTL DEF RuntimeSpec, NoAnswerAfterExpiry

(* Only its application ends a control-plane call. *)
LEMMA OnlyApplyEndsControl ==
    ASSUME ControlInv, [RuntimeNext]_rvars, NEW o \in Operators,
           control[o] # Idle, control'[o] = Idle
    PROVE  ControlApply(o)
  <1>1. UNCHANGED control
        \/ (\E p \in Operators, kind \in ControlKinds, expires \in RenewalExpiries :
               ControlRead(p, kind, expires))
        \/ (\E p \in Operators : ControlApply(p))
    BY DEF RuntimeNext, Proceed, Caller, ControlRefresh, AuditCopyEvents, AuditReturn,
           ReplaceSemanticContext, ReplaceTool, PassTime, rvars, clientVars
  <1>2. DOMAIN control = Operators
    BY DEF ControlInv
  <1>3. ASSUME NEW p \in Operators, NEW kind \in ControlKinds,
               NEW expires \in RenewalExpiries, ControlRead(p, kind, expires)
        PROVE  FALSE
    <2>1. control[p] = Idle
      BY <1>3 DEF ControlRead
    <2>2. \A r \in Operators \ {p} : control'[r] = control[r]
      BY <1>2, <1>3 DEF ControlRead
    <2> QED BY <2>1, <2>2
  <1>4. ASSUME NEW p \in Operators, ControlApply(p)
        PROVE  p = o
    BY <1>2, <1>4 DEF ControlApply
  <1> QED
    BY <1>1, <1>3, <1>4

(* When the revoke of a sole operator returns, the root lease has ended. *)
THEOREM SoleOperatorIsObeyed == RuntimeSpec => SoleOperatorRevokes
  <1>1. RuntimeInv /\ [RuntimeNext]_rvars =>
          [\A o \in Operators :
              Operators = {o} /\ control[o].kind = "revoke" /\ control'[o] = Idle =>
                  records'[rootLease'].state \notin LiveStates]_rvars
    <2> SUFFICES ASSUME RuntimeInv, [RuntimeNext]_rvars, NEW o \in Operators,
                        Operators = {o}, control[o].kind = "revoke", control'[o] = Idle
                 PROVE  records'[rootLease'].state \notin LiveStates
      OBVIOUS
    <2> DEFINE q == control[o]
    <2>1. q # Idle
      BY DEF Idle
    <2>2. TypeOK /\ ControlInv /\ rootLease \in DOMAIN certs
      BY DEF RuntimeInv, KernelInv, RootInv, TypeOK
    <2>3. ControlApply(o)
      BY <2>1, <2>2, OnlyApplyEndsControl
    <2>4. /\ q.lease = rootLease
          /\ Live(rootLease) => records[rootLease].generation = q.generation
      BY <2>1, <2>2 DEF ControlInv
    <2>5. CASE Revoke(q.lease, q.generation)
      <3>1. rootLease' = rootLease /\ records' = [RecordsAfterCascade(rootLease) EXCEPT
                                                    ![rootLease] = Moved(@, "Revoked")]
        BY <2>4, <2>5 DEF Revoke
      <3>2. DOMAIN RecordsAfterCascade(rootLease) = DOMAIN certs
        BY <2>2, CascadeType
      <3>3. records'[rootLease].state = "Revoked"
        BY <2>2, <3>1, <3>2 DEF Moved
      <3> QED BY <3>1, <3>3 DEF LiveStates
    <2>6. ASSUME NEW now, ~ControlAllowed(q, now), UNCHANGED kernelVars
          PROVE  records'[rootLease'].state \notin LiveStates
      <3>1. ~MayRevoke(q.lease, q.generation)
        BY <2>6 DEF ControlAllowed
      <3>2. ~Live(rootLease)
        BY <2>4, <3>1 DEF MayRevoke, RequireGeneration
      <3> QED BY <2>6, <3>2 DEF kernelVars, Live
    <2> QED
      BY <2>3, <2>5, <2>6 DEF ControlApply
  <1> QED
    BY <1>1, RuntimeInvariant, PTL DEF RuntimeSpec, SoleOperatorRevokes
-----------------------------------------------------------------------------
(***************************************************************************)
(* AgentRuntime implements AgentPromise: whatever the calls, the operators *)
(* and the sweeps do, each of an agent's decisions takes effect in one     *)
(* step, under the authority it was made under.                            *)
(*                                                                         *)
(* A step of an attempt maps to one step of its promise or to none; a      *)
(* control-plane call or a sweep maps to Change or to none.  Both rest on  *)
(* the invariant of AgentRuntimeProofs: an attempt inside its commit       *)
(* closure still has the authority it looked at.                           *)
(***************************************************************************)
(***************************************************************************)
(* What the mapping yields.                                                *)
(***************************************************************************)

\* The histories with which an attempt ends closed, answered and acted.
ClosedHistories ==
    {<<>>, <<"ModelFailed">>, <<"ProtocolRejected">>, <<"ProtocolAccepted", "FinalRejected">>,
     <<"ProtocolAccepted", "PlanAccepted", "ActionRejected">>,
     Authorized \o <<"ExecutionRejectedBeforeNexus">>,
     Authorized \o <<"AuthorizationConsumed", "ExecutionRejectedBeforeNexus">>}

ActedHistories ==
    {Authorized \o <<"AuthorizationConsumed", "ExecutionStarted">>,
     Authorized \o <<"AuthorizationConsumed", "ExecutionStarted", "ExecutionCompleted">>,
     Authorized \o <<"AuthorizationConsumed", "ExecutionStarted", "ExecutionFailed">>}

AnsweredHistory == <<"ProtocolAccepted", "FinalProduced">>

LEMMA ClosedOccurrences ==
    ASSUME NEW h \in ClosedHistories
    PROVE  /\ ~(Occurrences("ExecutionStarted", h) > 0)
           /\ ~(Occurrences("FinalProduced", h) > 0)
  <1>1. \A i \in DOMAIN h : h[i] # "ExecutionStarted" /\ h[i] # "FinalProduced"
    <2>1. CASE h \in {<<>>, <<"ModelFailed">>, <<"ProtocolRejected">>,
                      <<"ProtocolAccepted", "FinalRejected">>,
                      <<"ProtocolAccepted", "PlanAccepted", "ActionRejected">>}
      BY <2>1
    <2>2. CASE h = Authorized \o <<"ExecutionRejectedBeforeNexus">>
      BY <2>2 DEF Authorized
    <2>3. CASE h = Authorized \o <<"AuthorizationConsumed", "ExecutionRejectedBeforeNexus">>
      BY <2>3 DEF Authorized
    <2> QED BY <2>1, <2>2, <2>3, Zenon DEF ClosedHistories
  <1> QED
    BY <1>1, OccurrencesNone

LEMMA ActedOccurrences ==
    ASSUME NEW h \in ActedHistories
    PROVE  /\ Occurrences("ExecutionStarted", h) > 0
           /\ ~(Occurrences("FinalProduced", h) > 0)
  <1>1. h \in Seq(MissionEventKinds)
    <2>1. h \in Histories
      BY Zenon DEF ActedHistories, Histories
    <2> QED BY <2>1, HistoriesTyped
  <1>2. /\ Len(h) >= 6 /\ h[6] = "ExecutionStarted"
        /\ \A i \in DOMAIN h : h[i] # "FinalProduced"
    <2>1. CASE h = Authorized \o <<"AuthorizationConsumed", "ExecutionStarted">>
      BY <2>1 DEF Authorized
    <2>2. CASE h = Authorized \o <<"AuthorizationConsumed", "ExecutionStarted",
                                   "ExecutionCompleted">>
      BY <2>2 DEF Authorized
    <2>3. CASE h = Authorized \o <<"AuthorizationConsumed", "ExecutionStarted",
                                   "ExecutionFailed">>
      BY <2>3 DEF Authorized
    <2> QED BY <2>1, <2>2, <2>3, Zenon DEF ActedHistories
  <1> QED
    BY <1>1, <1>2, OccurrencesNone, OccurrencesSome, LenProperties

LEMMA AnsweredOccurrences ==
    /\ ~(Occurrences("ExecutionStarted", AnsweredHistory) > 0)
    /\ Occurrences("FinalProduced", AnsweredHistory) > 0
  <1>1. /\ AnsweredHistory \in Seq(MissionEventKinds)
        /\ Len(AnsweredHistory) = 2 /\ AnsweredHistory[2] = "FinalProduced"
        /\ \A i \in DOMAIN AnsweredHistory : AnsweredHistory[i] # "ExecutionStarted"
    BY DEF AnsweredHistory, MissionEventKinds
  <1>2. 2 \in 1 .. Len(AnsweredHistory)
    BY <1>1
  <1> QED
    BY <1>1, <1>2, OccurrencesNone, OccurrencesSome

(* The phase of an attempt, place by place. *)
PhaseIs ==
    \A c \in Attempts :
        /\ pc[c] = "idle" => PromisedPhase(c) = "idle"
        /\ pc[c] \in {"consumed", "start"} => PromisedPhase(c) = "licensed"
        /\ pc[c] = "nexus" => PromisedPhase(c) = "acting"
        /\ pc[c] \notin {"idle", "consumed", "start", "nexus", "done"} =>
              PromisedPhase(c) = "open"
        /\ pc[c] = "done" =>
              /\ history[c] \in ClosedHistories => PromisedPhase(c) = "closed"
              /\ history[c] = AnsweredHistory => PromisedPhase(c) = "answered"
              /\ history[c] \in ActedHistories => PromisedPhase(c) = "acted"

LEMMA PhaseHolds == PhaseIs
  <1> SUFFICES ASSUME NEW c \in Attempts
               PROVE  /\ pc[c] = "idle" => PromisedPhase(c) = "idle"
                      /\ pc[c] \in {"consumed", "start"} => PromisedPhase(c) = "licensed"
                      /\ pc[c] = "nexus" => PromisedPhase(c) = "acting"
                      /\ pc[c] \notin {"idle", "consumed", "start", "nexus", "done"} =>
                            PromisedPhase(c) = "open"
                      /\ pc[c] = "done" =>
                            /\ history[c] \in ClosedHistories => PromisedPhase(c) = "closed"
                            /\ history[c] = AnsweredHistory => PromisedPhase(c) = "answered"
                            /\ history[c] \in ActedHistories => PromisedPhase(c) = "acted"
    BY DEF PhaseIs
  <1>1. CASE pc[c] # "done"
    BY <1>1 DEF PromisedPhase
  <1>2. CASE pc[c] = "done"
    <2>1. PromisedPhase(c) =
             CASE Occurrences("ExecutionStarted", history[c]) > 0 -> "acted"
               [] Occurrences("FinalProduced", history[c]) > 0 -> "answered"
               [] OTHER -> "closed"
      BY <1>2 DEF PromisedPhase
    <2> QED BY <1>2, <2>1, ClosedOccurrences, AnsweredOccurrences, ActedOccurrences
  <1> QED
    BY <1>1, <1>2

LEMMA PhaseHoldsNext == PhaseIs'
  BY PhaseHolds, PTL

(* The basis of an attempt: what it has looked at, where it keeps that. *)
BasisIs ==
    \A c \in Attempts :
        ViewInv(c) =>
            PromisedBasis(c) = IF pc[c] \in Deciding
                               THEN <<view[c].lease, view[c].observed[view[c].lease]>>
                               ELSE <<>>

LEMMA BasisHolds == BasisIs
  <1> SUFFICES ASSUME NEW c \in Attempts, ViewInv(c)
               PROVE  PromisedBasis(c) = IF pc[c] \in Deciding
                                         THEN <<view[c].lease, view[c].observed[view[c].lease]>>
                                         ELSE <<>>
    BY DEF BasisIs
  <1>1. CASE pc[c] \in Deciding
    <2>1. DOMAIN view[c].observed = {view[c].lease}
      BY <1>1 DEF ViewInv, Observes
    <2>2. view[c].observed # <<>>
      <3>1. DOMAIN <<>> = {}
        OBVIOUS
      <3>2. DOMAIN view[c].observed # {}
        BY <2>1
      <3> QED BY <3>1, <3>2
    <2> QED BY <1>1, <2>2 DEF PromisedBasis
  <1>2. CASE pc[c] \notin Deciding
    BY <1>2 DEF ViewInv, PromisedBasis
  <1> QED
    BY <1>1, <1>2

LEMMA BasisHoldsNext == BasisIs'
  BY BasisHolds, PTL
-----------------------------------------------------------------------------
(***************************************************************************)
(* A step of an attempt.                                                   *)
(***************************************************************************)
Acting == PromisedAuthority.standing = "acting"

\* What a step of attempt c does to its own phase and basis.
Keeps(c) == PromisedPhase(c)' = PromisedPhase(c) /\ PromisedBasis(c)' = PromisedBasis(c)

Goes(c, from, to) ==
    /\ PromisedPhase(c) = from
    /\ PromisedPhase(c)' = to
    /\ PromisedBasis(c)' = PromisedBasis(c)

Looks(c) ==
    /\ PromisedPhase(c) = "open"
    /\ PromisedPhase(c)' = "open"
    /\ \/ Acting /\ PromisedBasis(c)' = PromisedAuthority.version
       \/ PromisedBasis(c)' = <<>>

Ends(c, from, to) ==
    /\ PromisedPhase(c) \in from
    /\ PromisedPhase(c)' = to
    /\ PromisedBasis(c)' = <<>>

Backed(c) == Acting /\ PromisedBasis(c) = PromisedAuthority.version

LocalStep(c) ==
    \/ Keeps(c)
    \/ Goes(c, "idle", "open")
    \/ Looks(c)
    \/ Backed(c) /\ Goes(c, "open", "licensed")
    \/ Goes(c, "licensed", "acting")
    \/ Backed(c) /\ Ends(c, {"open"}, "answered")
    \/ Ends(c, {"acting"}, "acted")
    \/ Ends(c, {"idle", "open", "licensed"}, "closed")

(* A step of one attempt that does one of these things is a step of the
   promise, or none. *)
LEMMA LocalIsPromised ==
    ASSUME NEW c \in Attempts, OwnStep(c), LocalStep(c)
    PROVE  [Promise!PromiseNext]_(Promise!pvars)
  <1> DEFINE phase == [d \in Attempts |-> PromisedPhase(d)]
             basis == [d \in Attempts |-> PromisedBasis(d)]
  <1>1. PromisedAuthority' = PromisedAuthority
    BY DEF OwnStep, vars, PromisedAuthority
  <1>2. \A d \in Attempts \ {c} : /\ PromisedPhase(d)' = PromisedPhase(d)
                                  /\ PromisedBasis(d)' = PromisedBasis(d)
    BY DEF OwnStep, PromisedPhase, PromisedBasis
  <1>3. /\ phase' = [phase EXCEPT ![c] = PromisedPhase(c)']
        /\ basis' = [basis EXCEPT ![c] = PromisedBasis(c)']
    BY <1>2
  <1>4. phase[c] = PromisedPhase(c) /\ basis[c] = PromisedBasis(c)
    OBVIOUS
  <1>5. /\ PromisedPhase(c)' = PromisedPhase(c) => phase' = phase
        /\ PromisedBasis(c)' = PromisedBasis(c) => basis' = basis
    BY <1>3, <1>4
  <1> HIDE DEF phase, basis
  <1>6. CASE Keeps(c)
    <2>1. phase' = phase /\ basis' = basis
      BY <1>5, <1>6 DEF Keeps
    <2> QED BY <1>1, <2>1 DEF Promise!pvars, phase, basis
  <1>7. CASE Goes(c, "idle", "open")
    <2>1. Promise!Begin(c)
      BY <1>1, <1>3, <1>4, <1>5, <1>7 DEF Goes, Promise!Begin, Promise!Move, phase, basis
    <2> QED BY <2>1 DEF Promise!PromiseNext
  <1>8. CASE Looks(c)
    <2>1. Promise!Look(c)
      BY <1>1, <1>3, <1>4, <1>5, <1>8
         DEF Looks, Acting, Promise!Look, Promise!NoBasis, phase, basis
    <2> QED BY <2>1 DEF Promise!PromiseNext
  <1>9. CASE Backed(c) /\ Goes(c, "open", "licensed")
    <2>1. Promise!License(c)
      BY <1>1, <1>3, <1>4, <1>5, <1>9
         DEF Backed, Acting, Goes, Promise!License, Promise!InForce, Promise!Move, phase, basis
    <2> QED BY <2>1 DEF Promise!PromiseNext
  <1>10. CASE Goes(c, "licensed", "acting")
    <2>1. Promise!Act(c)
      BY <1>1, <1>3, <1>4, <1>5, <1>10 DEF Goes, Promise!Act, Promise!Move, phase, basis
    <2> QED BY <2>1 DEF Promise!PromiseNext
  <1>11. CASE Backed(c) /\ Ends(c, {"open"}, "answered")
    <2>1. Promise!End(c)
      BY <1>1, <1>3, <1>4, <1>11
         DEF Backed, Acting, Ends, Promise!End, Promise!InForce, Promise!Move, Promise!NoBasis,
             phase, basis
    <2> QED BY <2>1 DEF Promise!PromiseNext
  <1>12. CASE Ends(c, {"acting"}, "acted") \/ Ends(c, {"idle", "open", "licensed"}, "closed")
    <2>1. Promise!End(c)
      BY <1>1, <1>3, <1>4, <1>12
         DEF Ends, Promise!End, Promise!Move, Promise!NoBasis, phase, basis
    <2> QED BY <2>1 DEF Promise!PromiseNext
  <1> QED
    BY <1>6, <1>7, <1>8, <1>9, <1>10, <1>11, <1>12 DEF LocalStep

\* The places where the attempt has neither a licence nor an end.
Open == Labels \ {"idle", "consumed", "start", "nexus", "done"}

(* An attempt that returns with the events of a refusal is closed. *)
LEMMA RefusalCloses ==
    ASSUME Placed, NEW c \in Attempts, NEW kinds, Finish(c, kinds),
           pc[c] \in Open \cup {"idle", "consumed", "start"}, history'[c] \in ClosedHistories
    PROVE  Ends(c, {"idle", "open", "licensed"}, "closed")
  <1>1. pc'[c] = "done" /\ view'[c] = NoView
    BY FinishStep DEF Returns
  <1>2. PromisedPhase(c)' = "closed"
    BY <1>1, PhaseHoldsNext DEF PhaseIs
  <1>3. PromisedPhase(c) \in {"idle", "open", "licensed"}
    BY PhaseHolds DEF PhaseIs, Open
  <1>4. PromisedBasis(c)' = <<>>
    BY <1>1 DEF PromisedBasis, NoView
  <1> QED
    BY <1>2, <1>3, <1>4 DEF Ends

(* An attempt that goes on deciding with what it has seen keeps its promise. *)
LEMMA OpenKeeps ==
    ASSUME NEW c \in Attempts, pc[c] \in Open, pc'[c] \in Open,
           view'[c].lease = view[c].lease, view'[c].observed = view[c].observed
    PROVE  Keeps(c)
  <1>1. PromisedPhase(c) = "open"
    BY PhaseHolds DEF PhaseIs, Open
  <1>2. PromisedPhase(c)' = "open"
    BY PhaseHoldsNext DEF PhaseIs, Open
  <1> QED
    BY <1>1, <1>2 DEF Keeps, PromisedBasis

(* An attempt that has validated its chain has looked at the authority. *)
LEMMA ValidLooks ==
    ASSUME KernelInv, NEW c \in Attempts, pc[c] \in Open, pc'[c] \in Open \cap Deciding,
           view[c].lease \in DOMAIN certs, NEW now, ValidateChain(view[c].lease, now),
           view'[c].lease = view[c].lease,
           view'[c].observed = ObservedGenerations(view[c].lease), ViewInv(c)'
    PROVE  Looks(c)
  <1>1. PromisedPhase(c) = "open"
    BY PhaseHolds DEF PhaseIs, Open
  <1>2. PromisedPhase(c)' = "open"
    BY PhaseHoldsNext DEF PhaseIs, Open
  <1>3. records[view[c].lease].state = "Active" /\ view[c].lease = rootLease
    BY ValidIsActive, ActiveIsRoot
  <1>4. ObservedGenerations(rootLease)[rootLease] = records[rootLease].generation
    BY <1>3, ObservesLeaf DEF KernelInv, RootInv
  <1>5. PromisedBasis(c)' = <<view'[c].lease, view'[c].observed[view'[c].lease]>>
    BY BasisHoldsNext DEF BasisIs
  <1>6. PromisedBasis(c)' = PromisedAuthority.version
    BY <1>3, <1>4, <1>5 DEF PromisedAuthority
  <1>7. Acting
    BY <1>3 DEF Acting, PromisedAuthority
  <1> QED
    BY <1>1, <1>2, <1>6, <1>7 DEF Looks

(* An attempt inside its commit closure has the authority it looked at. *)
LEMMA InsideIsBacked ==
    ASSUME KernelInv, NEW c \in Attempts, ViewInv(c), GuardInv(c), pc[c] \in Inside
    PROVE  Backed(c)
  <1>1. /\ view[c].lease \in DOMAIN certs
        /\ records[view[c].lease].state = "Active"
        /\ records[view[c].lease].generation = view[c].observed[view[c].lease]
    BY DEF ViewInv, GuardInv, Inside
  <1>2. view[c].lease = rootLease
    BY <1>1, ActiveIsRoot
  <1>3. PromisedBasis(c) = <<view[c].lease, view[c].observed[view[c].lease]>>
    BY BasisHolds DEF BasisIs, Inside, Deciding
  <1> QED
    BY <1>1, <1>2, <1>3 DEF Backed, Acting, PromisedAuthority

(* Up to the model's answer. *)
LEMMA BeginPromised ==
    ASSUME RuntimeInv, NEW c \in Attempts, ViewInv(c)',
           \/ Call(c) \/ ObserveSnapshot(c) \/ ObserveAuthority(c)
           \/ ModelFails(c) \/ DropWaitingForModel(c)
    PROVE  LocalStep(c)
  <1>1. /\ Placed /\ KernelInv /\ ViewInv(c) /\ EvidenceInv(c)
        /\ DOMAIN pc = Attempts /\ DOMAIN view = Attempts
    BY InvariantPlaces DEF RuntimeInv, AttemptInv, Placed
  <1>2. {<<>>, <<"ModelFailed">>, <<"ProtocolRejected">>} \subseteq Seq(MissionEventKinds)
    BY DEF MissionEventKinds
  <1>3. ASSUME NEW kinds \in {<<>>, <<"ModelFailed">>, <<"ProtocolRejected">>}, Finish(c, kinds),
               pc[c] \in {"observe", "model"}
        PROVE  LocalStep(c)
    <2>1. history[c] = <<>>
      BY <1>1, <1>3 DEF EvidenceInv, UnderWay
    <2>2. history'[c] = kinds
      BY <1>1, <1>2, <1>3, <2>1, FinishStep, Continuations DEF Returns
    <2>3. kinds \in ClosedHistories
      BY <1>3, Zenon DEF ClosedHistories
    <2> QED BY <1>1, <1>3, <2>2, <2>3, RefusalCloses DEF LocalStep, Open, Labels
  <1>4. CASE Call(c)
    <2>1. /\ pc[c] = "idle" /\ history[c] = <<>> /\ view[c] = NoView
          /\ PromisedBasis(c) = <<>> /\ PromisedPhase(c) = "idle"
      BY <1>1, <1>4, PhaseHolds
         DEF Call, EvidenceInv, UnderWay, ViewInv, NoView, PromisedBasis, PhaseIs
    <2>2. CASE pc'[c] = "done" /\ UNCHANGED view
      <3>1. history'[c] = <<>>
        BY <1>4, <2>1 DEF Call, storeVars
      <3>2. history'[c] \in ClosedHistories
        BY <3>1, Zenon DEF ClosedHistories
      <3>3. PromisedPhase(c)' = "closed" /\ PromisedBasis(c)' = <<>>
        BY <2>1, <2>2, <3>2, PhaseHoldsNext DEF PhaseIs, PromisedBasis, NoView
      <3> QED BY <2>1, <3>3 DEF LocalStep, Ends
    <2>3. CASE pc'[c] = "snapshot"
      <3>1. PromisedPhase(c)' = "open"
        BY <2>3, PhaseHoldsNext DEF PhaseIs
      <3>2. PromisedBasis(c)' = <<>>
        BY <2>3, BasisHoldsNext DEF BasisIs, Deciding
      <3> QED BY <2>1, <3>1, <3>2 DEF LocalStep, Goes
    <2> QED BY <1>1, <1>4, <2>2, <2>3 DEF Call, Goto
  <1>5. CASE ObserveSnapshot(c)
    <2>1. /\ pc[c] = "snapshot" /\ pc'[c] = "observe"
          /\ view'[c].lease = view[c].lease /\ view'[c].observed = view[c].observed
      BY <1>1, <1>5 DEF ObserveSnapshot, Goto, ViewInv, IsView
    <2> QED BY <2>1, OpenKeeps DEF LocalStep, Open, Labels
  <1>6. CASE ObserveAuthority(c)
    <2>1. CASE Finish(c, <<>>)
      BY <1>3, <1>6, <2>1 DEF ObserveAuthority
    <2>2. CASE ~Finish(c, <<>>)
      <3>1. /\ pc[c] = "observe" /\ pc'[c] = "model"
            /\ view[c].lease \in DOMAIN certs
            /\ ValidateChain(view[c].lease, view[c].now)
            /\ view'[c].lease = view[c].lease
            /\ view'[c].observed = ObservedGenerations(view[c].lease)
        BY <1>1, <1>6, <2>2 DEF ObserveAuthority, ChainValidAt, Goto, ViewInv, IsView
      <3> QED BY <1>1, <3>1, ValidLooks DEF LocalStep, Open, Labels, Deciding
    <2> QED BY <2>1, <2>2
  <1>7. CASE ModelFails(c) \/ DropWaitingForModel(c)
    BY <1>3, <1>7 DEF ModelFails, DropWaitingForModel
  <1> QED
    BY <1>4, <1>5, <1>6, <1>7

(* A final result. *)
LEMMA FinalPromised ==
    ASSUME RuntimeInv, NEW c \in Attempts, ModelFinal(c) \/ LockForFinal(c) \/ CommitFinal(c)
    PROVE  LocalStep(c)
  <1>1. /\ Placed /\ KernelInv /\ ViewInv(c) /\ GuardInv(c) /\ EvidenceInv(c)
        /\ DOMAIN pc = Attempts /\ DOMAIN view = Attempts
    BY InvariantPlaces DEF RuntimeInv, AttemptInv, Placed
  <1>2. <<"ProtocolAccepted", "FinalRejected">> \in Seq(MissionEventKinds)
    BY DEF MissionEventKinds
  <1>3. <<"ProtocolAccepted", "FinalRejected">> \in ClosedHistories
    BY Zenon DEF ClosedHistories
  <1>4. ASSUME NEW kinds, Finish(c, kinds)
        PROVE  history'[c] = history[c] \o kinds
    BY <1>1, <1>4, FinishStep DEF Returns
  <1>5. CASE ModelFinal(c)
    <2>1. pc[c] = "model" /\ history[c] = <<>>
      BY <1>1, <1>5 DEF ModelFinal, EvidenceInv, UnderWay
    <2>2. CASE Finish(c, <<"ProtocolAccepted", "FinalRejected">>)
      <3>1. history'[c] = <<"ProtocolAccepted", "FinalRejected">>
        BY <1>2, <1>4, <2>1, <2>2, Continuations
      <3> QED BY <1>1, <1>3, <2>1, <2>2, <3>1, RefusalCloses DEF LocalStep, Open, Labels
    <2>3. CASE ~Finish(c, <<"ProtocolAccepted", "FinalRejected">>)
      <3>1. /\ pc'[c] = "finalLock"
            /\ view'[c].lease = view[c].lease /\ view'[c].observed = view[c].observed
        BY <1>1, <1>5, <2>3 DEF ModelFinal, Goto, ViewInv, IsView
      <3> QED BY <2>1, <3>1, OpenKeeps DEF LocalStep, Open, Labels
    <2> QED BY <2>2, <2>3
  <1>6. CASE LockForFinal(c) \/ CommitFinal(c)
    <2>1. pc[c] \in {"finalLock", "finalCommit"} /\ history[c] = <<"ProtocolAccepted">>
      BY <1>1, <1>6 DEF LockForFinal, CommitFinal, EvidenceInv, UnderWay
    <2>2. CASE Finish(c, <<"FinalRejected">>)
      <3>1. history'[c] = <<"ProtocolAccepted", "FinalRejected">>
        BY <1>4, <2>1, <2>2, Continuations
      <3> QED BY <1>1, <1>3, <2>1, <2>2, <3>1, RefusalCloses DEF LocalStep, Open, Labels
    <2>3. CASE CommitFinal(c) /\ Finish(c, <<"FinalProduced">>)
      <3>1. history'[c] = AnsweredHistory
        BY <1>4, <2>1, <2>3, Continuations DEF AnsweredHistory
      <3>2. pc[c] = "finalCommit" /\ pc'[c] = "done" /\ view'[c] = NoView
        BY <1>1, <2>3, FinishStep DEF CommitFinal, Returns
      <3>3. PromisedPhase(c) = "open"
        BY <3>2, PhaseHolds DEF PhaseIs
      <3>4. PromisedPhase(c)' = "answered" /\ PromisedBasis(c)' = <<>>
        BY <3>1, <3>2, PhaseHoldsNext DEF PhaseIs, PromisedBasis, NoView
      <3>5. Backed(c)
        BY <1>1, <3>2, InsideIsBacked DEF Inside
      <3> QED BY <3>3, <3>4, <3>5 DEF LocalStep, Ends
    <2>4. CASE LockForFinal(c) /\ ~Finish(c, <<"FinalRejected">>)
      <3>1. pc'[c] = "finalCommit" /\ view'[c] = view[c]
        BY <1>1, <2>4 DEF LockForFinal, Goto
      <3> QED BY <2>1, <3>1, OpenKeeps DEF LocalStep, Open, Labels
    <2> QED BY <1>6, <2>2, <2>3, <2>4 DEF CommitFinal
  <1> QED
    BY <1>5, <1>6

(* A tool call, up to its authorization. *)
LEMMA AuthorizePromised ==
    ASSUME RuntimeInv, NEW c \in Attempts, ViewInv(c)',
           ModelToolCall(c) \/ AuthorizeSnapshot(c) \/ AuthorizeAction(c)
    PROVE  LocalStep(c)
  <1>1. /\ Placed /\ KernelInv /\ ViewInv(c) /\ EvidenceInv(c)
        /\ DOMAIN pc = Attempts /\ DOMAIN view = Attempts
    BY InvariantPlaces DEF RuntimeInv, AttemptInv, Placed
  <1> DEFINE rejected == <<"ProtocolAccepted", "PlanAccepted", "ActionRejected">>
  <1>2. rejected \in Seq(MissionEventKinds)
    BY DEF MissionEventKinds
  <1>3. rejected \in ClosedHistories
    BY Zenon DEF ClosedHistories
  <1>4. ASSUME NEW kinds, Finish(c, kinds)
        PROVE  history'[c] = history[c] \o kinds
    BY <1>1, <1>4, FinishStep DEF Returns
  <1>5. CASE ModelToolCall(c)
    <2>1. pc[c] = "model" /\ history[c] = <<>>
      BY <1>1, <1>5 DEF ModelToolCall, EvidenceInv, UnderWay
    <2>2. CASE Finish(c, rejected)
      <3>1. history'[c] = rejected
        BY <1>2, <1>4, <2>1, <2>2, Continuations
      <3> QED BY <1>1, <1>3, <2>1, <2>2, <3>1, RefusalCloses DEF LocalStep, Open, Labels
    <2>3. CASE ~Finish(c, rejected)
      <3>1. pc'[c] = "authorize"
        BY <1>1, <1>5, <2>3 DEF ModelToolCall, Goto
      <3>2. PromisedPhase(c) = "open"
        BY <2>1, PhaseHolds DEF PhaseIs
      <3>3. PromisedPhase(c)' = "open"
        BY <3>1, PhaseHoldsNext DEF PhaseIs
      <3>4. PromisedBasis(c)' = <<>>
        BY <3>1, BasisHoldsNext DEF BasisIs, Deciding
      <3> QED BY <3>2, <3>3, <3>4 DEF LocalStep, Looks
    <2> QED BY <2>2, <2>3
  <1>6. CASE AuthorizeSnapshot(c) \/ AuthorizeAction(c)
    <2>1. pc[c] \in {"authorize", "authorizing"} /\ history[c] = Planned
      BY <1>1, <1>6 DEF AuthorizeSnapshot, AuthorizeAction, EvidenceInv, UnderWay
    <2>2. CASE Finish(c, <<"ActionRejected">>)
      <3>1. history'[c] = rejected
        BY <1>4, <2>1, <2>2, Continuations
      <3> QED BY <1>1, <1>3, <2>1, <2>2, <3>1, RefusalCloses DEF LocalStep, Open, Labels
    <2>3. CASE AuthorizeSnapshot(c) /\ ~Finish(c, <<"ActionRejected">>)
      <3>1. /\ pc'[c] = "authorizing"
            /\ view'[c].lease = view[c].lease /\ view'[c].observed = view[c].observed
        BY <1>1, <2>3 DEF AuthorizeSnapshot, Goto, ViewInv, IsView
      <3> QED BY <2>1, <3>1, OpenKeeps DEF LocalStep, Open, Labels
    <2>4. CASE AuthorizeAction(c) /\ ~Finish(c, <<"ActionRejected">>)
      <3>1. /\ pc'[c] = "issued"
            /\ view[c].lease \in DOMAIN certs
            /\ ValidateChain(view[c].lease, view[c].now)
            /\ view'[c].lease = view[c].lease
            /\ view'[c].observed = ObservedGenerations(view[c].lease)
        BY <1>1, <2>4
           DEF AuthorizeAction, ActionWithinAuthority, ChainValidAt, Goto, ViewInv, IsView
      <3> QED BY <1>1, <2>1, <3>1, ValidLooks DEF LocalStep, Open, Labels, Deciding
    <2> QED BY <1>6, <2>2, <2>3, <2>4
  <1> QED
    BY <1>5, <1>6

(* Its execution, up to the mint. *)
LEMMA CommitPromised ==
    ASSUME RuntimeInv, NEW c \in Attempts,
           \/ ResolveTool(c) \/ LockForCommit(c) \/ CheckCertificate(c)
           \/ ReadIssueTime(c) \/ MintTokens(c)
    PROVE  LocalStep(c)
  <1>1. /\ Placed /\ KernelInv /\ ViewInv(c) /\ GuardInv(c) /\ EvidenceInv(c)
        /\ DOMAIN pc = Attempts /\ DOMAIN view = Attempts
    BY InvariantPlaces DEF RuntimeInv, AttemptInv, Placed
  <1>2. /\ pc[c] \in {"issued", "commitLock", "checkCertificate", "issueTime", "mint"}
        /\ history[c] = Authorized
    BY <1>1 DEF ResolveTool, LockForCommit, CheckCertificate, ReadIssueTime, MintTokens,
                EvidenceInv, UnderWay
  <1>3. CASE Finish(c, <<"ExecutionRejectedBeforeNexus">>)
    <2>1. history'[c] = history[c] \o <<"ExecutionRejectedBeforeNexus">>
      BY <1>1, <1>3, FinishStep DEF Returns
    <2>2. history'[c] \in ClosedHistories
      BY <1>2, <2>1, Zenon DEF ClosedHistories
    <2> QED BY <1>1, <1>2, <1>3, <2>2, RefusalCloses DEF LocalStep, Open, Labels
  <1>4. CASE /\ ~Finish(c, <<"ExecutionRejectedBeforeNexus">>)
             /\ ResolveTool(c) \/ LockForCommit(c) \/ CheckCertificate(c) \/ ReadIssueTime(c)
    <2>1. /\ pc'[c] \in {"commitLock", "checkCertificate", "issueTime", "mint"}
          /\ view'[c].lease = view[c].lease /\ view'[c].observed = view[c].observed
      BY <1>1, <1>4 DEF ResolveTool, LockForCommit, CheckCertificate, ReadIssueTime, Goto,
                        ViewInv, IsView
    <2> QED BY <1>2, <2>1, OpenKeeps DEF LocalStep, Open, Labels
  <1>5. CASE MintTokens(c) /\ ~Finish(c, <<"ExecutionRejectedBeforeNexus">>)
    <2>1. pc[c] = "mint" /\ pc'[c] = "consumed" /\ view' = view
      BY <1>1, <1>5 DEF MintTokens, Goto
    <2>2. PromisedPhase(c) = "open"
      BY <2>1, PhaseHolds DEF PhaseIs
    <2>3. PromisedPhase(c)' = "licensed" /\ PromisedBasis(c)' = PromisedBasis(c)
      BY <2>1, PhaseHoldsNext DEF PhaseIs, PromisedBasis
    <2>4. Backed(c)
      BY <1>1, <2>1, InsideIsBacked DEF Inside
    <2> QED BY <2>2, <2>3, <2>4 DEF LocalStep, Goes
  <1> QED
    BY <1>3, <1>4, <1>5

(* And from the mint to its end. *)
LEMMA ActPromised ==
    ASSUME RuntimeInv, NEW c \in Attempts,
           RecordConsumption(c) \/ RecordStart(c) \/ NexusReturns(c) \/ DropInNexus(c)
    PROVE  LocalStep(c)
  <1>1. /\ Placed /\ EvidenceInv(c) /\ DOMAIN pc = Attempts
    BY InvariantPlaces DEF RuntimeInv, AttemptInv, Placed
  <1>2. ASSUME NEW kinds, Finish(c, kinds)
        PROVE  history'[c] = history[c] \o kinds /\ pc'[c] = "done" /\ view'[c] = NoView
    BY <1>1, <1>2, FinishStep DEF Returns
  <1>3. CASE RecordConsumption(c)
    <2>1. pc[c] = "consumed" /\ history[c] = Authorized
      BY <1>1, <1>3 DEF RecordConsumption, EvidenceInv, UnderWay
    <2>2. CASE Finish(c, <<"ExecutionRejectedBeforeNexus">>)
      <3>1. history'[c] \in ClosedHistories
        BY <1>2, <2>1, <2>2, Zenon DEF ClosedHistories
      <3> QED BY <1>1, <2>1, <2>2, <3>1, RefusalCloses DEF LocalStep
    <2>3. CASE ~Finish(c, <<"ExecutionRejectedBeforeNexus">>)
      <3>1. pc'[c] = "start" /\ view' = view
        BY <1>1, <1>3, <2>3 DEF RecordConsumption, Goto
      <3>2. PromisedPhase(c) = "licensed" /\ PromisedPhase(c)' = "licensed"
        BY <2>1, <3>1, PhaseHolds, PhaseHoldsNext DEF PhaseIs
      <3> QED BY <3>1, <3>2 DEF LocalStep, Keeps, PromisedBasis
    <2> QED BY <2>2, <2>3
  <1>4. CASE RecordStart(c)
    <2>1. pc[c] = "start" /\ history[c] = Authorized \o <<"AuthorizationConsumed">>
      BY <1>1, <1>4 DEF RecordStart, EvidenceInv, UnderWay
    <2>2. CASE Finish(c, <<"ExecutionRejectedBeforeNexus">>)
      <3>1. history'[c]
               = (Authorized \o <<"AuthorizationConsumed">>) \o <<"ExecutionRejectedBeforeNexus">>
        BY <1>2, <2>1, <2>2
      <3>2. history'[c] = Authorized \o <<"AuthorizationConsumed", "ExecutionRejectedBeforeNexus">>
        BY <3>1, Continuations
      <3>3. history'[c] \in ClosedHistories
        BY <3>2, Zenon DEF ClosedHistories
      <3> QED BY <1>1, <2>1, <2>2, <3>3, RefusalCloses DEF LocalStep
    <2>3. CASE ~Finish(c, <<"ExecutionRejectedBeforeNexus">>)
      <3>1. pc'[c] = "nexus" /\ view' = view
        BY <1>1, <1>4, <2>3 DEF RecordStart, Goto
      <3>2. PromisedPhase(c) = "licensed"
        BY <2>1, PhaseHolds DEF PhaseIs
      <3>3. PromisedPhase(c)' = "acting"
        BY <3>1, PhaseHoldsNext DEF PhaseIs
      <3> QED BY <3>1, <3>2, <3>3 DEF LocalStep, Goes, PromisedBasis
    <2> QED BY <2>2, <2>3
  <1>5. CASE NexusReturns(c) \/ DropInNexus(c)
    <2> DEFINE started == Authorized \o <<"AuthorizationConsumed", "ExecutionStarted">>
    <2>1. pc[c] = "nexus" /\ history[c] = started
      BY <1>1, <1>5 DEF NexusReturns, DropInNexus, EvidenceInv, UnderWay
    <2>2. PICK kinds \in {<<>>, <<"ExecutionCompleted">>, <<"ExecutionFailed">>} :
             Finish(c, kinds)
      BY <1>5 DEF NexusReturns, DropInNexus
    <2>3. history'[c] = started \o kinds
      BY <1>2, <2>1, <2>2
    <2>4. \/ started \o kinds = started
          \/ started \o kinds
                = Authorized \o <<"AuthorizationConsumed", "ExecutionStarted", "ExecutionCompleted">>
          \/ started \o kinds
                = Authorized \o <<"AuthorizationConsumed", "ExecutionStarted", "ExecutionFailed">>
      BY Continuations
    <2>5. history'[c] \in ActedHistories
      BY <2>3, <2>4, Zenon DEF ActedHistories
    <2>6. PromisedPhase(c) = "acting"
      BY <2>1, PhaseHolds DEF PhaseIs
    <2>7. pc'[c] = "done" /\ view'[c] = NoView
      BY <1>2, <2>2
    <2>8. PromisedPhase(c)' = "acted"
      BY <2>5, <2>7, PhaseHoldsNext DEF PhaseIs
    <2>9. PromisedBasis(c)' = <<>>
      BY <2>7 DEF PromisedBasis, NoView
    <2> QED BY <2>6, <2>8, <2>9 DEF LocalStep, Ends
  <1> QED
    BY <1>3, <1>4, <1>5

(* Whatever an attempt does is a step of the promise, or none. *)
LEMMA AttemptPromised ==
    ASSUME RuntimeInv, NEW c \in Attempts, Proceed(c) \/ Caller(c)
    PROVE  [Promise!PromiseNext]_(Promise!pvars)
  <1>1. OwnStep(c)
    BY InvariantPlaces, OneAttempt
  <1>2. ViewInv(c)'
    BY AttemptStep DEF AttemptInv
  <1>3. LocalStep(c)
    BY <1>2, BeginPromised, FinalPromised, AuthorizePromised, CommitPromised, ActPromised
       DEF Proceed, Caller
  <1> QED
    BY <1>1, <1>3, LocalIsPromised
-----------------------------------------------------------------------------
(***************************************************************************)
(* A step of the control plane, and the refinement.                        *)
(***************************************************************************)

(* The standing of the root lease, read off its state. *)
StandingIs ==
    /\ PromisedAuthority.standing \in {"acting", "suspended", "ended"}
    /\ Live(rootLease) => PromisedAuthority.standing # "ended"
    /\ PromisedAuthority.version = <<rootLease, records[rootLease].generation>>

LEMMA StandingHolds == StandingIs
  BY DEF StandingIs, PromisedAuthority, Live, LiveStates

LEMMA StandingHoldsNext == StandingIs'
  BY StandingHolds, PTL

(* A step that gives the root lease, live before it, a later generation or a
   later lease, and leaves the attempts alone, changes the authority. *)
LEMMA ChangePromised ==
    ASSUME KernelInv, UNCHANGED callVars, Live(rootLease),
           \/ rootLease' > rootLease
           \/ rootLease' = rootLease
              /\ records'[rootLease'].generation > records[rootLease].generation
    PROVE  Promise!Change
  <1>1. \A c \in Attempts : /\ PromisedPhase(c)' = PromisedPhase(c)
                            /\ PromisedBasis(c)' = PromisedBasis(c)
    BY DEF callVars, PromisedPhase, PromisedBasis
  <1>2. /\ PromisedAuthority.standing # "ended"
        /\ PromisedAuthority.version = <<rootLease, records[rootLease].generation>>
    BY StandingHolds DEF StandingIs
  <1>3. /\ PromisedAuthority'.standing \in {"acting", "suspended", "ended"}
        /\ PromisedAuthority'.version = <<rootLease', records'[rootLease'].generation>>
    BY StandingHoldsNext DEF StandingIs
  <1>4. Promise!Newer(PromisedAuthority'.version, PromisedAuthority.version)
    BY <1>2, <1>3 DEF Promise!Newer
  <1> QED
    BY <1>1, <1>2, <1>3, <1>4 DEF Promise!Change, Promise!Standings

(* A step that leaves the attempts and the root lease alone is none. *)
LEMMA IdlePromised ==
    ASSUME UNCHANGED callVars, UNCHANGED rootLease, records'[rootLease] = records[rootLease]
    PROVE  UNCHANGED Promise!pvars
  <1>1. \A c \in Attempts : /\ PromisedPhase(c)' = PromisedPhase(c)
                            /\ PromisedBasis(c)' = PromisedBasis(c)
    BY DEF callVars, PromisedPhase, PromisedBasis
  <1>2. PromisedAuthority' = PromisedAuthority
    BY DEF PromisedAuthority
  <1> QED
    BY <1>1, <1>2 DEF Promise!pvars

(* A control-plane call or a sweep ends or changes the authority, or does not
   touch it. *)
LEMMA KernelPromised ==
    ASSUME KernelInv, UNCHANGED callVars, KernelMoves
    PROVE  [Promise!PromiseNext]_(Promise!pvars)
  <1>1. TypeOK /\ rootLease \in DOMAIN certs /\ records[rootLease].generation \in Nat
    BY DEF KernelInv, RootInv, TypeOK, Records
  <1>2. CASE Revises
    <2>1. CASE records'[rootLease] = records[rootLease]
      BY <1>2, <2>1, IdlePromised DEF Revises
    <2>2. CASE records'[rootLease] # records[rootLease]
      <3>1. /\ Live(rootLease) /\ rootLease' = rootLease
            /\ records'[rootLease].generation = records[rootLease].generation + 1
        BY <1>1, <1>2, <2>2 DEF Revises, Moved
      <3>2. Promise!Change
        BY <1>1, <3>1, ChangePromised
      <3> QED BY <3>2 DEF Promise!PromiseNext
    <2> QED BY <2>1, <2>2
  <1>3. ASSUME NEW old \in DOMAIN certs, NEW terms \in Terms, NEW id \in NewLeaseIds, NEW now,
               Renew(old, records[old].generation, terms, id, now)
        PROVE  Promise!Change
    <2>1. records[old].state = "Active"
      BY <1>3 DEF Renew, MayRenew, ValidateActiveRecord
    <2>2. old = rootLease
      BY <2>1, ActiveIsRoot
    <2>3. rootLease' = id
      BY <1>3, <2>2 DEF Renew, RootAfterRenewal
    <2>4. id > rootLease
      BY <1>1 DEF NewLeaseIds, KernelInv, IssuedInOrder
    <2>5. Live(rootLease)
      BY <2>1, <2>2 DEF Live, LiveStates
    <2> QED BY <2>3, <2>4, <2>5, ChangePromised
  <1> QED
    BY <1>2, <1>3 DEF KernelMoves, Promise!PromiseNext

(* Every step of the runtime is a step of the promise, or none. *)
LEMMA StepPromised ==
    ASSUME RuntimeInv, [RuntimeNext]_rvars
    PROVE  [Promise!PromiseNext]_(Promise!pvars)
  <1>1. KernelInv /\ ControlInv
    BY DEF RuntimeInv
  <1>2. ASSUME NEW c \in Attempts, Proceed(c) \/ Caller(c)
        PROVE  [Promise!PromiseNext]_(Promise!pvars)
    BY <1>2, AttemptPromised
  <1>3. ASSUME NEW o \in Operators, ControlApply(o)
        PROVE  [Promise!PromiseNext]_(Promise!pvars)
    <2>1. UNCHANGED callVars
      BY <1>3 DEF ControlApply
    <2> QED BY <1>1, <1>3, <2>1, ApplyKernel, KernelPromised
  <1>4. CASE ControlRefresh
    <2>1. UNCHANGED callVars
      BY <1>4 DEF ControlRefresh
    <2> QED BY <1>1, <1>4, <2>1, SweepKernel, KernelPromised DEF KernelMoves
  <1>5. CASE UNCHANGED callVars /\ UNCHANGED kernelVars
    BY <1>5, IdlePromised DEF kernelVars
  <1>6. \/ \E c \in Attempts : Proceed(c) \/ Caller(c)
        \/ \E o \in Operators : ControlApply(o)
        \/ ControlRefresh
        \/ UNCHANGED callVars /\ UNCHANGED kernelVars
    BY DEF RuntimeNext, ControlRead, AuditCopyEvents, AuditReturn, ReplaceSemanticContext,
           ReplaceTool, PassTime, Tick, rvars, vars, kernelVars
  <1> QED
    BY <1>2, <1>3, <1>4, <1>5, <1>6

(* The runtime starts where the promise does. *)
LEMMA InitPromised == RuntimeInit => Promise!PromiseInit
  <1> SUFFICES ASSUME RuntimeInit PROVE Promise!PromiseInit
    OBVIOUS
  <1>1. PICK id \in LeaseIds : Bootstrap(id)
    BY DEF RuntimeInit, Init
  <1>2. rootLease = id /\ records[id].state = "Active" /\ records[id].generation = 0
    BY <1>1 DEF Bootstrap, ActiveRecord
  <1>3. PromisedAuthority = [version |-> <<id, 0>>, standing |-> "acting"]
    BY <1>2 DEF PromisedAuthority
  <1>4. PromisedAuthority \in [version : Nat \X Nat, standing : {"acting"}]
    BY <1>3, IdAssumption
  <1>5. \A c \in Attempts : PromisedPhase(c) = "idle" /\ PromisedBasis(c) = <<>>
    BY PhaseHolds DEF RuntimeInit, PhaseIs, PromisedBasis, NoView
  <1> QED
    BY <1>4, <1>5 DEF Promise!PromiseInit, Promise!NoBasis

(* The runtime implements AgentPromise: however calls, operators and sweeps
   interleave, a token is minted and a final answer takes effect at one instant,
   and at that instant the authority is the one the decision was made under. *)
THEOREM PromiseIsKept == RuntimeSpec => KeepsPromise
  <1>1. RuntimeInv /\ [RuntimeNext]_rvars => [Promise!PromiseNext]_(Promise!pvars)
    BY StepPromised
  <1> QED
    BY <1>1, InitPromised, RuntimeInvariant, PTL
       DEF RuntimeSpec, KeepsPromise, Promise!PromiseSpec
=============================================================================
