---------------------------- MODULE MissionStore ----------------------------
(***************************************************************************)
(* The in-memory mission store (store.rs): the mission events, kept here   *)
(* as one sequence per attempt, and the single-use authorization records.  *)
(* The four foundational events that bootstrap_r2 appends before the first *)
(* attempt, and the event numbers, are the same in every state and left    *)
(* out.  An attempt has at most one authorization record: record ids are   *)
(* fresh, and run_once inserts one record.                                 *)
(***************************************************************************)
EXTENDS Naturals, Sequences, FiniteSets

CONSTANT Attempts       \* attempt ids

VARIABLES
    history,            \* attempt -> kinds of its events, in order
    authorization       \* attempt -> its authorization record, or Absent

storeVars == <<history, authorization>>

Absent == [state |-> "Absent", remaining |-> 0, generation |-> 0]
Issued == [state |-> "Issued", remaining |-> 1, generation |-> 0]

AuthorizationRecords == [state      : {"Absent", "Issued", "Consumed"},
                         remaining  : {0, 1},
                         generation : Nat]

MissionEventKinds ==
    {"ModelFailed", "ProtocolAccepted", "ProtocolRejected", "FinalProduced",
     "FinalRejected", "PlanAccepted", "ActionAuthorized", "ActionRejected",
     "AuthorizationIssued", "AuthorizationConsumed", "ExecutionRejectedBeforeNexus",
     "ExecutionStarted", "ExecutionCompleted", "ExecutionFailed"}

StoreInit ==
    /\ history = [a \in Attempts |-> <<>>]
    /\ authorization = [a \in Attempts |-> Absent]

StoreTypeOK ==
    /\ history \in [Attempts -> Seq(MissionEventKinds)]
    /\ authorization \in [Attempts -> AuthorizationRecords]

\* append_for_attempt, for one event after the other
AppendForAttempt(a, kinds) == history' = [history EXCEPT ![a] = @ \o kinds]

InsertAuthorization(a) ==
    /\ authorization[a] = Absent
    /\ authorization' = [authorization EXCEPT ![a] = Issued]

ValidateAvailableRecord(a, expected) ==
    /\ authorization[a].state = "Issued"
    /\ authorization[a].generation = expected
    /\ authorization[a].remaining > 0

ConsumeAuthorization(a, expected) ==
    /\ ValidateAvailableRecord(a, expected)
    /\ authorization' = [authorization EXCEPT
          ![a] = [state |-> "Consumed", remaining |-> @.remaining - 1,
                  generation |-> @.generation + 1]]

Authorized == <<"ProtocolAccepted", "PlanAccepted", "ActionAuthorized", "AuthorizationIssued">>

CompleteHistories ==
    {<<"ModelFailed">>, <<"ProtocolRejected">>,
     <<"ProtocolAccepted", "FinalProduced">>,
     <<"ProtocolAccepted", "FinalRejected">>,
     <<"ProtocolAccepted", "PlanAccepted", "ActionRejected">>,
     Authorized \o <<"ExecutionRejectedBeforeNexus">>,
     Authorized \o <<"ExecutionFailed">>,
     Authorized \o <<"AuthorizationConsumed", "ExecutionRejectedBeforeNexus">>,
     Authorized \o <<"AuthorizationConsumed", "ExecutionStarted", "ExecutionCompleted">>,
     Authorized \o <<"AuthorizationConsumed", "ExecutionStarted", "ExecutionFailed">>}

ValidateAttempt(events) == events \in CompleteHistories

Occurrences(kind, events) == Cardinality({i \in DOMAIN events : events[i] = kind})

\* Mutants: attempts are checked, the authorization records are not; and a
\* record asks for one event more than there are.
VerifyAttemptsOnly(events) ==
    \A a \in Attempts : events[a] # <<>> => ValidateAttempt(events[a])
VerifyOneMore(events) ==
    \A a \in Attempts :
        /\ events[a] # <<>> => ValidateAttempt(events[a])
        /\ authorization[a].state = "Consumed" =>
              Occurrences("AuthorizationConsumed", events[a]) > 1

(***************************************************************************)
(* verify_event_completeness copies the events, releases their lock and    *)
(* only then looks at the authorization records: `events' may be older     *)
(* than the records.  An attempt without events is not in the map it       *)
(* builds.                                                                 *)
(***************************************************************************)
VerifyEventCompleteness(events) ==
    \A a \in Attempts :
        /\ events[a] # <<>> => ValidateAttempt(events[a])
        /\ authorization[a].state = "Consumed" =>
              Occurrences("AuthorizationConsumed", events[a]) >= 1
=============================================================================
