----------------------------- MODULE Orchestrator -----------------------------
(***************************************************************************)
(* payment-orchestrator: a saga that debits, posts to the ledger and       *)
(* notifies, and the submission to PayShap, each call with three attempts  *)
(* behind a circuit breaker. No call carries a token, and payment-service  *)
(* requires one, so the first step of every saga fails: its compensation,  *)
(* an endpoint that does not exist, fails as well, and the saga is stored  *)
(* as COMPENSATED. The later steps are out of reach and not modelled.      *)
(***************************************************************************)
EXTENDS Requests

CONSTANTS
    Submissions,        \* requests to the orchestrator
    SagaKey,            \* the idempotency key of each
    IsPayShap,          \* whether each goes to /orchestrate/payshap
    Attempts,           \* retries: 3 in the code
    CircuitThreshold    \* CIRCUIT_THRESHOLD: 5 in the code

ASSUME OrchestratorAssumption ==
    /\ IsPayShap \in [Submissions -> BOOLEAN]
    /\ Attempts \in Nat \ {0} /\ CircuitThreshold \in Nat \ {0}

VARIABLES
    saga,       \* per submission where its handler stands, and which attempt of a call
    breaker,    \* circuitBreakers.payment
    stored      \* the keys under which Redis holds a COMPENSATED saga

sagaVars == <<saga, breaker, stored>>

OrchestratorInit ==
    /\ saga = [g \in Submissions |-> [at |-> "idle", tried |-> 0]]
    /\ breaker = [state |-> "CLOSED", failures |-> 0, rested |-> FALSE]
    /\ stored = {}

Go(g, where) == saga' = [saga EXCEPT ![g] = [at |-> where, tried |-> 0]]

\* A cached saga is answered only when it is COMPLETED, and none ever is.
StartSaga(g) ==
    /\ saga[g].at = "idle"
    /\ Go(g, "debit")
    /\ UNCHANGED <<requests, breaker, stored>>

\* More than CIRCUIT_TIMEOUT_MS since the last failure.
RestBreaker ==
    /\ breaker.state = "OPEN" /\ ~ breaker.rested
    /\ breaker' = [breaker EXCEPT !.rested = TRUE]
    /\ UNCHANGED <<requests, saga, stored>>

\* An open circuit that has rested is half open for everybody, its count forgotten.
CheckCircuit ==
    IF breaker.state = "OPEN"
      THEN breaker.rested /\ breaker' = [state |-> "HALF_OPEN", failures |-> 0, rested |-> FALSE]
      ELSE UNCHANGED breaker

\* Mutant: one failure more is let pass.
RecordFailureLate ==
    breaker' = [state |-> IF breaker.failures > CircuitThreshold THEN "OPEN" ELSE breaker.state,
                failures |-> breaker.failures + 1, rested |-> FALSE]

RecordFailure ==
    breaker' = [state |-> IF breaker.failures + 1 >= CircuitThreshold THEN "OPEN" ELSE breaker.state,
                failures |-> breaker.failures + 1, rested |-> FALSE]

InCall(g) == saga[g].tried > 0

After(g, call) == IF call = "debit" /\ ~ IsPayShap[g] THEN "undo" ELSE "store"

\* callService: the circuit is asked once, before the first attempt. An open one
\* throws, and that is no failure of the service.
Call(g, call) ==
    /\ saga[g].at = call /\ saga[g].tried = 0
    /\ \/ CheckCircuit /\ saga' = [saga EXCEPT ![g].tried = 1]
       \/ breaker.state = "OPEN" /\ ~ breaker.rested /\ Go(g, After(g, call)) /\ UNCHANGED breaker
    /\ UNCHANGED <<requests, stored>>

TriedAgain(g, call) ==
    IF saga[g].tried < Attempts
      THEN saga' = [saga EXCEPT ![g].tried = @ + 1] /\ UNCHANGED breaker
      ELSE Go(g, After(g, call)) /\ RecordFailure

\* payment-service has no user for the call and refuses it, or there is no answer in
\* ten seconds; /payments/reverse is unknown.
Attempt(g, call) ==
    /\ saga[g].at = call /\ InCall(g)
    /\ TriedAgain(g, call)
    /\ UNCHANGED <<requests, stored>>

\* The saga is stored as COMPENSATED whatever became of its compensation, and the
\* caller is told so. PayShap keeps nothing and passes the error on.
StoreSaga(g) ==
    /\ saga[g].at = "store"
    /\ Go(g, IF IsPayShap[g] THEN "failed" ELSE "compensated")
    /\ stored' = IF IsPayShap[g] THEN stored ELSE stored \cup {SagaKey[g]}
    /\ UNCHANGED <<requests, breaker>>

OrchestratorNext ==
    \/ \E g \in Submissions : StartSaga(g) \/ StoreSaga(g)
    \/ \E g \in Submissions, call \in {"debit", "undo"} : Call(g, call) \/ Attempt(g, call)
    \/ RestBreaker

(***************************************************************************)
(* Properties.                                                             *)
(***************************************************************************)
\* However the calls overlap, and however often the circuit has been half open, a
\* service in trouble gets at most one failing call more from each submission than
\* the threshold allows: calls under way when the circuit opens still end.
FailuresAreBounded ==
    breaker.failures + Cardinality({g \in Submissions : InCall(g)})
      < CircuitThreshold + Cardinality(Submissions)
=============================================================================
