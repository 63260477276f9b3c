------------------------------ MODULE Connectors ------------------------------
(***************************************************************************)
(* One read-only connector of a Runner: its circuit breaker, and the       *)
(* retries of one query under one deadline.  The Runner executes one task  *)
(* at a time, and cancels the query when it loses the task.                *)
(*                                                                         *)
(* Time is counted in ticks; a sleep may end one tick late, an attempt is  *)
(* timed out at the deadline.                                              *)
(***************************************************************************)
EXTENDS Naturals

CONSTANTS
    FailureThreshold,  \* connector_circuit_failure_threshold
    RecoveryTime,      \* connector_circuit_recovery_seconds
    MaxAttempts,       \* connector_retry_max_attempts
    MaxDelay,          \* connector_retry_max_seconds, with its jitter
    Timeout,           \* timeout_seconds of the task
    MaxClock,          \* bound: time
    MaxFailures        \* bound: failures in a row

\* The bounds of RunnerSettings: a threshold and attempts of at least one.
ASSUME ConnectorConstants ==
    /\ FailureThreshold \in Nat \ {0} /\ MaxAttempts \in Nat \ {0}
    /\ RecoveryTime \in Nat /\ MaxDelay \in Nat /\ Timeout \in Nat
    /\ MaxClock \in Nat /\ MaxFailures \in Nat

NotOpened == MaxClock + 1

VARIABLES
    clock,    \* time.monotonic
    circuit,  \* ConnectorCircuitBreaker
    query,    \* the execute that is under way
    groups    \* queries that failed retryably since one succeeded

connectorVars == <<clock, circuit, query, groups>>

Idle == [phase |-> "idle", attempt |-> 0, most |-> 0, deadline |-> 0, wake |-> 0,
         probe |-> FALSE]

ConnectorInit ==
    /\ clock = 0 /\ query = Idle /\ groups = 0
    /\ circuit = [failures |-> 0, openedAt |-> NotOpened, probe |-> FALSE]

Opened == circuit.openedAt # NotOpened

\* before_call does not refuse.
Admits ==
    Opened => clock - circuit.openedAt >= RecoveryTime /\ ~circuit.probe

AttemptsOf(probe) == IF probe THEN 1 ELSE MaxAttempts

\* execute begins; a circuit that is open lets one probe through.
BeginQuery ==
    /\ query = Idle /\ Admits /\ circuit.failures < MaxFailures
    /\ circuit' = [circuit EXCEPT !.probe = Opened]
    /\ query' = [phase |-> "attempt", attempt |-> 1, most |-> AttemptsOf(Opened),
                 deadline |-> clock + Timeout, wake |-> 0, probe |-> Opened]
    /\ UNCHANGED <<clock, groups>>

RecordSuccess == [failures |-> 0, openedAt |-> NotOpened, probe |-> FALSE]

\* record_failure
RecordFailure(retryable) ==
    CASE ~retryable -> [circuit EXCEPT !.probe = FALSE]
      [] retryable /\ (circuit.probe \/ circuit.failures + 1 >= FailureThreshold) ->
            [failures |-> circuit.failures + 1, openedAt |-> clock, probe |-> FALSE]
      [] OTHER -> [circuit EXCEPT !.failures = @ + 1]

Succeed ==
    /\ query.phase = "attempt" /\ clock < query.deadline
    /\ circuit' = RecordSuccess /\ query' = Idle /\ groups' = 0
    /\ UNCHANGED clock

\* The query fails for good.
GiveUp(retryable) ==
    /\ circuit' = RecordFailure(retryable) /\ query' = Idle
    /\ groups' = IF retryable THEN groups + 1 ELSE groups

WhileRetrying == circuit

\* An attempt fails.  An unexpected exception counts as retryable, and is not
\* retried.
Fail(error) ==
    /\ query.phase = "attempt"
    /\ clock >= query.deadline => error = "timeout"
    /\ \/ /\ error = "final" /\ GiveUp(FALSE)
       \/ /\ error = "unexpected" /\ GiveUp(TRUE)
       \/ /\ error \in {"retryable", "timeout"}
          /\ \/ /\ query.attempt >= query.most /\ GiveUp(TRUE)
             \/ /\ query.attempt < query.most
                /\ \E delay \in 1..MaxDelay :
                      \/ /\ clock + delay >= query.deadline /\ GiveUp(TRUE)
                      \/ /\ clock + delay < query.deadline
                         /\ query' = [query EXCEPT !.phase = "sleep",
                                                   !.wake = clock + delay]
                         /\ circuit' = WhileRetrying
                         /\ UNCHANGED groups
    /\ UNCHANGED clock

\* The next attempt; one without time left fails like one that timed out.
NextAttempt ==
    /\ query.phase = "sleep" /\ clock >= query.wake
    /\ query' = [query EXCEPT !.phase = "attempt", !.attempt = @ + 1]
    /\ UNCHANGED <<clock, circuit, groups>>

\* Mutant of Abandoned: only results end a probe.
NotAbandoned == circuit

\* abandon_call
Abandoned == [circuit EXCEPT !.probe = FALSE]

\* The Runner lost the task.
CancelQuery ==
    /\ query # Idle
    /\ circuit' = Abandoned /\ query' = Idle
    /\ UNCHANGED <<clock, groups>>

ConnectorTick ==
    /\ clock < MaxClock
    /\ query.phase = "attempt" => clock < query.deadline
    /\ query.phase = "sleep" => clock <= query.wake
    /\ clock' = clock + 1
    /\ UNCHANGED <<circuit, query, groups>>

ConnectorNext ==
    \/ BeginQuery \/ Succeed \/ NextAttempt \/ CancelQuery \/ ConnectorTick
    \/ \E error \in {"final", "unexpected", "retryable", "timeout"} : Fail(error)

ConnectorSpec == ConnectorInit /\ [][ConnectorNext]_connectorVars

-----------------------------------------------------------------------------
(* Correctness *)

\* A probe that is marked as in flight is one: the mark does not outlive a query
\* that failed or was cancelled, or the circuit would stay open for ever.
ProbeIsUnderWay == circuit.probe <=> query.probe

\* A query counts as one failure, however often it was retried, and the circuit is
\* open when as many as the threshold failed in a row.
QueriesAreCounted ==
    /\ circuit.failures = groups
    /\ groups >= FailureThreshold => Opened

\* While the circuit is open a query makes a single attempt, and no attempt is
\* planned for after the deadline.
OpenMeansOneAttempt ==
    /\ Opened /\ query # Idle => query.attempt = 1 /\ query.phase = "attempt"
    /\ query.phase = "sleep" => query.wake < query.deadline

\* Retries, deadline, cancellation and circuit breaker agree about what was tried.
BreakerIsSound == ProbeIsUnderWay /\ QueriesAreCounted /\ OpenMeansOneAttempt
=============================================================================
