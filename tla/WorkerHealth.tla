----------------------------- MODULE WorkerHealth -----------------------------
(***************************************************************************)
(* The background workers of a control plane process and what is reported  *)
(* of their health.  A worker runs an operation, beats while it runs, beats*)
(* when it ends, and sleeps.  A worker counts as healthy while its task    *)
(* lives, its last operations did not all fail, and its last beat is       *)
(* recent.  Shutdown cancels the workers one after the other, and the      *)
(* database is disposed of when they have ended.                           *)
(*                                                                         *)
(* Time is counted in ticks; the event loop runs what is due within Lag.   *)
(***************************************************************************)
EXTENDS Naturals

CONSTANTS
    Worker,          \* the workers, in the order that shutdown cancels them
    Interval,        \* ticks a worker sleeps
    StaleAfter,      \* stale_after_seconds
    BeatEvery,       \* the heartbeat interval of an operation that runs
    ErrorThreshold,  \* error_threshold
    Lag              \* ticks that the event loop may be late

\* register takes at least stale_multiplier times the interval, and run_monitored
\* beats three times within it.
ASSUME WorkerConstants ==
    /\ Worker \subseteq Nat /\ ErrorThreshold \in Nat \ {0} /\ StaleAfter \in Nat
    /\ Interval \in Nat \ {0} /\ BeatEvery \in Nat \ {0} /\ Lag \in Nat
    /\ Interval + Lag <= StaleAfter /\ BeatEvery + Lag <= StaleAfter

VARIABLES
    worker,   \* what each worker does, and the state kept of it
    asked,    \* workers that shutdown has cancelled
    disposed  \* the database is disposed of

healthVars == <<worker, asked, disposed>>

\* phase and operation of the task, ticks since its timer was set and since its
\* last beat, consecutive errors, and whether a cancellation is on its way.
WorkerState == [phase: {"ready", "running", "sleeping", "ended"},
                operation: {"none", "running", "cancelled"}, timer: Nat, age: Nat,
                errors: 0..ErrorThreshold, cancel: BOOLEAN]

HealthInit ==
    /\ worker = [w \in Worker |-> [phase |-> "ready", operation |-> "none", timer |-> 0,
                                   age |-> 0, errors |-> 0, cancel |-> FALSE]]
    /\ asked = {} /\ disposed = FALSE

\* Ticks until what the worker waits for is due.
Deadline(w) ==
    CASE worker[w].phase = "running" -> BeatEvery
      [] worker[w].phase = "sleeping" -> Interval
      [] OTHER -> 0

\* _healthy
Healthy(w) ==
    /\ worker[w].phase # "ended" /\ worker[w].errors < ErrorThreshold
    /\ worker[w].age <= StaleAfter

\* heartbeat
Beaten(state) == [state EXCEPT !.age = 0]

OneMore(errors) == IF errors < ErrorThreshold THEN errors + 1 ELSE errors

\* run_monitored starts the operation, at first or after the sleep.
BeginOperation(w) ==
    /\ worker[w].phase \in {"ready", "sleeping"} /\ ~worker[w].cancel
    /\ worker[w].timer >= Deadline(w)
    /\ worker' = [worker EXCEPT ![w] = [Beaten(worker[w]) EXCEPT
           !.phase = "running", !.operation = "running", !.timer = 0]]
    /\ UNCHANGED <<asked, disposed>>

\* The wait of run_monitored times out.
BeatWhileRunning(w) ==
    /\ worker[w].operation = "running" /\ ~worker[w].cancel
    /\ worker[w].timer >= BeatEvery
    /\ worker' = [worker EXCEPT ![w] = [Beaten(worker[w]) EXCEPT !.timer = 0]]
    /\ UNCHANGED <<asked, disposed>>

\* success or failure, and the worker sleeps.
EndOperation(w) ==
    /\ worker[w].operation = "running" /\ ~worker[w].cancel
    /\ \E errors \in {0, OneMore(worker[w].errors)} :
          worker' = [worker EXCEPT ![w].phase = "sleeping", ![w].operation = "none",
                                   ![w].timer = 0, ![w].age = 0, ![w].errors = errors]
    /\ UNCHANGED <<asked, disposed>>

\* The agent runtime goes on at once when it has processed a run.
NextOperation(w) ==
    /\ worker[w].operation = "running" /\ ~worker[w].cancel
    /\ worker' = [worker EXCEPT ![w].timer = 0, ![w].age = 0, ![w].errors = 0]
    /\ UNCHANGED <<asked, disposed>>

\* lifespan cancels a worker when those before it have ended.
CancelWorker(w) ==
    /\ w \notin asked /\ \A v \in Worker : v < w => worker[v].phase = "ended"
    /\ worker' = [worker EXCEPT ![w].cancel = TRUE]
    /\ asked' = asked \union {w}
    /\ UNCHANGED disposed

\* Mutant of AfterCancel: the operation is left to itself.
OperationLeft(state) == [state EXCEPT !.phase = "ended", !.cancel = FALSE]

\* run_monitored cancels the operation and waits for it.
AfterCancel(state) == [state EXCEPT !.operation = "cancelled"]

\* The cancellation reaches the task.
TakeCancel(w) ==
    /\ worker[w].cancel
    /\ \/ /\ worker[w].operation = "running"
          /\ worker' = [worker EXCEPT ![w] = AfterCancel(worker[w])]
       \/ /\ worker[w].operation = "none"
          /\ worker' = [worker EXCEPT ![w].phase = "ended", ![w].cancel = FALSE]
    /\ UNCHANGED <<asked, disposed>>

\* The operation ends; when it raises an error of its own, the loop counts a
\* failure and goes on, and the cancellation is lost.
EndCancelled(w) ==
    /\ worker[w].operation = "cancelled"
    /\ \/ worker' = [worker EXCEPT ![w].phase = "ended", ![w].operation = "none",
                                   ![w].cancel = FALSE]
       \/ worker' = [worker EXCEPT ![w].phase = "sleeping", ![w].operation = "none",
                 ![w].cancel = FALSE, ![w].timer = 0, ![w].age = 0,
                 ![w].errors = OneMore(@)]
    /\ UNCHANGED <<asked, disposed>>

\* database.dispose
Dispose ==
    /\ asked = Worker /\ ~disposed /\ \A w \in Worker : worker[w].phase = "ended"
    /\ disposed' = TRUE
    /\ UNCHANGED <<worker, asked>>

\* A tick: no wait is overdue by more than Lag.
HealthTick ==
    /\ ~disposed
    /\ \A w \in Worker :
          /\ ~worker[w].cancel
          /\ worker[w].phase # "ended" => worker[w].timer < Deadline(w) + Lag
    /\ worker' = [w \in Worker |->
           IF worker[w].phase = "ended" THEN worker[w]
           ELSE [worker[w] EXCEPT !.timer = @ + 1, !.age = @ + 1]]
    /\ UNCHANGED <<asked, disposed>>

HealthNext ==
    \/ \E w \in Worker :
          \/ BeginOperation(w) \/ BeatWhileRunning(w) \/ EndOperation(w) \/ NextOperation(w)
          \/ CancelWorker(w) \/ TakeCancel(w) \/ EndCancelled(w)
    \/ Dispose \/ HealthTick

HealthSpec == HealthInit /\ [][HealthNext]_healthVars

-----------------------------------------------------------------------------
(* Correctness *)

\* A worker that lives and has not failed too often is never reported unhealthy,
\* however long its operation takes.
NoFalseAlarm ==
    \A w \in Worker :
        worker[w].phase # "ended" /\ worker[w].errors < ErrorThreshold => Healthy(w)

\* Every variable keeps its type.  When a worker has ended, so has its operation, and
\* none runs on a database that is disposed of.
NoOrphanOperation ==
    /\ worker \in [Worker -> WorkerState]
    /\ asked \subseteq Worker /\ disposed \in BOOLEAN
    /\ \A w \in Worker :
          worker[w].phase = "ended" \/ disposed => worker[w].operation = "none"

\* A worker is known to be well while it is, and gone when it is gone.
WorkersAreWatched == NoFalseAlarm /\ NoOrphanOperation
=============================================================================
