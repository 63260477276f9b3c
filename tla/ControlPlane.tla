----------------------------- MODULE ControlPlane -----------------------------
(***************************************************************************)
(* The mode of one control plane process.  It scans for what expired while *)
(* no process was running before it serves a request, and an Admin may ask *)
(* for another scan at any time; a lock keeps scans apart.  A scan recovers*)
(* Runners, then actions, then compensations, each in transactions of its  *)
(* own, and is not undone when a later step fails.  A process whose first  *)
(* scan failed has a task that retries.                                    *)
(*                                                                         *)
(* The mode is checked when a write begins, and not again.                 *)
(***************************************************************************)
EXTENDS Naturals, Sequences

CONSTANTS
    Admin,     \* recoveries that Admins ask for at a time
    MaxWrites  \* bound: writes that run at a time

ASSUME WritesAssumption == MaxWrites \in Nat

Steps == <<"runners", "actions", "compensations">>

Step == {"runners", "actions", "compensations"}

Place(step) == CHOOSE i \in 1..3 : Steps[i] = step

Caller == Admin \union {"startup", "retry"}

VARIABLES
    mode,       \* ControlPlaneModeService.mode
    caller,     \* where each caller of recover is
    stale,      \* steps that have something to recover
    unhandled,  \* steps of the newest scan that had, and are not done
    serving,    \* the application answers requests
    failed,     \* the scan at startup failed
    recovered,  \* this process has been normal
    writes      \* writes that are running

planeVars == <<mode, caller, stale, unhandled, serving, failed, recovered, writes>>

CallerState == {"idle", "asleep", "waiting", "ended"} \union Step

\* A process starts, or dies and starts again.
Fresh ==
    /\ mode' = "recovering" /\ unhandled' = {} /\ serving' = FALSE
    /\ failed' = FALSE /\ recovered' = FALSE /\ writes' = 0
    /\ caller' = [c \in Caller |-> IF c = "startup" THEN "waiting" ELSE "idle"]

PlaneInit ==
    /\ mode = "recovering" /\ unhandled = {} /\ serving = FALSE
    /\ failed = FALSE /\ recovered = FALSE /\ writes = 0
    /\ caller = [c \in Caller |-> IF c = "startup" THEN "waiting" ELSE "idle"]
    /\ stale \in SUBSET Step

Scanning(c) == caller[c] \in Step

LockIsFree == \A c \in Caller : ~Scanning(c)

\* recover gets the lock.
BeginScan(c) ==
    /\ caller[c] = "waiting" /\ LockIsFree
    /\ caller' = [caller EXCEPT ![c] = Steps[1]]
    /\ mode' = "recovering"
    /\ unhandled' = stale
    /\ UNCHANGED <<stale, serving, failed, recovered, writes>>

\* scan commits a step that is not the last.
FinishStep(c) ==
    /\ Scanning(c) /\ caller[c] # Steps[3]
    /\ caller' = [caller EXCEPT ![c] = Steps[Place(@) + 1]]
    /\ stale' = stale \ {caller[c]}
    /\ unhandled' = unhandled \ {caller[c]}
    /\ UNCHANGED <<mode, serving, failed, recovered, writes>>

\* The application serves after the first scan, whatever its outcome.
Serve(c) == serving' = (serving \/ c = "startup")

\* recover returns TRUE; the retry task ends.
FinishScan(c) ==
    /\ caller[c] = Steps[3]
    /\ caller' = [caller EXCEPT ![c] = IF c = "retry" THEN "ended" ELSE "idle"]
    /\ stale' = stale \ {Steps[3]} /\ unhandled' = unhandled \ {Steps[3]}
    /\ mode' = "normal" /\ recovered' = TRUE
    /\ Serve(c)
    /\ UNCHANGED <<failed, writes>>

\* Mutant of AfterFailure: the task retries once.
RetryOnce(c) ==
    IF c = "startup" THEN [caller EXCEPT ![c] = "idle", !["retry"] = "asleep"]
    ELSE [caller EXCEPT ![c] = IF c = "retry" THEN "ended" ELSE "idle"]

\* The scan at startup leaves a task that retries, which goes on until the mode
\* is normal.
AfterFailure(c) ==
    IF c = "startup" THEN [caller EXCEPT ![c] = "idle", !["retry"] = "asleep"]
    ELSE [caller EXCEPT ![c] = IF c = "retry" THEN "asleep" ELSE "idle"]

\* recover returns FALSE; what the steps before have done stays.
FailScan(c) ==
    /\ Scanning(c)
    /\ caller' = AfterFailure(c)
    /\ mode' = "read_only"
    /\ failed' = (failed \/ c = "startup")
    /\ Serve(c)
    /\ UNCHANGED <<stale, unhandled, recovered, writes>>

\* writable
Writable == mode = "normal"

\* retry_recovery_until_ready after its sleep.
WakeRetry ==
    /\ caller["retry"] = "asleep"
    /\ caller' = [caller EXCEPT !["retry"] = IF mode = "normal" THEN "ended"
                                             ELSE "waiting"]
    /\ UNCHANGED <<mode, stale, unhandled, serving, failed, recovered, writes>>

\* POST /system/recovery
AskForRecovery(c) ==
    /\ c \in Admin /\ serving /\ caller[c] = "idle"
    /\ caller' = [caller EXCEPT ![c] = "waiting"]
    /\ UNCHANGED <<mode, stale, unhandled, serving, failed, recovered, writes>>

\* A write, or a Runner that claims an action, passes ReadOnlyControlPlaneMiddleware.
BeginWrite ==
    /\ serving /\ Writable /\ writes < MaxWrites
    /\ writes' = writes + 1
    /\ UNCHANGED <<mode, caller, stale, unhandled, serving, failed, recovered>>

EndWrite ==
    /\ writes > 0
    /\ writes' = writes - 1
    /\ UNCHANGED <<mode, caller, stale, unhandled, serving, failed, recovered>>

\* A lease expires.
BecomeStale(s) ==
    /\ s \notin stale
    /\ stale' = stale \union {s}
    /\ UNCHANGED <<mode, caller, unhandled, serving, failed, recovered, writes>>

Restart == Fresh /\ UNCHANGED stale

PlaneNext ==
    \/ \E c \in Caller : \/ BeginScan(c) \/ FinishStep(c) \/ FinishScan(c)
                         \/ FailScan(c) \/ AskForRecovery(c)
    \/ WakeRetry \/ BeginWrite \/ EndWrite \/ Restart
    \/ \E s \in Step : BecomeStale(s)

PlaneSpec == PlaneInit /\ [][PlaneNext]_planeVars

-----------------------------------------------------------------------------
(* Correctness *)

\* Every variable keeps its type, and scans never overlap.
PlaneTypeOK ==
    /\ mode \in {"recovering", "normal", "read_only"}
    /\ caller \in [Caller -> CallerState]
    /\ stale \subseteq Step /\ unhandled \subseteq Step
    /\ serving \in BOOLEAN /\ failed \in BOOLEAN /\ recovered \in BOOLEAN
    /\ writes \in 0..MaxWrites
    /\ \A c, d \in Caller : Scanning(c) /\ Scanning(d) => c = d

\* In normal mode nothing is left of what had expired when the newest scan began.
NormalMeansRecovered ==
    mode = "normal" => unhandled = {} /\ \A c \in Caller : ~Scanning(c)

\* A write begins only while no scan runs and the last one recovered all it found.
WritesWaitForRecovery == [][
    BeginWrite => unhandled = {} /\ \A c \in Caller : ~Scanning(c)]_planeVars

\* A process whose first scan failed goes on retrying until one succeeds.
FailedStartupIsRetried ==
    failed /\ ~recovered => caller["retry"] \in {"asleep", "waiting"} \union Step

\* The process comes to normal mode only by a scan that recovered what it found, and
\* goes on trying to.
RecoveryIsKept ==
    /\ [](PlaneTypeOK /\ NormalMeansRecovered /\ FailedStartupIsRetried)
    /\ WritesWaitForRecovery

\* What the documentation says of every failed scan: the process that it leaves
\* read-only retries in the background.
ReadOnlyIsRetried ==
    mode = "read_only" => caller["retry"] \in {"asleep", "waiting"} \union Step
=============================================================================
