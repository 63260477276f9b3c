---------------------------- MODULE ActionEngine ----------------------------
(***************************************************************************)
(* The write path of the control plane: an Action Request is authorised,   *)
(* takes the lock of its resource, is dispatched to a Runner, executed     *)
(* under two leases and a fencing token, and its effect is verified by a   *)
(* read-only task before the resource is given back.                       *)
(*                                                                         *)
(* Source: services/actions.py, services/resource_locks.py,                *)
(* services/action_dispatcher.py, services/action_verifications.py and the *)
(* Runner loop in runner/opspilot_runner/client.py.                        *)
(*                                                                         *)
(* One action of this module is one request handler.  A handler runs in    *)
(* one database transaction that is rolled back when it answers with an    *)
(* error, so a refusal (4xx) changes nothing and has no action here.       *)
(*                                                                         *)
(* Time is discrete and relative: a lease is the number of ticks it still  *)
(* has, 0 meaning expired, and Tick takes one from every lease.            *)
(***************************************************************************)
EXTENDS Naturals

CONSTANTS
    Actions,            \* Action Requests
    Resources,          \* lockable resources of one environment
    Runners,            \* Runners with the needed capability
    NoAction,           \* owner of a lock row that was never created
    NoRunner,           \* runner of an execution that was never created
    ResourceOf,         \* the resource an action changes
    ExecutionLease,     \* action_execution_lease_seconds, in ticks
    ResourceLockLease,  \* resource_lock_lease_seconds, in ticks
    MaxAttempts,        \* max_attempts of a verification task (3 in the code)
    MaxToken            \* bound: highest fencing token that is explored

ASSUME IdentityAssumption ==
    /\ NoAction \notin Actions
    /\ NoRunner \notin Runners
    /\ ResourceOf \in [Actions -> Resources]

\* Settings bounds the two leases separately (ge=10, le=3600) and compares
\* neither with the other.
ASSUME LeaseAssumption ==
    /\ ExecutionLease \in Nat \ {0}
    /\ ResourceLockLease \in Nat \ {0}
    /\ MaxAttempts \in Nat \ {0}
    /\ MaxToken \in Nat

VARIABLES
    action,         \* status of each Action Request
    execution,      \* its Action Execution: the write in progress
    lock,           \* the lock row of each resource
    verification,   \* status of each Action Verification
    task,           \* the verification's Runner task
    job,            \* what the Runner process does locally for the action
    online,         \* Runners the control plane lets in
    dispatched      \* executions created so far, their order of creation

vars == <<action, execution, lock, verification, task, job, online, dispatched>>

ActionStatus ==
    {"NONE", "READY", "DISPATCHING", "RUNNING", "VERIFYING", "SUCCEEDED",
     "FAILED", "VERIFICATION_FAILED", "UNKNOWN", "CANCELLED"}
ExecutionStatus ==
    {"NONE", "DISPATCHING", "RUNNING", "APPLIED", "SUCCEEDED", "FAILED",
     "VERIFICATION_FAILED", "UNKNOWN"}
VerificationStatus == {"NONE", "QUEUED", "RUNNING", "PASSED", "FAILED"}
TaskStatus == {"NONE", "QUEUED", "LEASED", "SUCCEEDED", "FAILED"}
JobResult == {"succeeded", "failed", "timed_out"}
JobStatus == {"none", "applying"} \union JobResult

ExecutionRecord ==
    [status : ExecutionStatus, runner : Runners \union {NoRunner}, token : Nat,
     lease : Nat, created : Nat, completed : BOOLEAN]
LockRecord ==
    [owner : Actions \union {NoAction}, token : Nat, lease : Nat,
     released : BOOLEAN, frozen : BOOLEAN]
TaskRecord == [status : TaskStatus, attempt : Nat]

NoExecution ==
    [status |-> "NONE", runner |-> NoRunner, token |-> 0, lease |-> 0,
     created |-> 0, completed |-> FALSE]
\* A resource without a lock row behaves as one released at token 0: its first
\* grant has token 1, like every later one has the next token.
NoLock ==
    [owner |-> NoAction, token |-> 0, lease |-> 0, released |-> TRUE,
     frozen |-> FALSE]

TypeOK ==
    /\ action \in [Actions -> ActionStatus]
    /\ execution \in [Actions -> ExecutionRecord]
    /\ lock \in [Resources -> LockRecord]
    /\ verification \in [Actions -> VerificationStatus]
    /\ task \in [Actions -> TaskRecord]
    /\ job \in [Actions -> JobStatus]
    /\ online \subseteq Runners
    /\ dispatched \in Nat

Init ==
    /\ action = [a \in Actions |-> "NONE"]
    /\ execution = [a \in Actions |-> NoExecution]
    /\ lock = [r \in Resources |-> NoLock]
    /\ verification = [a \in Actions |-> "NONE"]
    /\ task = [a \in Actions |-> [status |-> "NONE", attempt |-> 0]]
    /\ job = [a \in Actions |-> "none"]
    /\ online = Runners
    /\ dispatched = 0

-----------------------------------------------------------------------------
(* The lock row of a resource.                                             *)

\* ResourceLockRepository.get_for_action: the unreleased row the action owns.
Owns(locks, a) ==
    /\ locks[ResourceOf[a]].owner = a
    /\ ~locks[ResourceOf[a]].released

\* Mutant of HeldBy: the lease of the row is not looked at.
HeldByLapsed(l, a) == l.owner = a /\ ~l.released

\* Acquiring a lock one already holds returns it as it is.
HeldBy(l, a) == l.owner = a /\ ~l.released /\ l.lease > 0

TakeableHeld(l) == ~l.frozen /\ l.token < MaxToken

\* A row can be taken over once released or expired, unless it is frozen.
Takeable(l) == ~l.frozen /\ (l.released \/ l.lease = 0) /\ l.token < MaxToken

CanAcquire(l, a) == HeldBy(l, a) \/ Takeable(l)

\* Mutant of Acquired: a new owner keeps the old token.
AcquiredSameToken(l, a) ==
    IF HeldBy(l, a)
    THEN l
    ELSE [owner |-> a, token |-> l.token, lease |-> ResourceLockLease,
          released |-> FALSE, frozen |-> l.frozen]

Acquired(l, a) ==
    IF HeldBy(l, a)
    THEN l
    ELSE [owner |-> a, token |-> l.token + 1, lease |-> ResourceLockLease,
          released |-> FALSE, frozen |-> l.frozen]

\* Mutants of Frozen and Thawed, each of which forgets one column.
NotFrozen(l) == [l EXCEPT !.lease = 0]
ReleasedNotThawed(l) == [l EXCEPT !.released = TRUE, !.lease = 0]
Released(l) == [l EXCEPT !.released = TRUE, !.lease = 0]
Frozen(l) == [l EXCEPT !.frozen = TRUE, !.lease = 0]
Thawed(l) == [l EXCEPT !.frozen = FALSE, !.released = TRUE, !.lease = 0]
Renewed(l) == [l EXCEPT !.lease = ResourceLockLease]

(* The execution row of an action.                                          *)
Running(e) == [e EXCEPT !.status = "RUNNING", !.lease = ExecutionLease]
Extended(e) == [e EXCEPT !.lease = ExecutionLease]
Completed(e, target) ==
    [e EXCEPT !.status = target, !.lease = 0, !.completed = TRUE]

\* Mutant of Less: nothing stops at expiry.
LessPastExpiry(lease) == lease - 1

(* A lease one tick later, and a row that has one.                          *)
Less(lease) == IF lease > 0 THEN lease - 1 ELSE 0
Aged(row) == [row EXCEPT !.lease = Less(@)]

-----------------------------------------------------------------------------
(* ActionDispatcherService.recover_expired, which several handlers call     *)
(* first: an execution whose lease ran out becomes unknown, and the lock it *)
(* still owns, if it owns one, is frozen until somebody reconciles it.      *)
(* found is the set of executions the call meets: it skips the rows another *)
(* transaction holds (skip_locked), and those that expire between its clock *)
(* reading and the next one of the handler that called it.                  *)

\* Mutant of ExpiredRunning: the sweep filters on the wrong status.
ExpiredDispatching ==
    {a \in Actions : execution[a].status = "DISPATCHING" /\ execution[a].lease = 0}

ExpiredRunning ==
    {a \in Actions : execution[a].status = "RUNNING" /\ execution[a].lease = 0}

RecoveredAction(found) ==
    [a \in Actions |-> IF a \in found THEN "UNKNOWN" ELSE action[a]]

\* Mutant of RecoveredExecution: only the action row is written.
ExecutionNotRecovered(found) == execution

RecoveredExecution(found) ==
    [a \in Actions |->
        IF a \in found
        THEN [execution[a] EXCEPT !.status = "UNKNOWN"]
        ELSE execution[a]]

RecoveredLock(found) ==
    [r \in Resources |->
        IF \E a \in found : ResourceOf[a] = r /\ Owns(lock, a)
        THEN Frozen(lock[r])
        ELSE lock[r]]

Recovered(found) ==
    /\ action' = RecoveredAction(found)
    /\ execution' = RecoveredExecution(found)
    /\ lock' = RecoveredLock(found)

-----------------------------------------------------------------------------
(* Requests of operators and of internal clients.                           *)

\* ActionRequestService.create: the authorisation is consumed by one action.
Create(a) ==
    /\ action[a] = "NONE"
    /\ action' = [action EXCEPT ![a] = "READY"]
    /\ UNCHANGED <<execution, lock, verification, task, job, online, dispatched>>

\* ActionRequestService.cancel, with release_for_action.
Cancel(a) ==
    /\ action[a] = "READY"
    /\ action' = [action EXCEPT ![a] = "CANCELLED"]
    /\ lock' = IF Owns(lock, a)
               THEN [lock EXCEPT ![ResourceOf[a]] = Released(@)]
               ELSE lock
    /\ UNCHANGED <<execution, verification, task, job, online, dispatched>>

\* ResourceLockService.acquire behind the internal endpoint.  It does not
\* recover expired executions first; only dispatch does.
AcquireLock(a) ==
    /\ action[a] = "READY"
    /\ ~HeldBy(lock[ResourceOf[a]], a)
    /\ Takeable(lock[ResourceOf[a]])
    /\ lock' = [lock EXCEPT ![ResourceOf[a]] = Acquired(@, a)]
    /\ UNCHANGED <<action, execution, verification, task, job, online, dispatched>>

\* ResourceLockService.renew and release need a ready action that holds the
\* lock; a stale token is refused.
RenewLock(a) ==
    /\ action[a] = "READY"
    /\ HeldBy(lock[ResourceOf[a]], a)
    /\ lock' = [lock EXCEPT ![ResourceOf[a]] = Renewed(@)]
    /\ UNCHANGED <<action, execution, verification, task, job, online, dispatched>>

ReleaseLock(a) ==
    /\ action[a] = "READY"
    /\ HeldBy(lock[ResourceOf[a]], a)
    /\ lock' = [lock EXCEPT ![ResourceOf[a]] = Released(@)]
    /\ UNCHANGED <<action, execution, verification, task, job, online, dispatched>>

\* ActionDispatcherService.dispatch: recover, acquire the lock, choose an online
\* Runner, create the execution.
Dispatch(a, r, found) ==
    LET res == ResourceOf[a]
        granted == Acquired(RecoveredLock(found)[res], a)
    IN  /\ action[a] = "READY"
        /\ execution[a].status = "NONE"
        /\ CanAcquire(RecoveredLock(found)[res], a)
        /\ r \in online
        /\ lock' = [RecoveredLock(found) EXCEPT ![res] = granted]
        /\ execution' = [RecoveredExecution(found) EXCEPT
                ![a] = [status |-> "DISPATCHING", runner |-> r,
                        token |-> granted.token, lease |-> 0,
                        created |-> dispatched + 1, completed |-> FALSE]]
        /\ action' = [RecoveredAction(found) EXCEPT ![a] = "DISPATCHING"]
        /\ dispatched' = dispatched + 1
        /\ UNCHANGED <<verification, task, job, online>>

\* ActionDispatcherService.reconcile: an operator states what really happened.
Reconcile(a, succeeded) ==
    LET target == IF succeeded THEN "SUCCEEDED" ELSE "FAILED"
    IN  /\ action[a] = "UNKNOWN"
        /\ action' = [action EXCEPT ![a] = target]
        /\ execution' = [execution EXCEPT ![a].status = target]
        /\ lock' = IF Owns(lock, a)
                   THEN [lock EXCEPT ![ResourceOf[a]] = Thawed(@)]
                   ELSE lock
        /\ UNCHANGED <<verification, task, job, online, dispatched>>

\* ControlPlaneRecoveryService.scan, at startup or on an administrator's request.
RecoveryScan(found) ==
    /\ found # {}
    /\ Recovered(found)
    /\ UNCHANGED <<verification, task, job, online, dispatched>>

-----------------------------------------------------------------------------
(* The Runner protocol.                                                     *)

\* run_forever awaits one action at a time.
Idle(r) == \A a \in Actions : execution[a].runner = r => job[a] = "none"

\* ActionExecutionRepository.claim_for_runner: the oldest one waiting for r.
Waiting(r) ==
    {a \in Actions : execution[a].runner = r /\ execution[a].status = "DISPATCHING"}
Oldest(r) ==
    {a \in Waiting(r) :
        \A b \in Waiting(r) : execution[a].created <= execution[b].created}

\* ActionDispatcherService.claim.  The answer may be lost on the way (heard is
\* FALSE): the execution is running then, and nobody performs it.  When the
\* lock is not the action's any more the handler answers 409 and the whole
\* transaction, its recovery included, is rolled back.
Claim(r, heard, found) ==
    /\ r \in online
    /\ Idle(r)
    /\ \E a \in Oldest(r) :
        /\ Owns(RecoveredLock(found), a)
        /\ RecoveredLock(found)[ResourceOf[a]].token = execution[a].token
        /\ action' = [RecoveredAction(found) EXCEPT ![a] = "RUNNING"]
        /\ execution' = [RecoveredExecution(found) EXCEPT ![a] = Running(@)]
        /\ lock' = [RecoveredLock(found) EXCEPT ![ResourceOf[a]] = Renewed(@)]
        /\ job' = IF heard THEN [job EXCEPT ![a] = "applying"] ELSE job
    /\ UNCHANGED <<verification, task, online, dispatched>>

\* A claim that finds nothing to do commits what it recovered.
ClaimNothing(r, found) ==
    /\ r \in online
    /\ Idle(r)
    /\ Waiting(r) = {}
    /\ found # {}
    /\ Recovered(found)
    /\ UNCHANGED <<verification, task, job, online, dispatched>>

\* Mutant of OwnedRunning: the lock alone decides.
OwnedLock(a) ==
    /\ Owns(lock, a)
    /\ lock[ResourceOf[a]].token = execution[a].token

\* ActionDispatcherService._owned_running.
OwnedRunning(a) ==
    /\ execution[a].status = "RUNNING"
    /\ execution[a].lease > 0
    /\ Owns(lock, a)
    /\ lock[ResourceOf[a]].token = execution[a].token

\* ActionDispatcherService.renew extends both leases.
Renew(a) ==
    /\ execution[a].runner \in online
    /\ job[a] = "applying"
    /\ OwnedRunning(a)
    /\ execution' = [execution EXCEPT ![a] = Extended(@)]
    /\ lock' = [lock EXCEPT ![ResourceOf[a]] = Renewed(@)]
    /\ UNCHANGED <<action, verification, task, job, online, dispatched>>

\* RunnerClient._action_payload: the connector returned, failed, or ran into
\* action_timeout_seconds and was cancelled.
JobEnds(a, result) ==
    /\ job[a] = "applying"
    /\ job' = [job EXCEPT ![a] = result]
    /\ UNCHANGED <<action, execution, lock, verification, task, online, dispatched>>

\* ActionDispatcherService.complete.  The answer may be lost; the Runner then
\* sends the same completion again.
Complete(a, heard) ==
    /\ execution[a].runner \in online
    /\ job[a] \in JobResult
    /\ ~execution[a].completed
    /\ OwnedRunning(a)
    /\ LET succeeded == job[a] = "succeeded"
       IN  /\ action' = [action EXCEPT
                            ![a] = IF succeeded THEN "VERIFYING" ELSE "FAILED"]
           /\ execution' = [execution EXCEPT
                ![a] = Completed(@, IF succeeded THEN "APPLIED" ELSE "FAILED")]
           /\ lock' = [lock EXCEPT
                ![ResourceOf[a]] = IF succeeded THEN Frozen(@) ELSE Released(@)]
           /\ verification' = IF succeeded
                              THEN [verification EXCEPT ![a] = "QUEUED"]
                              ELSE verification
           /\ task' = IF succeeded
                      THEN [task EXCEPT ![a].status = "QUEUED"]
                      ELSE task
    /\ job' = IF heard THEN [job EXCEPT ![a] = "none"] ELSE job
    /\ UNCHANGED <<online, dispatched>>

\* A repeated completionId is answered from the stored result.
CompletionReplayed(a) ==
    /\ execution[a].runner \in online
    /\ job[a] \in JobResult
    /\ execution[a].completed
    /\ job' = [job EXCEPT ![a] = "none"]
    /\ UNCHANGED <<action, execution, lock, verification, task, online, dispatched>>

\* The Runner drops the job: the process died, a renewal or the completion was
\* refused as stale, or three sends of the completion failed.
JobAbandoned(a) ==
    /\ job[a] # "none"
    /\ job' = [job EXCEPT ![a] = "none"]
    /\ UNCHANGED <<action, execution, lock, verification, task, online, dispatched>>

\* The Runner lease expires, or a heartbeat renews it (RunnerService.authorize,
\* RunnerService.heartbeat).
RunnerLost(r) ==
    /\ r \in online
    /\ online' = online \ {r}
    /\ UNCHANGED <<action, execution, lock, verification, task, job, dispatched>>

RunnerBack(r) ==
    /\ r \in Runners \ online
    /\ online' = online \union {r}
    /\ UNCHANGED <<action, execution, lock, verification, task, job, dispatched>>

-----------------------------------------------------------------------------
(* Verification: the part of RunnerTaskService that concerns the task of an *)
(* Action Verification.  Which Runner leases it, and for how long, is the   *)
(* subject of RunnerTasks; here a leased task may be lost at any time.      *)

Finalized(a, passed) ==
    LET target == IF passed THEN "SUCCEEDED" ELSE "VERIFICATION_FAILED"
    IN  /\ verification' = [verification EXCEPT
                                ![a] = IF passed THEN "PASSED" ELSE "FAILED"]
        /\ action' = [action EXCEPT ![a] = target]
        /\ execution' = [execution EXCEPT ![a].status = target]
        /\ lock' = IF Owns(lock, a)
                   THEN [lock EXCEPT
                            ![ResourceOf[a]] = IF passed THEN Thawed(@) ELSE Frozen(@)]
                   ELSE lock

\* RunnerTaskService.claim with mark_running.
TaskClaimed(a) ==
    /\ task[a].status = "QUEUED"
    /\ task' = [task EXCEPT ![a] = [status |-> "LEASED", attempt |-> @.attempt + 1]]
    /\ verification' = [verification EXCEPT ![a] = IF @ = "QUEUED" THEN "RUNNING" ELSE @]
    /\ UNCHANGED <<action, execution, lock, job, online, dispatched>>

\* RunnerTaskService.complete with finalize_task.
TaskPassed(a) ==
    /\ task[a].status = "LEASED"
    /\ task' = [task EXCEPT ![a].status = "SUCCEEDED"]
    /\ Finalized(a, TRUE)
    /\ UNCHANGED <<job, online, dispatched>>

TaskFailed(a) ==
    /\ task[a].status = "LEASED"
    /\ \/ /\ task[a].attempt < MaxAttempts
          /\ task' = [task EXCEPT ![a].status = "QUEUED"]
          /\ verification' = [verification EXCEPT ![a] = "QUEUED"]
          /\ UNCHANGED <<action, execution, lock>>
       \/ /\ task[a].attempt >= MaxAttempts
          /\ task' = [task EXCEPT ![a].status = "FAILED"]
          /\ Finalized(a, FALSE)
    /\ UNCHANGED <<job, online, dispatched>>

\* RunnerTaskService._recover_expired and ObservabilityService.expire_stale_runners
\* queue a lost task again without telling the verification.
TaskLost(a) ==
    /\ task[a].status = "LEASED"
    /\ \/ /\ task[a].attempt < MaxAttempts
          /\ task' = [task EXCEPT ![a].status = "QUEUED"]
          /\ UNCHANGED <<action, execution, lock, verification>>
       \/ /\ task[a].attempt >= MaxAttempts
          /\ task' = [task EXCEPT ![a].status = "FAILED"]
          /\ Finalized(a, FALSE)
    /\ UNCHANGED <<job, online, dispatched>>

-----------------------------------------------------------------------------
Tick ==
    /\ \/ \E a \in Actions : execution[a].lease > 0
       \/ \E r \in Resources : lock[r].lease > 0
    /\ execution' = [a \in Actions |-> Aged(execution[a])]
    /\ lock' = [r \in Resources |-> Aged(lock[r])]
    /\ UNCHANGED <<action, verification, task, job, online, dispatched>>

OperatorNext ==
    \/ \E a \in Actions :
        \/ Create(a)
        \/ Cancel(a)
        \/ AcquireLock(a)
        \/ RenewLock(a)
        \/ ReleaseLock(a)
        \/ \E r \in Runners, found \in SUBSET ExpiredRunning : Dispatch(a, r, found)
        \/ \E succeeded \in BOOLEAN : Reconcile(a, succeeded)
    \/ \E found \in SUBSET ExpiredRunning : RecoveryScan(found)

RunnerNext ==
    \/ \E r \in Runners :
        \/ \E found \in SUBSET ExpiredRunning :
            \/ \E heard \in BOOLEAN : Claim(r, heard, found)
            \/ ClaimNothing(r, found)
        \/ RunnerLost(r)
        \/ RunnerBack(r)
    \/ \E a \in Actions :
        \/ Renew(a)
        \/ \E result \in JobResult : JobEnds(a, result)
        \/ \E heard \in BOOLEAN : Complete(a, heard)
        \/ CompletionReplayed(a)
        \/ JobAbandoned(a)

VerificationNext ==
    \E a \in Actions :
        \/ TaskClaimed(a)
        \/ TaskPassed(a)
        \/ TaskFailed(a)
        \/ TaskLost(a)

Next == OperatorNext \/ RunnerNext \/ VerificationNext \/ Tick

Spec == Init /\ [][Next]_vars

\* The fairness of the deployment.  Time passes; a Runner process is restarted
\* by its supervisor and polls for actions (run_forever), while an action ends
\* within its timeout and its completion is answered or given up; verification
\* tasks are polled in the same loop and end or are lost.  Nothing obliges an
\* operator to act, and the recovery scan runs at startup only.
Fairness ==
    /\ WF_vars(Tick)
    /\ \A r \in Runners :
        /\ WF_vars(RunnerBack(r))
        /\ SF_vars(\E heard \in BOOLEAN, found \in SUBSET ExpiredRunning :
                        Claim(r, heard, found))
        /\ SF_vars(\E found \in SUBSET ExpiredRunning : ClaimNothing(r, found))
    /\ \A a \in Actions :
        /\ WF_vars(\E result \in JobResult : JobEnds(a, result))
        /\ WF_vars(job[a] \in JobResult /\ (Complete(a, TRUE)
                    \/ CompletionReplayed(a) \/ JobAbandoned(a)))
        /\ WF_vars(TaskClaimed(a))
        /\ WF_vars(TaskPassed(a) \/ TaskFailed(a) \/ TaskLost(a))

FairSpec == Spec /\ Fairness

-----------------------------------------------------------------------------
(* Safety.                                                                  *)

\* The Runner is entitled to write to the resource.
LiveExecution(a) ==
    execution[a].status = "RUNNING" /\ execution[a].lease > 0

\* Two actions never hold an unexpired execution on one resource, whichever way
\* their dispatches, claims, renewals, expiries and lock requests interleave.
\* It needs ExecutionLease <= ResourceLockLease, which Settings does not demand.
ExclusiveExecution ==
    \A a, b \in Actions :
        LiveExecution(a) /\ LiveExecution(b) /\ ResourceOf[a] = ResourceOf[b] => a = b

\* While an execution is unexpired its action owns the lock row, under the token
\* the Runner was given, and the lock does not lapse before the execution: renew
\* and complete cannot be refused because somebody else took the lock.
LiveExecutionHoldsLock ==
    \A a \in Actions :
        LiveExecution(a) =>
            /\ Owns(lock, a)
            /\ lock[ResourceOf[a]].token = execution[a].token
            /\ lock[ResourceOf[a]].lease >= execution[a].lease

\* A fencing token tells executions on one resource apart: no two of them were
\* ever given the same one, however often the lock was released and taken.
TokensDistinguishExecutions ==
    \A a, b \in Actions :
        /\ a # b
        /\ ResourceOf[a] = ResourceOf[b]
        /\ execution[a].status # "NONE"
        /\ execution[b].status # "NONE"
        => execution[a].token # execution[b].token

\* From the moment its effect is applied until a verification passes, an action
\* keeps its resource frozen under its own name: complete freezes the lock and
\* no other handler may hand the resource on, not even after the lock's lease.
UnverifiedEffectIsFrozen ==
    \A a \in Actions :
        action[a] \in {"VERIFYING", "VERIFICATION_FAILED"} =>
            Owns(lock, a) /\ lock[ResourceOf[a]].frozen

\* Nothing freezes a resource for good by mistake: a frozen row is unreleased,
\* and its owner is an action that verification or an operator can still settle
\* or that failed its verification.
FrozenForACause(r) ==
    lock[r].frozen =>
        /\ ~lock[r].released
        /\ lock[r].owner \in Actions
        /\ action[lock[r].owner] \in {"VERIFYING", "UNKNOWN", "VERIFICATION_FAILED"}

\* The execution, verification and task rows agree with the action: a verifying
\* action always has a task that can still end, and no other action has one.
RowsAgree ==
    \A a \in Actions :
        /\ action[a] \in {"NONE", "READY", "CANCELLED"} <=> execution[a].status = "NONE"
        /\ action[a] = "VERIFYING" <=> execution[a].status = "APPLIED"
        /\ execution[a].status \notin {"NONE", "APPLIED"} => execution[a].status = action[a]
        /\ action[a] = "VERIFYING" <=> task[a].status \in {"QUEUED", "LEASED"}
        /\ action[a] = "VERIFYING" <=> verification[a] \in {"QUEUED", "RUNNING"}
        /\ action[a] = "VERIFICATION_FAILED" <=> verification[a] = "FAILED"
        /\ verification[a] = "PASSED" => action[a] = "SUCCEEDED"

-----------------------------------------------------------------------------
(* Action properties.                                                       *)

\* A freeze is lifted only because the action that caused it was settled in the
\* same step, and the lock changes hands only after that.
FreezeLiftedBySettling ==
    [][\A r \in Resources :
        lock[r].frozen =>
            \/ lock'[r].frozen /\ lock'[r].owner = lock[r].owner /\ ~lock'[r].released
            \/ /\ action[lock[r].owner] \in {"VERIFYING", "UNKNOWN"}
               /\ action'[lock[r].owner] \in {"SUCCEEDED", "FAILED"}]_vars

\* Freezing and thawing, which five handlers share, always pair up.
FreezeIsOrderly ==
    /\ [](\A r \in Resources : FrozenForACause(r))
    /\ FreezeLiftedBySettling

\* A completion that arrives after recovery gave the execution up, or a second
\* one, changes nothing: an unknown action leaves that state by reconciliation
\* alone, which starts no verification, and an outcome once settled stays.
LateCompletionIgnored ==
    [][\A a \in Actions :
        /\ action[a] = "UNKNOWN" /\ action'[a] # "UNKNOWN" =>
            /\ action'[a] \in {"SUCCEEDED", "FAILED"}
            /\ verification'[a] = "NONE"
            /\ ~execution'[a].completed
        /\ action[a] \in {"SUCCEEDED", "FAILED", "VERIFICATION_FAILED", "CANCELLED"} =>
            action'[a] = action[a] /\ execution'[a] = execution[a]]_vars

-----------------------------------------------------------------------------
(* Liveness.                                                                *)

Settled == {"SUCCEEDED", "FAILED", "VERIFICATION_FAILED", "UNKNOWN"}

\* A dispatched action comes to an outcome, or to UNKNOWN for an operator to
\* settle, whatever answers are lost and however often its Runner goes away.
DispatchedActionSettles ==
    \A a \in Actions : action[a] = "DISPATCHING" ~> action[a] \in Settled

-----------------------------------------------------------------------------
(* Refinement: what all of this amounts to for one resource.                *)

Phase(r) ==
    CASE lock[r].frozen -> "frozen"
      [] ~lock[r].frozen /\ lock[r].released -> "free"
      [] ~lock[r].frozen /\ ~lock[r].released /\ lock[r].lease > 0 -> "held"
      [] OTHER -> "lapsed"

Writers(r) == {a \in Actions : ResourceOf[a] = r /\ LiveExecution(a)}

Exclusion(r) ==
    INSTANCE ResourceExclusion WITH
        phase <- Phase(r), holder <- lock[r].owner, token <- lock[r].token,
        writers <- Writers(r)

\* Dispatcher, lock service, recovery and verification together implement the
\* abstract exclusion of every resource: seen from one resource, each of their
\* transactions is one step of ResourceExclusion or none.
ImplementsResourceExclusion ==
    /\ \A r \in Resources : Exclusion(r)!Init
    /\ [][\A r \in Resources : [Exclusion(r)!Next]_(Exclusion(r)!vars)]_vars

\* The task of a verification, as this module abstracts it, has the life that
\* RunnerTasks shows its detailed tasks to have.
Stage ==
    [NONE |-> "none", QUEUED |-> "waiting", LEASED |-> "running",
     SUCCEEDED |-> "succeeded", FAILED |-> "failed"]

Lifecycle(a) ==
    INSTANCE TaskLifecycle WITH
        status <- Stage[task[a].status], attempt <- task[a].attempt

\* Completion, verification and the loss of its Runner give every verification
\* task a bounded sequence of attempts and one end.
ImplementsTaskLifecycle ==
    /\ \A a \in Actions : Lifecycle(a)!Init
    /\ [][\A a \in Actions : [Lifecycle(a)!Next]_(Lifecycle(a)!vars)]_vars

\* The write path implements both of its abstract specifications.
ImplementsAbstractions == ImplementsResourceExclusion /\ ImplementsTaskLifecycle

-----------------------------------------------------------------------------
(* What the documentation says and the code does not do.                    *)

\* docs/后端Phase4-Policy审批与ActionEngine.md:124, and the refusal text of
\* ResourceLockService.acquire: a resource is frozen until its unknown action
\* is reconciled.
UnknownFreezesResource ==
    \A a \in Actions :
        action[a] = "UNKNOWN" => Owns(lock, a) /\ lock[ResourceOf[a]].frozen

\* docs/AIOps-Agent-项目总纲与架构设计.md:648: an action that timed out is
\* unknown and has to be reconciled with the target system first.
TimedOutActionIsUnknown ==
    [][\A a \in Actions :
        job[a] = "timed_out" /\ action[a] = "RUNNING" =>
            action'[a] \in {"RUNNING", "UNKNOWN"}]_vars
=============================================================================
