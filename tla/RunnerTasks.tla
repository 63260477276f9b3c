---------------------------- MODULE RunnerTasks ----------------------------
(***************************************************************************)
(* The read path of the control plane: read-only tasks are queued, leased  *)
(* to Runners that keep their own lease by heartbeats, completed under a   *)
(* fencing token, and taken back when a task lease or a Runner lease runs  *)
(* out.  A task serves an investigation that waits for its observation, or *)
(* an Action Verification.                                                 *)
(*                                                                         *)
(* Source: services/runner_tasks.py, services/runners.py,                  *)
(* services/observability.py, investigation_observations.resolve_task, and *)
(* the Runner loop of runner/opspilot_runner/client.py.                    *)
(*                                                                         *)
(* As in ActionEngine, one action is one transaction, a refused request    *)
(* changes nothing in the database, and a lease is the number of ticks it  *)
(* still has.                                                              *)
(*                                                                         *)
(* Fencing tokens are compared for equality only.  A Runner gets a new one *)
(* with every heartbeat and stamps it on every lease it takes until the    *)
(* next, so two leases of a task carry the same token exactly when one     *)
(* Runner took both between two of its heartbeats.  A token is named here  *)
(* by the attempt of the task that it served first.                        *)
(***************************************************************************)
EXTENDS Naturals, FiniteSets

CONSTANTS
    Runners,            \* registered Runners, all able to run every task
    Reliable,           \* the Runners whose supervisor always restarts them
    Tasks,
    Observations,       \* tasks an investigation waits for
    Verifications,      \* tasks of an Action Verification
    Incidents,
    IncidentOf,         \* the incident of a task
    AssignedTo,         \* the Runner a task is created for, or NoRunner
    NoRunner,
    NoTask,
    RunnerLease,        \* runner_lease_seconds, in ticks
    TaskLease,          \* runner_task_lease_seconds, in ticks
    MaxAttempts,        \* max_attempts of each task
    MaxSent             \* bound: completions that are on their way at a time

ASSUME IdentityAssumption ==
    /\ NoRunner \notin Runners
    /\ NoTask \notin Tasks
    /\ Reliable \subseteq Runners
    /\ Observations \subseteq Tasks
    /\ Verifications \subseteq Tasks
    /\ Observations \intersect Verifications = {}
    /\ IncidentOf \in [Tasks -> Incidents]
    /\ AssignedTo \in [Tasks -> Runners \union {NoRunner}]

ASSUME LeaseAssumption ==
    /\ RunnerLease \in Nat \ {0}
    /\ TaskLease \in Nat \ {0}
    /\ MaxAttempts \in [Tasks -> Nat \ {0}]
    /\ MaxSent \in Nat \ {0}

VARIABLES
    runner,         \* the control plane's row of each Runner
    process,        \* what the Runner process itself knows and does
    task,           \* the row of each task
    wait,           \* the observation wait of each task
    verification,   \* status of the Action Verification of each task
    lostTo,         \* the Runner that took an incident's observability along
    sent,           \* completions on their way to the control plane
    acceptedFrom    \* history: the attempt whose result a task took

vars == <<runner, process, task, wait, verification, lostTo, sent, acceptedFrom>>

TaskStatus == {"NONE", "QUEUED", "LEASED", "SUCCEEDED", "FAILED", "CANCELLED"}
WaitStatus == {"NONE", "WAITING", "succeeded", "failed", "cancelled", "run_cancelled"}
VerificationStatus == {"NONE", "QUEUED", "RUNNING", "PASSED", "FAILED"}
Result == {"succeeded", "failed"}

\* token is the Runner's token as it shows on the leases of each task, 0 while
\* none of them carries it.
RunnerRecord == [online : BOOLEAN, token : [Tasks -> Nat], lease : Nat]
\* current: the process has the Runner's token of now.
ProcessRecord ==
    [current : BOOLEAN, task : Tasks \union {NoTask}, token : Nat, attempt : Nat,
     result : Result \union {"none"}]
TaskRecord ==
    [status : TaskStatus, runner : Runners \union {NoRunner}, token : Nat,
     lease : Nat, attempt : Nat]
Completion ==
    [runner : Runners, task : Tasks, token : Nat, attempt : Nat, result : Result]

NoToken == [t \in Tasks |-> 0]
\* A process that has yet to send its first heartbeat.
Down ==
    [current |-> FALSE, task |-> NoTask, token |-> 0, attempt |-> 0, result |-> "none"]
NoRow == [status |-> "NONE", runner |-> NoRunner, token |-> 0, lease |-> 0, attempt |-> 0]

TypeOK ==
    /\ runner \in [Runners -> RunnerRecord]
    /\ process \in [Runners -> ProcessRecord]
    /\ task \in [Tasks -> TaskRecord]
    /\ wait \in [Tasks -> WaitStatus]
    /\ verification \in [Tasks -> VerificationStatus]
    /\ lostTo \in [Incidents -> Runners \union {NoRunner}]
    /\ sent \subseteq Completion
    /\ acceptedFrom \in [Tasks -> Nat]

\* Every Runner has just registered.
Init ==
    /\ runner = [r \in Runners |-> [online |-> TRUE, token |-> NoToken, lease |-> RunnerLease]]
    /\ process = [r \in Runners |-> [Down EXCEPT !.current = TRUE]]
    /\ task = [t \in Tasks |-> NoRow]
    /\ wait = [t \in Tasks |-> "NONE"]
    /\ verification = [t \in Tasks |-> "NONE"]
    /\ lostTo = [i \in Incidents |-> NoRunner]
    /\ sent = {}
    /\ acceptedFrom = [t \in Tasks |-> 0]

-----------------------------------------------------------------------------
(* Tasks that are taken back.                                               *)

\* Mutant of Exhausted: off by one.
ExhaustedEarly(t) == task[t].attempt + 1 >= MaxAttempts[t]

Exhausted(t) == task[t].attempt >= MaxAttempts[t]

Requeued(row, owner) ==
    [row EXCEPT !.status = "QUEUED", !.runner = owner, !.token = 0, !.lease = 0]
Failed(row) == [row EXCEPT !.status = "FAILED", !.token = 0, !.lease = 0]
Cancelled(row) == [row EXCEPT !.status = "CANCELLED", !.token = 0, !.lease = 0]

\* Mutant of VerificationAfterLoss: the verification is not told.
VerificationUntold(lost) == verification

\* ActionVerificationService.finalize_task for the tasks of lost that have no
\* attempt left; a task that is queued again leaves its verification as it is.
VerificationAfterLoss(lost) ==
    [t \in Tasks |->
        IF t \in lost \intersect Verifications /\ Exhausted(t)
        THEN "FAILED"
        ELSE verification[t]]

\* Mutant of ExpiredTasks: only the tasks that can be tried again are swept.
ExpiredRetryable ==
    {t \in Tasks : task[t].status = "LEASED" /\ task[t].lease = 0 /\ ~Exhausted(t)}

\* RunnerTaskService._recover_expired: found is the set of expired tasks that it
\* meets (skip_locked, and its own clock reading).  A task queued again stays
\* assigned to the Runner that lost it.
ExpiredTasks == {t \in Tasks : task[t].status = "LEASED" /\ task[t].lease = 0}

RecoveredTask(found) ==
    [t \in Tasks |->
        CASE t \in found /\ ~Exhausted(t) -> Requeued(task[t], task[t].runner)
          [] t \in found /\ Exhausted(t) -> Failed(task[t])
          [] OTHER -> task[t]]

RecoveredWait(found) ==
    [t \in Tasks |->
        IF t \in found /\ Exhausted(t) /\ wait[t] = "WAITING" THEN "failed" ELSE wait[t]]

-----------------------------------------------------------------------------
(* Runner leases.                                                           *)

\* RunnerService.heartbeat, with restore_for_runner.  The process hears the
\* answer, or it ended before the heartbeat arrived.
Heartbeat(r, heard) ==
    /\ heard => process[r].result = "none"
    /\ runner' = [runner EXCEPT
            ![r] = [online |-> TRUE, token |-> NoToken, lease |-> RunnerLease]]
    /\ process' = [process EXCEPT ![r].current = heard]
    /\ lostTo' = [i \in Incidents |->
            IF ~runner[r].online /\ lostTo[i] = r THEN NoRunner ELSE lostTo[i]]
    /\ UNCHANGED <<task, wait, verification, sent, acceptedFrom>>

\* RunnerService.authorize.
Authorized(r) == runner[r].online /\ runner[r].lease > 0

\* ObservabilityService.expire_stale_runners, for one Runner: its tasks are freed
\* for every Runner or fail, and their incidents lose their observability.
LeasedTo(r) == {t \in Tasks : task[t].status = "LEASED" /\ task[t].runner = r}

ExpireStaleRunner(r) ==
    LET lost == LeasedTo(r)
    IN  /\ runner[r].online
        /\ runner[r].lease = 0
        /\ runner' = [runner EXCEPT ![r].online = FALSE]
        /\ task' = [t \in Tasks |->
                CASE t \in lost /\ ~Exhausted(t) -> Requeued(task[t], NoRunner)
                  [] t \in lost /\ Exhausted(t) -> Failed(task[t])
                  [] OTHER -> task[t]]
        /\ verification' = VerificationAfterLoss(lost)
        /\ lostTo' = [i \in Incidents |->
                IF lostTo[i] = NoRunner /\ \E t \in lost : IncidentOf[t] = i
                THEN r
                ELSE lostTo[i]]
        /\ UNCHANGED <<process, wait, sent, acceptedFrom>>

-----------------------------------------------------------------------------
(* The life of a task in the control plane.                                 *)

\* RunnerTaskService.create, from start_wait or from complete of an action.
Create(t) ==
    /\ task[t].status = "NONE"
    /\ task' = [task EXCEPT ![t].status = "QUEUED", ![t].runner = AssignedTo[t]]
    /\ wait' = IF t \in Observations THEN [wait EXCEPT ![t] = "WAITING"] ELSE wait
    /\ verification' = IF t \in Verifications
                       THEN [verification EXCEPT ![t] = "QUEUED"]
                       ELSE verification
    /\ UNCHANGED <<runner, process, lostTo, sent, acceptedFrom>>

\* PlanService._cancel_runner_tasks: the plan or the step of the task ended.
Cancel(t) ==
    /\ t \notin Verifications
    /\ task[t].status \in {"QUEUED", "LEASED"}
    /\ task' = [task EXCEPT ![t] = Cancelled(@)]
    /\ wait' = IF wait[t] = "WAITING" THEN [wait EXCEPT ![t] = "cancelled"] ELSE wait
    /\ UNCHANGED <<runner, process, verification, lostTo, sent, acceptedFrom>>

\* InvestigationService.transition_run to cancelled ends the wait, whatever became
\* of its task, and the task unless it ended already.
CancelRun(t) ==
    /\ wait[t] = "WAITING"
    /\ wait' = [wait EXCEPT ![t] = "run_cancelled"]
    /\ task' = IF task[t].status \in {"QUEUED", "LEASED"}
               THEN [task EXCEPT ![t] = Cancelled(@)]
               ELSE task
    /\ UNCHANGED <<runner, process, verification, lostTo, sent, acceptedFrom>>

\* RunnerTaskService.list, and a claim that finds nothing to hand out, recover the
\* expired tasks and commit.
Recover(found) ==
    /\ task' = RecoveredTask(found)
    /\ wait' = RecoveredWait(found)
    /\ verification' = VerificationAfterLoss(found)

ListTasks(found) ==
    /\ found # {}
    /\ Recover(found)
    /\ UNCHANGED <<runner, process, lostTo, sent, acceptedFrom>>

\* The Runner's process between two jobs, with a token the control plane knows.
MayClaim(r) ==
    /\ Authorized(r)
    /\ process[r].current
    /\ process[r].task = NoTask

\* Mutants of Active and Candidates: a lapsed lease does not count as a lease; a
\* failed task is handed out again.
ActiveUnexpired(rows, r) ==
    {t \in Tasks : rows[t].status = "LEASED" /\ rows[t].runner = r /\ rows[t].lease > 0}
CandidatesFailed(rows, r) ==
    {t \in Tasks : rows[t].status \in {"QUEUED", "FAILED"} /\ rows[t].runner \in {NoRunner, r}}

Active(rows, r) == {t \in Tasks : rows[t].status = "LEASED" /\ rows[t].runner = r}
Candidates(rows, r) ==
    {t \in Tasks : rows[t].status = "QUEUED" /\ rows[t].runner \in {NoRunner, r}}

\* The claim's answer reaches the process, or the process ends on the error.
Started(r, t, row, heard) ==
    IF heard
    THEN [process EXCEPT ![r] = [@ EXCEPT !.task = t, !.token = row.token,
                                          !.attempt = row.attempt]]
    ELSE [process EXCEPT ![r] = Down]

\* RunnerTaskService.claim: recover, then hand out the task the Runner already
\* has a lease of, as it is, or else lease it a queued one.
ClaimActive(r, found, heard) ==
    /\ MayClaim(r)
    /\ Recover(found)
    /\ \E t \in Active(RecoveredTask(found), r) :
        process' = Started(r, t, task[t], heard)
    /\ UNCHANGED <<runner, lostTo, sent, acceptedFrom>>

ClaimQueued(r, found, heard) ==
    LET rows == RecoveredTask(found)
    IN  /\ MayClaim(r)
        /\ Active(rows, r) = {}
        /\ \E t \in Candidates(rows, r) :
            LET attempt == rows[t].attempt + 1
                token == IF runner[r].token[t] = 0 THEN attempt ELSE runner[r].token[t]
                leased == [status |-> "LEASED", runner |-> r, token |-> token,
                           lease |-> TaskLease, attempt |-> attempt]
            IN  /\ task' = [rows EXCEPT ![t] = leased]
                /\ runner' = [runner EXCEPT ![r].token[t] = token]
                /\ verification' = [VerificationAfterLoss(found) EXCEPT
                                        ![t] = IF @ = "QUEUED" THEN "RUNNING" ELSE @]
                /\ process' = Started(r, t, leased, heard)
        /\ wait' = RecoveredWait(found)
        /\ UNCHANGED <<lostTo, sent, acceptedFrom>>

\* Mutant of OwnsLease: the fencing token is not compared.
OwnsLeaseUnfenced(r, t, token) ==
    /\ Authorized(r)
    /\ task[t].status = "LEASED"
    /\ task[t].runner = r
    /\ task[t].lease > 0

\* RunnerTaskService._leased_task and the check of the lease.
OwnsLease(r, t, token) ==
    /\ Authorized(r)
    /\ task[t].status = "LEASED"
    /\ task[t].runner = r
    /\ task[t].token = token
    /\ task[t].lease > 0

Renew(r) ==
    /\ process[r].task # NoTask
    /\ process[r].result = "none"
    /\ OwnsLease(r, process[r].task, process[r].token)
    /\ task' = [task EXCEPT ![process[r].task].lease = TaskLease]
    /\ UNCHANGED <<runner, process, wait, verification, lostTo, sent, acceptedFrom>>

\* A renewal that is refused as stale ends the job, not the process.
RenewRefused(r) ==
    /\ process[r].task # NoTask
    /\ process[r].result = "none"
    /\ Authorized(r)
    /\ ~OwnsLease(r, process[r].task, process[r].token)
    /\ process' = [process EXCEPT ![r] = [Down EXCEPT !.current = process[r].current]]
    /\ UNCHANGED <<runner, task, wait, verification, lostTo, sent, acceptedFrom>>

\* The connector returned or failed; the process sends its completion once.
Report(r, result) ==
    /\ process[r].task # NoTask
    /\ process[r].result = "none"
    /\ Cardinality(sent) < MaxSent
    /\ sent' = sent \union
            {[runner |-> r, task |-> process[r].task, token |-> process[r].token,
              attempt |-> process[r].attempt, result |-> result]}
    /\ process' = [process EXCEPT ![r].result = result]
    /\ UNCHANGED <<runner, task, wait, verification, lostTo, acceptedFrom>>

\* The process that sent m, if it is still there, hears the answer or ends.
Answered(m, heard) ==
    IF /\ process[m.runner].task = m.task
       /\ process[m.runner].token = m.token
       /\ process[m.runner].result = m.result
    THEN [process EXCEPT ![m.runner] =
            IF heard THEN [Down EXCEPT !.current = process[m.runner].current] ELSE Down]
    ELSE process

\* RunnerTaskService.complete, with finalize_task and resolve_task.
Complete(m, heard) ==
    LET t == m.task
        ended == IF m.result = "succeeded" THEN "SUCCEEDED" ELSE "FAILED"
        retried == t \in Verifications /\ m.result = "failed" /\ ~Exhausted(t)
    IN  /\ OwnsLease(m.runner, t, m.token)
        /\ task' = [task EXCEPT
                ![t] = IF retried
                       THEN Requeued(@, NoRunner)
                       ELSE [@ EXCEPT !.status = ended, !.lease = 0]]
        /\ wait' = IF wait[t] = "WAITING" THEN [wait EXCEPT ![t] = m.result] ELSE wait
        /\ verification' =
                IF t \in Verifications
                THEN [verification EXCEPT
                        ![t] = CASE retried -> "QUEUED"
                                 [] ~retried /\ m.result = "succeeded" -> "PASSED"
                                 [] OTHER -> "FAILED"]
                ELSE verification
        /\ acceptedFrom' = [acceptedFrom EXCEPT ![t] = m.attempt]
        /\ sent' = sent \ {m}
        /\ process' = Answered(m, heard)
        /\ UNCHANGED <<runner, lostTo>>

\* A refusal as stale ends the job; any other refusal ends the process.
CompleteRefused(m, heard) ==
    /\ ~OwnsLease(m.runner, m.task, m.token)
    /\ sent' = sent \ {m}
    /\ process' = Answered(m, heard /\ Authorized(m.runner))
    /\ UNCHANGED <<runner, task, wait, verification, lostTo, acceptedFrom>>

\* The process dies, or ends on an error the protocol does not handle.  Its
\* messages may still be on their way.
Crash(r) ==
    /\ process[r] # Down
    /\ process' = [process EXCEPT ![r] = Down]
    /\ UNCHANGED <<runner, task, wait, verification, lostTo, sent, acceptedFrom>>

-----------------------------------------------------------------------------
\* Mutant of Less: nothing stops at expiry.
LessPastExpiry(lease) == lease - 1

Less(lease) == IF lease > 0 THEN lease - 1 ELSE 0

Tick ==
    /\ \/ \E r \in Runners : runner[r].lease > 0
       \/ \E t \in Tasks : task[t].lease > 0
    /\ runner' = [r \in Runners |-> [runner[r] EXCEPT !.lease = Less(@)]]
    /\ task' = [t \in Tasks |-> [task[t] EXCEPT !.lease = Less(@)]]
    /\ UNCHANGED <<process, wait, verification, lostTo, sent, acceptedFrom>>

ControlPlaneNext ==
    \/ \E t \in Tasks : Create(t) \/ Cancel(t) \/ CancelRun(t)
    \/ \E r \in Runners : ExpireStaleRunner(r)
    \/ \E found \in SUBSET ExpiredTasks : ListTasks(found)

RunnerNext ==
    \/ \E r \in Runners :
        \/ \E heard \in BOOLEAN : Heartbeat(r, heard)
        \/ \E found \in SUBSET ExpiredTasks, heard \in BOOLEAN :
            ClaimActive(r, found, heard) \/ ClaimQueued(r, found, heard)
        \/ Renew(r)
        \/ RenewRefused(r)
        \/ \E result \in Result : Report(r, result)
        \/ Crash(r)
    \/ \E m \in sent, heard \in BOOLEAN : Complete(m, heard) \/ CompleteRefused(m, heard)

Next == ControlPlaneNext \/ RunnerNext \/ Tick

Spec == Init /\ [][Next]_vars

\* Time passes and the observability monitor runs.  A reliable Runner is started
\* again whenever it ends, sends heartbeats, polls, and does not crash in every
\* single job; a message on its way arrives.
Fairness ==
    /\ WF_vars(Tick)
    /\ \A r \in Runners : WF_vars(ExpireStaleRunner(r))
    /\ \A r \in Reliable :
        /\ WF_vars(Heartbeat(r, TRUE))
        /\ SF_vars(\E found \in SUBSET ExpiredTasks :
                        ClaimActive(r, found, TRUE) \/ ClaimQueued(r, found, TRUE))
        /\ SF_vars(MayClaim(r) /\ ListTasks(ExpiredTasks))
        /\ WF_vars(RenewRefused(r))
        /\ SF_vars(\E result \in Result : Report(r, result))
    /\ WF_vars(\E m \in sent : Complete(m, TRUE) \/ CompleteRefused(m, TRUE))

FairSpec == Spec /\ Fairness

-----------------------------------------------------------------------------
(* Safety.                                                                  *)

\* However late its messages arrive and however often it was leased before, a
\* task succeeds by the result of its last attempt: no Runner that lost the lease
\* can complete the task, although the same token serves every lease a Runner
\* takes between two heartbeats, and a restarted process is handed its old one.
ResultIsOfLastAttempt ==
    \A t \in Tasks : task[t].status = "SUCCEEDED" => acceptedFrom[t] = task[t].attempt

\* A task fails for good because its last attempt reported a failure or because
\* it had all its attempts; one of a verification always has all of them.
FailedTaskHadItsAttempts ==
    \A t \in Tasks :
        task[t].status = "FAILED" =>
            \/ task[t].attempt = MaxAttempts[t]
            \/ t \notin Verifications /\ acceptedFrom[t] = task[t].attempt

\* claim hands the same task out again rather than a second one, also to a
\* process that was restarted and does not know what it had leased.
OneLeasePerRunner ==
    \A t, u \in Tasks :
        /\ task[t].status = "LEASED"
        /\ task[u].status = "LEASED"
        /\ task[t].runner = task[u].runner
        => t = u

\* The monitor leaves nothing leased to a Runner it takes offline, and nothing
\* but a heartbeat brings the Runner and its leases back.
LeaseHasOnlineOwner ==
    \A t \in Tasks :
        task[t].status = "LEASED" =>
            task[t].runner \in Runners /\ runner[task[t].runner].online

\* An incident that lost its observability waits for a Runner that is offline;
\* the heartbeat that brings the Runner back brings the incident back with it.
LostIncidentHasOfflineRunner ==
    \A i \in Incidents : lostTo[i] # NoRunner => ~runner[lostTo[i]].online

\* Claims, heartbeats, the monitor and the recovery of expired leases leave the rows
\* of tasks, Runners and incidents in agreement.
LeasesAgree == OneLeasePerRunner /\ LeaseHasOnlineOwner /\ LostIncidentHasOfflineRunner

\* The verification ends with its task and in the same way; before that it may
\* still say RUNNING when its task was queued again, never the other way round.
VerificationFollowsTask ==
    \A t \in Verifications :
        /\ verification[t] = "NONE" <=> task[t].status = "NONE"
        /\ verification[t] = "PASSED" <=> task[t].status = "SUCCEEDED"
        /\ verification[t] = "FAILED" <=> task[t].status = "FAILED"
        /\ task[t].status = "LEASED" => verification[t] = "RUNNING"

\* An investigation that stopped waiting did so because its task ended, with the
\* outcome the task had, or was cancelled; a result that arrives then is refused.
WaitOutcomeIsTaskOutcome ==
    \A t \in Tasks :
        /\ wait[t] = "succeeded" => task[t].status = "SUCCEEDED"
        /\ wait[t] = "failed" => task[t].status = "FAILED"
        /\ wait[t] = "cancelled" => task[t].status = "CANCELLED"
        /\ wait[t] = "run_cancelled" => task[t].status \in {"CANCELLED", "FAILED"}

\* What waits for a task ends with it and as it does.
OutcomesAgree == VerificationFollowsTask /\ WaitOutcomeIsTaskOutcome

-----------------------------------------------------------------------------
(* Liveness.                                                                *)

Ended == {"SUCCEEDED", "FAILED", "CANCELLED"}

\* A submitted task ends, whatever attempts, answers and leases are lost.
EveryTaskEnds ==
    \A t \in Tasks : task[t].status = "QUEUED" ~> task[t].status \in Ended

-----------------------------------------------------------------------------
(* Refinement: what all of this amounts to for one task.                    *)

Stage ==
    [NONE |-> "none", QUEUED |-> "waiting", LEASED |-> "running",
     SUCCEEDED |-> "succeeded", FAILED |-> "failed", CANCELLED |-> "cancelled"]

Lifecycle(t) ==
    INSTANCE TaskLifecycle WITH
        MaxAttempts <- MaxAttempts[t], status <- Stage[task[t].status],
        attempt <- task[t].attempt

\* Claims, completions, the recovery of task leases and the expiry of Runner
\* leases together give every task a bounded sequence of attempts and one end.
ImplementsTaskLifecycle ==
    /\ \A t \in Tasks : Lifecycle(t)!Init
    /\ [][\A t \in Tasks : [Lifecycle(t)!Next]_(Lifecycle(t)!vars)]_vars

-----------------------------------------------------------------------------
(* What the documentation says and the code does not do.                    *)

\* docs/后端Phase5-RAG-ReActAgent故障实验室.md:76: an unreachable Runner ends the
\* observation as failed.  An investigation waits only for a task that can end.
WaitingTaskIsAlive ==
    \A t \in Tasks : wait[t] = "WAITING" => task[t].status \in {"QUEUED", "LEASED"}

\* docs/Runner部署与安全配置.md: after a lease ran out the control plane queues the
\* task again for other Runners.  A task that no Runner was chosen for ends
\* although one Runner is never started again.
TaskOutlivesItsRunner ==
    \A t \in Tasks :
        AssignedTo[t] = NoRunner =>
            (task[t].status = "QUEUED" ~> task[t].status \in Ended)
=============================================================================
