# Verification of OpsPilot AI

OpsPilot AI investigates incidents and repairs them under supervision.  A control
plane (`src/backend/app`, FastAPI over PostgreSQL) keeps all state in rows; Runners
(`src/runner`) are processes near the managed systems that poll it, perform read-only
tasks and approved write actions, and report the results.  The two halves are
coupled by leases, fencing tokens and idempotency keys only.  That coupling decides
whether two repairs can hit one resource at the same time, whether a lost Runner
leaves a repair half done and unnoticed, and whether an investigation ever goes on.
That coupling comes first in this project; around it are modelled the investigation
itself, what authorises a change, and the services that keep the control plane running.
Everything is checked with TLC, and nearly all of its safety is proved with TLAPS.

## 1. Inventory

All handlers run in one database transaction per request.  `commit_session` only
flushes inside a request; the middleware commits a response below 400 and rolls
everything else back (`core/auth_middleware.py:140-147`), so a refused request leaves
no trace, not even of the expired rows it recovered on its way.

| Component | State | Operations | Talks to | Hard behaviour |
|---|---|---|---|---|
| Action Requests (`services/actions.py`) | request status, version, idempotency fingerprint | create, cancel | authorisation, locks | cancel against dispatch; authorisation consumed once |
| Resource locks (`services/resource_locks.py`) | one row per resource: owner, token, expiry, released, reconciliation flag | acquire, renew, release, takeover | action requests, dispatcher | takeover after expiry, freeze, token monotonicity |
| Action dispatcher (`services/action_dispatcher.py`, `control_plane_recovery.py`) | execution row: status, Runner, tokens, lease, last completion | dispatch, claim, renew, complete, recover_expired, reconcile | locks, Runners, verification | lost answers, late and repeated completions, expiry against claim and complete |
| Verification (`services/action_verifications.py`) | verification row | create, mark_running, finalize_task | tasks, actions, locks | retries, what an unverified effect does to the lock |
| Runner tasks (`services/runner_tasks.py`) | task row: status, Runner, token, lease, attempt | create, claim, renew, complete, list with recovery | Runners, verification, waits, plans | attempts at their limit, reassignment, stale tokens |
| Runners, observability (`services/runners.py`, `observability.py`) | Runner status, lease and fencing token, access tokens, incidents without observability | register, heartbeat, authorize, expire_stale_runners, restore | tasks, incidents | monitor against heartbeat against claim; token rotation with a lost answer |
| Observation waits (`services/investigation_observations.py`) | wait row | start_wait, resolve_task | tasks, investigation runs | a task that ends without ending the wait |
| Runner process (`runner/opspilot_runner/client.py`) | credentials, token, one job | run_forever, execute, renew, complete | control plane | crash at any point, timeouts, retries |
| Compensation (`services/compensations.py`) | compensation request and execution | create, decide, dispatch, claim, renew, complete, escalate | actions, locks | same as the dispatcher; unreachable for new actions at present |
| Policies, approvals, proposals | rules, decision snapshots, approvals, proposals | evaluate, revalidate, decide, consume | action requests, locks | expiry between check and use, one-time use |
| Investigation runs, checkpoints, human waits (`services/agent_runtime.py`, `investigations.py`, `investigation_hitl.py`) | run status, version, runtime owner and lease, checkpoints, waits | create, claim, renew, checkpoint, start_wait, resolve, transition | model providers, tasks, plans | rows read before they are locked, lease lost during a model call, resume without repeating nodes |
| Incidents, alerts (`services/alerts.py`, `incidents.py`) | incident status and version, alert rows | ingest, correlate, create, transition | webhooks, operators | two webhooks at once, an operator who closes while an alert joins |
| Plans, hypotheses, evidence (`services/plans.py`, `hypotheses.py`) | versions, steps, lists of evidence | create, transition, update | tasks, agent | stale copies, replacing a plan under an agent's hands |
| Outbox publisher (`services/outbox.py`, `routes/outbox.py`) | event rows: published, dead-lettered, attempts, next attempt | publish batch, retry, dead-letter, replay, delete | webhook, administrators | crash between publish and commit, lost answers, attempt limit, several publishers |
| Event stream (`services/events.py`, `routes/events.py`) | sequence numbers, cursor of the incident, timeline, cursor of each client | record, read incident, stream | every handler, clients | numbers drawn in one order and committed in another, snapshot against stream |
| Runner connectors (`runner/opspilot_runner/registry.py`, `reliability.py`) | circuit breaker, in-flight probe, deadline | execute with retries | managed systems | half-open probe, cancellation |
| Control plane mode, worker health (`core/control_plane_mode.py`, `worker_health.py`) | mode, retry task, state of each worker | recover, retry, run_monitored, shutdown | all writers | scans that fail, overlap or are cut by a restart; beats and cancellation |
| Authentication, sessions (`services/security.py`) | principals, token hashes, sessions, the setup | bootstrap, create, rotate, deactivate, login, refresh, logout | every request | requests between their authentication and their commit |
| Audit archive, backups (`services/audit_archiving.py`, `operations/database_backup.py`) | audit rows, batches, files; dump, manifest | archive; create, verify, restore | file system, PostgreSQL | crash and failure between any two steps, concurrent commands |
| Demo data, fault lab (`services/demo.py`, `lab/opspilot_lab`) | installation and generation; active scenarios, replays | initialize, cleanup; inject, cleanup | operators, faulty services | retries after a lost answer, calls that have their effect late |
| Model providers, storage, HTTP routing, dashboard, evaluation, frontend | none of their own that matters here | | | not modelled, see section 6 |

What makes them correct:

* write path: at most one live execution per resource; a token names one grant; the
  resource stays frozen from the moment an effect may exist until it is verified or
  reconciled, and not longer; late or repeated completions change nothing; a
  dispatched action comes to an outcome;
* read path: a task is done under one lease at a time and ends by its last attempt;
  nothing is leased to an offline Runner; waits and verifications end with their task;
  every task ends;
* events: every event is delivered at least once or is dead-lettered for a reason, and
  none waits for ever; no two publishers work on one event; the cursor of an incident is
  its newest committed event; no client misses an event that is stored;
* investigation: a run's checkpoints follow its graph through crashes and takeovers, its
  budget is not overdrawn, it comes to rest, and a resolved wait is picked up;
* authority: an authorisation is used once, by consent of somebody else where it needs
  it, and under the rules of the moment; a failed change keeps its resource until it is
  put right; no alert is overlooked; plans and findings survive stale copies;
* platform: a Runner never loses its way in by lost answers, sessions end with their
  principal, one Admin remains, nothing is written before the recovery, workers are
  watched, no audit row is lost, a restore loads whole dumps only.

## 2. Modules

| Module | What it is |
|---|---|
| `ActionEngine` | write path: requests, locks, dispatcher, Runner jobs, verification and its effect on the lock |
| `ResourceExclusion` | abstract specification of one resource, implemented by `ActionEngine` |
| `RunnerTasks` | read path: tasks, Runner leases and heartbeats, monitor, waits, verifications, Runner processes, messages |
| `TaskLifecycle` | abstract specification of one task, implemented by `RunnerTasks` and by the task that `ActionEngine` abstracts |
| `OutboxDelivery` | publisher: batches, sink, retries, dead letters, replay, retention, crashes |
| `EventDelivery` | abstract specification of the delivery of one event, implemented by `OutboxDelivery` |
| `EventStream` | recording of an incident's events statement by statement, its cursor, clients that follow it |
| `InvestigationRuntime` | agent workers, runs, graph, checkpoints, human and observation waits |
| `Authorization` | policy rules, decision snapshots, approvals, proposals, creation of Action Requests |
| `Compensation` | undoing an action whose verification failed, under its frozen lock |
| `IncidentLifecycle`, `IncidentIntake` | statuses of an incident; alerts that become incidents while operators move them |
| `Planning`, `Hypotheses` | plans with their steps, hypotheses with their evidence, and agents with stale copies |
| `RunnerTokens` | rotation of a Runner's access token with lost answers and restarts |
| `Access` | principals, browser sessions, bootstrap |
| `ControlPlane`, `WorkerHealth` | recovery scans and read-only mode; background workers and their shutdown |
| `AuditArchive`, `Backups` | archival of audit rows; create, verify and restore of backups |
| `Connectors` | circuit breaker, retries and deadline of one connector |
| `DemoData`, `FaultLab` | demo installation; controller of the fault lab |
| `MCActionEngine`, `MCRunnerTasks`, `MCOutboxDelivery`, `MCEventStream`, `MCInvestigationRuntime` | instances of one component for TLC |
| `MCAuthority`, `MCPlatform` | several components in one run, see section 3 |
| `ActionEngineProofs` | types, row agreement, outcomes, freezing, fencing and mutual exclusion of `ActionEngine`, and its refinement of `TaskLifecycle` and `ResourceExclusion` |
| `InvestigationProofs` | the path, the budget and the waits of `InvestigationRuntime` |
| `ResourceExclusionProofs` | safety of the abstract specification |
| `RunnerTasksProofs` | types, leases, outcomes, fencing and attempts of `RunnerTasks`, and its refinement of `TaskLifecycle` |
| `OutboxDeliveryProofs` | safety of `OutboxDelivery` and its refinement of `EventDelivery` |
| `EventStreamProofs` | the cursor of `EventStream`; completeness under locking |
| `AuthorityProofs` | the safety of `Authorization`, `Compensation`, `IncidentIntake`, `Planning` and `Hypotheses` |
| `PlatformProofs` | the safety of `RunnerTokens`, `Access`, `ControlPlane`, `WorkerHealth`, `AuditArchive`, `Connectors`, `DemoData`, `Backups` and `FaultLab` |

`ActionEngine` and `RunnerTasks` meet in the verification task.  `ActionEngine` lets a
verification task be claimed, passed, failed or lost at any time; `RunnerTasks` says
when each of these can happen.  `TaskLifecycle` is the contract between them: both
refine it (`ImplementsTaskLifecycle` in each).  `EventStream` and `OutboxDelivery` look at
the same rows of the outbox from two sides: the first says when a row is committed and
who reads it, the second what the publisher does with it and when it is deleted.  A row
may vanish at any time in `EventStream` (`Delete`) and appear at any time in
`OutboxDelivery` (`Record`), which covers whatever the other does.

`InvestigationRuntime` meets `RunnerTasks` in the observation wait: here `ResolveTask` ends
it at any time, there `WaitOutcomeIsTaskOutcome` says with what.  It meets `Authorization`
in the proposal: `DecideApproval` resolves the human wait here, and
`ProposalFollowsApproval` says there that the proposal waits exactly as long as its
approval is pending.  `AcquireLock` of `Authorization` is the check inside the action of
that name in `ActionEngine`.  `Compensation` takes over where `ActionEngine` leaves an
action whose verification failed and whose lock is frozen.  `IncidentIntake` and
`Planning` see the status of an incident (`IncidentLifecycle`) as any sequence of allowed
transitions.  Each of these modules lets the others do whatever they may at any time,
so what holds of it holds beside them.

### ActionEngine and the code

| Variable | Code |
|---|---|
| `action` | `ActionRequestRecord.status` |
| `execution` | `ActionExecutionRecord`: status, runner, `resource_fencing_token`, lease, order of creation, whether `last_completion_id` is set |
| `lock` | `ResourceLockRecord`: owner, fencing token, lease, `released_at`, `reconciliation_required` (`frozen`) |
| `verification`, `task` | `ActionVerificationRecord`, the status and attempt of its task |
| `job` | what `RunnerClient._execute_action` is doing for the action |
| `online` | Runners that `RunnerService.authorize` lets in |

`Create`, `Cancel`, `AcquireLock`, `RenewLock`, `ReleaseLock`, `Dispatch`, `Claim`,
`Renew`, `Complete`, `Reconcile` and `RecoveryScan` are the handlers of that name;
`ClaimNothing` is a claim that recovers and finds no work; `JobEnds`, `JobAbandoned`
and `CompletionReplayed` are the Runner's side.  Each is a whole transaction with the
recovery it starts with.  `found` is the set of expired executions a recovery meets:
the query skips locked rows and reads the clock on its own, so any subset is possible.
`heard = FALSE` is an answer that is lost after the commit.

The execution's own `execution_fencing_token` is always 1 (`models.py:471`) and is left
out.  An
idempotent create and a replayed dispatch return the existing row and change nothing.
The operator's `Reconcile` may state either outcome.

### RunnerTasks and the code

| Variable | Code |
|---|---|
| `runner` | `RunnerRecord.status`, `RunnerLeaseRecord`: fencing token and expiry |
| `process` | what the Runner process knows: whether it has the token of now, its job and that job's token |
| `task` | `RunnerTaskRecord`: status, runner, `task_fencing_token`, lease, attempt |
| `wait`, `verification` | rows that depend on the task |
| `lostTo` | `observability_runner_id` of incidents in OBSERVABILITY_LOST |
| `sent` | completions on their way, which may arrive after their process died |
| `acceptedFrom` | history variable: the attempt whose completion was accepted |

Fencing tokens are compared for equality only.  Every heartbeat gives the Runner a new
one, and all leases it takes until the next carry it; the model names a token by the
first attempt of the task that it served, which keeps the state space finite without
bounding the number of heartbeats.  `Create`, `ClaimActive`, `ClaimQueued`, `Renew`,
`Complete`, `ListTasks`, `Heartbeat`, `ExpireStaleRunner`, `Cancel` and `CancelRun` are
handlers; `Report`, `RenewRefused`, `CompleteRefused` and `Crash` are the process.
The monitor expires Runners one by one here; in the code one transaction may expire
several, which is the same as several steps with nothing in between.

### OutboxDelivery and the code

| Variable | Code |
|---|---|
| `row` | `OutboxEventRecord`, committed: `published_at`, `dead_lettered_at` and their absence as `status`; `publish_attempts`; `due` when `next_attempt_at` has passed |
| `batch` | the open transaction of `OutboxPublisher.run_once`: the rows it holds `FOR UPDATE` and what it has noted of each |
| `received` | events that the sink has got, whether or not its answer arrived |
| `refused` | history variable: permanent errors since the last replay |

`run_once` is one transaction around many HTTP calls, so it is split: `Select` is
`pending_for_publish` with its row locks, `Publish` one call and its bookkeeping,
`Commit` the retention and the commit, and `Crash` everything that ends the transaction
otherwise.  The four values of `Answer` are what `WebhookOutboxSink.publish`
distinguishes, with a timeout in its two meanings: the event arrived or it did not.
`expired` in `Commit` is any set of published rows, since the model has no retention
clock.  The log sink is the webhook that always accepts.

### EventStream and the code

| Variable | Code |
|---|---|
| `sequence` | the database's sequence behind `OutboxEventRecord.sequence` |
| `writer` | the open transaction of each handler: whether it read the incident `FOR UPDATE`, whether it has updated `event_cursor` and to what, and the events it inserted |
| `stored`, `timeline` | committed rows of `outbox_events` and `incident_events` |
| `cursor` | `IncidentRecord.event_cursor`, committed |
| `reader` | a client: its `Last-Event-ID` and the events it knows |

`Lock` is `IncidentRepository.get(for_update=True)`; `Record` the two inserts of
`EventRecorder.record`; `Advance` its `UPDATE`; then `Commit` or `Rollback`.  The locks
are PostgreSQL's: an insert takes `FOR KEY SHARE` on the incident by its foreign key,
which excludes `FOR UPDATE` and nothing else, and the `UPDATE` of the cursor excludes
other updates until the commit.  The insert into the timeline comes first, so the number
is drawn when that lock is held.  A client reads the row of the incident
(`OpenIncident`), then, in a later statement, its timeline (`ReadTimeline`), and follows
the stream page by page (`Receive`); it may be cut off after any event and go on from
there, or read the incident anew.  The truncation of long timelines
(`INCIDENT_DETAIL_TIMELINE_LIMIT`) is left out.

### InvestigationRuntime and the code

| Variable | Code |
|---|---|
| `run` | `InvestigationRunRecord`: status, graph version, sequence, counters and budget, runtime owner, whether its lease has expired |
| `last`, `done` | the newest checkpoint row and the `<<node, iteration>>` pairs that have one |
| `hitl`, `obs`, `proposal` | wait rows and the proposal of each iteration |
| `worker` | what the loop of a control plane process does, with the row it has read (`seen`) |
| `spent` | history variable: provider requests really made |

One transaction is one step, except `_write_checkpoint` and `_finish`: they read the run
without a lock and lock it afterwards, and SQLAlchemy's identity map keeps the attributes
of the first read (no statement sets `populate_existing`).  So `ReadRun` and
`WriteCheckpoint`, `ReadForFinish` and `Finish` are two steps, and the second compares
the row with what the first saw.  The same reading of the session explains the split
steps of `Authorization` (`ReadRules`, then `Evaluate`), `IncidentIntake` (`FindNone`, then
`Open`) and `Access` (`Start...`, then `Commit...` or `Finish...`).  `MaxFaults` bounds
crashes, expired leases and outside transitions together.

### The other components

Their variables are the rows of the tables, or the fields of the objects, that their
comments name, and every action is one handler, one transaction, or one statement where
something can happen in between:

* `Authorization`: `reading` is an evaluation between its unlocked read of the rules and
  the lock of the one that matched.  `MoveWindow`, `ApprovalLapses` are time.  Capabilities,
  parameters and rules are small sets; `Contents` has an open rule with a limit, one with
  approval, a forbidding one of a higher priority, and one with a window and a limit.
* `Compensation`: `Complete` may be sent at any time, by every Runner that was ever told
  the tokens (`claimed`), with every completion id, which is what late, lost and
  repeated messages come to.
* `IncidentIntake`: `views` is what an operator last saw, and carries the version that the
  request compares.  `Planning.loaded` and `Hypotheses.held` are stale copies likewise.
* `RunnerTokens`: `file` is the credential file, `sent` the heartbeats on their way, of
  which any may be handled next, after later ones too.
* `Access`: `flight` holds the requests that have authenticated and not committed.
* `ControlPlane`: `caller` is where each caller of `recover` is: the start, the retry task,
  an Admin.  `unhandled` is what the newest scan found and has not recovered.
* `WorkerHealth`, `Connectors`: time in ticks; a tick is late by at most `Lag`, or one.
* `AuditArchive`, `Backups`: every statement that touches a file or commits is an action,
  and `Die`, `KillCreate`, `FailCreate` may come between any two.
* `DemoData`: `seen` is the generation that a client has last seen.
* `FaultLab`: `givenUp` are calls that may have their effect after the controller gave
  them up; `Stop` forgets what a process forgets.

### Time

Leases are counters of the ticks they still have, and one tick lowers them all.  Every
comparison of the code (`expires_at <= now`) is `lease = 0`.  Only order matters to the
properties; which lease is longer is a parameter.  Where only whether a lease has expired
is read (`InvestigationRuntime`, `Compensation`, `Authorization`), expiry is an event.

## 3. Runs

| Run | Result | Shows |
|---|---|---|
| `action_safety` | pass | three actions, one resource, one Runner: mutual exclusion, fencing, freezing and agreement of the rows of the write path; that it implements `ResourceExclusion` and `TaskLifecycle` |
| `action_liveness` | pass | a dispatched action settles when its resource is its own |
| `unknown_freeze` | violation | an UNKNOWN action without a frozen resource |
| `task_safety` | pass | two tasks, two Runners: fencing, attempts, leases, waits, verifications, refinement of `TaskLifecycle` |
| `task_liveness` | pass | an observation and a verification that compete for one Runner both end |
| `outbox` | pass | two publishers, two events, every answer of the sink, a crash, a replay: delivery, dead letters, refinement of `EventDelivery`, and that every event settles |
| `stream` | pass | three handlers, one of which locks the incident, and one client: the cursor, and that the client gets what is ahead of its own |
| `missed_event` | violation | a client whose cursor passed an event it never got |
| `recovery` | pass | two workers crash and take a run over from each other: it comes to rest, and a resolved wait is picked up |
| `two_active_runs` | violation | a run that was cancelled is paused again, beside its successor |
| `authority` | pass | from an alert to an authorised change and its undoing: intake, hypotheses, plans, authorisation, compensation, and the safety of the investigation |
| `platform` | pass | Runner tokens, principals and sessions, recovery, worker health, archival, connectors, demo data, backups, fault lab |

`MCAuthority` and `MCPlatform` extend the modules of several components that share no
variable.  A behaviour picks one of them and leaves the others at their initial values,
so the run explores the sum of the state spaces and not their product, which would show
nothing more.  A property of such a run groups the properties of one component, under a
name that says what they amount to (`RunIsConsistent`, `ActionsStayAuthorized`,
`SessionsEnd`, ...); the parts are defined and explained above it, one by one.

Bounds.  Three actions are the smallest number with a holder, a competitor that takes
over and a third that meets what both left behind; a fencing token up to 3 lets each
of them be granted the resource in turn (`MaxToken` appears in the guard of takeover
only).  Actions on different resources share nothing but the Runner, which
`action_liveness` covers with two resources.  A lock lease longer than the execution
lease and one of the same length are both explored; the theorems cover all lengths.
Two attempts reach both sides of every attempt limit, and observations have one, the
default of `observation_specs.py`.  Two tasks and two Runners let one Runner hold a
stale lease while another works, and let a Runner have two tasks.  `MaxSent = 1` in
`task_safety` means one completion on its way at a time; the theorems hold for any
number.  In `outbox` a batch is one event of two, so that an event that fails again and
again can stand before another; the theorems hold for every size.  One crash and one
replay (`MaxCrashes`, `MaxReplays`) bound what would otherwise repeat for ever; they are
in the guards of `Crash` and `Replay` only.  In `stream` four numbers let three handlers
draw and commit in any order with one of them recording twice, and pages of one event
make every page boundary happen.

In `recovery` one iteration of the graph is enough for every wait, and with two workers a
checkpoint is found already written (`KnownCheckpoint`); `authority` has two iterations, so
that the edge from one to the next, both limits and a second wait occur.  One fault
(`MaxFaults`) is a crash or an expired lease at any point of the walk, after which the
other worker goes on; the graph is walked from any node in both orders.  Two
decisions, two actions and two people in `authority` are what four eyes, one-time use and a
limit of one need; a rule change may fall between any two steps.  The instance has one rule,
whose contents may change; the theorem `ActionsAreAuthorized` is about any number.  Two
targets on one resource let a compensation meet the next owner.  Two alerts and two
incidents let two webhooks open an incident each; versions up to 3 let an operator be
stale.  Two plans of two steps have every dependency there is between two steps, and a
plan to replace.  In `platform` four tokens and four heartbeats let a rotation be lost
twice and a heartbeat overtake another; two principals can deactivate each other; two
Admins, the start and the retry task are four callers of one lock; three jobs over four
rows in batches of two overlap in every way; two creators and two restorers meet at one
file and one target.

### What the violations mean

1. `unknown_freeze`.  `ResourceLockService.acquire` hands an expired lock over without
   recovering its owner's execution first; only `dispatch` recovers.  If execution and
   lock expire together, another action takes the resource, and the recovery that
   comes later finds no lock of the unknown action to freeze.  The mutual exclusion of
   live executions is not affected (it is proved below); the promise that an unknown
   effect keeps the resource closed is.
2. `missed_event`.  Two handlers that read the incident without `FOR UPDATE` (the claim
   and completion of tasks, every event of the dispatcher) may record events of one
   incident at the same time.  Numbers 1 and 2 are drawn, 2 is committed, a client reads
   the cursor 2, 1 is committed: the stream after 2 never returns it.  That locking
   the incident is enough is proved (`LockedStreamComplete`).  A client that reads the
   incident anew finds the event in its timeline.
3. `two_active_runs`.  A worker reads a run, the run is cancelled and another one is
   created, the worker locks the row and compares the version it has read with itself,
   and pauses the cancelled run.

### Known disagreements that have no run

The modules have these behaviours too.  Where a definition is named, it states what the
documentation says, and a cfg of the component with that definition as its property
shows the counterexample:

* `ActionEngine.TimedOutActionIsUnknown`: the Runner turns the timeout of an action into an
  ordinary failure; the lock is released and nobody reconciles.
* `ActionEngine.DispatchedActionSettles` under `OneResource`: an execution waiting to be
  claimed has no lease.  When its lock lapses and is taken over, every claim is refused,
  and because it is the oldest one its Runner gets no other action either.
* `RunnerTasks.WaitingTaskIsAlive`: the expiry of a Runner fails an exhausted task without
  ending the wait, unlike the expiry of the task's own lease.
* `RunnerTasks.TaskOutlivesItsRunner`: the expiry of a task's lease keeps `runner_id`, so the
  task is offered to the lost Runner only.  With every Runner reliable it ends.
* `ControlPlane.ReadOnlyIsRetried`: only a failed scan at the start leaves a retry task.  One
  that an Admin asked for and that fails leaves the process read-only until somebody asks
  again.  The background workers and Runners' completions go on in that mode.
* `InvestigationRuntime`: a wait that is resolved makes the run forget the action its
  checkpoint decided on, so a run told to stop goes on after the wait
  (`CheckpointsFollowEdges` excepts it).
* `Authorization.CreationAsksCurrentRules`: the creation of an action evaluates again only
  the rule that its decision names (`policies.py:272`).  When an Admin creates or enables a
  denying rule that comes before it, the first match denies and the action is created all
  the same, although `docs/后端Phase4-Policy审批与ActionEngine.md:94` says that an old snapshot
  cannot get past a denial.  It goes no further: the lock of the resource is acquired under
  the first match of that moment, which is part of `RevocationStops`.  It takes two rules.
* `Compensation`: `validate_rollback_capability` (`actions.py:286-301`) accepts no rollback
  capability, so no new action can be compensated; the Runner process has no client for
  compensations; and a compensation that is rejected, escalated or unknown leaves the
  lock frozen with no request that lifts it.
* `IncidentIntake`: two webhooks that find no active incident open one each for one
  resource (`alerts.py:161`), and an alert that keeps firing after its incident was closed
  stays attached to it.
* `Planning`: `create` locks the incident and then the plan, `transition_step` the step with
  its plan and then the incident (`plans.py:148`); two that meet deadlock, and the database
  aborts one.
* `Access`: a session refreshed while its principal's token is rotated or the principal is
  deactivated survives it (`docs/控制面认证与RBAC.md:87` and `:99` say at once), which is why
  `SurvivorOverlapped` excepts it.  An Admin whose token has expired can be deactivated as
  the last one.
* `RunnerTokens`: a heartbeat that the Runner gave up and that is handled after a later one
  rotates the token away from under it (`overtaken`), and a registration whose answer is
  lost leaves a name that no later registration can take.
* `WorkerHealth`: `run_monitored` loses a cancellation when the operation ends by an error of
  its own (`worker_health.py:107`), and an operation that hangs counts as healthy, since it is
  the wrapper that beats.
* `Backups`: two create commands with one output overwrite each other, although
  `docs/备份恢复与审计归档.md:13` says that an existing file is refused: the check comes
  before the dump, the rename after it.

`Settings` bounds the lock lease and the execution lease independently (`config.py:66`),
while `LiveExecutionOwnsLock` and `MutualExclusion` need
`ExecutionLease <= ResourceLockLease`; the defaults satisfy it.

### Fairness

* `Tick`: time passes.
* `RunnerBack`, `Heartbeat` of a reliable Runner: a supervisor restarts the process
  (`docs/Runner部署与安全配置.md:268-269`), which starts with a heartbeat.  Runners
  outside `Reliable` owe nothing.
* `Claim`, `ClaimNothing`, `ClaimQueued` strongly: the loop polls for ever, and is only
  interrupted by jobs and restarts, each of which ends.
* `JobEnds`, `Report`: connectors run under a timeout.  For `RunnerTasks` it is strong:
  the process does not die in every single job.
* `Complete` or its refusal: the client gives up after three sends, a message arrives.
* `ExpireStaleRunner`: the monitor runs every `observability_monitor_interval_seconds`.
* `Due`, `Select`, `Publish`, `Commit` of the outbox: time passes, `run_outbox_publisher`
  repeats for ever, and the sink answers within the timeout of its client.  Crashes are
  allowed but bounded: a publisher that dies in every batch delivers nothing.
* `ReadTimeline`, `Receive`: the server polls for every open stream, and a client that
  began to read goes on.  Handlers are not fair: they may stay open or roll back.
* `WorkerStep` of `InvestigationRuntime`: the loop of a control plane process goes on, or
  the process is started again; a lease that nobody renews runs out.  Nobody has to
  decide or to resolve a wait.
* None for operators: nobody has to create, cancel, lock or reconcile anything, and
  none for `RecoveryScan`, which runs at startup only.

## 4. Proofs

`Spec => []TypeOK` and `Spec => []RowsAgree` (`ActionEngineProofs`): `RowsAgree` is
inductive together with `TypeOK`; the lemmas `LockRows`, `ExecutionRows`, `TaskRows`
type the row operators, `RecoveredTypes` the recovery that four handlers begin with, and
`RowsStep` has one step per action.  In the same module:

* `LateCompletionsIgnored`: `ReportedFor` says that only a running execution has a lease, so
  that time does not touch a settled one, and that none is completed before a Runner
  reported its outcome.
* `TasksOfActionsImplementLifecycle`: `TaskHasAttempts` says that an action has a task only
  once its effect was applied, and that a queued task has an attempt left.

In the same module, about the locks:

* `UnverifiedEffectStaysFrozen`: a frozen lock cannot be taken over, and neither
  recovery nor a tick thaws it; only the settling of its owner does.  Needs `TypeOK`
  and `RowsAgree`, to know that the owner of a frozen lock that is verifying has no
  running execution that could release it.
* `TokensUnique`: not inductive as it stands.  The strengthening `TokensBounded` says
  that no execution has a token above its resource's, so a new grant is above all of
  them, and that an execution whose token is the lock's belongs to the lock's owner.
* `LiveExecutionOwnsLock`, `MutualExclusion`: under
  `ExecutionLease <= ResourceLockLease` the lock of a live execution lasts at least as
  long as the execution.  A takeover needs a released, or expired, lock, so it cannot
  happen to a live execution.  Exclusion follows: two live executions on one resource
  would both own its one row.
* `FreezesAreOrderly`: `FrozenForItsOwner` adds that a frozen row is that of its owner's
  resource; without it an owner could be settled and its row be overlooked.
* `ActionsImplementExclusion`: one lemma for each kind of change to a lock row (`RowKept`,
  `RowGranted`, `RowLeft`, ...) names the abstract step; `NoWriter` shows that a row which is
  released, expired or owned by an action that does not run has no writer; and one step per
  action says which kind it is.  It needs the order of the two leases: without it a lock
  lapses, and is granted again, under a live writer.  `ActionsImplementAbstractions`
  combines it with the life of the tasks.

The assumptions are those of `ActionEngine` (`IdentityAssumption`, `LeaseAssumption`)
and, where stated, the order of the two leases; TLC checks the former on every run.

`ResourceExclusionProofs`: the abstract specification keeps its types and lets only
the holder of an unexpired grant write.

`RunnerTasksProofs`, from `IdentityAssumption` and `LeaseAssumption` only:

* `LeasesInAgreement`: a claim leases a task only to a Runner that has none after the
  recovery in the same transaction, and the monitor leaves nothing leased to the Runner it
  takes offline.  `LeaseHasOnlineOwner` and `OneLeasePerRunner` are inductive together.
* `OutcomesInAgreement`: `Agreement` strengthens `OutcomesAgree` by what a queued or leased
  task says of its verification and of its wait.

That a task never takes the result of an attempt it lost (`ResultIsOfLastAttempt`) is not
inductive, because a token serves several leases and so a late completion may carry the
very token of the lease that is current.  `TokenInv` says why it does no harm: tokens are
named by attempts that were started (`TokensStarted`); a process, or a message on its way,
whose token fits the lease of its task belongs to the attempt of that lease
(`AttemptsFit`); and a process that still has the Runner's token of now awaits the answer
to every message it sent under it (`AnswersAwaited`), so it cannot take the next lease
under that token before the message is handled.  `LeaseMoves` reduces the steps that are
no claims to one case.  From `TokenInv`:

* `ResultsAreOfLastAttempts`, `FailuresAreJustified`: `TaskSteps` says what any step does to
  one task, and `AttemptsCounted` that a queued task has an attempt left.
* `TasksImplementLifecycle`: each disjunct of `TaskSteps` is an action of `TaskLifecycle` or
  a stutter.

`InvestigationProofs`, from `RuntimeConstants` only: the limits are natural numbers, there is
a graph, and the workers are finitely many and none is called `"none"`.  `RunIsConsistent` and
`RecoveryFollowsGraph` are not inductive, because a worker that lost its run goes on with
what it read, and its write may be accepted.  Three invariants say why it does no harm:

* `RunsStayOnPath`, `RunsFollowTheirGraph`: in `PathInv` every job has a checkpoint of its own
  (`JobAt`) that lies on the graph.  Either it is the latest checkpoint of the run, or, if
  the job owns the run or its write still fits the row, the run has overtaken it
  (`Passed`): the key it would write exists, or belongs to an iteration the run has left, or
  the job will stop without a write.
  `Forgetful` is about a resumed run, whose worker does not take the last `next_action`
  over: its wait is over, and whoever else owns the run has forgotten it too.  A checkpoint
  that is accepted is thus the next one after the latest, an edge of the graph.
* `CalmRunsRest`: `CalmInv`, while there was no fault.  A run has one active worker, which owns it or
  was cancelled under it; another may at most be about to find its ownership gone
  (`Parting`).  It has one open wait at most, only while it is paused; a paused run has one,
  or its latest checkpoint told it to stop.
* `RequestsStayBounded`: in `BudgetInv` every job keeps what it may still spend without
  recording it (`Due`), and a run that somebody may claim keeps one call (`Opening`).  What was
  spent, and these shares, stay within what is recorded and one call for each fault and
  one more.  A fault pays for the share that a takeover opens.  The sum over the workers is the
  size of a set of calls, so that adding a share needs no induction.
* `RunsAreConsistent` combines them; that the sequence counts the checkpoints is part of the
  path: a checkpoint that is accepted has a key of its own, and the row it was read from.

`AuthorityProofs` and `PlatformProofs` have one part for each component, with an inductive
invariant of its own.  What it adds to the property, and why it has to:

| Theorem | The inductive invariant adds |
|---|---|
| `ActionsAreAuthorized` | `DecisionSound`, `ApprovalSound`, `ActionSound`: nothing refers to a decision that was not made, and an approval that was given stays as it was given, so that what was checked when an action was inserted is true of it for good; `ProposalSound`: a proposal has a decision of its own.  The limit needs a lemma that an insertion adds one to the actions counted under a rule |
| `ResourceStaysKept` | `Chapter`: the few things that an action, its request and its execution can say together, and `Holds`: an action that is not settled holds the frozen lock, so there is one such action at a time |
| `AlertsStayAccountedFor` | `ViewsAreTrue`: every alert that joins an incident raises its version, so a view of the current version shows all of them |
| `PlansStayFollowed` | `WellOrdered`: dependencies point back, and a step that was attempted has its dependencies finished; then the first unfinished step of an active plan can always run |
| `FindingsStayKept` | `CopiesAreTrue`: a client's copy of the current version is a copy of the row, so what it writes back loses nothing |
| `RunnerStaysIn` | `BeatsInTurn`: a heartbeat handled in its turn was sent with the token in the file, because the file changes only when the newest one is answered |
| `SessionsAlwaysEnd`, `AdminsStayInControl` | `LocksExclude`, `RevocationCovers`, `UnmarkedIsCurrent`: what a revocation in flight will not find at its commit overlaps it, and a request that does not overlap has read what is still so; `AdminsAreLeft`: a deactivation holds the lock of the Admins from its check to its commit |
| `RecoveryKept` | `ScanIsThorough`: what the newest scan found is done or lies ahead of it; `NormalWasReached`: no process is normal by accident |
| `WorkersStayWatched` | `BeatsWithTimer`: a beat comes with every timer that is set, and no timer is overdue by more than `Lag` |
| `ArchiveStaysComplete` | `HeldRowsAreThere`, `FilesComeFirst`, `RowsAreDivided`: a job keeps locked what it has chosen, has written it before it deletes it, and the table and the recorded batches divide the rows |
| `BreakerStaysSound` | `QueryKnowsCircuit`: a query under way is the probe of an open circuit and has one attempt, or the circuit has stayed closed |
| `DemoStaysExact` | `InstallationIsCurrent`: the incidents of an installation are of its generation |
| `BackupsStaySound` | `HashedWasWhole`, `VerifiedIsWhole`: what was hashed was whole, and what a restore has verified was since replaced only by what is whole |
| `FaultsStayKnown` | `OneIsInside`: one caller is inside, with a key that was not used; `AnswerIsTrue`, `StartIsClear`: what was answered is in effect or in doubt |

Their assumptions are the named ones of the modules (`AuthorizationConstants`,
`CompensationConstants`, `IntakeConstants`, `PlanningConstants`, `HypothesesConstants`,
`RunnerTokensConstants`, `AccessConstants`, `DemoConstants`, `LabConstants`, ...): that
limits, bounds and durations are natural numbers, that a placeholder for "nobody" is none
of the people, and, in `WorkerConstants`, that a beat and an interval with the lag stay
below the age at which a worker counts as stale, which `Settings` enforces.

Two attempts at a proof failed for a good reason.  `RevocationStops` used to say that no
action is created once the first match denies; TLC had agreed on one rule, the proof asked
for the case of two, and an instance with two gave the counterexample: it is now
`CreationAsksCurrentRules`, and `RevocationStops` says what the code does.
And the guard by which `Connectors.RecordFailure` opened the circuit also reopened one that
was open, which the code does not do (`BreakerIsSound` was true only by accident of the bound).

`OutboxDeliveryProofs` has no assumption but `OutboxAssumption`:

* `OutboxTypes`, `ExclusiveWork`: a batch takes only rows that nobody holds, and only
  pending ones; nobody but its publisher changes a pending row except `Due`.
* `NothingIsLost`, `DeadLettersAreJustified`: not inductive by themselves, because the
  rows change at the commit from what was noted earlier.  `NotesAreTrue` says that what a
  publisher has noted is true of the sink and of the attempts until it commits, and
  `PendingMayBeTried` that a pending event has an attempt left.
* `OutboxDelivers`: every step maps, for every event, to a step of `EventDelivery` or to a
  stutter; the commit is where the notes are needed.

`EventStreamProofs`:

* `CursorNewest`, `CursorMonotone`: `TransactionsOrdered` says that at most one open
  transaction has updated the cursor, and that its value is at least the committed one
  and the newest of the events it would commit.
* `LockedStreamComplete`, under `Locking = Writers`: one transaction at a time, whose
  numbers are above the committed cursor (`EventsAreNewer`); clients stay at or below
  it (`ReadersBehindCursor`); and a page has no gap before its last event
  (`PageIsPrefix`).

Proved for every instance, and no longer checked by a run of its own:
`LiveExecutionHoldsLock`, `WorkIsExclusive`, `DeadLetterHasReason`, `CursorNeverGoesBack`,
and the types of `OutboxDelivery` and `EventStream`.

Only model-checked: the liveness properties (out of the prover's reach), and the claims that
the violations refute.  Every safety property of a passing run is a theorem.

## 5. Plan

The order was: the write path, the read path, the events that every handler writes, the
investigation, what authorises and undoes a change, and the platform around them.  What
would add most next:

1. Two handlers of the read path that overlap on row locks: `leased_for_runner` and
   `active_for_plan` skip rows that another transaction has locked (`observability.py:42`), so
   a Runner may go offline, or a plan end, with a task that was overlooked.
   `RunnerTasks` has whole transactions, and `LeaseHasOnlineOwner` is true of those.
2. Several incidents and several runs in one instance, with the waits of
   `InvestigationRuntime` and the tasks of `RunnerTasks` composed step by step.

## 6. Not modelled

* Contents: evidence, prompts, parameters, redaction, digests, wording, events' payloads.
* Roles: which role may call which route is a function of the request alone; a refused
  request changes nothing.
* Model providers: a call keeps no state in the process but the cooldown of its
  diagnostics; its result, its failure and its cost are inputs of `InvestigationRuntime`.
* Storage: rows and queries appear as state and guards of the modules that use them; SQL,
  indexes and migrations are not modelled.  A database outage makes a request fail, which
  has no effect.
* HTTP routing, schemas, dashboard, catalog, evaluation, frontend: read-only views,
  validation and presentation without protocol state.
* Draining and disabled Runners (no handler sets these states), disconnected capabilities
  (every Runner can do every task of its instance), changes of capabilities and the
  reports of resources.
* What a connector reads, the toy services and the end-to-end script of the lab, the
  parsing of command lines and settings.

## Running

```
tlc -workers 2 -config action_safety.cfg MCActionEngine.tla
tlc -workers 2 -config authority.cfg MCAuthority.tla
tlapm InvestigationProofs.tla
```
