------------------------ MODULE InvestigationRuntime ------------------------
(***************************************************************************)
(* Investigation runs: the control plane's agent workers claim a run under *)
(* a lease, walk its graph node by node, write one checkpoint per node,    *)
(* pause it for a human decision or an observation and are resumed by it.  *)
(*                                                                         *)
(* A database transaction is one step unless it reads a row before it      *)
(* locks it.  _write_checkpoint and _finish do: the ORM session keeps the  *)
(* first, unlocked, read of the run (no statement asks for                 *)
(* populate_existing), so what they check after taking the lock is what    *)
(* they saw before it.  Those two are split at that point.                 *)
(*                                                                         *)
(* Not represented: the version of a run (a request that carries a stale   *)
(* expectedVersion changes nothing; a worker compares the version with     *)
(* the one it has itself just read), tokens, summaries and references.     *)
(***************************************************************************)
EXTENDS Naturals, FiniteSets, Sequences, FiniteSetsExt, SequencesExt

CONSTANTS
    Worker,          \* agent workers, one per control plane process
    MaxRuns,         \* runs 1..MaxRuns of one incident, in creation order
    Graphs,          \* graph versions a run may be created with
    MaxIterations,   \* run.max_iterations
    NoProgressLimit, \* agent_runtime_no_progress_limit
    RequestLimit,    \* run.model_request_limit
    CallLimit,       \* model requests of one provider call
    MaxFaults        \* bound: crashes, expired leases and outside transitions

ASSUME RuntimeConstants ==
    /\ MaxRuns \in Nat \ {0} /\ MaxIterations \in Nat \ {0}
    /\ NoProgressLimit \in Nat \ {0} /\ RequestLimit \in Nat
    /\ CallLimit \in Nat \ {0} /\ MaxFaults \in Nat
    /\ Graphs # {} /\ Graphs \subseteq {"graph-v1", "graph-v2"}
    /\ IsFiniteSet(Worker) /\ "none" \notin Worker

None == "none"
Run == 1..MaxRuns
Iteration == 0..(MaxIterations - 1)
RunStatus == {"queued", "running", "paused", "completed", "failed", "cancelled"}
Terminal == {"completed", "failed", "cancelled"}
WaitStatus == {None, "waiting", "resolved", "cancelled"}
RuntimeAction ==
    {None, "continue", "finish", "pause", "no_progress", "max_iterations"}
Stopping == {"pause", "no_progress", "max_iterations"}

RunAllowed == [queued |-> {"running", "cancelled"},
            running |-> {"paused", "completed", "failed", "cancelled"},
            paused |-> {"running", "failed", "cancelled"},
            completed |-> {}, failed |-> {}, cancelled |-> {}]

GraphV1 == <<"load_incident", "load_topology", "load_recent_changes",
             "classify_complexity", "create_plan", "select_next_step",
             "run_investigator", "assess_evidence", "maybe_replan",
             "escalate_or_finish">>
GraphV2 == <<"load_incident", "load_topology", "load_recent_changes",
             "classify_complexity", "create_plan", "select_next_step",
             "run_investigator", "assess_evidence", "propose_action",
             "maybe_replan", "escalate_or_finish">>
NodesOf(v) == IF v = "graph-v1" THEN GraphV1 ELSE GraphV2
Node == ToSet(GraphV2)
ContextNodes == {"load_incident", "load_topology", "load_recent_changes",
                 "classify_complexity", "create_plan"}
Interrupting == {"run_investigator", "propose_action"}
ModelNodes == {"create_plan", "run_investigator", "assess_evidence",
               "propose_action", "maybe_replan"}
End == "end"

VARIABLES
    run,      \* the rows of investigation_runs
    last,     \* of each run, its latest checkpoint
    done,     \* of each run, the <<node, iteration>> pairs checkpointed
    hitl,     \* HITL waits, one per run and iteration of propose_action
    obs,      \* observation waits, one per run and iteration
    proposal, \* the action proposal of a run's iteration
    worker,   \* what each worker is doing
    spent,    \* model requests really made for a run
    faults    \* faults so far

vars == <<run, last, done, hitl, obs, proposal, worker, spent, faults>>
waits == <<hitl, obs, proposal>>

RunRow == [status: RunStatus \union {None}, graph: Graphs,
           owner: Worker \union {None}, lease: {None, "live", "expired"},
           iteration: Iteration, sequence: Nat, used: Nat]
Checkpoint == [node: Node \union {None}, iteration: Iteration,
               noProgress: Nat, next: RuntimeAction]
HitlRow == [status: WaitStatus, resumed: BOOLEAN]
ObsRow == [status: WaitStatus, resumed: BOOLEAN]
ProposalStatus == {None, "awaiting_approval", "denied", "authorized", "decided"}
Outcome == [next: RuntimeAction, progressed: BOOLEAN, requests: Nat,
            wait: {None, "hitl", "observation"}]
NoOutcome == [next |-> None, progressed |-> TRUE, requests |-> 0, wait |-> None]
Seen == [sequence: Nat, used: Nat, iteration: Iteration]
NoSeen == [sequence |-> 0, used |-> 0, iteration |-> 0]
PC == {"idle", "claimed", "node", "call", "write", "writing", "finish",
       "finishing"}
Job == [pc: PC, run: Run \union {0}, node: Node \union {None, End},
        iteration: Iteration, done: SUBSET (Node \X Iteration), noProgress: Nat,
        next: RuntimeAction, out: Outcome, seen: Seen, target: RunStatus \union {None}]
Idle == [pc |-> "idle", run |-> 0, node |-> None, iteration |-> 0,
         done |-> {}, noProgress |-> 0, next |-> None, out |-> NoOutcome,
         seen |-> NoSeen, target |-> None]

NoRun == [status |-> None, graph |-> CHOOSE v \in Graphs : TRUE, owner |-> None,
          lease |-> None, iteration |-> 0, sequence |-> 0, used |-> 0]
NoWait == [status |-> None, resumed |-> FALSE]

RunInit ==
    /\ run = [r \in Run |-> NoRun]
    /\ last = [r \in Run |-> [node |-> None, iteration |-> 0,
                              noProgress |-> 0, next |-> None]]
    /\ done = [r \in Run |-> {}]
    /\ hitl = [r \in Run |-> [i \in Iteration |-> NoWait]]
    /\ obs = [r \in Run |-> [i \in Iteration |-> NoWait]]
    /\ proposal = [r \in Run |-> [i \in Iteration |-> None]]
    /\ worker = [w \in Worker |-> Idle]
    /\ spent = [r \in Run |-> 0]
    /\ faults = 0

-----------------------------------------------------------------------------
(* Requests of the API *)

ActiveRuns == {r \in Run : run[r].status \in {"queued", "running", "paused"}}

\* create_run locks the incident, so the check for an active run and the insert
\* are one step; a replayed idempotency key returns the existing run.
CreateRun(r, v) ==
    /\ run[r].status = None
    /\ \A s \in 1..(r - 1) : run[s].status # None
    /\ ActiveRuns = {}
    /\ run' = [run EXCEPT ![r].status = "queued", ![r].graph = v]
    /\ UNCHANGED <<last, done, waits, worker, spent, faults>>

CancelledWaits(f) == [i \in Iteration |->
    IF f[i].status = "waiting" THEN [f[i] EXCEPT !.status = "cancelled"]
    ELSE f[i]]

\* What transition_run writes into the row of a run.
Moved(row, target) ==
    [row EXCEPT !.status = target,
        !.owner = IF target \in Terminal \union {"paused"} THEN None ELSE @,
        !.lease = IF target \in Terminal \union {"paused"} THEN None ELSE @]

TransitionRun(r, target) ==
    /\ run[r].status # None /\ target \in RunAllowed[run[r].status]
    /\ run' = [run EXCEPT ![r] = Moved(run[r], target)]
    /\ IF target = "cancelled"
       THEN /\ hitl' = [hitl EXCEPT ![r] = CancelledWaits(hitl[r])]
            /\ obs' = [obs EXCEPT ![r] = CancelledWaits(obs[r])]
       ELSE UNCHANGED <<hitl, obs>>
    /\ UNCHANGED <<last, done, proposal, worker, spent>>

\* The public API only cancels.
CancelRun(r) == TransitionRun(r, "cancelled") /\ UNCHANGED faults

\* The internal API lets the runtime's service principal ask for any target.
RequestTransition(r, target) ==
    /\ target \in {"running", "paused", "failed", "completed"}
    /\ faults < MaxFaults
    /\ TransitionRun(r, target)
    /\ faults' = faults + 1

\* Mutant of Requeued: the wait is resolved and the run stays paused.
StillPaused(row) == row

\* The wait of a decided subject or an ended task is resolved in the deciding
\* transaction; a paused run is queued again.
Requeued(row) ==
    IF row.status = "paused"
    THEN [row EXCEPT !.status = "queued", !.owner = None, !.lease = None]
    ELSE row

DecideApproval(r, i) ==
    /\ proposal[r][i] = "awaiting_approval"
    /\ proposal' = [proposal EXCEPT ![r][i] = "decided"]
    /\ IF hitl[r][i].status = "waiting"
       THEN /\ hitl' = [hitl EXCEPT ![r][i].status = "resolved"]
            /\ run' = [run EXCEPT ![r] = Requeued(run[r])]
       ELSE UNCHANGED <<hitl, run>>
    /\ UNCHANGED <<last, done, obs, worker, spent, faults>>

ResolveTask(r, i) ==
    /\ obs[r][i].status = "waiting"
    /\ obs' = [obs EXCEPT ![r][i].status = "resolved"]
    /\ run' = [run EXCEPT ![r] = Requeued(run[r])]
    /\ UNCHANGED <<last, done, hitl, proposal, worker, spent, faults>>

-----------------------------------------------------------------------------
(* A worker's loop *)

\* Mutant of Claimable: a run whose worker died is not claimed again.
ClaimableQueued == {r \in Run : run[r].status = "queued"}

Claimable == {r \in Run : \/ run[r].status = "queued"
                          \/ run[r].status = "running" /\ run[r].lease # "live"}

\* The wait resolved last, if no claim has resumed it yet.
ResolvedAt(f) == {i \in Iteration : f[i].status = "resolved"}
Resumed(f) == [i \in Iteration |->
    IF ResolvedAt(f) # {} /\ i = Max(ResolvedAt(f))
    THEN [f[i] EXCEPT !.resumed = TRUE] ELSE f[i]]

Claim(w) ==
    /\ worker[w].pc = "idle" /\ Claimable # {}
    /\ LET r == Min(Claimable) IN
        /\ run' = [run EXCEPT ![r].status = "running", ![r].owner = w,
                              ![r].lease = "live"]
        /\ hitl' = [hitl EXCEPT ![r] = Resumed(hitl[r])]
        /\ obs' = [obs EXCEPT ![r] = Resumed(obs[r])]
        /\ worker' = [worker EXCEPT ![w].pc = "claimed", ![w].run = r]
    /\ UNCHANGED <<last, done, proposal, spent, faults>>

GoIdle(w) == worker' = [worker EXCEPT ![w] = Idle]
Fail(w) == worker' = [worker EXCEPT ![w].pc = "finish", ![w].target = "failed",
                                    ![w].node = End, ![w].out = NoOutcome,
                                    ![w].seen = NoSeen]
Owns(w) == run[worker[w].run].owner = w

\* Mutant of Load: the next action is never restored.
LoadForgetful(w) ==
    /\ worker[w].pc = "claimed"
    /\ LET r == worker[w].run
       IN IF Owns(w)
          THEN worker' = [worker EXCEPT
                 ![w].pc = "node", ![w].node = GraphV1[1],
                 ![w].iteration = last[r].iteration, ![w].done = done[r],
                 ![w].noProgress = last[r].noProgress]
          ELSE GoIdle(w)
    /\ UNCHANGED <<run, last, done, waits, spent, faults>>
\* execute() rebuilds the graph's state from the latest checkpoint.  The next
\* action is dropped as soon as any wait of the run has ever been resolved.
Load(w) ==
    /\ worker[w].pc = "claimed"
    /\ LET r == worker[w].run
           resolved == ResolvedAt(hitl[r]) \union ResolvedAt(obs[r]) # {}
       IN IF Owns(w)
          THEN worker' = [worker EXCEPT
                 ![w].pc = "node", ![w].node = GraphV1[1],
                 ![w].iteration = last[r].iteration, ![w].done = done[r],
                 ![w].noProgress = last[r].noProgress,
                 ![w].next = IF resolved THEN None ELSE last[r].next]
          ELSE GoIdle(w)
    /\ UNCHANGED <<run, last, done, waits, spent, faults>>

KeyIteration(j) == IF j.node \in ContextNodes THEN 0 ELSE j.iteration
Key(j) == <<j.node, KeyIteration(j)>>
Following(v, n) ==
    LET g == NodesOf(v) IN g[(CHOOSE k \in DOMAIN g : g[k] = n) + 1]

\* The edges of the graph: where a job goes from the node it has finished.
Routed(j, v) ==
    CASE j.node = "maybe_replan" /\ j.next = "continue" ->
            [j EXCEPT !.pc = "node", !.node = "select_next_step",
                      !.iteration = @ + 1]
      [] \/ j.node = "maybe_replan" /\ j.next \in Stopping
         \/ j.node \in Interrupting /\ j.next = "pause"
         \/ j.node = "escalate_or_finish" ->
            [j EXCEPT !.pc = "finish", !.node = End,
                !.target = IF j.next \in Stopping THEN "paused" ELSE "completed"]
      [] OTHER -> [j EXCEPT !.pc = "node", !.node = Following(v, j.node)]

SkipNode(w) ==
    /\ worker[w].pc = "node" /\ Key(worker[w]) \in worker[w].done
    /\ worker' = [worker EXCEPT ![w] =
                    Routed(worker[w], run[worker[w].run].graph)]
    /\ UNCHANGED <<run, last, done, waits, spent, faults>>

\* renew_runtime_lease looks at the owner and the status, not at the expiry.
RenewLease(w) ==
    LET r == worker[w].run IN
    /\ worker[w].pc = "node" /\ Key(worker[w]) \notin worker[w].done
    /\ IF run[r].status = "running" /\ Owns(w)
       THEN /\ run' = [run EXCEPT ![r].lease = "live"]
            /\ worker' = [worker EXCEPT ![w].pc = "call"]
       ELSE GoIdle(w) /\ UNCHANGED run
    /\ UNCHANGED <<last, done, waits, spent, faults>>

-----------------------------------------------------------------------------
(* The node handler: what each node may answer, and what it asks for *)

Answer(next, progressed, wait) ==
    [next |-> next, progressed |-> progressed, requests |-> 0, wait |-> wait]
PlainAnswer == Answer(None, TRUE, None)

\* An active plan with a runnable step is advanced; otherwise the run finishes.
SelectAnswers == {PlainAnswer, Answer("finish", TRUE, None)}
\* Without a running step that observes anything, the model is not asked.
NothingToObserve == {PlainAnswer, Answer("finish", TRUE, None)}
InvestigatorAnswers == {Answer(None, FALSE, None), Answer("pause", FALSE, None),
                        Answer("pause", TRUE, "observation")}
PlanAnswers == {PlainAnswer}
AssessAnswers == {Answer(None, p, None) : p \in BOOLEAN}
ReplanAnswers == [next: {"continue", "finish", "pause"}, progressed: BOOLEAN,
                  requests: {0}, wait: {None}]
\* Abstain, escalate, or propose: proposals are unique per node execution, and
\* the answer is that of the proposal's status.
ProposeAnswers(s) ==
    {Answer(None, FALSE, None), Answer("pause", FALSE, None)} \union
    CASE s = "awaiting_approval" -> {Answer("pause", TRUE, "hitl")}
      [] s = "denied" -> {Answer("pause", TRUE, None)}
      [] OTHER -> {PlainAnswer}

UnaskedAnswers(n) ==
    CASE n = "select_next_step" -> SelectAnswers
      [] n = "run_investigator" -> NothingToObserve
      [] n \in ModelNodes \ {"run_investigator"} -> {}
      [] OTHER -> {PlainAnswer}
AskedAnswers(n, s) ==
    CASE n = "create_plan" -> PlanAnswers
      [] n = "run_investigator" -> InvestigatorAnswers
      [] n = "assess_evidence" -> AssessAnswers
      [] n = "propose_action" -> ProposeAnswers(s)
      [] n = "maybe_replan" -> ReplanAnswers

Remaining(r) == IF run[r].used >= RequestLimit THEN 0
                ELSE RequestLimit - run[r].used

AnswerWithoutModel(w) ==
    /\ worker[w].pc = "call"
    /\ \E answer \in UnaskedAnswers(worker[w].node) :
        worker' = [worker EXCEPT ![w].pc = "write", ![w].out = answer]
    /\ UNCHANGED <<run, last, done, waits, spent, faults>>

\* The provider is called, for at most the remaining budget.
AskModel(w) ==
    LET j == worker[w]
        r == j.run
        old == proposal[r][j.iteration]
        proposed == IF j.node = "propose_action" /\ old = None
                    THEN {None, "awaiting_approval", "denied", "authorized"}
                    ELSE {old}
    IN /\ j.pc = "call" /\ j.node \in ModelNodes
       /\ \E q \in 1..CallLimit, s \in proposed :
            /\ q <= Remaining(r)
            /\ \E answer \in AskedAnswers(j.node, s) :
                /\ s # old => answer.progressed
                /\ worker' = [worker EXCEPT ![w].pc = "write",
                                ![w].out = [answer EXCEPT !.requests = q]]
            /\ spent' = [spent EXCEPT ![r] = @ + q]
            /\ proposal' = [proposal EXCEPT ![r][j.iteration] = s]
       /\ UNCHANGED <<run, last, done, hitl, obs, faults>>

\* No budget left, a provider error, a result out of scope, a lost plan step.
HandlerFails(w) ==
    LET r == worker[w].run IN
    /\ worker[w].pc = "call"
    /\ worker[w].node \in ModelNodes \union {"select_next_step"}
    /\ \E q \in 0..CallLimit :
        /\ q <= Remaining(r) /\ (q > 0 => worker[w].node \in ModelNodes)
        /\ spent' = [spent EXCEPT ![r] = @ + q]
    /\ Fail(w)
    /\ UNCHANGED <<run, last, done, waits, faults>>

-----------------------------------------------------------------------------
(* The checkpoint *)

\* maybe_replan counts the iterations without progress and applies the limits.
NoProgressAfter(j) ==
    IF j.node # "maybe_replan" THEN j.noProgress
    ELSE IF j.out.progressed THEN 0 ELSE j.noProgress + 1
Carried(j) == IF j.out.next = None THEN j.next ELSE j.out.next
NextAfter(j) ==
    CASE j.node = "maybe_replan" /\ NoProgressAfter(j) >= NoProgressLimit ->
            "no_progress"
      [] /\ j.node = "maybe_replan" /\ NoProgressAfter(j) < NoProgressLimit
         /\ Carried(j) = "continue" /\ j.iteration + 1 >= MaxIterations ->
            "max_iterations"
      [] OTHER -> Carried(j)

\* The unlocked read: the owner is compared here and nowhere later.
ReadRun(w) ==
    LET r == worker[w].run IN
    /\ worker[w].pc = "write"
    /\ IF Owns(w)
       THEN worker' = [worker EXCEPT ![w].pc = "writing",
              ![w].seen = [sequence |-> run[r].sequence, used |-> run[r].used,
                           iteration |-> run[r].iteration]]
       ELSE GoIdle(w)
    /\ UNCHANGED <<run, last, done, waits, spent, faults>>

\* What write_checkpoint refuses, and what the unique key of the sequence refuses.
Refused(j) ==
    \/ j.seen.sequence # run[j.run].sequence
    \/ KeyIteration(j) < j.seen.iteration
    \/ NoProgressAfter(j) > KeyIteration(j) + 1
    \/ j.seen.used + j.out.requests > RequestLimit

Written(j) == [node |-> j.node, iteration |-> KeyIteration(j),
               noProgress |-> NoProgressAfter(j), next |-> NextAfter(j)]
AfterWrite(j) ==
    Routed([j EXCEPT !.done = @ \union {Key(j)}, !.noProgress = NoProgressAfter(j),
                     !.next = NextAfter(j), !.out = NoOutcome, !.seen = NoSeen],
           run[j.run].graph)

\* The row as the session flushes it: the columns it changed, computed from what
\* it read before the lock.  A wait pauses the run it saw running.
Flushed(j) ==
    LET written == [run[j.run] EXCEPT !.iteration = KeyIteration(j),
                        !.sequence = j.seen.sequence + 1,
                        !.used = j.seen.used + j.out.requests]
    IN IF j.out.wait = None THEN written ELSE Moved(written, "paused")

\* Mutant of Saved: nothing is checked against what others wrote meanwhile.
SavedUnchecked(w) ==
    LET j == worker[w] IN
    /\ j.pc = "writing"
    /\ run' = [run EXCEPT ![j.run] = Flushed(j)]
    /\ last' = [last EXCEPT ![j.run] = Written(j)]
    /\ done' = [done EXCEPT ![j.run] = @ \union {Key(j)}]
    /\ worker' = [worker EXCEPT ![w] = AfterWrite(j)]
    /\ UNCHANGED <<proposal, spent, faults>>

Saved(w) ==
    LET j == worker[w] IN
    /\ j.pc = "writing" /\ Key(j) \notin done[j.run] /\ ~Refused(j)
    /\ run' = [run EXCEPT ![j.run] = Flushed(j)]
    /\ last' = [last EXCEPT ![j.run] = Written(j)]
    /\ done' = [done EXCEPT ![j.run] = @ \union {Key(j)}]
    /\ worker' = [worker EXCEPT ![w] = AfterWrite(j)]
    /\ UNCHANGED <<proposal, spent, faults>>
Waiting == [status |-> "waiting", resumed |-> FALSE]

WriteCheckpoint(w) ==
    /\ worker[w].out.wait = None /\ Saved(w)
    /\ UNCHANGED <<hitl, obs>>

\* The checkpoint, the wait and the pause are committed together.
WriteAndAwaitDecision(w) ==
    LET j == worker[w] IN
    /\ j.out.wait = "hitl" /\ proposal[j.run][j.iteration] = "awaiting_approval"
    /\ Saved(w)
    /\ hitl' = [hitl EXCEPT ![j.run][j.iteration] = Waiting]
    /\ UNCHANGED obs
WriteAndAwaitObservation(w) ==
    LET j == worker[w] IN
    /\ j.out.wait = "observation" /\ Saved(w)
    /\ obs' = [obs EXCEPT ![j.run][j.iteration] = Waiting]
    /\ UNCHANGED hitl

\* The same node execution has been checkpointed with the same content: the
\* stored row is returned.  (The content of an older one is not kept here: a
\* worker that far behind has lost its lease, and stops either way.)
KnownCheckpoint(w) ==
    LET j == worker[w] IN
    /\ j.pc = "writing" /\ Key(j) \in done[j.run]
    /\ done[j.run] = j.done \union {Key(j)} /\ last[j.run] = Written(j)
    /\ worker' = [worker EXCEPT ![w] = AfterWrite(j)]
    /\ UNCHANGED <<run, last, done, waits, spent, faults>>

\* The transaction fails: the stored checkpoint has another content, the subject
\* is no longer pending or the plan step no longer running.  Nothing is kept.
WriteFails(w) ==
    LET j == worker[w] IN
    /\ j.pc = "writing"
    /\ \/ Key(j) \in done[j.run]
       \/ Refused(j)
       \/ j.out.wait = "hitl"
          /\ proposal[j.run][j.iteration] # "awaiting_approval"
       \/ j.out.wait = "observation"
    /\ Fail(w)
    /\ UNCHANGED <<run, last, done, waits, spent, faults>>

-----------------------------------------------------------------------------
(* The end of an execution, and faults *)

\* _finish reads the run without a lock...
ReadForFinish(w) ==
    LET j == worker[w] IN
    /\ j.pc = "finish"
    /\ IF run[j.run].owner = w
       THEN worker' = [worker EXCEPT ![w].pc = "finishing"]
       ELSE GoIdle(w)
    /\ UNCHANGED <<run, last, done, waits, spent, faults>>

\* ...and moves the run it saw running, whatever it has become since.
Finish(w) ==
    LET j == worker[w] IN
    /\ j.pc = "finishing"
    /\ run' = [run EXCEPT ![j.run] = Moved(run[j.run], j.target)]
    /\ GoIdle(w)
    /\ UNCHANGED <<last, done, waits, spent, faults>>

\* The process dies; an open transaction is rolled back.
Crash(w) ==
    /\ worker[w].pc # "idle" /\ faults < MaxFaults
    /\ faults' = faults + 1
    /\ GoIdle(w)
    /\ UNCHANGED <<run, last, done, waits, spent>>

\* The lease runs out under a slow worker (a fault), or after its worker is gone.
Abandoned(r) ==
    ~\E w \in Worker : worker[w].pc # "idle" /\ worker[w].run = r
LeaseExpires(r) ==
    /\ run[r].lease = "live"
    /\ \/ Abandoned(r) /\ UNCHANGED faults
       \/ ~Abandoned(r) /\ faults < MaxFaults /\ faults' = faults + 1
    /\ run' = [run EXCEPT ![r].lease = "expired"]
    /\ UNCHANGED <<last, done, waits, worker, spent>>

-----------------------------------------------------------------------------
PublicApi ==
    \/ \E r \in Run, v \in Graphs : CreateRun(r, v)
    \/ \E r \in Run : CancelRun(r)
InternalApi == \E r \in Run, t \in RunStatus : RequestTransition(r, t)
Decisions == \E r \in Run, i \in Iteration :
                DecideApproval(r, i) \/ ResolveTask(r, i)
NodeStep(w) ==
    \/ SkipNode(w) \/ RenewLease(w)
    \/ AnswerWithoutModel(w) \/ AskModel(w) \/ HandlerFails(w)
CheckpointStep(w) ==
    \/ ReadRun(w) \/ WriteCheckpoint(w) \/ WriteAndAwaitDecision(w)
    \/ WriteAndAwaitObservation(w) \/ KnownCheckpoint(w) \/ WriteFails(w)
WorkerStep(w) ==
    \/ Claim(w) \/ Load(w) \/ NodeStep(w) \/ CheckpointStep(w)
    \/ ReadForFinish(w) \/ Finish(w)
Faults ==
    \/ \E w \in Worker : Crash(w)
    \/ \E r \in Run : LeaseExpires(r)

RunNext == PublicApi \/ InternalApi \/ Decisions \/ Faults
        \/ \E w \in Worker : WorkerStep(w)

\* The control plane's loops keep running and an abandoned lease runs out.
Fairness ==
    /\ \A w \in Worker : WF_vars(WorkerStep(w))
    /\ \A r \in Run : WF_vars(LeaseExpires(r) /\ Abandoned(r))

RunSpec == RunInit /\ [][RunNext]_vars
FairSpec == RunSpec /\ Fairness

-----------------------------------------------------------------------------
(* Properties *)

\* Every row and every job has the values its columns and code allow.
TypeOK ==
    /\ run \in [Run -> RunRow] /\ last \in [Run -> Checkpoint]
    /\ done \in [Run -> SUBSET (Node \X Iteration)]
    /\ hitl \in [Run -> [Iteration -> HitlRow]]
    /\ obs \in [Run -> [Iteration -> ObsRow]]
    /\ proposal \in [Run -> [Iteration -> ProposalStatus]]
    /\ worker \in [Worker -> Job]
    /\ spent \in [Run -> Nat] /\ faults \in Nat

\* docs: an incident has one queued, running or paused run at most.
OneActiveRun == Cardinality(ActiveRuns) <= 1

\* The sequence of a run numbers its checkpoints without a gap, although it is
\* computed from a row read before the lock was taken.
SequenceCountsCheckpoints ==
    \A r \in Run : run[r].sequence = Cardinality(done[r])

\* A node is checkpointed only after the node before it: no recovery, takeover
\* or resumption skips a node of an iteration or starts an iteration early.
Predecessor(v, k) ==
    LET g == NodesOf(v)
        n == CHOOSE m \in DOMAIN g : g[m] = k[1]
    IN IF k[1] = "select_next_step" /\ k[2] > 0 THEN <<"maybe_replan", k[2] - 1>>
       ELSE <<g[n - 1], IF g[n - 1] \in ContextNodes THEN 0 ELSE k[2]>>
NodesInOrder ==
    \A r \in Run : \A k \in done[r] :
        k[1] = "load_incident" \/ Predecessor(run[r].graph, k) \in done[r]

\* The budget is never overdrawn, and what crashed or overtaken executions spent
\* without recording it is one provider call for each of them.
RequestsAreBounded ==
    \A r \in Run :
        /\ run[r].used <= RequestLimit
        /\ spent[r] <= run[r].used + CallLimit * (faults + 1)

\* A run is paused because it waits, because its last checkpoint told it to
\* stop, or because it was asked to from outside.
PausedForAReason ==
    \A r \in Run : run[r].status = "paused" =>
        \/ faults > 0
        \/ \E i \in Iteration : "waiting" \in {hitl[r][i].status, obs[r][i].status}
        \/ last[r].next \in Stopping

\* While nothing fails, a run that waits for a human or a runner is not worked on.
WaitingRunRests ==
    \A r \in Run, i \in Iteration :
        "waiting" \in {hitl[r][i].status, obs[r][i].status} /\ faults = 0
            => run[r].status \notin {"queued", "running"}

\* Two workers that take a run over from each other keep its checkpoints, its budget
\* and the reason why it is paused in agreement.
RunIsConsistent ==
    /\ TypeOK /\ SequenceCountsCheckpoints /\ RequestsAreBounded
    /\ PausedForAReason /\ WaitingRunRests

\* From one checkpoint to the next the run follows an edge of its graph, and none
\* follows one that stopped the run, unless a resolved wait made the run forget the
\* action it had decided on.
WaitIsOver(r) == \E i \in Iteration :
                  "resolved" \in {hitl[r][i].status, obs[r][i].status}
StoppedAt(n, next) ==
    \/ n = "escalate_or_finish"
    \/ n = "maybe_replan" /\ next \in Stopping
    \/ n \in Interrupting /\ next = "pause"
EdgesFrom(r) ==
    LET n == last[r].node IN
    CASE n = None -> {"load_incident"}
      [] n # None /\ StoppedAt(n, last[r].next) -> {}
      [] n = "maybe_replan" /\ last[r].next = "continue" -> {"select_next_step"}
      [] OTHER -> {Following(run[r].graph, n)}
CheckpointsFollowEdges ==
    [][\A r \in Run : done'[r] # done[r] =>
          WaitIsOver(r) \/ last'[r].node \in EdgesFrom(r)]_vars

\* Crashes and takeovers neither skip nor invent a node.
RecoveryFollowsGraph == []NodesInOrder /\ CheckpointsFollowEdges

\* A run that is queued or running comes to rest: it ends or it pauses, through
\* every crash and takeover, as long as the workers' loops go on.
RunComesToRest ==
    \A r \in Run : run[r].status \in {"queued", "running"}
                   ~> run[r].status \notin {"queued", "running"}

\* A decision or an observation that came is picked up by a worker, or the run
\* has ended (or has been paused again from outside).
ResolvedWaitIsResumed ==
    \A r \in Run, i \in Iteration :
        hitl[r][i] = [status |-> "resolved", resumed |-> FALSE]
            ~> hitl[r][i].resumed \/ run[r].status \in Terminal \/ faults > 0
=============================================================================
