------------------------- MODULE RunnerTasksProofs -------------------------
(* Proofs about RunnerTasks, for every set of Runners and tasks, every number *)
(* of attempts and every length of the leases.                               *)
EXTENDS RunnerTasks, TLAPS

USE IdentityAssumption, LeaseAssumption

-----------------------------------------------------------------------------
(* Type correctness.                                                         *)

(* What the handlers do to one task row keeps its type.                      *)
LEMMA TaskRows ==
    ASSUME NEW row \in TaskRecord
    PROVE  /\ \A owner \in Runners \union {NoRunner} : Requeued(row, owner) \in TaskRecord
           /\ Failed(row) \in TaskRecord
           /\ Cancelled(row) \in TaskRecord
           /\ [row EXCEPT !.lease = Less(@)] \in TaskRecord
           /\ [row EXCEPT !.lease = TaskLease] \in TaskRecord
           /\ \A s \in TaskStatus : [row EXCEPT !.status = s, !.lease = 0] \in TaskRecord
<1>1. \A owner \in Runners \union {NoRunner} : Requeued(row, owner) \in TaskRecord
  BY DEF Requeued, TaskRecord, TaskStatus
<1>2. Failed(row) \in TaskRecord
  BY DEF Failed, TaskRecord, TaskStatus
<1>3. Cancelled(row) \in TaskRecord
  BY DEF Cancelled, TaskRecord, TaskStatus
<1>4. [row EXCEPT !.lease = Less(@)] \in TaskRecord
  <2>1. Less(row.lease) \in Nat
    BY DEF Less, TaskRecord
  <2> QED
    BY <2>1 DEF TaskRecord
<1>5. [row EXCEPT !.lease = TaskLease] \in TaskRecord
  BY DEF TaskRecord
<1>6. \A s \in TaskStatus : [row EXCEPT !.status = s, !.lease = 0] \in TaskRecord
  BY DEF TaskRecord
<1> QED
  BY <1>1, <1>2, <1>3, <1>4, <1>5, <1>6

LEMMA RecoveredTypes ==
    ASSUME TypeOK, NEW found \in SUBSET ExpiredTasks
    PROVE  /\ RecoveredTask(found) \in [Tasks -> TaskRecord]
           /\ RecoveredWait(found) \in [Tasks -> WaitStatus]
           /\ VerificationAfterLoss(found) \in [Tasks -> VerificationStatus]
<1>1. RecoveredTask(found) \in [Tasks -> TaskRecord]
  <2> SUFFICES ASSUME NEW t \in Tasks PROVE RecoveredTask(found)[t] \in TaskRecord
    BY DEF RecoveredTask
  <2>1. task[t] \in TaskRecord /\ task[t].runner \in Runners \union {NoRunner}
    BY DEF TypeOK, TaskRecord
  <2>2. /\ Requeued(task[t], task[t].runner) \in TaskRecord
        /\ Failed(task[t]) \in TaskRecord
    BY <2>1, TaskRows
  <2> QED
    BY <2>1, <2>2 DEF RecoveredTask
<1>2. RecoveredWait(found) \in [Tasks -> WaitStatus]
  BY DEF TypeOK, RecoveredWait, WaitStatus
<1>3. VerificationAfterLoss(found) \in [Tasks -> VerificationStatus]
  BY DEF TypeOK, VerificationAfterLoss, VerificationStatus
<1> QED
  BY <1>1, <1>2, <1>3

LEMMA StartedType ==
    ASSUME TypeOK, NEW r \in Runners, NEW t \in Tasks, NEW row \in TaskRecord,
           NEW heard \in BOOLEAN
    PROVE  Started(r, t, row, heard) \in [Runners -> ProcessRecord]
<1>1. Down \in ProcessRecord
  BY DEF Down, ProcessRecord
<1>2. row.token \in Nat /\ row.attempt \in Nat
  BY DEF TaskRecord
<1>3. [process[r] EXCEPT !.task = t, !.token = row.token, !.attempt = row.attempt]
        \in ProcessRecord
  <2>1. process[r] \in ProcessRecord
    BY DEF TypeOK
  <2> QED
    BY <2>1, <1>2 DEF ProcessRecord
<1>4. CASE heard
  BY <1>3, <1>4 DEF Started, TypeOK
<1>5. CASE ~heard
  BY <1>1, <1>5 DEF Started, TypeOK
<1> QED
  BY <1>4, <1>5

LEMMA AnsweredType ==
    ASSUME TypeOK, NEW m \in Completion, NEW heard \in BOOLEAN
    PROVE  Answered(m, heard) \in [Runners -> ProcessRecord]
<1>1. m.runner \in Runners
  BY DEF Completion
<1>2. Down \in ProcessRecord
  BY DEF Down, ProcessRecord
<1>3. [Down EXCEPT !.current = process[m.runner].current] \in ProcessRecord
  <2>1. process[m.runner].current \in BOOLEAN
    BY <1>1 DEF TypeOK, ProcessRecord
  <2> QED
    BY <2>1 DEF Down, ProcessRecord
<1> QED
  BY <1>1, <1>2, <1>3 DEF Answered, TypeOK

LEMMA NextTypes ==
    ASSUME TypeOK, [Next]_vars
    PROVE  TypeOK'
<1>1. ASSUME NEW t \in Tasks, Create(t) PROVE TypeOK'
  <2>1. [task[t] EXCEPT !.status = "QUEUED", !.runner = AssignedTo[t]] \in TaskRecord
    <3>1. task[t] \in TaskRecord /\ AssignedTo[t] \in Runners \union {NoRunner}
      BY DEF TypeOK
    <3> QED
      BY <3>1 DEF TaskRecord, TaskStatus
  <2>2. task' \in [Tasks -> TaskRecord]
    BY <1>1, <2>1 DEF Create, TypeOK
  <2> QED
    BY <1>1, <2>2 DEF Create, TypeOK, WaitStatus, VerificationStatus
<1>2. ASSUME NEW t \in Tasks, Cancel(t) PROVE TypeOK'
  <2>1. Cancelled(task[t]) \in TaskRecord
    BY TaskRows DEF TypeOK
  <2> QED
    BY <1>2, <2>1 DEF Cancel, TypeOK, WaitStatus
<1>3. ASSUME NEW t \in Tasks, CancelRun(t) PROVE TypeOK'
  <2>1. Cancelled(task[t]) \in TaskRecord
    BY TaskRows DEF TypeOK
  <2> QED
    BY <1>3, <2>1 DEF CancelRun, TypeOK, WaitStatus
<1>4. ASSUME NEW r \in Runners, ExpireStaleRunner(r) PROVE TypeOK'
  <2>1. runner' \in [Runners -> RunnerRecord]
    <3>1. runner[r] \in RunnerRecord
      BY DEF TypeOK
    <3>2. [runner[r] EXCEPT !.online = FALSE] \in RunnerRecord
      BY <3>1 DEF RunnerRecord
    <3> QED
      BY <1>4, <3>2 DEF ExpireStaleRunner, TypeOK
  <2>2. task' \in [Tasks -> TaskRecord]
    <3>1. \A t \in Tasks : /\ task[t] \in TaskRecord
                           /\ Requeued(task[t], NoRunner) \in TaskRecord
                           /\ Failed(task[t]) \in TaskRecord
      BY TaskRows DEF TypeOK
    <3> QED
      BY <1>4, <3>1 DEF ExpireStaleRunner
  <2>3. verification' \in [Tasks -> VerificationStatus]
    BY <1>4 DEF ExpireStaleRunner, VerificationAfterLoss, TypeOK, VerificationStatus
  <2> QED
    BY <1>4, <2>1, <2>2, <2>3 DEF ExpireStaleRunner, TypeOK
<1>5. ASSUME NEW found \in SUBSET ExpiredTasks, ListTasks(found) PROVE TypeOK'
  BY <1>5, RecoveredTypes DEF ListTasks, Recover, TypeOK
<1>6. ASSUME NEW r \in Runners, NEW heard \in BOOLEAN, Heartbeat(r, heard) PROVE TypeOK'
  <2>1. runner' \in [Runners -> RunnerRecord]
    BY <1>6 DEF Heartbeat, TypeOK, RunnerRecord, NoToken
  <2>2. process' \in [Runners -> ProcessRecord]
    BY <1>6, SMTT(30) DEF Heartbeat, TypeOK, ProcessRecord
  <2>3. lostTo' \in [Incidents -> Runners \union {NoRunner}]
    BY <1>6 DEF Heartbeat, TypeOK
  <2> QED
    BY <1>6, <2>1, <2>2, <2>3 DEF Heartbeat, TypeOK
<1>7. ASSUME NEW r \in Runners, NEW found \in SUBSET ExpiredTasks, NEW heard \in BOOLEAN,
             ClaimActive(r, found, heard)
      PROVE  TypeOK'
  <2>1. PICK t \in Tasks : process' = Started(r, t, task[t], heard)
    BY <1>7 DEF ClaimActive, Active
  <2>2. process' \in [Runners -> ProcessRecord]
    BY <2>1, StartedType DEF TypeOK
  <2> QED
    BY <1>7, <2>2, RecoveredTypes DEF ClaimActive, Recover, TypeOK
<1>8. ASSUME NEW r \in Runners, NEW found \in SUBSET ExpiredTasks, NEW heard \in BOOLEAN,
             ClaimQueued(r, found, heard)
      PROVE  TypeOK'
  <2> DEFINE rows == RecoveredTask(found)
             attempt(t) == rows[t].attempt + 1
             token(t) == IF runner[r].token[t] = 0 THEN attempt(t)
                         ELSE runner[r].token[t]
             leased(t) == [status |-> "LEASED", runner |-> r, token |-> token(t),
                           lease |-> TaskLease, attempt |-> attempt(t)]
  <2>1. PICK t \in Tasks :
          /\ task' = [rows EXCEPT ![t] = leased(t)]
          /\ runner' = [runner EXCEPT ![r].token[t] = token(t)]
          /\ verification' = [VerificationAfterLoss(found) EXCEPT
                                  ![t] = IF @ = "QUEUED" THEN "RUNNING" ELSE @]
          /\ process' = Started(r, t, leased(t), heard)
    BY <1>8 DEF ClaimQueued, Candidates
  <2>2. rows \in [Tasks -> TaskRecord]
    BY RecoveredTypes
  <2>3. attempt(t) \in Nat
    BY <2>2 DEF TaskRecord
  <2>4. token(t) \in Nat
    BY <2>3 DEF TypeOK, RunnerRecord
  <2>5. leased(t) \in TaskRecord
    BY <2>3, <2>4 DEF TaskRecord, TaskStatus
  <2> HIDE DEF rows, attempt, token, leased
  <2>6. task' \in [Tasks -> TaskRecord]
    BY <2>1, <2>2, <2>5
  <2>7. runner' \in [Runners -> RunnerRecord]
    <3>1. runner[r] \in RunnerRecord /\ runner[r].token \in [Tasks -> Nat]
      BY DEF TypeOK, RunnerRecord
    <3>2. [runner[r].token EXCEPT ![t] = token(t)] \in [Tasks -> Nat]
      BY <2>4, <3>1
    <3>3. [runner[r] EXCEPT !.token = [runner[r].token EXCEPT ![t] = token(t)]]
            \in RunnerRecord
      BY <3>1, <3>2 DEF RunnerRecord
    <3>4. runner' = [runner EXCEPT ![r] =
              [runner[r] EXCEPT !.token = [runner[r].token EXCEPT ![t] = token(t)]]]
      BY <2>1 DEF TypeOK
    <3> QED
      BY <3>3, <3>4 DEF TypeOK
  <2>8. verification' \in [Tasks -> VerificationStatus]
    BY <2>1, RecoveredTypes DEF VerificationStatus
  <2>9. process' \in [Runners -> ProcessRecord]
    BY <2>1, <2>5, StartedType
  <2> QED
    BY <1>8, <2>6, <2>7, <2>8, <2>9, RecoveredTypes DEF ClaimQueued, TypeOK
<1>9. ASSUME NEW r \in Runners, Renew(r) PROVE TypeOK'
  <2>1. process[r].task \in Tasks
    BY <1>9 DEF Renew, TypeOK, ProcessRecord
  <2>2. [task[process[r].task] EXCEPT !.lease = TaskLease] \in TaskRecord
    BY <2>1, TaskRows DEF TypeOK
  <2> QED
    BY <1>9, <2>1, <2>2 DEF Renew, TypeOK
<1>10. ASSUME NEW r \in Runners, RenewRefused(r) PROVE TypeOK'
  <2>1. [Down EXCEPT !.current = process[r].current] \in ProcessRecord
    BY DEF TypeOK, Down, ProcessRecord
  <2> QED
    BY <1>10, <2>1 DEF RenewRefused, TypeOK
<1>11. ASSUME NEW r \in Runners, NEW result \in Result, Report(r, result) PROVE TypeOK'
  <2>1. process[r].task \in Tasks /\ process[r] \in ProcessRecord
    BY <1>11 DEF Report, TypeOK, ProcessRecord
  <2>2. [runner |-> r, task |-> process[r].task, token |-> process[r].token,
         attempt |-> process[r].attempt, result |-> result] \in Completion
    BY <2>1 DEF Completion, ProcessRecord
  <2>3. [process[r] EXCEPT !.result = result] \in ProcessRecord
    BY <2>1 DEF ProcessRecord
  <2> QED
    BY <1>11, <2>2, <2>3 DEF Report, TypeOK
<1>12. ASSUME NEW r \in Runners, Crash(r) PROVE TypeOK'
  BY <1>12 DEF Crash, TypeOK, Down, ProcessRecord
<1>13. ASSUME NEW m \in sent, NEW heard \in BOOLEAN, Complete(m, heard) PROVE TypeOK'
  <2>1. /\ m \in Completion
        /\ m.task \in Tasks /\ m.attempt \in Nat /\ m.result \in Result
    BY DEF TypeOK, Completion
  <2>2. /\ Requeued(task[m.task], NoRunner) \in TaskRecord
        /\ \A s \in TaskStatus :
              [task[m.task] EXCEPT !.status = s, !.lease = 0] \in TaskRecord
    BY <2>1, TaskRows DEF TypeOK
  <2>3. task' \in [Tasks -> TaskRecord]
    BY <1>13, <2>1, <2>2 DEF Complete, TypeOK, TaskStatus
  <2>4. wait' \in [Tasks -> WaitStatus]
    BY <1>13, <2>1 DEF Complete, TypeOK, WaitStatus, Result
  <2>5. verification' \in [Tasks -> VerificationStatus]
    BY <1>13 DEF Complete, TypeOK, VerificationStatus
  <2>6. process' \in [Runners -> ProcessRecord]
    BY <1>13, <2>1, AnsweredType DEF Complete
  <2> QED
    BY <1>13, <2>1, <2>3, <2>4, <2>5, <2>6 DEF Complete, TypeOK
<1>14. ASSUME NEW m \in sent, NEW heard \in BOOLEAN, CompleteRefused(m, heard)
       PROVE  TypeOK'
  <2>1. m \in Completion /\ m.runner \in Runners
    BY DEF TypeOK, Completion
  <2>2. (heard /\ Authorized(m.runner)) \in BOOLEAN
    BY <2>1 DEF Authorized, TypeOK, RunnerRecord
  <2>3. process' \in [Runners -> ProcessRecord]
    BY <1>14, <2>1, <2>2, AnsweredType DEF CompleteRefused
  <2> QED
    BY <1>14, <2>3 DEF CompleteRefused, TypeOK
<1>15. CASE Tick
  <2>1. \A r \in Runners : [runner[r] EXCEPT !.lease = Less(@)] \in RunnerRecord
    <3> SUFFICES ASSUME NEW r \in Runners
                 PROVE  [runner[r] EXCEPT !.lease = Less(@)] \in RunnerRecord
      OBVIOUS
    <3>1. runner[r] \in RunnerRecord
      BY DEF TypeOK
    <3>2. Less(runner[r].lease) \in Nat
      BY <3>1 DEF Less, RunnerRecord
    <3> QED
      BY <3>1, <3>2 DEF RunnerRecord
  <2>2. \A t \in Tasks : [task[t] EXCEPT !.lease = Less(@)] \in TaskRecord
    BY TaskRows DEF TypeOK
  <2> QED
    BY <1>15, <2>1, <2>2 DEF Tick, TypeOK
<1>16. CASE UNCHANGED vars
  BY <1>16 DEF vars, TypeOK
<1> QED
  BY <1>1, <1>2, <1>3, <1>4, <1>5, <1>6, <1>7, <1>8, <1>9, <1>10, <1>11, <1>12, <1>13,
     <1>14, <1>15, <1>16 DEF Next, ControlPlaneNext, RunnerNext

\* Every row, every process and every message keeps its type, through every handler.
THEOREM TypeCorrect == Spec => []TypeOK
<1>1. ASSUME Init PROVE TypeOK
  <2>1. runner \in [Runners -> RunnerRecord]
    BY <1>1 DEF Init, RunnerRecord, NoToken
  <2>2. process \in [Runners -> ProcessRecord]
    <3>1. [Down EXCEPT !.current = TRUE] \in ProcessRecord
      BY DEF Down, ProcessRecord
    <3> QED
      BY <1>1, <3>1 DEF Init
  <2>3. task \in [Tasks -> TaskRecord]
    <3>1. NoRow \in TaskRecord
      BY DEF NoRow, TaskRecord, TaskStatus
    <3> QED
      BY <1>1, <3>1 DEF Init
  <2> QED
    BY <1>1, <2>1, <2>2, <2>3 DEF Init, TypeOK, WaitStatus, VerificationStatus
<1> QED
  BY <1>1, NextTypes, PTL DEF Spec

-----------------------------------------------------------------------------
(* The leases: one for each Runner, and only while the Runner is online.     *)

(* Only a claim makes a lease; every other handler leaves one alone or ends it. *)
LeasesStay ==
    \A t \in Tasks :
        task'[t].status = "LEASED" =>
            task[t].status = "LEASED" /\ task'[t].runner = task[t].runner

OnlineStays == \A r \in Runners : runner[r].online => runner'[r].online

(* What _recover_expired does to a row keeps its owner and makes no lease.   *)
LEMMA RecoveredLeases ==
    ASSUME TypeOK, NEW found \in SUBSET ExpiredTasks, NEW t \in Tasks
    PROVE  /\ RecoveredTask(found)[t].status = "LEASED" =>
                RecoveredTask(found)[t] = task[t] /\ t \notin found
           /\ RecoveredTask(found)[t].runner = task[t].runner
           /\ RecoveredTask(found)[t].attempt = task[t].attempt
<1>1. task[t] \in TaskRecord
  BY DEF TypeOK
<1>2. CASE t \in found
  BY <1>1, <1>2 DEF RecoveredTask, Requeued, Failed, TaskRecord
<1>3. CASE t \notin found
  BY <1>3 DEF RecoveredTask
<1> QED
  BY <1>2, <1>3

LEMMA LeasesOnlyClaimed ==
    ASSUME TypeOK, [Next]_vars
    PROVE  \/ LeasesStay /\ OnlineStays
           \/ \E r \in Runners : ExpireStaleRunner(r)
           \/ \E r \in Runners, found \in SUBSET ExpiredTasks, heard \in BOOLEAN :
                ClaimQueued(r, found, heard)
<1> DEFINE Goal == LeasesStay /\ OnlineStays
<1>0. \A t \in Tasks : task[t] \in TaskRecord
  BY DEF TypeOK
<1>1. ASSUME NEW t \in Tasks, Create(t) \/ Cancel(t) \/ CancelRun(t) PROVE Goal
  <2>1. CASE Create(t)
    BY <1>0, <2>1 DEF Create, TaskRecord, TypeOK, LeasesStay, OnlineStays
  <2>2. CASE Cancel(t)
    BY <1>0, <2>2 DEF Cancel, Cancelled, TaskRecord, TypeOK, LeasesStay, OnlineStays
  <2>3. CASE CancelRun(t)
    BY <1>0, <2>3 DEF CancelRun, Cancelled, TaskRecord, TypeOK, LeasesStay, OnlineStays
  <2> QED
    BY <1>1, <2>1, <2>2, <2>3
<1>2. ASSUME NEW found \in SUBSET ExpiredTasks, ListTasks(found) PROVE Goal
  BY <1>2, RecoveredLeases DEF ListTasks, Recover, LeasesStay, OnlineStays
<1>3. ASSUME NEW r \in Runners, NEW heard \in BOOLEAN, Heartbeat(r, heard) PROVE Goal
  BY <1>3 DEF Heartbeat, TypeOK, LeasesStay, OnlineStays
<1>4. ASSUME NEW r \in Runners, NEW found \in SUBSET ExpiredTasks, NEW heard \in BOOLEAN,
             ClaimActive(r, found, heard)
      PROVE  Goal
  BY <1>4, RecoveredLeases DEF ClaimActive, Recover, LeasesStay, OnlineStays
<1>5. ASSUME NEW r \in Runners, Renew(r) PROVE Goal
  BY <1>0, <1>5 DEF Renew, TaskRecord, TypeOK, LeasesStay, OnlineStays
<1>6. ASSUME NEW r \in Runners, RenewRefused(r) \/ Crash(r) PROVE Goal
  BY <1>6 DEF RenewRefused, Crash, LeasesStay, OnlineStays
<1>7. ASSUME NEW r \in Runners, NEW result \in Result, Report(r, result) PROVE Goal
  BY <1>7 DEF Report, LeasesStay, OnlineStays
<1>8. ASSUME NEW m \in sent, NEW heard \in BOOLEAN,
             Complete(m, heard) \/ CompleteRefused(m, heard)
      PROVE  Goal
  <2>1. CASE Complete(m, heard)
    <3>1. \A u \in Tasks : u # m.task => task'[u] = task[u]
      BY <2>1 DEF Complete, TypeOK
    <3>2. m.task \in Tasks
      BY DEF TypeOK, Completion
    <3>3. task'[m.task].status # "LEASED"
      BY <1>0, <2>1, <3>2 DEF Complete, Requeued, TaskRecord, TypeOK
    <3>4. OnlineStays
      BY <2>1 DEF Complete, OnlineStays
    <3> QED
      BY <3>1, <3>3, <3>4 DEF LeasesStay
  <2>2. CASE CompleteRefused(m, heard)
    BY <2>2 DEF CompleteRefused, LeasesStay, OnlineStays
  <2> QED
    BY <1>8, <2>1, <2>2
<1>9. CASE Tick
  <2>1. \A r \in Runners : runner[r] \in RunnerRecord
    BY DEF TypeOK
  <2> QED
    BY <1>0, <1>9, <2>1 DEF Tick, TaskRecord, RunnerRecord, LeasesStay, OnlineStays
<1>10. CASE UNCHANGED vars
  BY <1>10 DEF vars, LeasesStay, OnlineStays
<1> QED
  BY <1>1, <1>2, <1>3, <1>4, <1>5, <1>6, <1>7, <1>8, <1>9, <1>10
  DEF Next, ControlPlaneNext, RunnerNext

LEMMA LeaseStep ==
    ASSUME TypeOK, OneLeasePerRunner, LeaseHasOnlineOwner, [Next]_vars
    PROVE  OneLeasePerRunner' /\ LeaseHasOnlineOwner'
<1>1. CASE LeasesStay /\ OnlineStays
  BY <1>1 DEF LeasesStay, OnlineStays, OneLeasePerRunner, LeaseHasOnlineOwner
<1>2. ASSUME NEW r \in Runners, ExpireStaleRunner(r)
      PROVE  OneLeasePerRunner' /\ LeaseHasOnlineOwner'
  <2>1. \A t \in Tasks :
            task'[t].status = "LEASED" =>
                task'[t] = task[t] /\ task[t].status = "LEASED" /\ task[t].runner # r
    <3>1. \A t \in Tasks : task[t] \in TaskRecord
      BY DEF TypeOK
    <3> QED
      BY <1>2, <3>1 DEF ExpireStaleRunner, LeasedTo, Requeued, Failed, TaskRecord
  <2>2. \A q \in Runners : q # r => runner'[q] = runner[q]
    BY <1>2 DEF ExpireStaleRunner, TypeOK
  <2> QED
    BY <2>1, <2>2 DEF OneLeasePerRunner, LeaseHasOnlineOwner
<1>3. ASSUME NEW r \in Runners, NEW found \in SUBSET ExpiredTasks, NEW heard \in BOOLEAN,
             ClaimQueued(r, found, heard)
      PROVE  OneLeasePerRunner' /\ LeaseHasOnlineOwner'
  <2>1. PICK t \in Tasks : \E row :
            /\ task' = [RecoveredTask(found) EXCEPT ![t] = row]
            /\ row.runner = r
    <3> DEFINE attempt(t) == RecoveredTask(found)[t].attempt + 1
               token(t) == IF runner[r].token[t] = 0 THEN attempt(t)
                           ELSE runner[r].token[t]
               leased(t) == [status |-> "LEASED", runner |-> r, token |-> token(t),
                             lease |-> TaskLease, attempt |-> attempt(t)]
    <3>1. PICK t \in Tasks : task' = [RecoveredTask(found) EXCEPT ![t] = leased(t)]
      BY <1>3 DEF ClaimQueued, Candidates
    <3>2. leased(t).runner = r
      OBVIOUS
    <3> HIDE DEF leased
    <3> QED
      BY <3>1, <3>2
  <2>2. \A u \in Tasks : u # t /\ task'[u].status = "LEASED" =>
            task'[u] = task[u] /\ task'[u].runner # r
    <3>1. \A u \in Tasks : u # t => task'[u] = RecoveredTask(found)[u]
      BY <2>1, RecoveredTypes
    <3>2. Active(RecoveredTask(found), r) = {}
      BY <1>3 DEF ClaimQueued
    <3> QED
      BY <3>1, <3>2, RecoveredLeases DEF Active
  <2>3. task'[t].runner = r
    BY <2>1, RecoveredTypes
  <2>4. \A q \in Runners : runner'[q].online = runner[q].online
    <3>1. \A q \in Runners : runner[q] \in RunnerRecord
      BY DEF TypeOK
    <3> QED
      BY <1>3, <3>1 DEF ClaimQueued, TypeOK, RunnerRecord
  <2>5. runner[r].online
    BY <1>3 DEF ClaimQueued, MayClaim, Authorized
  <2> QED
    BY <2>2, <2>3, <2>4, <2>5 DEF OneLeasePerRunner, LeaseHasOnlineOwner
<1> QED
  BY <1>1, <1>2, <1>3, LeasesOnlyClaimed

(* An incident that a Runner took along stays lost until that Runner's heartbeat. *)
LEMMA LostStep ==
    ASSUME TypeOK, LostIncidentHasOfflineRunner, [Next]_vars
    PROVE  LostIncidentHasOfflineRunner'
<1>0. \A q \in Runners : runner[q] \in RunnerRecord
  BY DEF TypeOK
<1>1. ASSUME NEW r \in Runners, NEW heard \in BOOLEAN, Heartbeat(r, heard)
      PROVE  LostIncidentHasOfflineRunner'
  BY <1>1 DEF Heartbeat, TypeOK, LostIncidentHasOfflineRunner
<1>2. ASSUME NEW r \in Runners, ExpireStaleRunner(r)
      PROVE  LostIncidentHasOfflineRunner'
  BY <1>0, <1>2 DEF ExpireStaleRunner, TypeOK, RunnerRecord, LostIncidentHasOfflineRunner
<1>3. ASSUME \A q \in Runners : runner'[q].online = runner[q].online,
             UNCHANGED lostTo
      PROVE  LostIncidentHasOfflineRunner'
  BY <1>3 DEF TypeOK, LostIncidentHasOfflineRunner
<1>4. ASSUME NEW t \in Tasks, Create(t) \/ Cancel(t) \/ CancelRun(t)
      PROVE  UNCHANGED <<runner, lostTo>>
  BY <1>4 DEF Create, Cancel, CancelRun
<1>5. ASSUME NEW found \in SUBSET ExpiredTasks, ListTasks(found)
      PROVE  UNCHANGED <<runner, lostTo>>
  BY <1>5 DEF ListTasks
<1>6. ASSUME NEW r \in Runners, NEW found \in SUBSET ExpiredTasks, NEW heard \in BOOLEAN,
             ClaimActive(r, found, heard)
      PROVE  UNCHANGED <<runner, lostTo>>
  BY <1>6 DEF ClaimActive
<1>7. ASSUME NEW r \in Runners, NEW found \in SUBSET ExpiredTasks, NEW heard \in BOOLEAN,
             ClaimQueued(r, found, heard)
      PROVE  LostIncidentHasOfflineRunner'
  <2>1. \A q \in Runners : runner'[q].online = runner[q].online
    BY <1>0, <1>7 DEF ClaimQueued, TypeOK, RunnerRecord
  <2>2. UNCHANGED lostTo
    BY <1>7 DEF ClaimQueued
  <2> QED
    BY <1>3, <2>1, <2>2
<1>8. ASSUME NEW r \in Runners,
             Renew(r) \/ RenewRefused(r) \/ Crash(r) \/ \E x \in Result : Report(r, x)
      PROVE  UNCHANGED <<runner, lostTo>>
  BY <1>8 DEF Renew, RenewRefused, Crash, Report
<1>9. ASSUME NEW m \in sent, NEW heard \in BOOLEAN,
             Complete(m, heard) \/ CompleteRefused(m, heard)
      PROVE  UNCHANGED <<runner, lostTo>>
  BY <1>9 DEF Complete, CompleteRefused
<1>10. CASE Tick
  <2>1. \A q \in Runners : runner'[q].online = runner[q].online
    BY <1>0, <1>10 DEF Tick, RunnerRecord
  <2>2. UNCHANGED lostTo
    BY <1>10 DEF Tick
  <2> QED
    BY <1>3, <2>1, <2>2
<1>11. ASSUME UNCHANGED <<runner, lostTo>> PROVE LostIncidentHasOfflineRunner'
  BY <1>11 DEF LostIncidentHasOfflineRunner
<1>12. CASE UNCHANGED vars
  BY <1>11, <1>12 DEF vars
<1> QED
  BY <1>1, <1>2, <1>4, <1>5, <1>6, <1>7, <1>8, <1>9, <1>10, <1>11, <1>12
  DEF Next, ControlPlaneNext, RunnerNext

\* Claims, heartbeats, the monitor and the recovery of expired leases keep the rows
\* of tasks, Runners and incidents in agreement, with any number of each.
THEOREM LeasesInAgreement == Spec => []LeasesAgree
<1>1. Init => OneLeasePerRunner /\ LeaseHasOnlineOwner /\ LostIncidentHasOfflineRunner
  BY DEF Init, NoRow, OneLeasePerRunner, LeaseHasOnlineOwner,
         LostIncidentHasOfflineRunner
<1>2. TypeOK /\ (OneLeasePerRunner /\ LeaseHasOnlineOwner /\ LostIncidentHasOfflineRunner)
        /\ [Next]_vars
      => (OneLeasePerRunner /\ LeaseHasOnlineOwner /\ LostIncidentHasOfflineRunner)'
  BY LeaseStep, LostStep
<1> QED
  BY <1>1, <1>2, TypeCorrect, PTL DEF Spec, LeasesAgree

-----------------------------------------------------------------------------
(* What waits for a task ends with it and as it does.                        *)

(* The inductive form, task by task: only observations are waited for, and   *)
(* what is still waited for is queued, leased, or failed with the wait left  *)
(* behind.                                                                   *)
Agrees(t) ==
    /\ t \in Verifications =>
        /\ verification[t] = "NONE" <=> task[t].status = "NONE"
        /\ verification[t] = "PASSED" <=> task[t].status = "SUCCEEDED"
        /\ verification[t] = "FAILED" <=> task[t].status = "FAILED"
        /\ task[t].status = "LEASED" => verification[t] = "RUNNING"
    /\ wait[t] # "NONE" => t \in Observations
    /\ task[t].status = "NONE" => wait[t] = "NONE"
    /\ wait[t] = "WAITING" => task[t].status \in {"QUEUED", "LEASED", "FAILED"}
    /\ wait[t] = "succeeded" => task[t].status = "SUCCEEDED"
    /\ wait[t] = "failed" => task[t].status = "FAILED"
    /\ wait[t] = "cancelled" => task[t].status = "CANCELLED"
    /\ wait[t] = "run_cancelled" => task[t].status \in {"CANCELLED", "FAILED"}

Agreement == \A t \in Tasks : Agrees(t)

LEMMA AgreementImplies == Agreement => OutcomesAgree
BY DEF Agreement, Agrees, OutcomesAgree, VerificationFollowsTask, WaitOutcomeIsTaskOutcome

(* A task whose three rows stay as they are, but for times and tokens.       *)
LEMMA Untouched ==
    ASSUME NEW t \in Tasks, Agrees(t), task'[t].status = task[t].status,
           wait'[t] = wait[t], verification'[t] = verification[t]
    PROVE  Agrees(t)'
BY DEF Agrees

(* _recover_expired and what follows it, also when a claim comes on top.     *)
LEMMA RecoveredAgrees ==
    ASSUME TypeOK, NEW found \in SUBSET ExpiredTasks, NEW t \in Tasks, Agrees(t),
           task'[t].status = RecoveredTask(found)[t].status,
           wait'[t] = RecoveredWait(found)[t],
           verification'[t] = VerificationAfterLoss(found)[t]
    PROVE  Agrees(t)'
<1>1. task[t] \in TaskRecord
  BY DEF TypeOK
<1>2. CASE t \notin found
  <2>1. /\ RecoveredTask(found)[t] = task[t]
        /\ RecoveredWait(found)[t] = wait[t]
        /\ VerificationAfterLoss(found)[t] = verification[t]
    BY <1>2 DEF RecoveredTask, RecoveredWait, VerificationAfterLoss
  <2> QED
    BY <2>1, Untouched
<1>3. CASE t \in found /\ ~Exhausted(t)
  <2>1. task[t].status = "LEASED"
    BY <1>3 DEF ExpiredTasks
  <2>2. /\ RecoveredTask(found)[t].status = "QUEUED"
        /\ RecoveredWait(found)[t] = wait[t]
        /\ VerificationAfterLoss(found)[t] = verification[t]
    BY <1>1, <1>3
    DEF RecoveredTask, RecoveredWait, VerificationAfterLoss, Requeued, TaskRecord
  <2> QED
    BY <2>1, <2>2 DEF Agrees
<1>4. CASE t \in found /\ Exhausted(t)
  <2>1. task[t].status = "LEASED"
    BY <1>4 DEF ExpiredTasks
  <2>2. /\ RecoveredTask(found)[t].status = "FAILED"
        /\ RecoveredWait(found)[t] = IF wait[t] = "WAITING" THEN "failed" ELSE wait[t]
        /\ t \in Verifications => VerificationAfterLoss(found)[t] = "FAILED"
    BY <1>1, <1>4
    DEF RecoveredTask, RecoveredWait, VerificationAfterLoss, Failed, TaskRecord
  <2> QED
    BY <2>1, <2>2 DEF Agrees
<1> QED
  BY <1>2, <1>3, <1>4

LEMMA AgreementStep ==
    ASSUME TypeOK, Agreement, [Next]_vars
    PROVE  Agreement'
<1> SUFFICES ASSUME NEW t \in Tasks PROVE Agrees(t)'
  BY DEF Agreement
<1>0. /\ Agrees(t)
      /\ task[t] \in TaskRecord
  BY DEF Agreement, TypeOK
<1>1. ASSUME NEW u \in Tasks, Create(u) PROVE Agrees(t)'
  <2>1. CASE u = t
    <3>1. /\ task[t].status = "NONE"
          /\ task'[t].status = "QUEUED"
          /\ wait'[t] = IF t \in Observations THEN "WAITING" ELSE wait[t]
          /\ t \in Verifications => verification'[t] = "QUEUED"
      BY <1>0, <1>1, <2>1 DEF Create, TypeOK, TaskRecord
    <3> QED
      BY <1>0, <3>1 DEF Agrees
  <2>2. CASE u # t
    BY <1>0, <1>1, <2>2, Untouched DEF Create, TypeOK
  <2> QED
    BY <2>1, <2>2
<1>2. ASSUME NEW u \in Tasks, Cancel(u) PROVE Agrees(t)'
  <2>1. CASE u = t
    <3>1. /\ task[t].status \in {"QUEUED", "LEASED"} /\ t \notin Verifications
          /\ task'[t].status = "CANCELLED"
          /\ wait'[t] = IF wait[t] = "WAITING" THEN "cancelled" ELSE wait[t]
      BY <1>0, <1>2, <2>1 DEF Cancel, Cancelled, TypeOK, TaskRecord
    <3> QED
      BY <1>0, <3>1 DEF Agrees
  <2>2. CASE u # t
    BY <1>0, <1>2, <2>2, Untouched DEF Cancel, TypeOK
  <2> QED
    BY <2>1, <2>2
<1>3. ASSUME NEW u \in Tasks, CancelRun(u) PROVE Agrees(t)'
  <2>1. CASE u = t
    <3>1. /\ wait[t] = "WAITING" /\ wait'[t] = "run_cancelled"
          /\ task[t].status \in {"QUEUED", "LEASED"} => task'[t].status = "CANCELLED"
          /\ task[t].status \notin {"QUEUED", "LEASED"} => task' = task
      BY <1>0, <1>3, <2>1 DEF CancelRun, Cancelled, TypeOK, TaskRecord
    <3>2. t \in Observations /\ t \notin Verifications
      BY <1>0, <3>1 DEF Agrees
    <3> QED
      BY <1>0, <3>1, <3>2 DEF Agrees
  <2>2. CASE u # t
    BY <1>0, <1>3, <2>2, Untouched DEF CancelRun, TypeOK
  <2> QED
    BY <2>1, <2>2
<1>4. ASSUME NEW r \in Runners, ExpireStaleRunner(r) PROVE Agrees(t)'
  <2>1. CASE t \notin LeasedTo(r)
    <3>1. task'[t] = task[t] /\ verification'[t] = verification[t] /\ wait' = wait
      BY <1>4, <2>1 DEF ExpireStaleRunner, VerificationAfterLoss
    <3> QED
      BY <1>0, <3>1, Untouched
  <2>2. CASE t \in LeasedTo(r)
    <3>1. task[t].status = "LEASED"
      BY <2>2 DEF LeasedTo
    <3>2. /\ ~Exhausted(t) => task'[t].status = "QUEUED"
          /\ Exhausted(t) => task'[t].status = "FAILED"
      BY <1>0, <1>4, <2>2 DEF ExpireStaleRunner, Requeued, Failed, TaskRecord
    <3>3. /\ ~Exhausted(t) => verification'[t] = verification[t]
          /\ Exhausted(t) /\ t \in Verifications => verification'[t] = "FAILED"
          /\ wait' = wait
      BY <1>4, <2>2 DEF ExpireStaleRunner, VerificationAfterLoss
    <3> QED
      BY <1>0, <3>1, <3>2, <3>3 DEF Agrees
  <2> QED
    BY <2>1, <2>2
<1>5. ASSUME NEW found \in SUBSET ExpiredTasks, ListTasks(found) PROVE Agrees(t)'
  BY <1>0, <1>5, RecoveredAgrees DEF ListTasks, Recover
<1>6. ASSUME NEW r \in Runners, NEW found \in SUBSET ExpiredTasks, NEW heard \in BOOLEAN,
             ClaimActive(r, found, heard)
      PROVE  Agrees(t)'
  BY <1>0, <1>6, RecoveredAgrees DEF ClaimActive, Recover
<1>7. ASSUME NEW r \in Runners, NEW found \in SUBSET ExpiredTasks, NEW heard \in BOOLEAN,
             ClaimQueued(r, found, heard)
      PROVE  Agrees(t)'
  <2> DEFINE rows == RecoveredTask(found)
  <2>1. PICK u \in Tasks :
            /\ rows[u].status = "QUEUED"
            /\ \A v \in Tasks : v # u => task'[v] = rows[v]
            /\ task'[u].status = "LEASED"
            /\ verification' = [VerificationAfterLoss(found) EXCEPT
                                    ![u] = IF @ = "QUEUED" THEN "RUNNING" ELSE @]
    <3> DEFINE attempt(u) == rows[u].attempt + 1
               token(u) == IF runner[r].token[u] = 0 THEN attempt(u)
                           ELSE runner[r].token[u]
               leased(u) == [status |-> "LEASED", runner |-> r, token |-> token(u),
                             lease |-> TaskLease, attempt |-> attempt(u)]
    <3>1. rows \in [Tasks -> TaskRecord]
      BY RecoveredTypes
    <3>2. PICK u \in Tasks :
            /\ rows[u].status = "QUEUED"
            /\ task' = [rows EXCEPT ![u] = leased(u)]
            /\ verification' = [VerificationAfterLoss(found) EXCEPT
                                    ![u] = IF @ = "QUEUED" THEN "RUNNING" ELSE @]
      BY <1>7 DEF ClaimQueued, Candidates
    <3>3. leased(u).status = "LEASED"
      OBVIOUS
    <3> HIDE DEF rows, leased
    <3> QED
      BY <3>1, <3>2, <3>3
  <2>2. wait' = RecoveredWait(found)
    BY <1>7 DEF ClaimQueued
  <2>3. CASE t # u
    <3>1. verification'[t] = VerificationAfterLoss(found)[t] /\ task'[t] = rows[t]
      BY <2>1, <2>3 DEF VerificationAfterLoss
    <3> QED
      BY <1>0, <2>2, <3>1, RecoveredAgrees
  <2>4. CASE t = u
    <3>1. CASE t \in found
      <4>1. /\ task[t].status = "LEASED" /\ ~Exhausted(t)
        <5>1. task[t].status = "LEASED"
          BY <3>1 DEF ExpiredTasks
        <5>2. Exhausted(t) => rows[t].status = "FAILED"
          BY <1>0, <3>1 DEF RecoveredTask, Failed, TaskRecord
        <5> QED
          BY <2>1, <2>4, <5>1, <5>2
      <4>2. VerificationAfterLoss(found)[t] = verification[t] /\ wait'[t] = wait[t]
        BY <2>2, <4>1 DEF VerificationAfterLoss, RecoveredWait
      <4>3. t \in Verifications => verification'[t] = "RUNNING"
        BY <1>0, <2>1, <2>4, <4>1, <4>2, RecoveredTypes DEF Agrees
      <4> QED
        BY <1>0, <2>1, <2>4, <4>1, <4>2, <4>3 DEF Agrees
    <3>2. CASE t \notin found
      <4>1. /\ rows[t] = task[t] /\ wait'[t] = wait[t]
            /\ VerificationAfterLoss(found)[t] = verification[t]
        BY <2>2, <3>2 DEF RecoveredTask, RecoveredWait, VerificationAfterLoss
      <4>2. t \in Verifications => verification[t] \in {"QUEUED", "RUNNING"}
        BY <1>0, <2>1, <2>4, <4>1 DEF Agrees, TypeOK, VerificationStatus
      <4>3. t \in Verifications => verification'[t] = "RUNNING"
        BY <2>1, <2>4, <4>1, <4>2, RecoveredTypes
      <4> QED
        BY <1>0, <2>1, <2>4, <4>1, <4>3 DEF Agrees
    <3> QED
      BY <3>1, <3>2
  <2> QED
    BY <2>3, <2>4
<1>8. ASSUME NEW m \in sent, NEW heard \in BOOLEAN, Complete(m, heard) PROVE Agrees(t)'
  <2>1. m.task \in Tasks /\ m.result \in Result
    BY DEF TypeOK, Completion
  <2>2. CASE t # m.task
    <3>1. /\ task'[t] = task[t] /\ wait'[t] = wait[t]
          /\ verification'[t] = verification[t]
      BY <1>8, <2>1, <2>2 DEF Complete, TypeOK
    <3> QED
      BY <1>0, <3>1, Untouched
  <2>3. CASE t = m.task
    <3> DEFINE ended == IF m.result = "succeeded" THEN "SUCCEEDED" ELSE "FAILED"
               retried == t \in Verifications /\ m.result = "failed" /\ ~Exhausted(t)
    <3>1. task[t].status = "LEASED"
      BY <1>8, <2>3 DEF Complete, OwnsLease
    <3>2. task'[t].status = IF retried THEN "QUEUED" ELSE ended
      <4>1. task'[t] = IF retried THEN Requeued(task[t], NoRunner)
                       ELSE [task[t] EXCEPT !.status = ended, !.lease = 0]
        BY <1>8, <2>1, <2>3 DEF Complete, TypeOK
      <4>2. Requeued(task[t], NoRunner).status = "QUEUED"
        BY <1>0 DEF Requeued, TaskRecord
      <4>3. [task[t] EXCEPT !.status = ended, !.lease = 0].status = ended
        BY <1>0 DEF TaskRecord
      <4> QED
        BY <4>1, <4>2, <4>3
    <3>3. wait'[t] = IF wait[t] = "WAITING" THEN m.result ELSE wait[t]
      BY <1>8, <2>1, <2>3 DEF Complete, TypeOK
    <3>4. t \in Verifications =>
            verification'[t] = CASE retried -> "QUEUED"
                                 [] ~retried /\ m.result = "succeeded" -> "PASSED"
                                 [] OTHER -> "FAILED"
      BY <1>8, <2>1, <2>3 DEF Complete, TypeOK
    <3>5. wait[t] # "WAITING" => wait[t] = "NONE"
      BY <1>0, <3>1 DEF Agrees, TypeOK, WaitStatus
    <3>6. CASE t \in Verifications
      <4>1. wait[t] = "NONE"
        BY <1>0, <3>6 DEF Agrees
      <4> QED
        BY <1>0, <2>1, <3>1, <3>2, <3>3, <3>4, <3>6, <4>1 DEF Agrees, Result
    <3>7. CASE t \notin Verifications
      BY <1>0, <2>1, <3>1, <3>2, <3>3, <3>5, <3>7 DEF Agrees, Result
    <3> QED
      BY <3>6, <3>7
  <2> QED
    BY <2>2, <2>3
<1>9. ASSUME NEW r \in Runners, Renew(r) PROVE Agrees(t)'
  <2>1. task'[t].status = task[t].status /\ UNCHANGED <<wait, verification>>
    BY <1>0, <1>9 DEF Renew, TypeOK, TaskRecord
  <2> QED
    BY <1>0, <2>1, Untouched
<1>10. CASE Tick
  <2>1. task'[t].status = task[t].status /\ UNCHANGED <<wait, verification>>
    BY <1>0, <1>10 DEF Tick, TaskRecord
  <2> QED
    BY <1>0, <2>1, Untouched
<1>11. ASSUME UNCHANGED <<task, wait, verification>> PROVE Agrees(t)'
  BY <1>0, <1>11, Untouched
<1>12. ASSUME NEW r \in Runners,
              \/ \E heard \in BOOLEAN : Heartbeat(r, heard)
              \/ RenewRefused(r) \/ Crash(r)
              \/ \E x \in Result : Report(r, x)
       PROVE  UNCHANGED <<task, wait, verification>>
  BY <1>12 DEF Heartbeat, RenewRefused, Crash, Report
<1>13. ASSUME NEW m \in sent, NEW heard \in BOOLEAN, CompleteRefused(m, heard)
       PROVE  UNCHANGED <<task, wait, verification>>
  BY <1>13 DEF CompleteRefused
<1>14. CASE UNCHANGED vars
  BY <1>11, <1>14 DEF vars
<1> QED
  BY <1>1, <1>2, <1>3, <1>4, <1>5, <1>6, <1>7, <1>8, <1>9, <1>10, <1>11, <1>12, <1>13,
     <1>14 DEF Next, ControlPlaneNext, RunnerNext

\* A verification and an investigation's wait end with the task they are about and as
\* it ends, however it was completed, lost, retried or cancelled.
THEOREM OutcomesInAgreement == Spec => []OutcomesAgree
<1>1. Init => Agreement
  BY DEF Init, NoRow, Agreement, Agrees
<1> QED
  BY <1>1, AgreementStep, AgreementImplies, TypeCorrect, PTL DEF Spec

-----------------------------------------------------------------------------
(* Why a task never takes the result of an attempt that it lost: one token   *)
(* may serve several leases of a task, but a Runner that still has the token *)
(* takes the next one only after it has heard the answer to what it sent     *)
(* under the last.  The inductive invariant about tokens:                    *)

(* A token is named by an attempt that was started.                          *)
TokensStarted ==
    /\ \A r \in Runners, t \in Tasks : runner[r].token[t] <= task[t].attempt
    /\ \A t \in Tasks : task[t].status = "LEASED" =>
            1 <= task[t].token /\ task[t].token <= task[t].attempt
    /\ \A r \in Runners : process[r].task # NoTask =>
            1 <= process[r].token /\ process[r].token <= task[process[r].task].attempt
    /\ \A m \in sent : 1 <= m.token /\ m.token <= task[m.task].attempt

(* What a process works on, and what it reports, belongs to the attempt of   *)
(* the lease that its token fits.                                            *)
Fits(t, r, token) ==
    task[t].status = "LEASED" /\ task[t].runner = r /\ task[t].token = token

AttemptsFit ==
    /\ \A r \in Runners :
            process[r].task # NoTask /\ Fits(process[r].task, r, process[r].token)
                => process[r].attempt = task[process[r].task].attempt
    /\ \A m \in sent :
            Fits(m.task, m.runner, m.token) => m.attempt = task[m.task].attempt

(* A process that has the Runner's token of now waits for the answer to what *)
(* it sent under that token.                                                 *)
AnswersAwaited ==
    \A m \in sent :
        process[m.runner].current /\ runner[m.runner].token[m.task] = m.token =>
            /\ process[m.runner].task = m.task
            /\ process[m.runner].token = m.token
            /\ process[m.runner].attempt = m.attempt
            /\ process[m.runner].result = m.result

TokenInv == TokensStarted /\ AttemptsFit /\ AnswersAwaited

-----------------------------------------------------------------------------
(* What a step does to a lease: it keeps it or ends it, unless it is a claim. *)

KeepsLease(t) ==
    /\ task'[t].status = task[t].status
    /\ task'[t].runner = task[t].runner
    /\ task'[t].token = task[t].token
    /\ task'[t].attempt = task[t].attempt

EndsLease(t) ==
    task'[t].status # "LEASED" /\ task'[t].attempt = task[t].attempt

LeasesKeptOrEnded == \A t \in Tasks : KeepsLease(t) \/ EndsLease(t)

LEMMA Recovery ==
    ASSUME TypeOK, NEW found \in SUBSET ExpiredTasks, NEW t \in Tasks,
           task'[t] = RecoveredTask(found)[t]
    PROVE  KeepsLease(t) \/ EndsLease(t)
BY RecoveredLeases DEF KeepsLease, EndsLease, RecoveredTask

LEMMA LeaseMoves ==
    ASSUME TypeOK, [Next]_vars
    PROVE  \/ LeasesKeptOrEnded
           \/ \E r \in Runners, found \in SUBSET ExpiredTasks, heard \in BOOLEAN :
                ClaimQueued(r, found, heard)
<1> USE DEF KeepsLease, EndsLease, LeasesKeptOrEnded
<1>0. \A t \in Tasks : task[t] \in TaskRecord
  BY DEF TypeOK
<1>1. ASSUME NEW t \in Tasks, Create(t) PROVE LeasesKeptOrEnded
  BY <1>0, <1>1 DEF Create, TaskRecord, TypeOK
<1>2. ASSUME NEW t \in Tasks, Cancel(t) PROVE LeasesKeptOrEnded
  BY <1>0, <1>2 DEF Cancel, Cancelled, TaskRecord, TypeOK
<1>3. ASSUME NEW t \in Tasks, CancelRun(t) PROVE LeasesKeptOrEnded
  BY <1>0, <1>3 DEF CancelRun, Cancelled, TaskRecord, TypeOK
<1>4. ASSUME NEW r \in Runners, ExpireStaleRunner(r) PROVE LeasesKeptOrEnded
  BY <1>0, <1>4 DEF ExpireStaleRunner, Requeued, Failed, TaskRecord
<1>5. ASSUME NEW found \in SUBSET ExpiredTasks, ListTasks(found)
      PROVE  LeasesKeptOrEnded
  BY <1>5, Recovery DEF ListTasks, Recover
<1>6. ASSUME NEW r \in Runners, NEW found \in SUBSET ExpiredTasks, NEW heard \in BOOLEAN,
             ClaimActive(r, found, heard)
      PROVE  LeasesKeptOrEnded
  BY <1>6, Recovery DEF ClaimActive, Recover
<1>7. ASSUME NEW r \in Runners, Renew(r) PROVE LeasesKeptOrEnded
  BY <1>0, <1>7 DEF Renew, TaskRecord, TypeOK
<1>8. ASSUME NEW m \in sent, NEW heard \in BOOLEAN, Complete(m, heard)
      PROVE  LeasesKeptOrEnded
  <2>1. m.task \in Tasks
    BY DEF TypeOK, Completion
  <2>2. \A t \in Tasks : t # m.task => task'[t] = task[t]
    BY <1>8 DEF Complete, TypeOK
  <2>3. EndsLease(m.task)
    BY <1>0, <1>8, <2>1 DEF Complete, Requeued, TaskRecord, TypeOK
  <2> QED
    BY <2>2, <2>3
<1>9. CASE Tick
  BY <1>0, <1>9 DEF Tick, TaskRecord
<1>10. CASE UNCHANGED task
  BY <1>10
<1>11. ASSUME NEW r \in Runners,
              \/ \E heard \in BOOLEAN : Heartbeat(r, heard)
              \/ RenewRefused(r) \/ Crash(r) \/ \E x \in Result : Report(r, x)
       PROVE  UNCHANGED task
  BY <1>11 DEF Heartbeat, RenewRefused, Crash, Report
<1>12. ASSUME NEW m \in sent, NEW heard \in BOOLEAN, CompleteRefused(m, heard)
       PROVE  UNCHANGED task
  BY <1>12 DEF CompleteRefused
<1>13. CASE UNCHANGED vars
  BY <1>10, <1>13 DEF vars
<1> QED
  BY <1>1, <1>2, <1>3, <1>4, <1>5, <1>6, <1>7, <1>8, <1>9, <1>10, <1>11, <1>12, <1>13
  DEF Next, ControlPlaneNext, RunnerNext

(* A step that starts no attempt, gives no process a job and sends nothing   *)
(* keeps tokens and attempts together.                                       *)
LEMMA QuietStep ==
    ASSUME TypeOK, TypeOK', TokensStarted, AttemptsFit, LeasesKeptOrEnded, sent' \subseteq sent,
           \A r \in Runners :
                \/ process'[r].task = NoTask
                \/ /\ process'[r].task = process[r].task
                   /\ process'[r].token = process[r].token
                   /\ process'[r].attempt = process[r].attempt,
           \A r \in Runners, t \in Tasks :
                runner'[r].token[t] \in {0, runner[r].token[t]}
    PROVE  TokensStarted' /\ AttemptsFit'
<1>1. \A t \in Tasks : task'[t].attempt = task[t].attempt /\ task[t].attempt \in Nat
  BY DEF LeasesKeptOrEnded, KeepsLease, EndsLease, TypeOK, TaskRecord
<1>2. \A t \in Tasks : \A r, k : Fits(t, r, k)' => Fits(t, r, k)
  BY DEF LeasesKeptOrEnded, KeepsLease, EndsLease, Fits
<1>3. \A r \in Runners : process'[r].task # NoTask => process[r].task \in Tasks
                            /\ process[r].task # NoTask
  BY DEF TypeOK, ProcessRecord
<1>4. \A m \in sent : m.task \in Tasks
  BY DEF TypeOK, Completion
<1>5. TokensStarted'
  <2>1. \A r \in Runners, t \in Tasks : runner'[r].token[t] <= task'[t].attempt
    BY <1>1 DEF TokensStarted
  <2>2. \A t \in Tasks : task'[t].status = "LEASED" =>
            1 <= task'[t].token /\ task'[t].token <= task'[t].attempt
    BY DEF TokensStarted, LeasesKeptOrEnded, KeepsLease, EndsLease
  <2>3. \A r \in Runners : process'[r].task # NoTask =>
            1 <= process'[r].token /\ process'[r].token <= task'[process'[r].task].attempt
    BY <1>1, <1>3 DEF TokensStarted
  <2>4. \A m \in sent' : 1 <= m.token /\ m.token <= task'[m.task].attempt
    BY <1>1, <1>4 DEF TokensStarted
  <2> QED
    BY <2>1, <2>2, <2>3, <2>4 DEF TokensStarted
<1>6. AttemptsFit'
  <2>1. ASSUME NEW r \in Runners,
               process'[r].task # NoTask, Fits(process[r].task, r, process[r].token)'
        PROVE  process'[r].attempt = task'[process'[r].task].attempt
    <3>1. /\ process'[r].task = process[r].task
          /\ process'[r].token = process[r].token
          /\ process'[r].attempt = process[r].attempt
      BY <2>1
    <3>2. Fits(process[r].task, r, process[r].token)
      BY <1>3, <2>1, <3>1 DEF Fits, LeasesKeptOrEnded, KeepsLease, EndsLease
    <3> QED
      BY <1>1, <1>3, <2>1, <3>1, <3>2 DEF AttemptsFit
  <2>2. ASSUME NEW m \in sent', Fits(m.task, m.runner, m.token)'
        PROVE  m.attempt = task'[m.task].attempt
    BY <1>1, <1>2, <1>4, <2>2 DEF AttemptsFit
  <2> QED
    BY <2>1, <2>2 DEF AttemptsFit
<1> QED
  BY <1>5, <1>6

(* Steps of the control plane alone.                                         *)
LEMMA ControlPlaneStep ==
    ASSUME TypeOK, TypeOK', TokenInv, LeasesKeptOrEnded, UNCHANGED <<process, sent>>,
           \A r \in Runners, t \in Tasks : runner'[r].token[t] = runner[r].token[t]
    PROVE  TokenInv'
<1>1. TokensStarted' /\ AttemptsFit'
  BY QuietStep DEF TokenInv
<1>2. AnswersAwaited'
  BY DEF TokenInv, AnswersAwaited, TypeOK, Completion
<1> QED
  BY <1>1, <1>2 DEF TokenInv

(* A Runner with a current token and without a job has no message under it on *)
(* its way.                                                                  *)
LEMMA NothingSent ==
    ASSUME TypeOK, TokenInv, NEW r \in Runners, process[r].task = NoTask,
           process[r].current, NEW m \in sent, m.runner = r
    PROVE  runner[r].token[m.task] # m.token
<1>1. m.task \in Tasks
  BY DEF TypeOK, Completion
<1> QED
  BY <1>1 DEF TokenInv, AnswersAwaited

LEMMA HeartbeatStep ==
    ASSUME TypeOK, TypeOK', TokenInv, NEW r \in Runners, NEW heard \in BOOLEAN,
           Heartbeat(r, heard)
    PROVE  TokenInv'
<1>1. /\ \A q \in Runners : q # r => runner'[q] = runner[q] /\ process'[q] = process[q]
      /\ \A t \in Tasks : runner'[r].token[t] = 0
      /\ process'[r].task = process[r].task
      /\ process'[r].token = process[r].token
      /\ process'[r].attempt = process[r].attempt
      /\ UNCHANGED <<task, sent>>
  <2>1. process[r] \in ProcessRecord
    BY DEF TypeOK
  <2> QED
    BY <2>1 DEF Heartbeat, TypeOK, NoToken, ProcessRecord
<1>2. TokensStarted' /\ AttemptsFit'
  <2>1. \A q \in Runners, t \in Tasks : runner'[q].token[t] \in {0, runner[q].token[t]}
    BY <1>1
  <2>2. LeasesKeptOrEnded
    BY <1>1 DEF LeasesKeptOrEnded, KeepsLease
  <2> QED
    BY <1>1, <2>1, <2>2, QuietStep DEF TokenInv
<1>3. AnswersAwaited'
  <2> SUFFICES ASSUME NEW m \in sent,
                      process'[m.runner].current,
                      runner'[m.runner].token[m.task] = m.token
               PROVE  /\ process'[m.runner].task = m.task
                      /\ process'[m.runner].token = m.token
                      /\ process'[m.runner].attempt = m.attempt
                      /\ process'[m.runner].result = m.result
    BY <1>1 DEF AnswersAwaited
  <2>1. m.runner \in Runners /\ m.task \in Tasks /\ m.token \in Nat
    BY DEF TypeOK, Completion
  <2>2. m.runner # r
    BY <1>1, <2>1 DEF TokenInv, TokensStarted
  <2> QED
    BY <1>1, <2>1, <2>2 DEF TokenInv, AnswersAwaited
<1> QED
  BY <1>2, <1>3 DEF TokenInv

(* The process gives its job up, or dies.                                    *)
LEMMA EndOfJobStep ==
    ASSUME TypeOK, TypeOK', TokenInv, NEW r \in Runners, RenewRefused(r) \/ Crash(r)
    PROVE  TokenInv'
<1>1. /\ \A q \in Runners : q # r => process'[q] = process[q]
      /\ process'[r].task = NoTask
      /\ process'[r].current => process[r].current /\ process[r].result = "none"
      /\ UNCHANGED <<runner, task, sent>>
  <2>1. CASE RenewRefused(r)
    BY <2>1 DEF RenewRefused, Down, TypeOK
  <2>2. CASE Crash(r)
    BY <2>2 DEF Crash, Down, TypeOK
  <2> QED
    BY <2>1, <2>2
<1>2. TokensStarted' /\ AttemptsFit'
  <2>1. LeasesKeptOrEnded
    BY <1>1 DEF LeasesKeptOrEnded, KeepsLease
  <2> QED
    BY <1>1, <2>1, QuietStep DEF TokenInv
<1>3. AnswersAwaited'
  <2> SUFFICES ASSUME NEW m \in sent,
                      process'[m.runner].current,
                      runner[m.runner].token[m.task] = m.token
               PROVE  /\ process'[m.runner].task = m.task
                      /\ process'[m.runner].token = m.token
                      /\ process'[m.runner].attempt = m.attempt
                      /\ process'[m.runner].result = m.result
    BY <1>1 DEF AnswersAwaited
  <2>1. m.runner \in Runners /\ m.result # "none"
    BY DEF TypeOK, Completion, Result
  <2>2. m.runner # r
    BY <1>1, <2>1 DEF TokenInv, AnswersAwaited
  <2> QED
    BY <1>1, <2>1, <2>2 DEF TokenInv, AnswersAwaited
<1> QED
  BY <1>2, <1>3 DEF TokenInv

(* A process that has not reported yet has nothing else on its way that it   *)
(* still waits for.                                                          *)
LEMMA ReportStep ==
    ASSUME TypeOK, TypeOK', TokenInv, NEW r \in Runners, NEW result \in Result,
           Report(r, result)
    PROVE  TokenInv'
<1> DEFINE new == [runner |-> r, task |-> process[r].task, token |-> process[r].token,
                   attempt |-> process[r].attempt, result |-> result]
<1>1. /\ \A q \in Runners : q # r => process'[q] = process[q]
      /\ process'[r].task = process[r].task
      /\ process'[r].token = process[r].token
      /\ process'[r].attempt = process[r].attempt
      /\ process'[r].current = process[r].current
      /\ process'[r].result = result
      /\ process[r].task \in Tasks /\ process[r].task # NoTask
      /\ process[r].result = "none"
      /\ sent' = sent \union {new}
      /\ UNCHANGED <<runner, task>>
  <2>1. process[r] \in ProcessRecord
    BY DEF TypeOK
  <2> QED
    BY <2>1 DEF Report, TypeOK, ProcessRecord
<1>2. /\ new.runner = r /\ new.task = process[r].task /\ new.token = process[r].token
      /\ new.attempt = process[r].attempt /\ new.result = result
  OBVIOUS
<1> HIDE DEF new
<1>3. TokensStarted'
  BY <1>1, <1>2 DEF TokenInv, TokensStarted
<1>4. AttemptsFit'
  <2>1. \A q \in Runners : /\ process'[q].task = process[q].task
                           /\ process'[q].token = process[q].token
                           /\ process'[q].attempt = process[q].attempt
    BY <1>1
  <2>2. \A m \in sent' : m \in sent \/ m = new
    BY <1>1
  <2> QED
    BY <1>1, <1>2, <2>1, <2>2 DEF TokenInv, AttemptsFit, Fits
<1>5. AnswersAwaited'
  <2> SUFFICES ASSUME NEW m \in sent,
                      process'[m.runner].current,
                      runner[m.runner].token[m.task] = m.token
               PROVE  /\ process'[m.runner].task = m.task
                      /\ process'[m.runner].token = m.token
                      /\ process'[m.runner].attempt = m.attempt
                      /\ process'[m.runner].result = m.result
    BY <1>1, <1>2 DEF AnswersAwaited
  <2>1. m.runner \in Runners /\ m.result # "none"
    BY DEF TypeOK, Completion, Result
  <2>2. m.runner # r
    BY <1>1, <2>1 DEF TokenInv, AnswersAwaited
  <2> QED
    BY <1>1, <2>1, <2>2 DEF TokenInv, AnswersAwaited
<1> QED
  BY <1>3, <1>4, <1>5 DEF TokenInv

LEMMA SameMessage ==
    ASSUME NEW m \in Completion, NEW n \in Completion,
           n.runner = m.runner, n.task = m.task, n.token = m.token,
           n.attempt = m.attempt, n.result = m.result
    PROVE  n = m
<1>1. m = [runner |-> m.runner, task |-> m.task, token |-> m.token,
           attempt |-> m.attempt, result |-> m.result]
  BY DEF Completion
<1>2. n = [runner |-> n.runner, task |-> n.task, token |-> n.token,
           attempt |-> n.attempt, result |-> n.result]
  BY DEF Completion
<1> QED
  BY <1>1, <1>2

(* The answer to a message ends the job that the message came from, and no   *)
(* other message of that process is then still waited for.                   *)
LEMMA AnsweredStep ==
    ASSUME TypeOK, TypeOK', TokenInv, LeasesKeptOrEnded, NEW m \in sent,
           NEW heard \in BOOLEAN, process' = Answered(m, heard), sent' = sent \ {m},
           UNCHANGED runner
    PROVE  TokenInv'
<1> DEFINE mine == /\ process[m.runner].task = m.task
                   /\ process[m.runner].token = m.token
                   /\ process[m.runner].result = m.result
<1>1. m \in Completion /\ m.runner \in Runners
  BY DEF TypeOK, Completion
<1>2. CASE ~mine
  <2>1. process' = process
    BY <1>2 DEF Answered
  <2>2. TokensStarted' /\ AttemptsFit'
    BY <2>1, QuietStep DEF TokenInv, TypeOK
  <2>3. AnswersAwaited'
    BY <2>1 DEF TokenInv, AnswersAwaited
  <2> QED
    BY <2>2, <2>3 DEF TokenInv
<1>3. CASE mine
  <2>1. /\ \A q \in Runners : q # m.runner => process'[q] = process[q]
        /\ process'[m.runner].task = NoTask
        /\ process'[m.runner].current => process[m.runner].current
    BY <1>1, <1>3 DEF Answered, Down, TypeOK
  <2>2. TokensStarted' /\ AttemptsFit'
    <3>1. \A r \in Runners, t \in Tasks :
                runner'[r].token[t] \in {0, runner[r].token[t]}
      OBVIOUS
    <3> QED
      BY <2>1, <3>1, QuietStep DEF TokenInv
  <2>3. AnswersAwaited'
    <3> SUFFICES ASSUME NEW n \in sent, n # m,
                        process'[n.runner].current,
                        runner[n.runner].token[n.task] = n.token
                 PROVE  /\ process'[n.runner].task = n.task
                        /\ process'[n.runner].token = n.token
                        /\ process'[n.runner].attempt = n.attempt
                        /\ process'[n.runner].result = n.result
      BY DEF AnswersAwaited
    <3>1. n \in Completion /\ n.runner \in Runners
      BY DEF TypeOK, Completion
    <3>2. CASE n.runner # m.runner
      BY <2>1, <3>1, <3>2 DEF TokenInv, AnswersAwaited
    <3>3. CASE n.runner = m.runner
      <4>1. /\ process[n.runner].task = n.task /\ process[n.runner].token = n.token
            /\ process[n.runner].attempt = n.attempt /\ process[n.runner].result = n.result
        BY <2>1, <3>3 DEF TokenInv, AnswersAwaited
      <4>2. process[m.runner].attempt = m.attempt
        <5>1. m.task = n.task /\ m.token = n.token
          BY <1>3, <3>3, <4>1
        <5>2. runner[m.runner].token[m.task] = m.token
          BY <3>3, <5>1
        <5>3. process[m.runner].current
          BY <2>1, <3>3
        <5> QED
          BY <5>2, <5>3 DEF TokenInv, AnswersAwaited
      <4>3. /\ n.runner = m.runner /\ n.task = m.task /\ n.token = m.token
            /\ n.attempt = m.attempt /\ n.result = m.result
        BY <1>3, <3>3, <4>1, <4>2
      <4>4. n = m
        BY <1>1, <3>1, <4>3, SameMessage
      <4> QED
        BY <4>4
    <3> QED
      BY <3>2, <3>3
  <2> QED
    BY <2>2, <2>3 DEF TokenInv
<1> QED
  BY <1>2, <1>3

(* A claim that hands out the task the Runner has anyway.                    *)
LEMMA ClaimActiveStep ==
    ASSUME TypeOK, TypeOK', TokenInv, NEW r \in Runners, NEW found \in SUBSET ExpiredTasks,
           NEW heard \in BOOLEAN, ClaimActive(r, found, heard)
    PROVE  TokenInv'
<1>1. PICK t \in Tasks :
        /\ RecoveredTask(found)[t].status = "LEASED"
        /\ RecoveredTask(found)[t].runner = r
        /\ process' = Started(r, t, task[t], heard)
  BY DEF ClaimActive, Active
<1>2. /\ process[r].task = NoTask /\ process[r].current
      /\ UNCHANGED <<runner, sent>>
      /\ \A u \in Tasks : task'[u] = RecoveredTask(found)[u]
  BY DEF ClaimActive, MayClaim, Recover
<1>3. task'[t] = task[t] /\ Fits(t, r, task[t].token)
  BY <1>1, <1>2, RecoveredLeases DEF Fits
<1>4. LeasesKeptOrEnded
  BY <1>2, Recovery DEF LeasesKeptOrEnded
<1>5. /\ \A q \in Runners : q # r => process'[q] = process[q]
      /\ \/ process'[r] = Down
         \/ /\ process'[r].task = t
            /\ process'[r].token = task[t].token
            /\ process'[r].attempt = task[t].attempt
            /\ process'[r].current = process[r].current
  <2>1. process[r] \in ProcessRecord
    BY DEF TypeOK
  <2> QED
    BY <1>1, <2>1 DEF Started, TypeOK, ProcessRecord
<1>6. AnswersAwaited'
  <2> SUFFICES ASSUME NEW m \in sent,
                      process'[m.runner].current,
                      runner[m.runner].token[m.task] = m.token
               PROVE  /\ process'[m.runner].task = m.task
                      /\ process'[m.runner].token = m.token
                      /\ process'[m.runner].attempt = m.attempt
                      /\ process'[m.runner].result = m.result
    BY <1>2 DEF AnswersAwaited
  <2>1. m.runner \in Runners
    BY DEF TypeOK, Completion
  <2>2. m.runner # r
    BY <1>2, NothingSent
  <2> QED
    BY <1>5, <2>1, <2>2 DEF TokenInv, AnswersAwaited
<1>7. \A u \in Tasks : task'[u].attempt = task[u].attempt /\ task[u].attempt \in Nat
  BY <1>4 DEF LeasesKeptOrEnded, KeepsLease, EndsLease, TypeOK, TaskRecord
<1>8. \A u \in Tasks : \A q, k : Fits(u, q, k)' => Fits(u, q, k)
  BY <1>4 DEF LeasesKeptOrEnded, KeepsLease, EndsLease, Fits
<1>9. TokensStarted'
  <2>1. \A q \in Runners, u \in Tasks : runner'[q].token[u] <= task'[u].attempt
    BY <1>2, <1>7 DEF TokenInv, TokensStarted
  <2>2. \A u \in Tasks : task'[u].status = "LEASED" =>
            1 <= task'[u].token /\ task'[u].token <= task'[u].attempt
    BY <1>4 DEF TokenInv, TokensStarted, LeasesKeptOrEnded, KeepsLease, EndsLease
  <2>3. ASSUME NEW q \in Runners, process'[q].task # NoTask
        PROVE  1 <= process'[q].token /\ process'[q].token <= task'[process'[q].task].attempt
    <3>1. CASE q = r
      BY <1>3, <1>5, <2>2, <2>3, <3>1 DEF Down, Fits
    <3>2. CASE q # r
      <4>1. process[q].task \in Tasks
        BY <1>5, <2>3, <3>2 DEF TypeOK, ProcessRecord
      <4> QED
        BY <1>5, <1>7, <2>3, <3>2, <4>1 DEF TokenInv, TokensStarted
    <3> QED
      BY <3>1, <3>2
  <2>4. \A m \in sent : 1 <= m.token /\ m.token <= task'[m.task].attempt
    BY <1>7 DEF TokenInv, TokensStarted, TypeOK, Completion
  <2> QED
    BY <1>2, <2>1, <2>2, <2>3, <2>4 DEF TokensStarted
<1>10. AttemptsFit'
  <2>1. ASSUME NEW q \in Runners,
               process'[q].task # NoTask, Fits(process[q].task, q, process[q].token)'
        PROVE  process'[q].attempt = task'[process'[q].task].attempt
    <3>1. CASE q = r
      BY <1>3, <1>5, <2>1, <3>1 DEF Down
    <3>2. CASE q # r
      <4>1. process[q].task \in Tasks /\ process'[q] = process[q]
        BY <1>5, <2>1, <3>2 DEF TypeOK, ProcessRecord
      <4>2. Fits(process[q].task, q, process[q].token)
        BY <1>4, <2>1, <4>1 DEF Fits, LeasesKeptOrEnded, KeepsLease, EndsLease
      <4> QED
        BY <1>7, <2>1, <4>1, <4>2 DEF TokenInv, AttemptsFit
    <3> QED
      BY <3>1, <3>2
  <2>2. ASSUME NEW m \in sent, Fits(m.task, m.runner, m.token)'
        PROVE  m.attempt = task'[m.task].attempt
    BY <1>7, <1>8, <2>2 DEF TokenInv, AttemptsFit, TypeOK, Completion
  <2> QED
    BY <1>2, <2>1, <2>2 DEF AttemptsFit
<1> QED
  BY <1>6, <1>9, <1>10 DEF TokenInv

(* A claim that starts the next attempt.  When the Runner's token is on an   *)
(* earlier lease of the task already, nothing it sent under that lease can   *)
(* still be on its way.                                                      *)
LEMMA ClaimQueuedStep ==
    ASSUME TypeOK, TypeOK', TokenInv, NEW r \in Runners, NEW found \in SUBSET ExpiredTasks,
           NEW heard \in BOOLEAN, ClaimQueued(r, found, heard)
    PROVE  TokenInv'
<1> DEFINE rows == RecoveredTask(found)
           attempt(t) == rows[t].attempt + 1
           token(t) == IF runner[r].token[t] = 0 THEN attempt(t)
                       ELSE runner[r].token[t]
           leased(t) == [status |-> "LEASED", runner |-> r, token |-> token(t),
                         lease |-> TaskLease, attempt |-> attempt(t)]
<1>1. PICK t \in Tasks :
        /\ task' = [rows EXCEPT ![t] = leased(t)]
        /\ runner' = [runner EXCEPT ![r].token[t] = token(t)]
        /\ process' = Started(r, t, leased(t), heard)
  BY DEF ClaimQueued, Candidates
<1>2. process[r].task = NoTask /\ process[r].current /\ UNCHANGED sent
  BY DEF ClaimQueued, MayClaim
<1>3. /\ rows \in [Tasks -> TaskRecord]
      /\ \A u \in Tasks : rows[u].attempt = task[u].attempt /\ task[u].attempt \in Nat
  <2>1. rows \in [Tasks -> TaskRecord]
    BY RecoveredTypes
  <2>2. \A u \in Tasks : rows[u].attempt = task[u].attempt
    BY RecoveredLeases
  <2>3. \A u \in Tasks : task[u].attempt \in Nat
    BY DEF TypeOK, TaskRecord
  <2> QED
    BY <2>1, <2>2, <2>3
<1>4. /\ leased(t).status = "LEASED" /\ leased(t).runner = r
      /\ leased(t).token = token(t) /\ leased(t).attempt = task[t].attempt + 1
  BY <1>3
<1>5. /\ 1 <= token(t) /\ token(t) <= task[t].attempt + 1
      /\ token(t) = runner[r].token[t] \/ token(t) = task[t].attempt + 1
  <2>1. runner[r].token[t] \in Nat /\ runner[r].token[t] <= task[t].attempt
    BY DEF TokenInv, TokensStarted, TypeOK, RunnerRecord
  <2> QED
    BY <1>3, <2>1
<1> HIDE DEF leased, token, attempt, rows
<1>6. /\ task'[t] = leased(t)
      /\ \A u \in Tasks : u # t => task'[u] = RecoveredTask(found)[u]
  BY <1>1, <1>3 DEF rows
<1>7. /\ \A q \in Runners, u \in Tasks :
            q # r \/ u # t => runner'[q].token[u] = runner[q].token[u]
      /\ runner'[r].token[t] = token(t)
  <2>1. \A q \in Runners : runner[q] \in RunnerRecord /\ runner[q].token \in [Tasks -> Nat]
    BY DEF TypeOK, RunnerRecord
  <2> QED
    BY <1>1, <2>1 DEF TypeOK, RunnerRecord
<1>8. /\ \A q \in Runners : q # r => process'[q] = process[q]
      /\ \/ process'[r] = Down
         \/ /\ process'[r].task = t
            /\ process'[r].token = token(t)
            /\ process'[r].attempt = task[t].attempt + 1
            /\ process'[r].current = process[r].current
  <2>1. process[r] \in ProcessRecord
    BY DEF TypeOK
  <2> QED
    BY <1>1, <1>4, <2>1 DEF Started, TypeOK, ProcessRecord
<1>9. \A u \in Tasks : u # t => KeepsLease(u) \/ EndsLease(u)
  BY <1>6, Recovery
<1>10. \A u \in Tasks : u # t => task'[u].attempt = task[u].attempt
  BY <1>9 DEF KeepsLease, EndsLease
<1>11. AnswersAwaited'
  <2> SUFFICES ASSUME NEW m \in sent,
                      process'[m.runner].current,
                      runner'[m.runner].token[m.task] = m.token
               PROVE  /\ process'[m.runner].task = m.task
                      /\ process'[m.runner].token = m.token
                      /\ process'[m.runner].attempt = m.attempt
                      /\ process'[m.runner].result = m.result
    BY <1>2 DEF AnswersAwaited
  <2>1. m.runner \in Runners /\ m.task \in Tasks /\ m.token \in Nat
    BY DEF TypeOK, Completion
  <2>2. runner[m.runner].token[m.task] = m.token
    BY <1>3, <1>5, <1>7, <2>1 DEF TokenInv, TokensStarted
  <2>3. m.runner # r
    BY <1>2, <2>2, NothingSent
  <2> QED
    BY <1>8, <2>1, <2>2, <2>3 DEF TokenInv, AnswersAwaited
<1>12. TokensStarted'
  <2>1. \A q \in Runners, u \in Tasks : runner'[q].token[u] <= task'[u].attempt
    <3> SUFFICES ASSUME NEW q \in Runners, NEW u \in Tasks
                 PROVE  runner'[q].token[u] <= task'[u].attempt
      OBVIOUS
    <3>1. runner[q].token[u] <= task[u].attempt /\ runner[q].token[u] \in Nat
      BY DEF TokenInv, TokensStarted, TypeOK, RunnerRecord
    <3>2. CASE u = t
      BY <1>3, <1>4, <1>5, <1>6, <1>7, <3>1, <3>2
    <3>3. CASE u # t
      BY <1>7, <1>10, <3>1, <3>3
    <3> QED
      BY <3>2, <3>3
  <2>2. \A u \in Tasks : task'[u].status = "LEASED" =>
            1 <= task'[u].token /\ task'[u].token <= task'[u].attempt
    BY <1>4, <1>5, <1>6, <1>9 DEF TokenInv, TokensStarted, KeepsLease, EndsLease
  <2>3. ASSUME NEW q \in Runners, process'[q].task # NoTask
        PROVE  1 <= process'[q].token /\ process'[q].token <= task'[process'[q].task].attempt
    <3>1. CASE q = r
      BY <1>4, <1>5, <1>6, <1>8, <2>3, <3>1 DEF Down
    <3>2. CASE q # r
      <4>1. process'[q] = process[q] /\ process[q].task \in Tasks /\ process[q].token \in Nat
        BY <1>8, <2>3, <3>2 DEF TypeOK, ProcessRecord
      <4>2. 1 <= process[q].token /\ process[q].token <= task[process[q].task].attempt
        BY <2>3, <4>1 DEF TokenInv, TokensStarted
      <4> QED
        BY <1>3, <1>4, <1>6, <1>10, <4>1, <4>2
    <3> QED
      BY <3>1, <3>2
  <2>4. ASSUME NEW m \in sent PROVE 1 <= m.token /\ m.token <= task'[m.task].attempt
    <3>1. m.task \in Tasks /\ m.token \in Nat
      BY DEF TypeOK, Completion
    <3>2. 1 <= m.token /\ m.token <= task[m.task].attempt
      BY DEF TokenInv, TokensStarted
    <3> QED
      BY <1>3, <1>4, <1>6, <1>10, <3>1, <3>2
  <2> QED
    BY <1>2, <2>1, <2>2, <2>3, <2>4 DEF TokensStarted
<1>13. AttemptsFit'
  <2>1. ASSUME NEW q \in Runners,
               process'[q].task # NoTask, Fits(process[q].task, q, process[q].token)'
        PROVE  process'[q].attempt = task'[process'[q].task].attempt
    <3>1. CASE q = r
      BY <1>4, <1>6, <1>8, <2>1, <3>1 DEF Down
    <3>2. CASE q # r
      <4>1. process[q].task \in Tasks /\ process'[q] = process[q]
        BY <1>8, <2>1, <3>2 DEF TypeOK, ProcessRecord
      <4>2. process[q].task # t
        BY <1>4, <1>6, <2>1, <3>2, <4>1 DEF Fits
      <4>3. Fits(process[q].task, q, process[q].token)
        BY <1>9, <2>1, <4>1, <4>2 DEF Fits, KeepsLease, EndsLease
      <4> QED
        BY <1>10, <2>1, <4>1, <4>2, <4>3 DEF TokenInv, AttemptsFit
    <3> QED
      BY <3>1, <3>2
  <2>2. ASSUME NEW m \in sent, Fits(m.task, m.runner, m.token)'
        PROVE  m.attempt = task'[m.task].attempt
    <3>1. m.task \in Tasks /\ m.token \in Nat
      BY DEF TypeOK, Completion
    <3>2. CASE m.task = t
      <4>1. m.runner = r /\ m.token = token(t)
        BY <1>4, <1>6, <2>2, <3>2 DEF Fits
      <4>2. m.token # runner[r].token[t]
        BY <1>2, <3>2, <4>1, NothingSent
      <4>3. m.token <= task[t].attempt
        BY <3>2 DEF TokenInv, TokensStarted
      <4> QED
        BY <1>3, <1>5, <3>1, <4>1, <4>2, <4>3
    <3>3. CASE m.task # t
      <4>1. Fits(m.task, m.runner, m.token)
        BY <1>9, <2>2, <3>1, <3>3 DEF Fits, KeepsLease, EndsLease
      <4> QED
        BY <1>10, <3>1, <3>3, <4>1 DEF TokenInv, AttemptsFit
    <3> QED
      BY <3>2, <3>3
  <2> QED
    BY <1>2, <2>1, <2>2 DEF AttemptsFit
<1> QED
  BY <1>11, <1>12, <1>13 DEF TokenInv

LEMMA TokenStep ==
    ASSUME TypeOK, TokenInv, [Next]_vars
    PROVE  TokenInv'
<1>0. TypeOK'
  BY NextTypes
<1>1. CASE LeasesKeptOrEnded
  <2>1. ASSUME UNCHANGED <<process, sent>>,
               \A r \in Runners, t \in Tasks : runner'[r].token[t] = runner[r].token[t]
        PROVE  TokenInv'
    BY <1>0, <1>1, <2>1, ControlPlaneStep
  <2>2. ASSUME NEW t \in Tasks, Create(t) \/ Cancel(t) \/ CancelRun(t) PROVE TokenInv'
    BY <2>1, <2>2 DEF Create, Cancel, CancelRun
  <2>3. ASSUME NEW r \in Runners, ExpireStaleRunner(r) PROVE TokenInv'
    <3>1. \A q \in Runners : runner[q] \in RunnerRecord
      BY DEF TypeOK
    <3>2. \A q \in Runners : runner'[q].token = runner[q].token
      BY <2>3, <3>1 DEF ExpireStaleRunner, TypeOK, RunnerRecord
    <3> QED
      BY <2>1, <2>3, <3>2 DEF ExpireStaleRunner
  <2>4. ASSUME NEW found \in SUBSET ExpiredTasks, ListTasks(found) PROVE TokenInv'
    BY <2>1, <2>4 DEF ListTasks
  <2>5. ASSUME NEW r \in Runners, Renew(r) PROVE TokenInv'
    BY <2>1, <2>5 DEF Renew
  <2>6. CASE Tick
    <3>1. \A q \in Runners : runner[q] \in RunnerRecord
      BY DEF TypeOK
    <3>2. \A q \in Runners : runner'[q].token = runner[q].token
      BY <2>6, <3>1 DEF Tick, RunnerRecord
    <3> QED
      BY <2>1, <2>6, <3>2 DEF Tick
  <2>7. CASE UNCHANGED vars
    BY <2>1, <2>7 DEF vars
  <2>8. ASSUME NEW m \in sent, NEW heard \in BOOLEAN, Complete(m, heard) PROVE TokenInv'
    BY <1>0, <1>1, <2>8, AnsweredStep DEF Complete
  <2>9. ASSUME NEW m \in sent, NEW heard \in BOOLEAN, CompleteRefused(m, heard)
        PROVE  TokenInv'
    <3>1. (heard /\ Authorized(m.runner)) \in BOOLEAN
      BY DEF TypeOK, Completion, Authorized, RunnerRecord
    <3> QED
      BY <1>0, <1>1, <2>9, <3>1, AnsweredStep DEF CompleteRefused
  <2>10. ASSUME NEW r \in Runners, NEW heard \in BOOLEAN, Heartbeat(r, heard)
         PROVE  TokenInv'
    BY <1>0, <2>10, HeartbeatStep
  <2>11. ASSUME NEW r \in Runners, RenewRefused(r) \/ Crash(r) PROVE TokenInv'
    BY <1>0, <2>11, EndOfJobStep
  <2>12. ASSUME NEW r \in Runners, NEW result \in Result, Report(r, result)
         PROVE  TokenInv'
    BY <1>0, <2>12, ReportStep
  <2>13. ASSUME NEW r \in Runners, NEW found \in SUBSET ExpiredTasks,
                NEW heard \in BOOLEAN, ClaimActive(r, found, heard)
         PROVE  TokenInv'
    BY <1>0, <2>13, ClaimActiveStep
  <2>14. ASSUME NEW r \in Runners, NEW found \in SUBSET ExpiredTasks,
                NEW heard \in BOOLEAN, ClaimQueued(r, found, heard)
         PROVE  TokenInv'
    BY <1>0, <2>14, ClaimQueuedStep
  <2> QED
    BY <2>2, <2>3, <2>4, <2>5, <2>6, <2>7, <2>8, <2>9, <2>10, <2>11, <2>12, <2>13, <2>14
    DEF Next, ControlPlaneNext, RunnerNext
<1>2. ASSUME NEW r \in Runners, NEW found \in SUBSET ExpiredTasks, NEW heard \in BOOLEAN,
             ClaimQueued(r, found, heard)
      PROVE  TokenInv'
  BY <1>0, <1>2, ClaimQueuedStep
<1> QED
  BY <1>1, <1>2, LeaseMoves

(* Tokens never let a Runner speak for an attempt other than its own.        *)
THEOREM TokensFence == Spec => []TokenInv
<1>1. Init => TokenInv
  BY DEF Init, TokenInv, TokensStarted, AttemptsFit, AnswersAwaited, NoToken, NoRow, Down
<1> QED
  BY <1>1, TokenStep, TypeCorrect, PTL DEF Spec

-----------------------------------------------------------------------------
(* What a step does to one task, told by its status, its attempts and the    *)
(* attempt whose result it took.                                             *)

Stays(t) ==
    /\ task'[t].status = task[t].status
    /\ task'[t].attempt = task[t].attempt
    /\ acceptedFrom'[t] = acceptedFrom[t]

Moves(t, from, to) ==
    /\ task[t].status = from /\ task'[t].status = to
    /\ task'[t].attempt = task[t].attempt

Submitted(t) == Moves(t, "NONE", "QUEUED")
Retried(t) == Moves(t, "LEASED", "QUEUED") /\ ~Exhausted(t)
CancelledNow(t) == Moves(t, "QUEUED", "CANCELLED") \/ Moves(t, "LEASED", "CANCELLED")
SucceededNow(t) ==
    Moves(t, "LEASED", "SUCCEEDED") /\ acceptedFrom'[t] = task[t].attempt
FailedNow(t) ==
    /\ Moves(t, "LEASED", "FAILED")
    /\ \/ Exhausted(t)
       \/ t \notin Verifications /\ acceptedFrom'[t] = task[t].attempt
Attempted(t) ==
    /\ \/ task[t].status = "QUEUED"
       \/ task[t].status = "LEASED" /\ ~Exhausted(t)
    /\ task'[t].status = "LEASED"
    /\ task'[t].attempt = task[t].attempt + 1

TaskMoves(t) ==
    \/ Stays(t) \/ Submitted(t) \/ Attempted(t) \/ Retried(t)
    \/ CancelledNow(t) \/ SucceededNow(t) \/ FailedNow(t)

(* What taking a task back does to its row.                                  *)
LEMMA TakenBack ==
    ASSUME TypeOK, NEW u \in Tasks
    PROVE  /\ Cancelled(task[u]).status = "CANCELLED"
           /\ Cancelled(task[u]).attempt = task[u].attempt
           /\ Failed(task[u]).status = "FAILED"
           /\ Failed(task[u]).attempt = task[u].attempt
           /\ \A owner : /\ Requeued(task[u], owner).status = "QUEUED"
                          /\ Requeued(task[u], owner).attempt = task[u].attempt
<1>1. task[u] \in TaskRecord
  BY DEF TypeOK
<1> QED
  BY <1>1 DEF Cancelled, Failed, Requeued, TaskRecord

LEMMA RecoveryMoves ==
    ASSUME TypeOK, NEW found \in SUBSET ExpiredTasks, NEW t \in Tasks,
           task'[t] = RecoveredTask(found)[t], UNCHANGED acceptedFrom
    PROVE  TaskMoves(t)
<1>1. CASE t \notin found
  BY <1>1 DEF RecoveredTask, TaskMoves, Stays
<1>2. ASSUME t \in found, ~Exhausted(t) PROVE Retried(t)
  <2>1. task'[t] = Requeued(task[t], task[t].runner)
    BY <1>2 DEF RecoveredTask
  <2>2. task'[t].status = "QUEUED" /\ task'[t].attempt = task[t].attempt
    <3>1. task[t] \in TaskRecord
      BY DEF TypeOK
    <3> QED
      BY <2>1, <3>1 DEF Requeued, TaskRecord
  <2> QED
    BY <1>2, <2>2 DEF ExpiredTasks, Retried, Moves
<1>3. ASSUME t \in found, Exhausted(t) PROVE FailedNow(t)
  <2>1. task'[t] = Failed(task[t])
    BY <1>3 DEF RecoveredTask
  <2> QED
    BY <1>3, <2>1, TakenBack DEF ExpiredTasks, FailedNow, Moves
<1> QED
  BY <1>1, <1>2, <1>3 DEF TaskMoves

LEMMA TaskSteps ==
    ASSUME TypeOK, TokenInv, [Next]_vars
    PROVE  \A t \in Tasks : TaskMoves(t)
<1> SUFFICES ASSUME NEW t \in Tasks PROVE TaskMoves(t)
  OBVIOUS
<1>0. task[t] \in TaskRecord
  BY DEF TypeOK
<1>1. ASSUME task'[t].status = task[t].status, task'[t].attempt = task[t].attempt,
             UNCHANGED acceptedFrom
      PROVE  TaskMoves(t)
  BY <1>1 DEF TaskMoves, Stays
<1>2. ASSUME NEW u \in Tasks, Create(u) PROVE TaskMoves(t)
  BY <1>0, <1>2 DEF Create, TypeOK, TaskRecord, TaskMoves, Stays, Submitted, Moves
<1>3. ASSUME NEW u \in Tasks, task[u].status \in {"QUEUED", "LEASED"},
             task' = [task EXCEPT ![u] = Cancelled(task[u])], UNCHANGED acceptedFrom
      PROVE  TaskMoves(t)
  <2>1. CASE t = u
    <3>1. task'[t] = Cancelled(task[t])
      BY <1>3, <2>1 DEF TypeOK
    <3>2. CancelledNow(t)
      BY <1>3, <2>1, <3>1, TakenBack DEF CancelledNow, Moves
    <3> QED
      BY <3>2 DEF TaskMoves
  <2>2. CASE t # u
    <3>1. task'[t] = task[t]
      BY <1>3, <2>2 DEF TypeOK
    <3> QED
      BY <1>1, <1>3, <3>1
  <2> QED
    BY <2>1, <2>2
<1>4. ASSUME NEW u \in Tasks, Cancel(u) \/ CancelRun(u) PROVE TaskMoves(t)
  BY <1>1, <1>3, <1>4 DEF Cancel, CancelRun
<1>5. ASSUME NEW r \in Runners, ExpireStaleRunner(r) PROVE TaskMoves(t)
  <2>1. CASE t \notin LeasedTo(r)
    BY <1>1, <1>5, <2>1 DEF ExpireStaleRunner
  <2>2. ASSUME t \in LeasedTo(r), ~Exhausted(t) PROVE Retried(t)
    BY <1>5, <2>2, TakenBack DEF ExpireStaleRunner, LeasedTo, Retried, Moves
  <2>3. ASSUME t \in LeasedTo(r), Exhausted(t) PROVE FailedNow(t)
    BY <1>5, <2>3, TakenBack DEF ExpireStaleRunner, LeasedTo, FailedNow, Moves
  <2> QED
    BY <2>1, <2>2, <2>3 DEF TaskMoves
<1>6. ASSUME NEW found \in SUBSET ExpiredTasks, ListTasks(found) PROVE TaskMoves(t)
  BY <1>6, RecoveryMoves DEF ListTasks, Recover
<1>7. ASSUME NEW r \in Runners, NEW found \in SUBSET ExpiredTasks, NEW heard \in BOOLEAN,
             ClaimActive(r, found, heard)
      PROVE  TaskMoves(t)
  BY <1>7, RecoveryMoves DEF ClaimActive, Recover
<1>8. ASSUME NEW r \in Runners, NEW found \in SUBSET ExpiredTasks, NEW heard \in BOOLEAN,
             ClaimQueued(r, found, heard)
      PROVE  TaskMoves(t)
  <2> DEFINE rows == RecoveredTask(found)
             attempt(u) == rows[u].attempt + 1
             token(u) == IF runner[r].token[u] = 0 THEN attempt(u)
                         ELSE runner[r].token[u]
             leased(u) == [status |-> "LEASED", runner |-> r, token |-> token(u),
                           lease |-> TaskLease, attempt |-> attempt(u)]
  <2>1. PICK u \in Tasks : /\ rows[u].status = "QUEUED"
                           /\ task' = [rows EXCEPT ![u] = leased(u)]
    BY <1>8 DEF ClaimQueued, Candidates
  <2>2. UNCHANGED acceptedFrom
    BY <1>8 DEF ClaimQueued
  <2>3. /\ rows \in [Tasks -> TaskRecord]
        /\ rows[t].attempt = task[t].attempt
    BY RecoveredTypes, RecoveredLeases
  <2>4. leased(u).status = "LEASED" /\ leased(u).attempt = rows[u].attempt + 1
    OBVIOUS
  <2>5. rows[t].status = "QUEUED" =>
            \/ task[t].status = "QUEUED"
            \/ task[t].status = "LEASED" /\ ~Exhausted(t)
    BY TakenBack DEF RecoveredTask, ExpiredTasks
  <2> HIDE DEF leased, rows
  <2>6. CASE t = u
    BY <2>1, <2>3, <2>4, <2>5, <2>6 DEF TaskMoves, Attempted
  <2>7. CASE t # u
    <3>1. task'[t] = RecoveredTask(found)[t]
      BY <2>1, <2>3, <2>7 DEF rows
    <3> QED
      BY <2>2, <3>1, RecoveryMoves
  <2> QED
    BY <2>6, <2>7
<1>9. ASSUME NEW m \in sent, NEW heard \in BOOLEAN, Complete(m, heard) PROVE TaskMoves(t)
  <2>1. m.task \in Tasks
    BY DEF TypeOK, Completion
  <2>2. CASE t # m.task
    BY <1>9, <2>2 DEF Complete, TypeOK, TaskMoves, Stays
  <2>3. CASE t = m.task
    <3> DEFINE ended == IF m.result = "succeeded" THEN "SUCCEEDED" ELSE "FAILED"
               retried == t \in Verifications /\ m.result = "failed" /\ ~Exhausted(t)
    <3>1. /\ task[t].status = "LEASED"
          /\ m.attempt = task[t].attempt
      BY <1>9, <2>3 DEF Complete, OwnsLease, TokenInv, AttemptsFit, Fits
    <3>2. acceptedFrom'[t] = task[t].attempt
      BY <1>9, <2>3, <3>1 DEF Complete, TypeOK
    <3>3. task'[t] = IF retried THEN Requeued(task[t], NoRunner)
                     ELSE [task[t] EXCEPT !.status = ended, !.lease = 0]
      BY <1>9, <2>1, <2>3 DEF Complete, TypeOK
    <3>4. CASE retried
      BY <1>0, <3>1, <3>3, <3>4 DEF Requeued, TaskRecord, TaskMoves, Retried, Moves
    <3>5. CASE ~retried /\ m.result = "succeeded"
      BY <1>0, <3>1, <3>2, <3>3, <3>5 DEF TaskRecord, TaskMoves, SucceededNow, Moves
    <3>6. CASE ~retried /\ m.result # "succeeded"
      <4>1. m.result = "failed"
        BY <3>6 DEF TypeOK, Completion, Result
      <4>2. Moves(t, "LEASED", "FAILED")
        BY <1>0, <3>1, <3>3, <3>6 DEF TaskRecord, Moves
      <4> QED
        BY <3>2, <3>6, <4>1, <4>2 DEF TaskMoves, FailedNow
    <3> QED
      BY <3>4, <3>5, <3>6
  <2> QED
    BY <2>2, <2>3
<1>10. ASSUME NEW r \in Runners, Renew(r) PROVE TaskMoves(t)
  <2>1. task'[t].status = task[t].status /\ task'[t].attempt = task[t].attempt
    BY <1>0, <1>10 DEF Renew, TypeOK, TaskRecord
  <2> QED
    BY <1>1, <1>10, <2>1 DEF Renew
<1>11. CASE Tick
  <2>1. task'[t].status = task[t].status /\ task'[t].attempt = task[t].attempt
    BY <1>0, <1>11 DEF Tick, TaskRecord
  <2> QED
    BY <1>1, <1>11, <2>1 DEF Tick
<1>12. ASSUME UNCHANGED <<task, acceptedFrom>> PROVE TaskMoves(t)
  BY <1>12 DEF TaskMoves, Stays
<1>13. ASSUME NEW r \in Runners,
              \/ \E heard \in BOOLEAN : Heartbeat(r, heard)
              \/ RenewRefused(r) \/ Crash(r) \/ \E x \in Result : Report(r, x)
       PROVE  UNCHANGED <<task, acceptedFrom>>
  BY <1>13 DEF Heartbeat, RenewRefused, Crash, Report
<1>14. ASSUME NEW m \in sent, NEW heard \in BOOLEAN, CompleteRefused(m, heard)
       PROVE  UNCHANGED <<task, acceptedFrom>>
  BY <1>14 DEF CompleteRefused
<1>15. CASE UNCHANGED vars
  BY <1>12, <1>15 DEF vars
<1> QED
  BY <1>2, <1>4, <1>5, <1>6, <1>7, <1>8, <1>9, <1>10, <1>11, <1>12, <1>13, <1>14, <1>15
  DEF Next, ControlPlaneNext, RunnerNext

-----------------------------------------------------------------------------
(* Results and attempts.                                                     *)

AttemptsCounted ==
    \A t \in Tasks :
        /\ task[t].attempt <= MaxAttempts[t]
        /\ task[t].status = "QUEUED" => task[t].attempt < MaxAttempts[t]
        /\ task[t].status = "NONE" => task[t].attempt = 0

LEMMA CountedStep ==
    ASSUME TypeOK, TokenInv, AttemptsCounted, FailedTaskHadItsAttempts,
           ResultIsOfLastAttempt, [Next]_vars
    PROVE  AttemptsCounted' /\ FailedTaskHadItsAttempts' /\ ResultIsOfLastAttempt'
<1>0. \A t \in Tasks : task[t].attempt \in Nat /\ MaxAttempts[t] \in Nat \ {0}
  BY DEF TypeOK, TaskRecord
<1>1. SUFFICES ASSUME NEW t \in Tasks
      PROVE /\ task'[t].attempt <= MaxAttempts[t]
            /\ task'[t].status = "QUEUED" => task'[t].attempt < MaxAttempts[t]
            /\ task'[t].status = "NONE" => task'[t].attempt = 0
            /\ task'[t].status = "FAILED" =>
                  \/ task'[t].attempt = MaxAttempts[t]
                  \/ t \notin Verifications /\ acceptedFrom'[t] = task'[t].attempt
            /\ task'[t].status = "SUCCEEDED" => acceptedFrom'[t] = task'[t].attempt
  BY DEF AttemptsCounted, FailedTaskHadItsAttempts, ResultIsOfLastAttempt
<1>2. /\ task[t].attempt <= MaxAttempts[t]
      /\ task[t].status = "QUEUED" => task[t].attempt < MaxAttempts[t]
      /\ task[t].status = "NONE" => task[t].attempt = 0
  BY DEF AttemptsCounted
<1>3. CASE Stays(t)
  BY <1>2, <1>3 DEF Stays, FailedTaskHadItsAttempts, ResultIsOfLastAttempt
<1>4. CASE Submitted(t)
  BY <1>0, <1>2, <1>4 DEF Submitted, Moves
<1>5. CASE Attempted(t)
  BY <1>0, <1>2, <1>5 DEF Attempted, Exhausted
<1>6. CASE Retried(t)
  BY <1>0, <1>2, <1>6 DEF Retried, Moves, Exhausted
<1>7. CASE CancelledNow(t)
  BY <1>2, <1>7 DEF CancelledNow, Moves
<1>8. CASE SucceededNow(t)
  BY <1>2, <1>8 DEF SucceededNow, Moves
<1>9. CASE FailedNow(t)
  BY <1>0, <1>2, <1>9 DEF FailedNow, Moves, Exhausted
<1> QED
  BY <1>3, <1>4, <1>5, <1>6, <1>7, <1>8, <1>9, TaskSteps DEF TaskMoves

LEMMA CountedInit ==
    ASSUME Init
    PROVE  AttemptsCounted /\ FailedTaskHadItsAttempts /\ ResultIsOfLastAttempt
BY DEF Init, NoRow, AttemptsCounted, FailedTaskHadItsAttempts, ResultIsOfLastAttempt

\* No task ever takes the result of an attempt that it lost, however many Runners
\* and messages are late.
THEOREM ResultsAreOfLastAttempts == Spec => []ResultIsOfLastAttempt
BY CountedInit, CountedStep, TokensFence, TypeCorrect, PTL DEF Spec

\* Every task that failed had all its attempts or a result of its last one.
THEOREM FailuresAreJustified == Spec => []FailedTaskHadItsAttempts
BY CountedInit, CountedStep, TokensFence, TypeCorrect, PTL DEF Spec

\* Every task goes through the life that TaskLifecycle describes.
THEOREM TasksImplementLifecycle == Spec => ImplementsTaskLifecycle
<1>1. Init => \A t \in Tasks : Lifecycle(t)!Init
  BY DEF Init, NoRow, Stage, Lifecycle!Init
<1>2. TypeOK /\ TokenInv /\ AttemptsCounted /\ [Next]_vars
        => \A t \in Tasks : [Lifecycle(t)!Next]_(Lifecycle(t)!vars)
  <2> SUFFICES ASSUME TypeOK, TokenInv, AttemptsCounted, [Next]_vars, NEW t \in Tasks
               PROVE  [Lifecycle(t)!Next]_(Lifecycle(t)!vars)
    OBVIOUS
  <2>0. task[t].attempt \in Nat /\ MaxAttempts[t] \in Nat
    BY DEF TypeOK, TaskRecord
  <2>1. CASE Stays(t)
    BY <2>1 DEF Stays, Lifecycle!vars, Stage
  <2>2. CASE Submitted(t)
    BY <2>2 DEF Submitted, Moves, Stage, Lifecycle!Next, Lifecycle!Submit
  <2>3. CASE Attempted(t)
    BY <2>0, <2>3
    DEF Attempted, Exhausted, AttemptsCounted, Stage, Lifecycle!Next, Lifecycle!Start,
        Lifecycle!Restart
  <2>4. CASE Retried(t)
    BY <2>0, <2>4 DEF Retried, Moves, Exhausted, Stage, Lifecycle!Next, Lifecycle!Retry
  <2>5. CASE CancelledNow(t)
    BY <2>5 DEF CancelledNow, Moves, Stage, Lifecycle!Next, Lifecycle!Cancel
  <2>6. CASE SucceededNow(t)
    BY <2>6 DEF SucceededNow, Moves, Stage, Lifecycle!Next, Lifecycle!Succeed
  <2>7. CASE FailedNow(t)
    BY <2>7 DEF FailedNow, Moves, Stage, Lifecycle!Next, Lifecycle!Fail
  <2> QED
    BY <2>1, <2>2, <2>3, <2>4, <2>5, <2>6, <2>7, TaskSteps DEF TaskMoves
<1> QED
  BY <1>1, <1>2, CountedInit, CountedStep, TokensFence, TypeCorrect, PTL
  DEF Spec, ImplementsTaskLifecycle
=============================================================================
