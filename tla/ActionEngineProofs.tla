------------------------- MODULE ActionEngineProofs -------------------------
(* Proofs about ActionEngine, for every set of actions, resources and        *)
(* Runners and every length of the leases: types, the agreement of the rows, *)
(* outcomes, freezes and fencing tokens; when the execution lease is not     *)
(* longer than the lock lease, the exclusion of executions; and the          *)
(* refinement of TaskLifecycle and ResourceExclusion.                        *)
EXTENDS ActionEngine, TLAPS

USE IdentityAssumption, LeaseAssumption

-----------------------------------------------------------------------------
(* Type correctness.                                                         *)

(* What the handlers do to one lock row or to one execution row keeps its    *)
(* type, whatever the row was.                                               *)

LEMMA LockRows ==
    ASSUME NEW l \in LockRecord
    PROVE  /\ \A a \in Actions : Acquired(l, a) \in LockRecord
           /\ Released(l) \in LockRecord
           /\ Frozen(l) \in LockRecord
           /\ Thawed(l) \in LockRecord
           /\ Renewed(l) \in LockRecord
           /\ Aged(l) \in LockRecord
<1>1. \A a \in Actions : Acquired(l, a) \in LockRecord
  BY DEF Acquired, LockRecord
<1>2. Released(l) \in LockRecord
  BY DEF Released, LockRecord
<1>3. Frozen(l) \in LockRecord
  BY DEF Frozen, LockRecord
<1>4. Thawed(l) \in LockRecord
  BY DEF Thawed, LockRecord
<1>5. Renewed(l) \in LockRecord
  BY DEF Renewed, LockRecord
<1>6. Aged(l) \in LockRecord
  <2>1. Less(l.lease) \in Nat
    BY DEF Less, LockRecord
  <2> QED
    BY <2>1 DEF Aged, LockRecord
<1> QED
  BY <1>1, <1>2, <1>3, <1>4, <1>5, <1>6

LEMMA ExecutionRows ==
    ASSUME NEW e \in ExecutionRecord
    PROVE  /\ \A s \in ExecutionStatus :
                /\ [e EXCEPT !.status = s] \in ExecutionRecord
                /\ Completed(e, s) \in ExecutionRecord
           /\ Running(e) \in ExecutionRecord
           /\ Extended(e) \in ExecutionRecord
           /\ Aged(e) \in ExecutionRecord
<1>1. \A s \in ExecutionStatus : [e EXCEPT !.status = s] \in ExecutionRecord
  BY DEF ExecutionRecord
<1>2. Running(e) \in ExecutionRecord
  BY DEF Running, ExecutionRecord, ExecutionStatus
<1>3. Extended(e) \in ExecutionRecord
  BY DEF Extended, ExecutionRecord
<1>4. \A s \in ExecutionStatus : Completed(e, s) \in ExecutionRecord
  BY DEF Completed, ExecutionRecord
<1>5. Aged(e) \in ExecutionRecord
  <2>1. Less(e.lease) \in Nat
    BY DEF Less, ExecutionRecord
  <2> QED
    BY <2>1 DEF Aged, ExecutionRecord
<1> QED
  BY <1>1, <1>2, <1>3, <1>4, <1>5

LEMMA TaskRows ==
    ASSUME NEW t \in TaskRecord, NEW s \in TaskStatus
    PROVE  [t EXCEPT !.status = s] \in TaskRecord
BY DEF TaskRecord

LEMMA RecoveredTypes ==
    ASSUME TypeOK, NEW found \in SUBSET ExpiredRunning
    PROVE  /\ RecoveredAction(found) \in [Actions -> ActionStatus]
           /\ RecoveredExecution(found) \in [Actions -> ExecutionRecord]
           /\ RecoveredLock(found) \in [Resources -> LockRecord]
<1>1. RecoveredAction(found) \in [Actions -> ActionStatus]
  BY DEF TypeOK, RecoveredAction, ActionStatus
<1>2. RecoveredExecution(found) \in [Actions -> ExecutionRecord]
  BY ExecutionRows DEF TypeOK, RecoveredExecution, ExecutionStatus
<1>3. RecoveredLock(found) \in [Resources -> LockRecord]
  <2>1. \A r \in Resources : lock[r] \in LockRecord /\ Frozen(lock[r]) \in LockRecord
    <3>1. \A r \in Resources : lock[r] \in LockRecord
      BY DEF TypeOK
    <3> QED
      BY <3>1 DEF Frozen, LockRecord
  <2> QED
    BY <2>1 DEF RecoveredLock
<1> QED
  BY <1>1, <1>2, <1>3

\* Every row keeps its type, through every handler.
THEOREM TypeCorrect == Spec => []TypeOK
<1>1. Init => TypeOK
  BY DEF Init, TypeOK, ActionStatus, ExecutionRecord, ExecutionStatus, NoExecution,
         LockRecord, NoLock, VerificationStatus, TaskRecord, TaskStatus, JobStatus
<1>2. TypeOK /\ [Next]_vars => TypeOK'
  <2> SUFFICES ASSUME TypeOK, [Next]_vars
               PROVE  TypeOK'
    OBVIOUS
  <2>1. ASSUME NEW a \in Actions, Create(a) PROVE TypeOK'
    BY <2>1 DEF Create, TypeOK, ActionStatus
  <2>2. ASSUME NEW a \in Actions, Cancel(a) PROVE TypeOK'
    BY <2>2, LockRows DEF Cancel, TypeOK, ActionStatus
  <2>3. ASSUME NEW a \in Actions, AcquireLock(a) PROVE TypeOK'
    BY <2>3, LockRows DEF AcquireLock, TypeOK
  <2>4. ASSUME NEW a \in Actions, RenewLock(a) PROVE TypeOK'
    BY <2>4, LockRows DEF RenewLock, TypeOK
  <2>5. ASSUME NEW a \in Actions, ReleaseLock(a) PROVE TypeOK'
    BY <2>5, LockRows DEF ReleaseLock, TypeOK
  <2>6. ASSUME NEW a \in Actions, NEW r \in Runners, NEW found \in SUBSET ExpiredRunning,
               Dispatch(a, r, found)
        PROVE  TypeOK'
    <3>1. Acquired(RecoveredLock(found)[ResourceOf[a]], a) \in LockRecord
      BY RecoveredTypes, LockRows
    <3>2. execution' \in [Actions -> ExecutionRecord]
      BY <2>6, <3>1, RecoveredTypes
      DEF Dispatch, TypeOK, NoExecution, ExecutionRecord, ExecutionStatus, LockRecord
    <3>3. lock' \in [Resources -> LockRecord]
      BY <2>6, <3>1, RecoveredTypes DEF Dispatch
    <3>4. action' \in [Actions -> ActionStatus]
      BY <2>6, RecoveredTypes DEF Dispatch, ActionStatus
    <3> QED
      BY <2>6, <3>2, <3>3, <3>4 DEF Dispatch, TypeOK
  <2>7. ASSUME NEW a \in Actions, NEW succeeded \in BOOLEAN, Reconcile(a, succeeded)
        PROVE  TypeOK'
    BY <2>7, LockRows, ExecutionRows
    DEF Reconcile, TypeOK, ActionStatus, ExecutionStatus
  <2>8. ASSUME NEW found \in SUBSET ExpiredRunning, RecoveryScan(found) PROVE TypeOK'
    BY <2>8, RecoveredTypes DEF RecoveryScan, Recovered, TypeOK
  <2>9. ASSUME NEW r \in Runners, NEW heard \in BOOLEAN,
               NEW found \in SUBSET ExpiredRunning, Claim(r, heard, found)
        PROVE  TypeOK'
    <3> PICK a \in Oldest(r) :
            /\ action' = [RecoveredAction(found) EXCEPT ![a] = "RUNNING"]
            /\ execution' = [RecoveredExecution(found) EXCEPT ![a] = Running(@)]
            /\ lock' = [RecoveredLock(found) EXCEPT ![ResourceOf[a]] = Renewed(@)]
            /\ job' = IF heard THEN [job EXCEPT ![a] = "applying"] ELSE job
      BY <2>9 DEF Claim
    <3>1. execution' \in [Actions -> ExecutionRecord]
      BY RecoveredTypes, ExecutionRows DEF ExecutionStatus
    <3>2. lock' \in [Resources -> LockRecord]
      <4> a \in Actions
        BY DEF Oldest, Waiting
      <4> QED
        BY RecoveredTypes, LockRows
    <3>3. action' \in [Actions -> ActionStatus]
      BY RecoveredTypes DEF ActionStatus
    <3>4. job' \in [Actions -> JobStatus]
      BY DEF TypeOK, JobStatus
    <3> QED
      BY <2>9, <3>1, <3>2, <3>3, <3>4 DEF Claim, TypeOK
  <2>10. ASSUME NEW r \in Runners, NEW found \in SUBSET ExpiredRunning,
                ClaimNothing(r, found)
         PROVE  TypeOK'
    BY <2>10, RecoveredTypes DEF ClaimNothing, Recovered, TypeOK
  <2>11. ASSUME NEW r \in Runners, RunnerLost(r) \/ RunnerBack(r) PROVE TypeOK'
    BY <2>11 DEF RunnerLost, RunnerBack, TypeOK
  <2>12. ASSUME NEW a \in Actions, Renew(a) PROVE TypeOK'
    BY <2>12, LockRows, ExecutionRows DEF Renew, TypeOK, ExecutionStatus
  <2>13. ASSUME NEW a \in Actions, NEW result \in JobResult, JobEnds(a, result)
         PROVE  TypeOK'
    BY <2>13 DEF JobEnds, TypeOK, JobStatus
  <2>14. ASSUME NEW a \in Actions, NEW heard \in BOOLEAN, Complete(a, heard)
         PROVE  TypeOK'
    <3>1. action' \in [Actions -> ActionStatus]
      BY <2>14 DEF Complete, TypeOK, ActionStatus
    <3>2. execution' \in [Actions -> ExecutionRecord]
      BY <2>14, ExecutionRows DEF Complete, TypeOK, ExecutionStatus
    <3>3. lock' \in [Resources -> LockRecord]
      BY <2>14, LockRows DEF Complete, TypeOK
    <3>4. /\ verification' \in [Actions -> VerificationStatus]
          /\ task' \in [Actions -> TaskRecord]
          /\ job' \in [Actions -> JobStatus]
      BY <2>14 DEF Complete, TypeOK, VerificationStatus, TaskRecord, TaskStatus, JobStatus
    <3> QED
      BY <2>14, <3>1, <3>2, <3>3, <3>4 DEF Complete, TypeOK
  <2>15. ASSUME NEW a \in Actions, CompletionReplayed(a) \/ JobAbandoned(a)
         PROVE  TypeOK'
    BY <2>15 DEF CompletionReplayed, JobAbandoned, TypeOK, JobStatus
  <2>16. ASSUME NEW a \in Actions, NEW passed \in BOOLEAN, Finalized(a, passed)
         PROVE  /\ action' \in [Actions -> ActionStatus]
                /\ execution' \in [Actions -> ExecutionRecord]
                /\ lock' \in [Resources -> LockRecord]
                /\ verification' \in [Actions -> VerificationStatus]
    BY <2>16, LockRows, ExecutionRows
    DEF Finalized, TypeOK, ActionStatus, ExecutionStatus, VerificationStatus
  <2>17. ASSUME NEW a \in Actions, TaskClaimed(a) PROVE TypeOK'
    BY <2>17 DEF TaskClaimed, TypeOK, TaskRecord, TaskStatus, VerificationStatus
  <2>18. ASSUME NEW a \in Actions, TaskPassed(a) PROVE TypeOK'
    BY <2>16, <2>18, TaskRows DEF TaskPassed, TypeOK, TaskStatus
  <2>19. ASSUME NEW a \in Actions, TaskFailed(a) PROVE TypeOK'
    <3>1. /\ action' \in [Actions -> ActionStatus]
          /\ execution' \in [Actions -> ExecutionRecord]
          /\ lock' \in [Resources -> LockRecord]
          /\ verification' \in [Actions -> VerificationStatus]
      BY <2>16, <2>19 DEF TaskFailed, TypeOK, VerificationStatus
    <3>2. task' \in [Actions -> TaskRecord]
      <4>1. \/ task' = [task EXCEPT ![a].status = "QUEUED"]
            \/ task' = [task EXCEPT ![a].status = "FAILED"]
        BY <2>19 DEF TaskFailed
      <4>2. /\ [task[a] EXCEPT !.status = "QUEUED"] \in TaskRecord
            /\ [task[a] EXCEPT !.status = "FAILED"] \in TaskRecord
        BY TaskRows DEF TypeOK, TaskStatus
      <4> QED
        BY <4>1, <4>2 DEF TypeOK
    <3> QED
      BY <2>19, <3>1, <3>2 DEF TaskFailed, TypeOK
  <2>20. ASSUME NEW a \in Actions, TaskLost(a) PROVE TypeOK'
    <3>1. /\ action' \in [Actions -> ActionStatus]
          /\ execution' \in [Actions -> ExecutionRecord]
          /\ lock' \in [Resources -> LockRecord]
          /\ verification' \in [Actions -> VerificationStatus]
      BY <2>16, <2>20 DEF TaskLost, TypeOK, VerificationStatus
    <3>2. task' \in [Actions -> TaskRecord]
      <4>1. \/ task' = [task EXCEPT ![a].status = "QUEUED"]
            \/ task' = [task EXCEPT ![a].status = "FAILED"]
        BY <2>20 DEF TaskLost
      <4>2. /\ [task[a] EXCEPT !.status = "QUEUED"] \in TaskRecord
            /\ [task[a] EXCEPT !.status = "FAILED"] \in TaskRecord
        BY TaskRows DEF TypeOK, TaskStatus
      <4> QED
        BY <4>1, <4>2 DEF TypeOK
    <3> QED
      BY <2>20, <3>1, <3>2 DEF TaskLost, TypeOK
  <2>21. CASE Tick
    <3>1. execution' \in [Actions -> ExecutionRecord]
      BY <2>21, ExecutionRows DEF Tick, TypeOK
    <3>2. lock' \in [Resources -> LockRecord]
      BY <2>21, LockRows DEF Tick, TypeOK
    <3> QED
      BY <2>21, <3>1, <3>2 DEF Tick, TypeOK
  <2>22. CASE UNCHANGED vars
    BY <2>22 DEF vars, TypeOK
  <2> QED
    BY <2>1, <2>2, <2>3, <2>4, <2>5, <2>6, <2>7, <2>8, <2>9, <2>10, <2>11, <2>12,
       <2>13, <2>14, <2>15, <2>17, <2>18, <2>19, <2>20, <2>21, <2>22
    DEF Next, OperatorNext, RunnerNext, VerificationNext
<1> QED
  BY <1>1, <1>2, PTL DEF Spec

-----------------------------------------------------------------------------
(* The rows of one action agree.                                             *)

LEMMA RowsStep ==
    ASSUME TypeOK, RowsAgree, [Next]_vars
    PROVE  RowsAgree'
<1>1. ASSUME NEW a \in Actions, Create(a) PROVE RowsAgree'
  BY <1>1
  DEF RowsAgree, Create, TypeOK, ActionStatus, ExecutionRecord, ExecutionStatus
<1>2. ASSUME NEW a \in Actions, Cancel(a) PROVE RowsAgree'
  BY <1>2
  DEF RowsAgree, Cancel, TypeOK, ActionStatus, ExecutionRecord, ExecutionStatus
<1>3. ASSUME NEW a \in Actions, AcquireLock(a) PROVE RowsAgree'
  BY <1>3 DEF RowsAgree, AcquireLock
<1>4. ASSUME NEW a \in Actions, RenewLock(a) PROVE RowsAgree'
  BY <1>4 DEF RowsAgree, RenewLock
<1>5. ASSUME NEW a \in Actions, ReleaseLock(a) PROVE RowsAgree'
  BY <1>5 DEF RowsAgree, ReleaseLock
<1>6. ASSUME NEW a \in Actions,
             NEW r \in Runners,
             NEW found \in SUBSET ExpiredRunning,
             Dispatch(a, r, found)
      PROVE  RowsAgree'
  BY <1>6
  DEF RowsAgree, Dispatch, RecoveredAction, RecoveredExecution, ExpiredRunning,
      TypeOK, ActionStatus, ExecutionRecord, ExecutionStatus, TaskRecord,
      TaskStatus, VerificationStatus
<1>7. ASSUME NEW a \in Actions,
             NEW succeeded \in BOOLEAN,
             Reconcile(a, succeeded)
      PROVE  RowsAgree'
  BY <1>7
  DEF RowsAgree, Reconcile, TypeOK, ActionStatus, ExecutionRecord,
      ExecutionStatus
<1>8. ASSUME NEW found \in SUBSET ExpiredRunning,
             RecoveryScan(found)
      PROVE  RowsAgree'
  BY <1>8
  DEF RowsAgree, RecoveryScan, Recovered, RecoveredAction, RecoveredExecution,
      ExpiredRunning, TypeOK, ActionStatus, ExecutionRecord, ExecutionStatus,
      TaskRecord, TaskStatus, VerificationStatus
<1>9. ASSUME NEW r \in Runners,
             NEW heard \in BOOLEAN,
             NEW found \in SUBSET ExpiredRunning,
             Claim(r, heard, found)
      PROVE  RowsAgree'
  BY <1>9
  DEF RowsAgree, Claim, Oldest, Waiting, Running, RecoveredAction,
      RecoveredExecution, ExpiredRunning, TypeOK, ActionStatus,
      ExecutionRecord, ExecutionStatus, TaskRecord, TaskStatus,
      VerificationStatus
<1>10. ASSUME NEW r \in Runners,
              NEW found \in SUBSET ExpiredRunning,
              ClaimNothing(r, found)
       PROVE  RowsAgree'
  BY <1>10
  DEF RowsAgree, ClaimNothing, Recovered, RecoveredAction, RecoveredExecution,
      ExpiredRunning, TypeOK, ActionStatus, ExecutionRecord, ExecutionStatus,
      TaskRecord, TaskStatus, VerificationStatus
<1>11. ASSUME NEW r \in Runners,
              RunnerLost(r) \/ RunnerBack(r)
       PROVE  RowsAgree'
  BY <1>11 DEF RowsAgree, RunnerLost, RunnerBack
<1>12. ASSUME NEW a \in Actions, Renew(a) PROVE RowsAgree'
  BY <1>12
  DEF RowsAgree, Renew, Extended, TypeOK, ActionStatus, ExecutionRecord,
      ExecutionStatus
<1>13. ASSUME NEW a \in Actions,
              NEW result \in JobResult,
              JobEnds(a, result)
       PROVE  RowsAgree'
  BY <1>13 DEF RowsAgree, JobEnds
<1>14. ASSUME NEW a \in Actions,
              NEW heard \in BOOLEAN,
              Complete(a, heard)
       PROVE  RowsAgree'
  BY <1>14
  DEF RowsAgree, Complete, OwnedRunning, Completed, TypeOK, ActionStatus,
      ExecutionRecord, ExecutionStatus, VerificationStatus, TaskRecord,
      TaskStatus
<1>15. ASSUME NEW a \in Actions,
              CompletionReplayed(a) \/ JobAbandoned(a)
       PROVE  RowsAgree'
  BY <1>15 DEF RowsAgree, CompletionReplayed, JobAbandoned
<1>16. ASSUME NEW a \in Actions, TaskClaimed(a) PROVE RowsAgree'
  BY <1>16
  DEF RowsAgree, TaskClaimed, TypeOK, VerificationStatus, TaskRecord,
      TaskStatus
<1>17. ASSUME NEW a \in Actions, TaskPassed(a) PROVE RowsAgree'
  BY <1>17
  DEF RowsAgree, TaskPassed, Finalized, TypeOK, ActionStatus, ExecutionRecord,
      ExecutionStatus, VerificationStatus, TaskRecord, TaskStatus
<1>18. ASSUME NEW a \in Actions, TaskFailed(a) PROVE RowsAgree'
  BY <1>18
  DEF RowsAgree, TaskFailed, Finalized, TypeOK, ActionStatus, ExecutionRecord,
      ExecutionStatus, VerificationStatus, TaskRecord, TaskStatus
<1>19. ASSUME NEW a \in Actions, TaskLost(a) PROVE RowsAgree'
  BY <1>19, SMTT(30)
  DEF RowsAgree, TaskLost, Finalized, TypeOK, ActionStatus, ExecutionRecord,
      ExecutionStatus, VerificationStatus, TaskRecord, TaskStatus
<1>20. CASE Tick
  BY <1>20 DEF Tick, Aged, RowsAgree, TypeOK, ExecutionRecord
<1>21. CASE UNCHANGED vars
  BY <1>21 DEF vars, RowsAgree
<1> QED
  BY <1>1, <1>2, <1>3, <1>4, <1>5, <1>6, <1>7, <1>8, <1>9, <1>10, <1>11, <1>12,
     <1>13, <1>14, <1>15, <1>16, <1>17, <1>18, <1>19, <1>20, <1>21
  DEF Next, OperatorNext, RunnerNext, VerificationNext

\* The status of an action determines those of its execution, verification and
\* task in every reachable state.
THEOREM RowsCorrect == Spec => []RowsAgree
<1>1. Init => RowsAgree
  <2> SUFFICES ASSUME Init, NEW a \in Actions
               PROVE  /\ action[a] = "NONE"
                      /\ execution[a].status = "NONE"
                      /\ task[a].status = "NONE"
                      /\ verification[a] = "NONE"
    BY DEF RowsAgree
  <2> QED
    BY DEF Init, NoExecution
<1>2. TypeOK /\ RowsAgree /\ [Next]_vars => RowsAgree'
  BY RowsStep
<1> QED
  BY <1>1, <1>2, TypeCorrect, PTL DEF Spec

-----------------------------------------------------------------------------
(* Outcomes.                                                                 *)

\* What LateCompletionIgnored demands of a step for one action.
LateCompletionIgnoredBy(a) ==
    /\ action[a] = "UNKNOWN" /\ action'[a] # "UNKNOWN" =>
        /\ action'[a] \in {"SUCCEEDED", "FAILED"}
        /\ verification'[a] = "NONE"
        /\ ~execution'[a].completed
    /\ action[a] \in {"SUCCEEDED", "FAILED", "VERIFICATION_FAILED", "CANCELLED"} =>
        action'[a] = action[a] /\ execution'[a] = execution[a]

\* Only a running execution has a lease, and none is completed before it has an
\* outcome that a Runner reported.
ReportedFor(b) ==
    /\ execution[b].lease > 0 => execution[b].status = "RUNNING"
    /\ execution[b].status \in {"DISPATCHING", "RUNNING", "UNKNOWN"} => ~execution[b].completed

OutcomeStays(b) == ReportedFor(b)' /\ LateCompletionIgnoredBy(b)

LEMMA OutcomeStep ==
    ASSUME TypeOK, RowsAgree, \A c \in Actions : ReportedFor(c), [Next]_vars,
           NEW b \in Actions
    PROVE  OutcomeStays(b)
<1>0. /\ execution[b] \in ExecutionRecord
      /\ action[b] \in ActionStatus
      /\ ReportedFor(b)
  BY DEF TypeOK
<1>1. ASSUME UNCHANGED <<action[b], execution[b]>> PROVE OutcomeStays(b)
  BY <1>0, <1>1 DEF OutcomeStays, ReportedFor, LateCompletionIgnoredBy
<1>2. ASSUME NEW found \in SUBSET ExpiredRunning,
             action'[b] = RecoveredAction(found)[b],
             execution'[b] = RecoveredExecution(found)[b]
      PROVE  OutcomeStays(b)
  BY <1>0, <1>2
  DEF OutcomeStays, ReportedFor, LateCompletionIgnoredBy, RecoveredAction,
      RecoveredExecution,
      ExpiredRunning, RowsAgree, ExecutionRecord
<1>3. ASSUME NEW found \in SUBSET ExpiredRunning, Recovered(found) PROVE OutcomeStays(b)
  BY <1>2, <1>3 DEF Recovered
<1>4. ASSUME NEW a \in Actions, Create(a) \/ Cancel(a) PROVE OutcomeStays(b)
  BY <1>0, <1>4
  DEF OutcomeStays, ReportedFor, LateCompletionIgnoredBy, Create, Cancel, TypeOK
<1>5. ASSUME NEW a \in Actions, AcquireLock(a) \/ RenewLock(a) \/ ReleaseLock(a)
      PROVE  OutcomeStays(b)
  BY <1>1, <1>5 DEF AcquireLock, RenewLock, ReleaseLock
<1>6. ASSUME NEW a \in Actions, NEW s \in Runners, NEW found \in SUBSET ExpiredRunning,
             Dispatch(a, s, found)
      PROVE  OutcomeStays(b)
  <2>1. CASE a = b
    <3>1. /\ action[b] = "READY" /\ action'[b] = "DISPATCHING"
          /\ execution'[b].status = "DISPATCHING"
          /\ execution'[b].lease = 0
          /\ ~execution'[b].completed
      BY <1>6, <2>1, RecoveredTypes DEF Dispatch
    <3> QED
      BY <3>1 DEF OutcomeStays, ReportedFor, LateCompletionIgnoredBy
  <2>2. CASE a # b
    BY <1>2, <1>6, <2>2, RecoveredTypes DEF Dispatch
  <2> QED
    BY <2>1, <2>2
<1>7. ASSUME NEW a \in Actions, NEW succeeded \in BOOLEAN, Reconcile(a, succeeded)
      PROVE  OutcomeStays(b)
  <2>1. CASE a = b
    <3>1. /\ action[b] = "UNKNOWN" /\ execution[b].status = "UNKNOWN" /\ verification[b] = "NONE"
      BY <1>0, <1>7, <2>1
      DEF Reconcile, RowsAgree, TypeOK, VerificationStatus, ExecutionRecord,
          ExecutionStatus
    <3>2. /\ action'[b] \in {"SUCCEEDED", "FAILED"}
          /\ execution'[b].status \in {"SUCCEEDED", "FAILED"}
          /\ execution'[b].lease = execution[b].lease
          /\ execution'[b].completed = execution[b].completed
          /\ verification'[b] = verification[b]
      BY <1>0, <1>7, <2>1 DEF Reconcile, TypeOK, ExecutionRecord
    <3> QED
      BY <1>0, <3>1, <3>2 DEF OutcomeStays, ReportedFor, LateCompletionIgnoredBy
  <2>2. CASE a # b
    BY <1>1, <1>7, <2>2 DEF Reconcile, TypeOK
  <2> QED
    BY <2>1, <2>2
<1>8. ASSUME NEW s \in Runners, NEW heard \in BOOLEAN, NEW found \in SUBSET ExpiredRunning,
             Claim(s, heard, found)
      PROVE  OutcomeStays(b)
  <2> PICK a \in Oldest(s) :
          /\ action' = [RecoveredAction(found) EXCEPT ![a] = "RUNNING"]
          /\ execution' = [RecoveredExecution(found) EXCEPT ![a] = Running(@)]
    BY <1>8 DEF Claim
  <2>1. a \in Actions /\ execution[a].status = "DISPATCHING" /\ a \notin found
    BY DEF Oldest, Waiting, ExpiredRunning
  <2>2. CASE a = b
    <3>1. /\ action[b] = "DISPATCHING"
          /\ action'[b] = "RUNNING"
          /\ execution'[b] = Running(execution[b])
      BY <2>1, <2>2, RecoveredTypes DEF RecoveredExecution, RowsAgree
    <3>2. execution'[b].status = "RUNNING" /\ execution'[b].completed = execution[b].completed
      BY <1>0, <3>1 DEF Running, ExecutionRecord
    <3> QED
      BY <1>0, <2>1, <2>2, <3>1, <3>2
      DEF OutcomeStays, ReportedFor, LateCompletionIgnoredBy
  <2>3. CASE a # b
    BY <1>2, <2>3, RecoveredTypes
  <2> QED
    BY <2>2, <2>3
<1>9. ASSUME NEW s \in Runners, NEW found \in SUBSET ExpiredRunning, ClaimNothing(s, found)
      PROVE  OutcomeStays(b)
  BY <1>3, <1>9 DEF ClaimNothing
<1>10. ASSUME NEW s \in Runners, RunnerLost(s) \/ RunnerBack(s) PROVE OutcomeStays(b)
  BY <1>1, <1>10 DEF RunnerLost, RunnerBack
<1>11. ASSUME NEW a \in Actions, Renew(a) PROVE OutcomeStays(b)
  <2>1. CASE a = b
    <3>1. action[b] = "RUNNING" /\ execution[b].status = "RUNNING"
      BY <1>11, <2>1 DEF Renew, OwnedRunning, RowsAgree
    <3>2. /\ action'[b] = action[b]
          /\ execution'[b].status = execution[b].status
          /\ execution'[b].completed = execution[b].completed
      BY <1>0, <1>11, <2>1 DEF Renew, Extended, TypeOK, ExecutionRecord
    <3> QED
      BY <1>0, <3>1, <3>2 DEF OutcomeStays, ReportedFor, LateCompletionIgnoredBy
  <2>2. CASE a # b
    BY <1>1, <1>11, <2>2 DEF Renew, TypeOK
  <2> QED
    BY <2>1, <2>2
<1>12. ASSUME NEW a \in Actions, NEW heard \in BOOLEAN, Complete(a, heard)
       PROVE  OutcomeStays(b)
  <2>1. CASE a = b
    <3>1. action[b] = "RUNNING" /\ execution[b].status = "RUNNING"
      BY <1>12, <2>1 DEF Complete, OwnedRunning, RowsAgree
    <3>2. \E t \in {"APPLIED", "FAILED"} : execution'[b] = Completed(execution[b], t)
      BY <1>12, <2>1 DEF Complete, TypeOK
    <3>3. execution'[b].status \in {"APPLIED", "FAILED"} /\ execution'[b].lease = 0
      BY <1>0, <3>2 DEF Completed, ExecutionRecord
    <3> QED
      BY <3>1, <3>3 DEF OutcomeStays, ReportedFor, LateCompletionIgnoredBy
  <2>2. CASE a # b
    BY <1>1, <1>12, <2>2 DEF Complete, TypeOK
  <2> QED
    BY <2>1, <2>2
<1>13. ASSUME NEW a \in Actions,
              \/ \E result \in JobResult : JobEnds(a, result)
              \/ CompletionReplayed(a)
              \/ JobAbandoned(a)
              \/ TaskClaimed(a)
       PROVE  OutcomeStays(b)
  BY <1>1, <1>13 DEF JobEnds, CompletionReplayed, JobAbandoned, TaskClaimed
<1>14. ASSUME NEW a \in Actions, NEW passed \in BOOLEAN,
              Finalized(a, passed), action[a] = "VERIFYING"
       PROVE  OutcomeStays(b)
  <2>1. CASE a = b
    <3>1. execution[b].status = "APPLIED"
      BY <1>14, <2>1 DEF RowsAgree
    <3>2. /\ execution'[b].status \in {"SUCCEEDED", "VERIFICATION_FAILED"}
          /\ execution'[b].lease = execution[b].lease
      BY <1>0, <1>14, <2>1 DEF Finalized, TypeOK, ExecutionRecord
    <3> QED
      BY <1>0, <1>14, <2>1, <3>1, <3>2
      DEF OutcomeStays, ReportedFor, LateCompletionIgnoredBy
  <2>2. CASE a # b
    BY <1>1, <1>14, <2>2 DEF Finalized, TypeOK
  <2> QED
    BY <2>1, <2>2
<1>15. ASSUME NEW a \in Actions, TaskPassed(a) PROVE OutcomeStays(b)
  BY <1>14, <1>15 DEF TaskPassed, RowsAgree
<1>16. ASSUME NEW a \in Actions, TaskFailed(a) PROVE OutcomeStays(b)
  BY <1>1, <1>14, <1>16 DEF TaskFailed, RowsAgree
<1>17. ASSUME NEW a \in Actions, TaskLost(a) PROVE OutcomeStays(b)
  BY <1>1, <1>14, <1>17 DEF TaskLost, RowsAgree
<1>18. CASE Tick
  <2>1. action'[b] = action[b] /\ execution'[b] = Aged(execution[b])
    BY <1>18 DEF Tick
  <2>2. /\ execution'[b].status = execution[b].status
        /\ execution'[b].completed = execution[b].completed
        /\ execution'[b].lease > 0 => execution[b].lease > 0
        /\ execution[b].lease = 0 => execution'[b] = execution[b]
    BY <1>0, <2>1 DEF Aged, Less, ExecutionRecord
  <2>3. action[b] \in {"SUCCEEDED", "FAILED", "VERIFICATION_FAILED", "CANCELLED"}
          => execution[b].lease = 0
    BY <1>0 DEF ReportedFor, RowsAgree, ExecutionRecord
  <2> QED
    BY <1>0, <2>1, <2>2, <2>3 DEF OutcomeStays, ReportedFor, LateCompletionIgnoredBy
<1>19. CASE UNCHANGED vars
  BY <1>1, <1>19 DEF vars
<1>20. CASE OperatorNext
  BY <1>3, <1>4, <1>5, <1>6, <1>7, <1>20 DEF OperatorNext, RecoveryScan
<1>21. CASE RunnerNext
  BY <1>8, <1>9, <1>10, <1>11, <1>12, <1>13, <1>21 DEF RunnerNext
<1>22. CASE VerificationNext
  BY <1>13, <1>15, <1>16, <1>17, <1>22 DEF VerificationNext
<1> QED
  BY <1>18, <1>19, <1>20, <1>21, <1>22 DEF Next

\* A late or repeated completion never moves an action: what is unknown is
\* settled by an operator, and a settled row, its execution included, stays.
THEOREM LateCompletionsIgnored == Spec => LateCompletionIgnored
<1> DEFINE Inv == \A c \in Actions : ReportedFor(c)
<1>1. Init => Inv
  BY DEF Init, ReportedFor, NoExecution
<1>2. TypeOK /\ RowsAgree /\ Inv /\ [Next]_vars
        => Inv' /\ \A a \in Actions : LateCompletionIgnoredBy(a)
  BY OutcomeStep DEF OutcomeStays
<1>3. TypeOK /\ RowsAgree /\ Inv /\ [Next]_vars
        => [\A a \in Actions :
            /\ action[a] = "UNKNOWN" /\ action'[a] # "UNKNOWN" =>
                /\ action'[a] \in {"SUCCEEDED", "FAILED"}
                /\ verification'[a] = "NONE"
                /\ ~execution'[a].completed
            /\ action[a] \in {"SUCCEEDED", "FAILED", "VERIFICATION_FAILED", "CANCELLED"} =>
                action'[a] = action[a] /\ execution'[a] = execution[a]]_vars
  BY <1>2 DEF LateCompletionIgnoredBy
<1> QED
  BY <1>1, <1>2, <1>3, TypeCorrect, RowsCorrect, PTL DEF Spec, LateCompletionIgnored

-----------------------------------------------------------------------------
(* The life of a verification task.                                          *)

\* A task is that of an applied effect, and one that waits has an attempt left.
TaskHasAttempts(a) ==
    /\ task[a].status # "NONE" => action[a] \in {"VERIFYING", "SUCCEEDED", "VERIFICATION_FAILED"}
    /\ task[a].status = "NONE" => task[a].attempt = 0
    /\ task[a].status = "QUEUED" => task[a].attempt < MaxAttempts

TaskStaysInLife(a) ==
    TaskHasAttempts(a)' /\ [Lifecycle(a)!Next]_(Lifecycle(a)!vars)

LEMMA LifecycleStep ==
    ASSUME TypeOK, RowsAgree, \A c \in Actions : TaskHasAttempts(c), [Next]_vars,
           NEW b \in Actions
    PROVE  TaskStaysInLife(b)
<1>0. /\ task[b] \in TaskRecord
      /\ action[b] \in ActionStatus
      /\ TaskHasAttempts(b)
      /\ 0 < MaxAttempts
  BY DEF TypeOK
<1>1. ASSUME task'[b] = task[b],
             action'[b] = action[b] \/ action[b] \notin {"VERIFYING", "SUCCEEDED", "VERIFICATION_FAILED"}
      PROVE  TaskStaysInLife(b)
  <2>1. TaskHasAttempts(b)'
    BY <1>0, <1>1 DEF TaskHasAttempts
  <2>2. UNCHANGED Lifecycle(b)!vars
    BY <1>1 DEF Lifecycle!vars
  <2> QED
    BY <2>1, <2>2 DEF TaskStaysInLife
<1>2. ASSUME NEW found \in SUBSET ExpiredRunning, Recovered(found), UNCHANGED task
      PROVE  TaskStaysInLife(b)
  BY <1>1, <1>2 DEF Recovered, RecoveredAction, ExpiredRunning, RowsAgree
<1>3. ASSUME NEW a \in Actions, Create(a) \/ Cancel(a) PROVE TaskStaysInLife(b)
  BY <1>1, <1>3 DEF Create, Cancel, TypeOK
<1>4. ASSUME UNCHANGED <<action, task>> PROVE TaskStaysInLife(b)
  BY <1>1, <1>4
<1>5. ASSUME NEW a \in Actions, NEW s \in Runners, NEW found \in SUBSET ExpiredRunning,
             Dispatch(a, s, found)
      PROVE  TaskStaysInLife(b)
  BY <1>1, <1>5, RecoveredTypes
  DEF Dispatch, RecoveredAction, ExpiredRunning, RowsAgree
<1>6. ASSUME NEW a \in Actions, NEW succeeded \in BOOLEAN, Reconcile(a, succeeded)
      PROVE  TaskStaysInLife(b)
  BY <1>1, <1>6 DEF Reconcile, TypeOK
<1>7. ASSUME NEW s \in Runners, NEW heard \in BOOLEAN, NEW found \in SUBSET ExpiredRunning,
             Claim(s, heard, found)
      PROVE  TaskStaysInLife(b)
  <2>1. UNCHANGED task
    BY <1>7 DEF Claim
  <2>2. action'[b] = action[b] \/ action[b] \in {"DISPATCHING", "RUNNING"}
    <3> PICK a \in Oldest(s) : action' = [RecoveredAction(found) EXCEPT ![a] = "RUNNING"]
      BY <1>7 DEF Claim
    <3>1. execution[a].status = "DISPATCHING" /\ action[a] = "DISPATCHING"
      BY DEF Oldest, Waiting, RowsAgree
    <3>2. \A c \in found : action[c] = "RUNNING"
      BY DEF ExpiredRunning, RowsAgree
    <3> QED
      BY <3>1, <3>2 DEF RecoveredAction
  <2> QED
    BY <1>1, <2>1, <2>2
<1>8. ASSUME NEW a \in Actions, NEW heard \in BOOLEAN, Complete(a, heard)
      PROVE  TaskStaysInLife(b)
  <2>1. action[a] = "RUNNING"
    BY <1>8 DEF Complete, OwnedRunning, RowsAgree
  <2>2. CASE a = b /\ job[a] = "succeeded"
    <3>1. task[b].status = "NONE" /\ task[b].attempt = 0
      BY <1>0, <2>1, <2>2 DEF TaskHasAttempts
    <3>2. /\ action'[b] = "VERIFYING"
          /\ task'[b].status = "QUEUED"
          /\ task'[b].attempt = task[b].attempt
      BY <1>0, <1>8, <2>2 DEF Complete, TypeOK, TaskRecord
    <3>3. TaskHasAttempts(b)'
      BY <1>0, <3>1, <3>2 DEF TaskHasAttempts
    <3>4. Lifecycle(b)!Next
      BY <3>1, <3>2 DEF Lifecycle!Next, Lifecycle!Submit, Stage
    <3> QED
      BY <3>3, <3>4 DEF TaskStaysInLife
  <2>3. CASE ~(a = b /\ job[a] = "succeeded")
    <3>1. task'[b] = task[b]
      BY <1>8, <2>3 DEF Complete, TypeOK
    <3>2. action'[b] = action[b] \/ action[b] = "RUNNING"
      BY <1>8, <2>1 DEF Complete, TypeOK
    <3> QED
      BY <1>1, <3>1, <3>2
  <2> QED
    BY <2>2, <2>3
<1>9. ASSUME NEW a \in Actions, TaskClaimed(a) PROVE TaskStaysInLife(b)
  <2>1. CASE a = b
    <3>1. /\ task[b].status = "QUEUED" /\ task'[b].status = "LEASED"
          /\ task'[b].attempt = task[b].attempt + 1
          /\ action'[b] = action[b]
      BY <1>0, <1>9, <2>1 DEF TaskClaimed, TypeOK
    <3>2. TaskHasAttempts(b)'
      BY <1>0, <3>1 DEF TaskHasAttempts
    <3>3. Lifecycle(b)!Next
      BY <1>0, <3>1 DEF TaskHasAttempts, Lifecycle!Next, Lifecycle!Start, Stage
    <3> QED
      BY <3>2, <3>3 DEF TaskStaysInLife
  <2>2. CASE a # b
    BY <1>1, <1>9, <2>2 DEF TaskClaimed, TypeOK
  <2> QED
    BY <2>1, <2>2
\* A task that is leased ends, or waits for another attempt.
<1>10. ASSUME NEW a \in Actions, task[a].status = "LEASED",
              NEW s \in {"SUCCEEDED", "FAILED"}, NEW passed \in BOOLEAN,
              task' = [task EXCEPT ![a].status = s], Finalized(a, passed)
       PROVE  TaskStaysInLife(b)
  <2>1. CASE a = b
    <3>1. /\ task'[b].status = s
          /\ task'[b].attempt = task[b].attempt
          /\ action'[b] \in {"SUCCEEDED", "VERIFICATION_FAILED"}
      BY <1>0, <1>10, <2>1 DEF Finalized, TypeOK, TaskRecord
    <3>2. TaskHasAttempts(b)'
      BY <3>1 DEF TaskHasAttempts
    <3>3. Lifecycle(b)!Next
      BY <1>10, <2>1, <3>1
      DEF Lifecycle!Next, Lifecycle!Succeed, Lifecycle!Fail, Stage
    <3> QED
      BY <3>2, <3>3 DEF TaskStaysInLife
  <2>2. CASE a # b
    BY <1>1, <1>10, <2>2 DEF Finalized, TypeOK
  <2> QED
    BY <2>1, <2>2
<1>11. ASSUME NEW a \in Actions, task[a].status = "LEASED", task[a].attempt < MaxAttempts,
              task' = [task EXCEPT ![a].status = "QUEUED"], UNCHANGED action
       PROVE  TaskStaysInLife(b)
  <2>1. CASE a = b
    <3>1. task'[b].status = "QUEUED" /\ task'[b].attempt = task[b].attempt
      BY <1>0, <1>11, <2>1 DEF TypeOK, TaskRecord
    <3>2. TaskHasAttempts(b)'
      BY <1>0, <1>11, <2>1, <3>1 DEF TaskHasAttempts
    <3>3. Lifecycle(b)!Next
      BY <1>11, <2>1, <3>1 DEF Lifecycle!Next, Lifecycle!Retry, Stage
    <3> QED
      BY <3>2, <3>3 DEF TaskStaysInLife
  <2>2. CASE a # b
    BY <1>1, <1>11, <2>2 DEF TypeOK
  <2> QED
    BY <2>1, <2>2
<1>12. ASSUME NEW a \in Actions, TaskPassed(a) PROVE TaskStaysInLife(b)
  BY <1>10, <1>12 DEF TaskPassed
<1>13. ASSUME NEW a \in Actions, TaskFailed(a) PROVE TaskStaysInLife(b)
  BY <1>10, <1>11, <1>13 DEF TaskFailed
<1>14. ASSUME NEW a \in Actions, TaskLost(a) PROVE TaskStaysInLife(b)
  BY <1>10, <1>11, <1>14 DEF TaskLost
<1>15. CASE OperatorNext
  BY <1>2, <1>3, <1>4, <1>5, <1>6, <1>15
  DEF OperatorNext, RecoveryScan, AcquireLock, RenewLock, ReleaseLock
<1>16. CASE RunnerNext
  BY <1>2, <1>4, <1>7, <1>8, <1>16
  DEF RunnerNext, ClaimNothing, RunnerLost, RunnerBack, Renew, JobEnds,
      CompletionReplayed,
      JobAbandoned
<1>17. CASE VerificationNext
  BY <1>9, <1>12, <1>13, <1>14, <1>17 DEF VerificationNext
<1>18. CASE Tick \/ UNCHANGED vars
  BY <1>4, <1>18 DEF Tick, vars
<1> QED
  BY <1>15, <1>16, <1>17, <1>18 DEF Next

\* Every verification task goes through the life that TaskLifecycle describes, with
\* at most MaxAttempts attempts.
THEOREM TasksOfActionsImplementLifecycle == Spec => ImplementsTaskLifecycle
<1> DEFINE Inv == \A c \in Actions : TaskHasAttempts(c)
<1>1. Init => Inv /\ \A a \in Actions : Lifecycle(a)!Init
  BY DEF Init, TaskHasAttempts, Stage, Lifecycle!Init
<1>2. TypeOK /\ RowsAgree /\ Inv /\ [Next]_vars
        => Inv' /\ \A a \in Actions : [Lifecycle(a)!Next]_(Lifecycle(a)!vars)
  BY LifecycleStep DEF TaskStaysInLife
<1>3. TypeOK /\ RowsAgree /\ Inv /\ [Next]_vars
        => [\A a \in Actions : [Lifecycle(a)!Next]_(Lifecycle(a)!vars)]_vars
  BY <1>2
<1> QED
  BY <1>1, <1>2, <1>3, TypeCorrect, RowsCorrect, PTL DEF Spec, ImplementsTaskLifecycle

-----------------------------------------------------------------------------
(* What recovery, which several handlers begin with, and the passing of time *)
(* do to the rows of one action and of one resource.                         *)

RowsRecovered(b, found) ==
    /\ action'[b] = IF b \in found THEN "UNKNOWN" ELSE action[b]
    /\ execution'[b].status = IF b \in found THEN "UNKNOWN" ELSE execution[b].status
    /\ execution'[b].token = execution[b].token
    /\ execution'[b].lease = execution[b].lease
    /\ b \in found => execution[b].status = "RUNNING" /\ execution[b].lease = 0

FrozenByRecovery(l, k, r, found) ==
    /\ k.frozen
    /\ ~l.released
    /\ l.owner \in found
    /\ ResourceOf[l.owner] = r

SameGrant(l, k) == k.owner = l.owner /\ k.token = l.token /\ k.released = l.released

LockRecovered(r, found) ==
    /\ SameGrant(lock[r], lock'[r])
    /\ lock'[r] = lock[r] \/ FrozenByRecovery(lock[r], lock'[r], r, found)

LEMMA RecoveredLockRow ==
    ASSUME TypeOK, NEW found \in SUBSET ExpiredRunning, NEW r \in Resources
    PROVE  /\ RecoveredLock(found)[r] \in LockRecord
           /\ SameGrant(lock[r], RecoveredLock(found)[r])
           /\ \/ RecoveredLock(found)[r] = lock[r]
              \/ /\ FrozenByRecovery(lock[r], RecoveredLock(found)[r], r, found)
                 /\ RecoveredLock(found)[r].lease = 0
<1>1. lock[r] \in LockRecord
  BY DEF TypeOK
<1>2. CASE \E a \in found : ResourceOf[a] = r /\ Owns(lock, a)
  <2> PICK a \in found : ResourceOf[a] = r /\ Owns(lock, a)
    BY <1>2
  <2>1. RecoveredLock(found)[r] = Frozen(lock[r])
    BY DEF RecoveredLock
  <2>2. lock[r].owner = a /\ ~lock[r].released
    BY DEF Owns
  <2> QED
    BY <1>1, <2>1, <2>2, RecoveredTypes
    DEF Frozen, LockRecord, SameGrant, FrozenByRecovery
<1>3. CASE ~\E a \in found : ResourceOf[a] = r /\ Owns(lock, a)
  BY <1>1, <1>3, RecoveredTypes DEF RecoveredLock, SameGrant
<1> QED
  BY <1>2, <1>3

LEMMA RecoveredActionRow ==
    ASSUME TypeOK, NEW found \in SUBSET ExpiredRunning, NEW b \in Actions,
           action'[b] = RecoveredAction(found)[b],
           execution'[b] = RecoveredExecution(found)[b]
    PROVE  RowsRecovered(b, found)
BY DEF RowsRecovered, RecoveredAction, RecoveredExecution, ExpiredRunning, TypeOK,
       ExecutionRecord

LEMMA RecoveryChanges ==
    ASSUME TypeOK, NEW found \in SUBSET ExpiredRunning, Recovered(found)
    PROVE  /\ \A b \in Actions : RowsRecovered(b, found)
           /\ \A r \in Resources : LockRecovered(r, found)
<1>1. \A b \in Actions : RowsRecovered(b, found)
  BY RecoveredActionRow DEF Recovered
<1>2. \A r \in Resources : LockRecovered(r, found)
  BY RecoveredLockRow DEF Recovered, LockRecovered
<1> QED
  BY <1>1, <1>2

LEMMA DispatchChanges ==
    ASSUME TypeOK, NEW a \in Actions, NEW r \in Runners,
           NEW found \in SUBSET ExpiredRunning, Dispatch(a, r, found)
    PROVE  /\ action[a] = "READY"
           /\ execution[a].status = "NONE"
           /\ action'[a] = "DISPATCHING"
           /\ execution'[a].status = "DISPATCHING"
           /\ execution'[a].token = lock'[ResourceOf[a]].token
           /\ lock'[ResourceOf[a]].owner = a
           /\ ~lock'[ResourceOf[a]].released
           /\ \/ /\ lock'[ResourceOf[a]] = lock[ResourceOf[a]]
                 /\ lock[ResourceOf[a]].lease > 0
              \/ /\ ~lock[ResourceOf[a]].frozen
                 /\ lock[ResourceOf[a]].released \/ lock[ResourceOf[a]].lease = 0
                 /\ lock'[ResourceOf[a]].token = lock[ResourceOf[a]].token + 1
                 /\ ~lock'[ResourceOf[a]].frozen
           /\ \A b \in Actions \ {a} : RowsRecovered(b, found)
           /\ \A q \in Resources \ {ResourceOf[a]} : LockRecovered(q, found)
<1> DEFINE old == RecoveredLock(found)[ResourceOf[a]]
           granted == Acquired(old, a)
<1>1. lock'[ResourceOf[a]] = granted
  BY RecoveredTypes DEF Dispatch
<1>2. \/ old.owner = a /\ ~old.released /\ old.lease > 0 /\ granted = old
      \/ /\ ~old.frozen
         /\ old.released \/ old.lease = 0
         /\ granted.owner = a
         /\ granted.token = old.token + 1
         /\ ~granted.released
         /\ ~granted.frozen
  BY DEF Dispatch, Acquired, HeldBy, Takeable, CanAcquire
<1>3. old = lock[ResourceOf[a]]
  <2>1. ~(old.frozen /\ old.lease = 0)
    BY <1>2, RecoveredTypes DEF LockRecord
  <2> QED
    BY <2>1, RecoveredLockRow DEF FrozenByRecovery
<1>4. \A q \in Resources \ {ResourceOf[a]} : LockRecovered(q, found)
  BY RecoveredTypes, RecoveredLockRow DEF Dispatch, LockRecovered
<1>5. \A b \in Actions \ {a} : RowsRecovered(b, found)
  BY RecoveredTypes, RecoveredActionRow DEF Dispatch
<1>6. /\ action[a] = "READY"
      /\ execution[a].status = "NONE"
      /\ action'[a] = "DISPATCHING"
      /\ execution'[a].status = "DISPATCHING"
      /\ execution'[a].token = granted.token
  BY RecoveredTypes DEF Dispatch
<1> HIDE DEF old, granted
<1> QED
  BY <1>1, <1>2, <1>3, <1>4, <1>5, <1>6

\* The action a claim starts.
ClaimStarts(a, found) ==
    /\ action[a] = "DISPATCHING"
    /\ execution[a].status = "DISPATCHING"
    /\ action'[a] = "RUNNING"
    /\ execution'[a].status = "RUNNING"
    /\ execution'[a].token = execution[a].token
    /\ execution'[a].lease = ExecutionLease
    /\ lock[ResourceOf[a]].owner = a
    /\ lock[ResourceOf[a]].token = execution[a].token
    /\ ~lock[ResourceOf[a]].released
    /\ SameGrant(lock[ResourceOf[a]], lock'[ResourceOf[a]])
    /\ lock'[ResourceOf[a]].frozen = lock[ResourceOf[a]].frozen
    /\ lock'[ResourceOf[a]].lease = ResourceLockLease

LEMMA ClaimChanges ==
    ASSUME TypeOK, RowsAgree, NEW r \in Runners, NEW heard \in BOOLEAN,
           NEW found \in SUBSET ExpiredRunning, Claim(r, heard, found)
    PROVE  \E a \in Actions :
              /\ ClaimStarts(a, found)
              /\ \A b \in Actions \ {a} : RowsRecovered(b, found)
              /\ \A q \in Resources \ {ResourceOf[a]} : LockRecovered(q, found)
<1> PICK a \in Oldest(r) :
        /\ Owns(RecoveredLock(found), a)
        /\ RecoveredLock(found)[ResourceOf[a]].token = execution[a].token
        /\ action' = [RecoveredAction(found) EXCEPT ![a] = "RUNNING"]
        /\ execution' = [RecoveredExecution(found) EXCEPT ![a] = Running(@)]
        /\ lock' = [RecoveredLock(found) EXCEPT ![ResourceOf[a]] = Renewed(@)]
  BY DEF Claim
<1>1. a \in Actions /\ execution[a].status = "DISPATCHING"
  BY DEF Oldest, Waiting
<1>2. action[a] = "DISPATCHING"
  BY <1>1 DEF RowsAgree
<1>3. a \notin found
  BY <1>1 DEF ExpiredRunning
<1>4. RecoveredLock(found)[ResourceOf[a]] = lock[ResourceOf[a]]
  BY <1>1, <1>3, RecoveredLockRow DEF Owns, SameGrant, FrozenByRecovery
<1>5. RecoveredExecution(found)[a] = execution[a]
  BY <1>1, <1>3 DEF RecoveredExecution
<1>6. /\ execution'[a].status = "RUNNING"
      /\ execution'[a].lease = ExecutionLease
      /\ execution'[a].token = execution[a].token
  BY <1>1, <1>5, RecoveredTypes DEF Running, ExecutionRecord
<1>7. /\ SameGrant(lock[ResourceOf[a]], lock'[ResourceOf[a]])
      /\ lock'[ResourceOf[a]].frozen = lock[ResourceOf[a]].frozen
      /\ lock'[ResourceOf[a]].lease = ResourceLockLease
  BY <1>1, <1>4, RecoveredTypes DEF Renewed, LockRecord, SameGrant
<1>8. ClaimStarts(a, found)
  BY <1>1, <1>2, <1>4, <1>6, <1>7, RecoveredTypes DEF ClaimStarts, Owns
<1>9. \A b \in Actions \ {a} : RowsRecovered(b, found)
  BY <1>1, RecoveredTypes, RecoveredActionRow
<1>10. \A q \in Resources \ {ResourceOf[a]} : LockRecovered(q, found)
  BY <1>1, RecoveredTypes, RecoveredLockRow DEF LockRecovered
<1> QED
  BY <1>1, <1>8, <1>9, <1>10

LEMMA TickChanges ==
    ASSUME TypeOK, Tick
    PROVE  /\ action' = action
           /\ \A b \in Actions :
                /\ execution'[b].status = execution[b].status
                /\ execution'[b].token = execution[b].token
                /\ execution'[b].lease = Less(execution[b].lease)
           /\ \A r \in Resources :
                /\ SameGrant(lock[r], lock'[r])
                /\ lock'[r].frozen = lock[r].frozen
                /\ lock'[r].lease = Less(lock[r].lease)
<1>1. ASSUME NEW b \in Actions
      PROVE  /\ execution'[b].status = execution[b].status
             /\ execution'[b].token = execution[b].token
             /\ execution'[b].lease = Less(execution[b].lease)
  BY DEF Tick, Aged, TypeOK, ExecutionRecord
<1>2. ASSUME NEW r \in Resources
      PROVE  /\ SameGrant(lock[r], lock'[r])
             /\ lock'[r].frozen = lock[r].frozen
             /\ lock'[r].lease = Less(lock[r].lease)
  BY DEF Tick, Aged, TypeOK, LockRecord, SameGrant
<1> QED
  BY <1>1, <1>2 DEF Tick

LEMMA ReconcileChanges ==
    ASSUME TypeOK, RowsAgree, NEW a \in Actions, NEW succeeded \in BOOLEAN,
           Reconcile(a, succeeded)
    PROVE  /\ \A b \in Actions :
                /\ execution'[b].token = execution[b].token
                /\ execution'[b].status # "NONE" => execution[b].status # "NONE"
           /\ \A r \in Resources :
                lock'[r].token = lock[r].token /\ lock'[r].owner = lock[r].owner
<1>1. execution[a].status = "UNKNOWN"
  BY DEF Reconcile, RowsAgree, TypeOK, ExecutionRecord, ExecutionStatus
<1>2. ASSUME NEW b \in Actions
      PROVE  /\ execution'[b].token = execution[b].token
             /\ execution'[b].status # "NONE" => execution[b].status # "NONE"
  BY <1>1 DEF Reconcile, TypeOK, ExecutionRecord
<1>3. ASSUME NEW r \in Resources
      PROVE  lock'[r].token = lock[r].token /\ lock'[r].owner = lock[r].owner
  BY DEF Reconcile, Thawed, TypeOK, LockRecord
<1> QED
  BY <1>2, <1>3

-----------------------------------------------------------------------------
(* The step lemmas: each part of the invariant, one case for each action.    *)

\* No execution has a token above the one of its resource's lock, and the one
\* that has the lock's token is the lock's owner.
TokensBounded ==
    \A a \in Actions :
        execution[a].status # "NONE" =>
            /\ execution[a].token <= lock[ResourceOf[a]].token
            /\ execution[a].token = lock[ResourceOf[a]].token =>
                    lock[ResourceOf[a]].owner = a

LEMMA FrozenStep ==
    ASSUME TypeOK,
           RowsAgree,
           UnverifiedEffectIsFrozen, [Next]_vars
    PROVE  UnverifiedEffectIsFrozen'
<1>1. ASSUME NEW a \in Actions,
             NEW passed \in BOOLEAN,
             Finalized(a, passed), action[a] = "VERIFYING"
      PROVE  UnverifiedEffectIsFrozen'
  BY <1>1
  DEF UnverifiedEffectIsFrozen, RowsAgree, Finalized, Owns, Thawed, Frozen,
      TypeOK, ExecutionRecord, LockRecord
<1>2. ASSUME NEW a \in Actions, Create(a) PROVE UnverifiedEffectIsFrozen'
  BY <1>2 DEF Create, UnverifiedEffectIsFrozen, RowsAgree, Owns
<1>3. ASSUME NEW a \in Actions, Cancel(a) PROVE UnverifiedEffectIsFrozen'
  BY <1>3
  DEF Cancel, Owns, Released, UnverifiedEffectIsFrozen, RowsAgree, TypeOK,
      ExecutionRecord, LockRecord
<1>4. ASSUME NEW a \in Actions, AcquireLock(a) PROVE UnverifiedEffectIsFrozen'
  BY <1>4
  DEF AcquireLock, Owns, Acquired, HeldBy, Takeable, UnverifiedEffectIsFrozen,
      RowsAgree, TypeOK, ExecutionRecord, LockRecord
<1>5. ASSUME NEW a \in Actions, RenewLock(a) PROVE UnverifiedEffectIsFrozen'
  BY <1>5
  DEF RenewLock, Owns, HeldBy, Renewed, UnverifiedEffectIsFrozen, RowsAgree,
      TypeOK, ExecutionRecord, LockRecord
<1>6. ASSUME NEW a \in Actions, ReleaseLock(a) PROVE UnverifiedEffectIsFrozen'
  BY <1>6
  DEF ReleaseLock, Owns, HeldBy, Released, UnverifiedEffectIsFrozen, RowsAgree,
      TypeOK, ExecutionRecord, LockRecord
<1>7. ASSUME NEW a \in Actions,
             NEW r \in Runners,
             NEW found \in SUBSET ExpiredRunning,
             Dispatch(a, r, found)
      PROVE  UnverifiedEffectIsFrozen'
  <2> SUFFICES ASSUME NEW b \in Actions, action'[b] \in {"VERIFYING", "VERIFICATION_FAILED"}
               PROVE  /\ lock'[ResourceOf[b]].owner = b
                      /\ ~lock'[ResourceOf[b]].released
                      /\ lock'[ResourceOf[b]].frozen
    BY DEF UnverifiedEffectIsFrozen, Owns
  <2>1. b # a /\ action[b] = action'[b]
    BY <1>7, DispatchChanges DEF RowsRecovered
  <2>2. /\ lock[ResourceOf[b]].owner = b
        /\ ~lock[ResourceOf[b]].released
        /\ lock[ResourceOf[b]].frozen
    BY <2>1 DEF UnverifiedEffectIsFrozen, Owns
  <2>3. CASE ResourceOf[b] = ResourceOf[a]
    BY <1>7, <2>1, <2>2, <2>3, DispatchChanges
  <2>4. CASE ResourceOf[b] # ResourceOf[a]
    <3>1. LockRecovered(ResourceOf[b], found)
      BY <1>7, <2>4, DispatchChanges
    <3> QED
      BY <2>2, <3>1 DEF LockRecovered, SameGrant, FrozenByRecovery
  <2> QED
    BY <2>3, <2>4
<1>8. ASSUME NEW a \in Actions,
             NEW succeeded \in BOOLEAN,
             Reconcile(a, succeeded)
      PROVE  UnverifiedEffectIsFrozen'
  BY <1>8
  DEF Reconcile, Owns, Thawed, UnverifiedEffectIsFrozen, RowsAgree, TypeOK,
      ExecutionRecord, LockRecord
<1>9. ASSUME NEW found \in SUBSET ExpiredRunning,
             RecoveryScan(found)
      PROVE  UnverifiedEffectIsFrozen'
  BY <1>9, RecoveryChanges
  DEF RecoveryScan, RowsRecovered, LockRecovered, FrozenByRecovery, SameGrant,
      UnverifiedEffectIsFrozen, RowsAgree, Owns, TypeOK
<1>10. ASSUME NEW r \in Runners,
              NEW heard \in BOOLEAN,
              NEW found \in SUBSET ExpiredRunning,
              Claim(r, heard, found)
       PROVE  UnverifiedEffectIsFrozen'
  <2> PICK a \in Actions :
            /\ ClaimStarts(a, found)
            /\ \A b \in Actions \ {a} : RowsRecovered(b, found)
            /\ \A q \in Resources \ {ResourceOf[a]} : LockRecovered(q, found)
    BY <1>10, ClaimChanges
  <2> QED
    BY    DEF ClaimStarts, RowsRecovered, LockRecovered, FrozenByRecovery, SameGrant,
        UnverifiedEffectIsFrozen, RowsAgree, Owns, TypeOK, ExecutionRecord,
        LockRecord
<1>11. ASSUME NEW r \in Runners,
              NEW found \in SUBSET ExpiredRunning,
              ClaimNothing(r, found)
       PROVE  UnverifiedEffectIsFrozen'
  BY <1>11, RecoveryChanges
  DEF ClaimNothing, RowsRecovered, LockRecovered, FrozenByRecovery, SameGrant,
      UnverifiedEffectIsFrozen, RowsAgree, Owns, TypeOK
<1>12. ASSUME NEW r \in Runners,
              RunnerLost(r) \/ RunnerBack(r)
       PROVE  UnverifiedEffectIsFrozen'
  BY <1>12 DEF RunnerLost, RunnerBack, UnverifiedEffectIsFrozen, RowsAgree, Owns
<1>13. ASSUME NEW a \in Actions, Renew(a) PROVE UnverifiedEffectIsFrozen'
  BY <1>13
  DEF Renew, Owns, OwnedRunning, Extended, Renewed, UnverifiedEffectIsFrozen,
      RowsAgree, TypeOK, ExecutionRecord, LockRecord
<1>14. ASSUME NEW a \in Actions,
              NEW result \in JobResult,
              JobEnds(a, result)
       PROVE  UnverifiedEffectIsFrozen'
  BY <1>14 DEF JobEnds, UnverifiedEffectIsFrozen, RowsAgree, Owns
<1>15. ASSUME NEW a \in Actions,
              NEW heard \in BOOLEAN,
              Complete(a, heard)
       PROVE  UnverifiedEffectIsFrozen'
  BY <1>15
  DEF Complete, Owns, OwnedRunning, Completed, Released, Frozen,
      UnverifiedEffectIsFrozen, RowsAgree, TypeOK, ExecutionRecord, LockRecord
<1>16. ASSUME NEW a \in Actions,
              CompletionReplayed(a) \/ JobAbandoned(a)
       PROVE  UnverifiedEffectIsFrozen'
  BY <1>16
  DEF CompletionReplayed, JobAbandoned, UnverifiedEffectIsFrozen, RowsAgree,
      Owns
<1>17. ASSUME NEW a \in Actions,
              TaskClaimed(a)
       PROVE  UnverifiedEffectIsFrozen'
  BY <1>17 DEF TaskClaimed, UnverifiedEffectIsFrozen, RowsAgree, Owns
<1>18. ASSUME NEW a \in Actions, TaskPassed(a) PROVE UnverifiedEffectIsFrozen'
  BY <1>18, <1>1 DEF TaskPassed, RowsAgree
<1>19. ASSUME NEW a \in Actions, TaskFailed(a) PROVE UnverifiedEffectIsFrozen'
  <2>1. CASE UNCHANGED <<action, execution, lock>>
    BY <2>1 DEF UnverifiedEffectIsFrozen, RowsAgree, Owns
  <2>2. CASE Finalized(a, FALSE)
    BY <1>19, <2>2, <1>1 DEF TaskFailed, RowsAgree
  <2> QED
    BY <1>19, <2>1, <2>2 DEF TaskFailed
<1>20. ASSUME NEW a \in Actions, TaskLost(a) PROVE UnverifiedEffectIsFrozen'
  <2>1. CASE UNCHANGED <<action, execution, lock>>
    BY <2>1 DEF UnverifiedEffectIsFrozen, RowsAgree, Owns
  <2>2. CASE Finalized(a, FALSE)
    BY <1>20, <2>2, <1>1 DEF TaskLost, RowsAgree
  <2> QED
    BY <1>20, <2>1, <2>2 DEF TaskLost
<1>21. CASE Tick
  BY <1>21, TickChanges
  DEF Less, SameGrant, UnverifiedEffectIsFrozen, RowsAgree, Owns, TypeOK,
      LockRecord, ExecutionRecord
<1>22. CASE UNCHANGED vars
  BY <1>22 DEF vars, UnverifiedEffectIsFrozen, RowsAgree, Owns
<1> QED
  BY <1>2, <1>3, <1>4, <1>5, <1>6, <1>7, <1>8, <1>9, <1>10, <1>11, <1>12,
     <1>13, <1>14, <1>15, <1>16, <1>17, <1>18, <1>19, <1>20, <1>21, <1>22
  DEF Next, OperatorNext, RunnerNext, VerificationNext

LEMMA LiveStep ==
    ASSUME TypeOK,
           RowsAgree,
           ExecutionLease <= ResourceLockLease,
           LiveExecutionHoldsLock, [Next]_vars
    PROVE  LiveExecutionHoldsLock'
<1>1. ASSUME NEW a \in Actions,
             NEW passed \in BOOLEAN,
             Finalized(a, passed), action[a] = "VERIFYING"
      PROVE  LiveExecutionHoldsLock'
  BY <1>1
  DEF LiveExecutionHoldsLock, LiveExecution, RowsAgree, Finalized, Owns,
      Thawed, Frozen, TypeOK, ExecutionRecord, LockRecord
<1>2. ASSUME NEW a \in Actions, Create(a) PROVE LiveExecutionHoldsLock'
  BY <1>2 DEF Create, LiveExecutionHoldsLock, LiveExecution, RowsAgree, Owns
<1>3. ASSUME NEW a \in Actions, Cancel(a) PROVE LiveExecutionHoldsLock'
  BY <1>3
  DEF Cancel, Owns, Released, LiveExecutionHoldsLock, LiveExecution, RowsAgree,
      TypeOK, ExecutionRecord, LockRecord
<1>4. ASSUME NEW a \in Actions, AcquireLock(a) PROVE LiveExecutionHoldsLock'
  BY <1>4
  DEF AcquireLock, Owns, Acquired, HeldBy, Takeable, LiveExecutionHoldsLock,
      LiveExecution, RowsAgree, TypeOK, ExecutionRecord, LockRecord
<1>5. ASSUME NEW a \in Actions, RenewLock(a) PROVE LiveExecutionHoldsLock'
  BY <1>5
  DEF RenewLock, Owns, HeldBy, Renewed, LiveExecutionHoldsLock, LiveExecution,
      RowsAgree, TypeOK, ExecutionRecord, LockRecord
<1>6. ASSUME NEW a \in Actions, ReleaseLock(a) PROVE LiveExecutionHoldsLock'
  BY <1>6
  DEF ReleaseLock, Owns, HeldBy, Released, LiveExecutionHoldsLock,
      LiveExecution, RowsAgree, TypeOK, ExecutionRecord, LockRecord
<1>7. ASSUME NEW a \in Actions,
             NEW r \in Runners,
             NEW found \in SUBSET ExpiredRunning,
             Dispatch(a, r, found)
      PROVE  LiveExecutionHoldsLock'
  <2> SUFFICES ASSUME NEW b \in Actions,
                      execution'[b].status = "RUNNING", execution'[b].lease > 0
               PROVE  /\ lock'[ResourceOf[b]].owner = b
                      /\ ~lock'[ResourceOf[b]].released
                      /\ lock'[ResourceOf[b]].token = execution'[b].token
                      /\ lock'[ResourceOf[b]].lease >= execution'[b].lease
    BY DEF LiveExecutionHoldsLock, LiveExecution, Owns
  <2>1. b # a
    BY <1>7, DispatchChanges
  <2>2. RowsRecovered(b, found)
    BY <1>7, <2>1, DispatchChanges
  <2>3. /\ b \notin found
        /\ execution[b].status = "RUNNING"
        /\ execution'[b].token = execution[b].token
        /\ execution'[b].lease = execution[b].lease
    BY <2>2 DEF RowsRecovered
  <2>4. /\ lock[ResourceOf[b]].owner = b
        /\ ~lock[ResourceOf[b]].released
        /\ lock[ResourceOf[b]].token = execution[b].token
        /\ lock[ResourceOf[b]].lease >= execution[b].lease
    BY <2>3 DEF LiveExecutionHoldsLock, LiveExecution, Owns
  <2>5. lock[ResourceOf[b]].lease \in Nat /\ execution[b].lease \in Nat
    BY DEF TypeOK, LockRecord, ExecutionRecord
  <2>6. CASE ResourceOf[b] = ResourceOf[a]
    <3>1. lock'[ResourceOf[b]] = lock[ResourceOf[b]]
      BY <1>7, <2>3, <2>4, <2>5, <2>6, DispatchChanges
    <3> QED
      BY <2>3, <2>4, <3>1
  <2>7. CASE ResourceOf[b] # ResourceOf[a]
    <3>1. LockRecovered(ResourceOf[b], found)
      BY <1>7, <2>7, DispatchChanges
    <3> QED
      BY <2>3, <2>4, <3>1 DEF LockRecovered, FrozenByRecovery
  <2> QED
    BY <2>6, <2>7
<1>8. ASSUME NEW a \in Actions,
             NEW succeeded \in BOOLEAN,
             Reconcile(a, succeeded)
      PROVE  LiveExecutionHoldsLock'
  BY <1>8
  DEF Reconcile, Owns, Thawed, LiveExecutionHoldsLock, LiveExecution,
      RowsAgree, TypeOK, ExecutionRecord, LockRecord
<1>9. ASSUME NEW found \in SUBSET ExpiredRunning,
             RecoveryScan(found)
      PROVE  LiveExecutionHoldsLock'
  BY <1>9, RecoveryChanges
  DEF RecoveryScan, RowsRecovered, LockRecovered, FrozenByRecovery, SameGrant,
      LiveExecutionHoldsLock, LiveExecution, RowsAgree, Owns, TypeOK
<1>10. ASSUME NEW r \in Runners,
              NEW heard \in BOOLEAN,
              NEW found \in SUBSET ExpiredRunning,
              Claim(r, heard, found)
       PROVE  LiveExecutionHoldsLock'
  <2> PICK a \in Actions :
            /\ ClaimStarts(a, found)
            /\ \A b \in Actions \ {a} : RowsRecovered(b, found)
            /\ \A q \in Resources \ {ResourceOf[a]} : LockRecovered(q, found)
    BY <1>10, ClaimChanges
  <2> QED
    BY    DEF ClaimStarts, RowsRecovered, LockRecovered, FrozenByRecovery, SameGrant,
        LiveExecutionHoldsLock, LiveExecution, RowsAgree, Owns, TypeOK,
        ExecutionRecord, LockRecord
<1>11. ASSUME NEW r \in Runners,
              NEW found \in SUBSET ExpiredRunning,
              ClaimNothing(r, found)
       PROVE  LiveExecutionHoldsLock'
  BY <1>11, RecoveryChanges
  DEF ClaimNothing, RowsRecovered, LockRecovered, FrozenByRecovery, SameGrant,
      LiveExecutionHoldsLock, LiveExecution, RowsAgree, Owns, TypeOK
<1>12. ASSUME NEW r \in Runners,
              RunnerLost(r) \/ RunnerBack(r)
       PROVE  LiveExecutionHoldsLock'
  BY <1>12
  DEF RunnerLost, RunnerBack, LiveExecutionHoldsLock, LiveExecution, RowsAgree,
      Owns
<1>13. ASSUME NEW a \in Actions, Renew(a) PROVE LiveExecutionHoldsLock'
  BY <1>13
  DEF Renew, Owns, OwnedRunning, Extended, Renewed, LiveExecutionHoldsLock,
      LiveExecution, RowsAgree, TypeOK, ExecutionRecord, LockRecord
<1>14. ASSUME NEW a \in Actions,
              NEW result \in JobResult,
              JobEnds(a, result)
       PROVE  LiveExecutionHoldsLock'
  BY <1>14 DEF JobEnds, LiveExecutionHoldsLock, LiveExecution, RowsAgree, Owns
<1>15. ASSUME NEW a \in Actions,
              NEW heard \in BOOLEAN,
              Complete(a, heard)
       PROVE  LiveExecutionHoldsLock'
  BY <1>15
  DEF Complete, Owns, OwnedRunning, Completed, Released, Frozen,
      LiveExecutionHoldsLock, LiveExecution, RowsAgree, TypeOK,
      ExecutionRecord, LockRecord
<1>16. ASSUME NEW a \in Actions,
              CompletionReplayed(a) \/ JobAbandoned(a)
       PROVE  LiveExecutionHoldsLock'
  BY <1>16
  DEF CompletionReplayed, JobAbandoned, LiveExecutionHoldsLock, LiveExecution,
      RowsAgree, Owns
<1>17. ASSUME NEW a \in Actions, TaskClaimed(a) PROVE LiveExecutionHoldsLock'
  BY <1>17 DEF TaskClaimed, LiveExecutionHoldsLock, LiveExecution, RowsAgree, Owns
<1>18. ASSUME NEW a \in Actions, TaskPassed(a) PROVE LiveExecutionHoldsLock'
  BY <1>18, <1>1 DEF TaskPassed, RowsAgree
<1>19. ASSUME NEW a \in Actions, TaskFailed(a) PROVE LiveExecutionHoldsLock'
  <2>1. CASE UNCHANGED <<action, execution, lock>>
    BY <2>1 DEF LiveExecutionHoldsLock, LiveExecution, RowsAgree, Owns
  <2>2. CASE Finalized(a, FALSE)
    BY <1>19, <2>2, <1>1 DEF TaskFailed, RowsAgree
  <2> QED
    BY <1>19, <2>1, <2>2 DEF TaskFailed
<1>20. ASSUME NEW a \in Actions, TaskLost(a) PROVE LiveExecutionHoldsLock'
  <2>1. CASE UNCHANGED <<action, execution, lock>>
    BY <2>1 DEF LiveExecutionHoldsLock, LiveExecution, RowsAgree, Owns
  <2>2. CASE Finalized(a, FALSE)
    BY <1>20, <2>2, <1>1 DEF TaskLost, RowsAgree
  <2> QED
    BY <1>20, <2>1, <2>2 DEF TaskLost
<1>21. CASE Tick
  BY <1>21, TickChanges
  DEF Less, SameGrant, LiveExecutionHoldsLock, LiveExecution, RowsAgree, Owns,
      TypeOK, LockRecord, ExecutionRecord
<1>22. CASE UNCHANGED vars
  BY <1>22 DEF vars, LiveExecutionHoldsLock, LiveExecution, RowsAgree, Owns
<1> QED
  BY <1>2, <1>3, <1>4, <1>5, <1>6, <1>7, <1>8, <1>9, <1>10, <1>11, <1>12,
     <1>13, <1>14, <1>15, <1>16, <1>17, <1>18, <1>19, <1>20, <1>21, <1>22
  DEF Next, OperatorNext, RunnerNext, VerificationNext

LEMMA BoundStep ==
    ASSUME TypeOK,
           RowsAgree,
           TokensBounded, [Next]_vars
    PROVE  TokensBounded'
<1>1. ASSUME NEW a \in Actions,
             NEW passed \in BOOLEAN,
             Finalized(a, passed), action[a] = "VERIFYING"
      PROVE  TokensBounded'
  BY <1>1
  DEF TokensBounded, RowsAgree, Finalized, Owns, Thawed, Frozen, TypeOK,
      ExecutionRecord, LockRecord
<1>2. ASSUME NEW a \in Actions, Create(a) PROVE TokensBounded'
  BY <1>2 DEF Create, TokensBounded, RowsAgree, Owns
<1>3. ASSUME NEW a \in Actions, Cancel(a) PROVE TokensBounded'
  BY <1>3
  DEF Cancel, Owns, Released, TokensBounded, RowsAgree, TypeOK,
      ExecutionRecord, LockRecord
<1>4. ASSUME NEW a \in Actions, AcquireLock(a) PROVE TokensBounded'
  BY <1>4
  DEF AcquireLock, Owns, Acquired, HeldBy, Takeable, TokensBounded, RowsAgree,
      TypeOK, ExecutionRecord, LockRecord
<1>5. ASSUME NEW a \in Actions, RenewLock(a) PROVE TokensBounded'
  BY <1>5
  DEF RenewLock, Owns, HeldBy, Renewed, TokensBounded, RowsAgree, TypeOK,
      ExecutionRecord, LockRecord
<1>6. ASSUME NEW a \in Actions, ReleaseLock(a) PROVE TokensBounded'
  BY <1>6
  DEF ReleaseLock, Owns, HeldBy, Released, TokensBounded, RowsAgree, TypeOK,
      ExecutionRecord, LockRecord
<1>7. ASSUME NEW a \in Actions,
             NEW r \in Runners,
             NEW found \in SUBSET ExpiredRunning,
             Dispatch(a, r, found)
      PROVE  TokensBounded'
  <2> SUFFICES ASSUME NEW b \in Actions, execution'[b].status # "NONE"
               PROVE  /\ execution'[b].token <= lock'[ResourceOf[b]].token
                      /\ execution'[b].token = lock'[ResourceOf[b]].token =>
                            lock'[ResourceOf[b]].owner = b
    BY DEF TokensBounded
  <2>1. execution[b].token \in Nat /\ lock[ResourceOf[b]].token \in Nat
    BY DEF TypeOK, ExecutionRecord, LockRecord
  <2>2. CASE b = a
    <3>1. lock'[ResourceOf[a]].token \in Nat
      BY <1>7, <2>1, <2>2, DispatchChanges
    <3> QED
      BY <1>7, <2>2, <3>1, DispatchChanges
  <2>3. CASE b # a
    <3>1. RowsRecovered(b, found)
      BY <1>7, <2>3, DispatchChanges
    <3>2. execution'[b].token = execution[b].token /\ execution[b].status # "NONE"
      BY <3>1 DEF RowsRecovered
    <3>3. /\ execution[b].token <= lock[ResourceOf[b]].token
          /\ execution[b].token = lock[ResourceOf[b]].token =>
                lock[ResourceOf[b]].owner = b
      BY <3>2 DEF TokensBounded
    <3>4. CASE ResourceOf[b] = ResourceOf[a]
      BY <1>7, <2>1, <3>2, <3>3, <3>4, DispatchChanges
    <3>5. CASE ResourceOf[b] # ResourceOf[a]
      <4>1. LockRecovered(ResourceOf[b], found)
        BY <1>7, <3>5, DispatchChanges
      <4> QED
        BY <3>2, <3>3, <4>1 DEF LockRecovered, SameGrant
    <3> QED
      BY <3>4, <3>5
  <2> QED
    BY <2>2, <2>3
<1>8. ASSUME NEW a \in Actions,
             NEW succeeded \in BOOLEAN,
             Reconcile(a, succeeded)
      PROVE  TokensBounded'
  BY <1>8, ReconcileChanges DEF TokensBounded
<1>9. ASSUME NEW found \in SUBSET ExpiredRunning,
             RecoveryScan(found)
      PROVE  TokensBounded'
  BY <1>9, RecoveryChanges
  DEF RecoveryScan, RowsRecovered, LockRecovered, FrozenByRecovery, SameGrant,
      TokensBounded, RowsAgree, Owns, TypeOK
<1>10. ASSUME NEW r \in Runners,
              NEW heard \in BOOLEAN,
              NEW found \in SUBSET ExpiredRunning,
              Claim(r, heard, found)
       PROVE  TokensBounded'
  <2> PICK a \in Actions :
            /\ ClaimStarts(a, found)
            /\ \A b \in Actions \ {a} : RowsRecovered(b, found)
            /\ \A q \in Resources \ {ResourceOf[a]} : LockRecovered(q, found)
    BY <1>10, ClaimChanges
  <2> QED
    BY    DEF ClaimStarts, RowsRecovered, LockRecovered, FrozenByRecovery, SameGrant,
        TokensBounded, RowsAgree, Owns, TypeOK, ExecutionRecord, LockRecord
<1>11. ASSUME NEW r \in Runners,
              NEW found \in SUBSET ExpiredRunning,
              ClaimNothing(r, found)
       PROVE  TokensBounded'
  BY <1>11, RecoveryChanges
  DEF ClaimNothing, RowsRecovered, LockRecovered, FrozenByRecovery, SameGrant,
      TokensBounded, RowsAgree, Owns, TypeOK
<1>12. ASSUME NEW r \in Runners,
              RunnerLost(r) \/ RunnerBack(r)
       PROVE  TokensBounded'
  BY <1>12 DEF RunnerLost, RunnerBack, TokensBounded, RowsAgree, Owns
<1>13. ASSUME NEW a \in Actions, Renew(a) PROVE TokensBounded'
  BY <1>13
  DEF Renew, Owns, OwnedRunning, Extended, Renewed, TokensBounded, RowsAgree,
      TypeOK, ExecutionRecord, LockRecord
<1>14. ASSUME NEW a \in Actions,
              NEW result \in JobResult,
              JobEnds(a, result)
       PROVE  TokensBounded'
  BY <1>14 DEF JobEnds, TokensBounded, RowsAgree, Owns
<1>15. ASSUME NEW a \in Actions,
              NEW heard \in BOOLEAN,
              Complete(a, heard)
       PROVE  TokensBounded'
  BY <1>15
  DEF Complete, Owns, OwnedRunning, Completed, Released, Frozen, TokensBounded,
      RowsAgree, TypeOK, ExecutionRecord, LockRecord
<1>16. ASSUME NEW a \in Actions,
              CompletionReplayed(a) \/ JobAbandoned(a)
       PROVE  TokensBounded'
  BY <1>16 DEF CompletionReplayed, JobAbandoned, TokensBounded, RowsAgree, Owns
<1>17. ASSUME NEW a \in Actions, TaskClaimed(a) PROVE TokensBounded'
  BY <1>17 DEF TaskClaimed, TokensBounded, RowsAgree, Owns
<1>18. ASSUME NEW a \in Actions, TaskPassed(a) PROVE TokensBounded'
  BY <1>18, <1>1 DEF TaskPassed, RowsAgree
<1>19. ASSUME NEW a \in Actions, TaskFailed(a) PROVE TokensBounded'
  <2>1. CASE UNCHANGED <<action, execution, lock>>
    BY <2>1 DEF TokensBounded, RowsAgree, Owns
  <2>2. CASE Finalized(a, FALSE)
    BY <1>19, <2>2, <1>1 DEF TaskFailed, RowsAgree
  <2> QED
    BY <1>19, <2>1, <2>2 DEF TaskFailed
<1>20. ASSUME NEW a \in Actions, TaskLost(a) PROVE TokensBounded'
  <2>1. CASE UNCHANGED <<action, execution, lock>>
    BY <2>1 DEF TokensBounded, RowsAgree, Owns
  <2>2. CASE Finalized(a, FALSE)
    BY <1>20, <2>2, <1>1 DEF TaskLost, RowsAgree
  <2> QED
    BY <1>20, <2>1, <2>2 DEF TaskLost
<1>21. CASE Tick
  BY <1>21, TickChanges
  DEF Less, SameGrant, TokensBounded, RowsAgree, Owns, TypeOK, LockRecord,
      ExecutionRecord
<1>22. CASE UNCHANGED vars
  BY <1>22 DEF vars, TokensBounded, RowsAgree, Owns
<1> QED
  BY <1>2, <1>3, <1>4, <1>5, <1>6, <1>7, <1>8, <1>9, <1>10, <1>11, <1>12,
     <1>13, <1>14, <1>15, <1>16, <1>17, <1>18, <1>19, <1>20, <1>21, <1>22
  DEF Next, OperatorNext, RunnerNext, VerificationNext

LEMMA TokenStep ==
    ASSUME TypeOK,
           RowsAgree,
           TokensBounded,
           TokensDistinguishExecutions, [Next]_vars
    PROVE  TokensDistinguishExecutions'
<1>1. ASSUME NEW a \in Actions,
             NEW passed \in BOOLEAN,
             Finalized(a, passed), action[a] = "VERIFYING"
      PROVE  TokensDistinguishExecutions'
  BY <1>1
  DEF TokensDistinguishExecutions, TokensBounded, RowsAgree, Finalized, Owns,
      Thawed, Frozen, TypeOK, ExecutionRecord, LockRecord
<1>2. ASSUME NEW a \in Actions, Create(a) PROVE TokensDistinguishExecutions'
  BY <1>2 DEF Create, TokensDistinguishExecutions, TokensBounded, RowsAgree, Owns
<1>3. ASSUME NEW a \in Actions, Cancel(a) PROVE TokensDistinguishExecutions'
  BY <1>3
  DEF Cancel, Owns, Released, TokensDistinguishExecutions, TokensBounded,
      RowsAgree, TypeOK, ExecutionRecord, LockRecord
<1>4. ASSUME NEW a \in Actions,
             AcquireLock(a)
      PROVE  TokensDistinguishExecutions'
  BY <1>4
  DEF AcquireLock, Owns, Acquired, HeldBy, Takeable,
      TokensDistinguishExecutions, TokensBounded, RowsAgree, TypeOK,
      ExecutionRecord, LockRecord
<1>5. ASSUME NEW a \in Actions,
             RenewLock(a)
      PROVE  TokensDistinguishExecutions'
  BY <1>5
  DEF RenewLock, Owns, HeldBy, Renewed, TokensDistinguishExecutions,
      TokensBounded, RowsAgree, TypeOK, ExecutionRecord, LockRecord
<1>6. ASSUME NEW a \in Actions,
             ReleaseLock(a)
      PROVE  TokensDistinguishExecutions'
  BY <1>6
  DEF ReleaseLock, Owns, HeldBy, Released, TokensDistinguishExecutions,
      TokensBounded, RowsAgree, TypeOK, ExecutionRecord, LockRecord
<1>7. ASSUME NEW a \in Actions,
             NEW r \in Runners,
             NEW found \in SUBSET ExpiredRunning,
             Dispatch(a, r, found)
      PROVE  TokensDistinguishExecutions'
  <2>1. ASSUME NEW b \in Actions \ {a}
        PROVE  /\ execution'[b].token = execution[b].token
               /\ execution'[b].status # "NONE" => execution[b].status # "NONE"
    BY <1>7, DispatchChanges DEF RowsRecovered
  <2>2. ASSUME NEW b \in Actions \ {a}, execution[b].status # "NONE",
               ResourceOf[b] = ResourceOf[a]
        PROVE  execution[b].token # execution'[a].token
    <3>1. execution[b].token \in Nat /\ lock[ResourceOf[a]].token \in Nat
      BY DEF TypeOK, ExecutionRecord, LockRecord
    <3>2. /\ execution[b].token <= lock[ResourceOf[a]].token
          /\ execution[b].token = lock[ResourceOf[a]].token =>
                lock[ResourceOf[a]].owner = b
      BY <2>2 DEF TokensBounded
    <3> QED
      BY <1>7, <3>1, <3>2, DispatchChanges
  <2> SUFFICES ASSUME NEW b \in Actions, NEW c \in Actions, b # c,
                      ResourceOf[b] = ResourceOf[c],
                      execution'[b].status # "NONE", execution'[c].status # "NONE"
               PROVE  execution'[b].token # execution'[c].token
    BY DEF TokensDistinguishExecutions
  <2>3. CASE b # a /\ c # a
    BY <2>1, <2>3 DEF TokensDistinguishExecutions
  <2>4. CASE b = a \/ c = a
    BY <2>1, <2>2, <2>4
  <2> QED
    BY <2>3, <2>4
<1>8. ASSUME NEW a \in Actions,
             NEW succeeded \in BOOLEAN,
             Reconcile(a, succeeded)
      PROVE  TokensDistinguishExecutions'
  BY <1>8, ReconcileChanges DEF TokensDistinguishExecutions
<1>9. ASSUME NEW found \in SUBSET ExpiredRunning,
             RecoveryScan(found)
      PROVE  TokensDistinguishExecutions'
  BY <1>9, RecoveryChanges
  DEF RecoveryScan, RowsRecovered, LockRecovered, FrozenByRecovery, SameGrant,
      TokensDistinguishExecutions, TokensBounded, RowsAgree, Owns, TypeOK
<1>10. ASSUME NEW r \in Runners,
              NEW heard \in BOOLEAN,
              NEW found \in SUBSET ExpiredRunning,
              Claim(r, heard, found)
       PROVE  TokensDistinguishExecutions'
  <2>1. ASSUME NEW b \in Actions
        PROVE  /\ execution'[b].token = execution[b].token
               /\ execution'[b].status # "NONE" => execution[b].status # "NONE"
    BY <1>10, ClaimChanges DEF ClaimStarts, RowsRecovered
  <2> QED
    BY <2>1 DEF TokensDistinguishExecutions
<1>11. ASSUME NEW r \in Runners,
              NEW found \in SUBSET ExpiredRunning,
              ClaimNothing(r, found)
       PROVE  TokensDistinguishExecutions'
  BY <1>11, RecoveryChanges
  DEF ClaimNothing, RowsRecovered, LockRecovered, FrozenByRecovery, SameGrant,
      TokensDistinguishExecutions, TokensBounded, RowsAgree, Owns, TypeOK
<1>12. ASSUME NEW r \in Runners,
              RunnerLost(r) \/ RunnerBack(r)
       PROVE  TokensDistinguishExecutions'
  BY <1>12
  DEF RunnerLost, RunnerBack, TokensDistinguishExecutions, TokensBounded,
      RowsAgree, Owns
<1>13. ASSUME NEW a \in Actions, Renew(a) PROVE TokensDistinguishExecutions'
  BY <1>13
  DEF Renew, Owns, OwnedRunning, Extended, Renewed,
      TokensDistinguishExecutions, TokensBounded, RowsAgree, TypeOK,
      ExecutionRecord, LockRecord
<1>14. ASSUME NEW a \in Actions,
              NEW result \in JobResult,
              JobEnds(a, result)
       PROVE  TokensDistinguishExecutions'
  BY <1>14 DEF JobEnds, TokensDistinguishExecutions, TokensBounded, RowsAgree, Owns
<1>15. ASSUME NEW a \in Actions,
              NEW heard \in BOOLEAN,
              Complete(a, heard)
       PROVE  TokensDistinguishExecutions'
  BY <1>15
  DEF Complete, Owns, OwnedRunning, Completed, Released, Frozen,
      TokensDistinguishExecutions, TokensBounded, RowsAgree, TypeOK,
      ExecutionRecord, LockRecord
<1>16. ASSUME NEW a \in Actions,
              CompletionReplayed(a) \/ JobAbandoned(a)
       PROVE  TokensDistinguishExecutions'
  BY <1>16
  DEF CompletionReplayed, JobAbandoned, TokensDistinguishExecutions,
      TokensBounded, RowsAgree, Owns
<1>17. ASSUME NEW a \in Actions,
              TaskClaimed(a)
       PROVE  TokensDistinguishExecutions'
  BY <1>17
  DEF TaskClaimed, TokensDistinguishExecutions, TokensBounded, RowsAgree, Owns
<1>18. ASSUME NEW a \in Actions,
              TaskPassed(a)
       PROVE  TokensDistinguishExecutions'
  BY <1>18, <1>1 DEF TaskPassed, RowsAgree
<1>19. ASSUME NEW a \in Actions,
              TaskFailed(a)
       PROVE  TokensDistinguishExecutions'
  <2>1. CASE UNCHANGED <<action, execution, lock>>
    BY <2>1 DEF TokensDistinguishExecutions, TokensBounded, RowsAgree, Owns
  <2>2. CASE Finalized(a, FALSE)
    BY <1>19, <2>2, <1>1 DEF TaskFailed, RowsAgree
  <2> QED
    BY <1>19, <2>1, <2>2 DEF TaskFailed
<1>20. ASSUME NEW a \in Actions,
              TaskLost(a)
       PROVE  TokensDistinguishExecutions'
  <2>1. CASE UNCHANGED <<action, execution, lock>>
    BY <2>1 DEF TokensDistinguishExecutions, TokensBounded, RowsAgree, Owns
  <2>2. CASE Finalized(a, FALSE)
    BY <1>20, <2>2, <1>1 DEF TaskLost, RowsAgree
  <2> QED
    BY <1>20, <2>1, <2>2 DEF TaskLost
<1>21. CASE Tick
  BY <1>21, TickChanges
  DEF Less, SameGrant, TokensDistinguishExecutions, TokensBounded, RowsAgree,
      Owns, TypeOK, LockRecord, ExecutionRecord
<1>22. CASE UNCHANGED vars
  BY <1>22
  DEF vars, TokensDistinguishExecutions, TokensBounded, RowsAgree, Owns
<1> QED
  BY <1>2, <1>3, <1>4, <1>5, <1>6, <1>7, <1>8, <1>9, <1>10, <1>11, <1>12,
     <1>13, <1>14, <1>15, <1>16, <1>17, <1>18, <1>19, <1>20, <1>21, <1>22
  DEF Next, OperatorNext, RunnerNext, VerificationNext

-----------------------------------------------------------------------------
(* The theorems.                                                             *)

\* While an effect is applied and not verified, or failed its verification, the
\* resource stays frozen under its action's name: no handler hands it on.
THEOREM UnverifiedEffectStaysFrozen == Spec => []UnverifiedEffectIsFrozen
<1>1. Init => UnverifiedEffectIsFrozen
  BY DEF Init, UnverifiedEffectIsFrozen
<1>2. TypeOK /\ RowsAgree /\ UnverifiedEffectIsFrozen /\ [Next]_vars
        => UnverifiedEffectIsFrozen'
  BY FrozenStep
<1> QED
  BY <1>1, <1>2, TypeCorrect, RowsCorrect, PTL DEF Spec

\* No two executions on one resource ever have the same fencing token.
THEOREM TokensUnique == Spec => []TokensDistinguishExecutions
<1>1. Init => TokensBounded /\ TokensDistinguishExecutions
  BY DEF Init, TokensBounded, TokensDistinguishExecutions, NoExecution
<1>2. TypeOK /\ RowsAgree /\ TokensBounded /\ [Next]_vars => TokensBounded'
  BY BoundStep
<1>3. TypeOK /\ RowsAgree /\ TokensBounded /\ TokensDistinguishExecutions /\ [Next]_vars
        => TokensDistinguishExecutions'
  BY TokenStep
<1> QED
  BY <1>1, <1>2, <1>3, TypeCorrect, RowsCorrect, PTL DEF Spec

\* With an execution lease no longer than the lock lease, an unexpired execution
\* always holds the lock of its resource, for at least as long as it may write.
THEOREM LiveExecutionOwnsLock ==
    ASSUME ExecutionLease <= ResourceLockLease
    PROVE  Spec => []LiveExecutionHoldsLock
<1>1. Init => LiveExecutionHoldsLock
  BY DEF Init, LiveExecutionHoldsLock, LiveExecution, NoExecution
<1>2. TypeOK /\ RowsAgree /\ LiveExecutionHoldsLock /\ [Next]_vars
        => LiveExecutionHoldsLock'
  BY LiveStep
<1> QED
  BY <1>1, <1>2, TypeCorrect, RowsCorrect, PTL DEF Spec

\* Under the same condition on the leases, two actions are never entitled to
\* write to one resource at the same time.
THEOREM MutualExclusion ==
    ASSUME ExecutionLease <= ResourceLockLease
    PROVE  Spec => []ExclusiveExecution
<1>1. LiveExecutionHoldsLock => ExclusiveExecution
  BY DEF LiveExecutionHoldsLock, ExclusiveExecution, Owns
<1> QED
  BY <1>1, LiveExecutionOwnsLock, PTL

-----------------------------------------------------------------------------
(* Freezes.                                                                  *)

\* The inductive form: a frozen row is that of its owner's resource, so that
\* whoever settles the owner finds it.
FrozenForItsOwner(r) ==
    /\ FrozenForACause(r)
    /\ lock[r].frozen => ResourceOf[lock[r].owner] = r

\* What FreezeLiftedBySettling demands of a step.
LiftedBySettling(r) ==
    lock[r].frozen =>
        \/ lock'[r].frozen /\ lock'[r].owner = lock[r].owner /\ ~lock'[r].released
        \/ /\ action[lock[r].owner] \in {"VERIFYING", "UNKNOWN"}
           /\ action'[lock[r].owner] \in {"SUCCEEDED", "FAILED"}

LEMMA SettledLockRow ==
    ASSUME NEW l \in LockRecord
    PROVE  ~Thawed(l).frozen /\ Frozen(l).frozen /\ SameGrant(l, Frozen(l))
BY DEF Thawed, Frozen, SameGrant, LockRecord

\* What FreezeIsOrderly demands of a step for one resource, and the invariant after it.
FreezeStaysOrderly(r) == FrozenForItsOwner(r)' /\ LiftedBySettling(r)

LEMMA FreezeStep ==
    ASSUME TypeOK, RowsAgree,
           \A q \in Resources : FrozenForItsOwner(q), [Next]_vars, NEW r \in Resources
    PROVE  FreezeStaysOrderly(r)
<1>0. /\ lock[r] \in LockRecord
      /\ FrozenForItsOwner(r)
  BY DEF TypeOK
<1>1. ASSUME NEW a \in Actions, NEW passed \in BOOLEAN,
             Finalized(a, passed), action[a] = "VERIFYING"
      PROVE  FreezeStaysOrderly(r)
  <2>1. \/ lock'[r] = lock[r] /\ (lock[r].frozen => lock[r].owner # a)
        \/ passed /\ lock[r].owner = a /\ ~lock'[r].frozen
        \/ /\ ~passed
           /\ lock'[r].frozen
           /\ SameGrant(lock[r], lock'[r])
           /\ lock[r].owner = a /\ ~lock[r].released /\ ResourceOf[a] = r
    <3>1. CASE Owns(lock, a) /\ ResourceOf[a] = r
      <4>1. lock'[r] = IF passed THEN Thawed(lock[r]) ELSE Frozen(lock[r])
        BY <1>1, <3>1 DEF Finalized, TypeOK
      <4> QED
        BY <1>0, <3>1, <4>1, SettledLockRow DEF Owns
    <3>2. CASE ~Owns(lock, a) \/ ResourceOf[a] # r
      <4>1. lock'[r] = lock[r]
        BY <1>1, <3>2 DEF Finalized, TypeOK
      <4>2. lock[r].frozen => lock[r].owner # a
        BY <1>0, <1>1, <3>2 DEF FrozenForItsOwner, FrozenForACause, Owns
      <4> QED
        BY <4>1, <4>2
    <3> QED
      BY <3>1, <3>2
  <2>2. action' = [action EXCEPT ![a] = IF passed THEN "SUCCEEDED" ELSE "VERIFICATION_FAILED"]
    BY <1>1 DEF Finalized
  <2> QED
    BY <1>0, <1>1, <2>1, <2>2
    DEF FreezeStaysOrderly, FrozenForItsOwner, FrozenForACause, LiftedBySettling,
        SameGrant, TypeOK
<1>2. ASSUME NEW a \in Actions, Create(a) PROVE FreezeStaysOrderly(r)
  BY <1>0, <1>2
  DEF FreezeStaysOrderly, FrozenForItsOwner, FrozenForACause, LiftedBySettling,
      Create, TypeOK
<1>3. ASSUME NEW a \in Actions, Cancel(a) PROVE FreezeStaysOrderly(r)
  BY <1>0, <1>3
  DEF FreezeStaysOrderly, FrozenForItsOwner, FrozenForACause, LiftedBySettling,
      Cancel, Owns, Released, TypeOK, LockRecord
<1>4. ASSUME NEW a \in Actions, AcquireLock(a) PROVE FreezeStaysOrderly(r)
  BY <1>0, <1>4
  DEF FreezeStaysOrderly, FrozenForItsOwner, FrozenForACause, LiftedBySettling,
      AcquireLock, Acquired, HeldBy, Takeable, TypeOK,
      LockRecord
<1>5. ASSUME NEW a \in Actions, RenewLock(a) PROVE FreezeStaysOrderly(r)
  BY <1>0, <1>5
  DEF FreezeStaysOrderly, FrozenForItsOwner, FrozenForACause, LiftedBySettling,
      RenewLock, HeldBy, Renewed, TypeOK, LockRecord
<1>6. ASSUME NEW a \in Actions, ReleaseLock(a) PROVE FreezeStaysOrderly(r)
  BY <1>0, <1>6
  DEF FreezeStaysOrderly, FrozenForItsOwner, FrozenForACause, LiftedBySettling,
      ReleaseLock, HeldBy, Released, TypeOK, LockRecord
<1>7. ASSUME NEW a \in Actions, NEW s \in Runners, NEW found \in SUBSET ExpiredRunning,
             Dispatch(a, s, found)
      PROVE  FreezeStaysOrderly(r)
  <2>1. CASE r = ResourceOf[a]
    BY <1>0, <1>7, <2>1, DispatchChanges
    DEF FreezeStaysOrderly, FrozenForItsOwner, FrozenForACause, LiftedBySettling,
        LockRecord
  <2>2. CASE r # ResourceOf[a]
    <3>1. LockRecovered(r, found)
      BY <1>7, <2>2, DispatchChanges
    <3>2. /\ action[a] = "READY"
          /\ \A b \in Actions \ {a} : RowsRecovered(b, found)
          /\ a \notin found
      BY <1>7, DispatchChanges DEF ExpiredRunning
    <3> QED
      BY <1>0, <3>1, <3>2
      DEF FreezeStaysOrderly, FrozenForItsOwner, FrozenForACause, LiftedBySettling,
          LockRecovered, SameGrant, FrozenByRecovery,
          RowsRecovered, RowsAgree, ExpiredRunning
  <2> QED
    BY <2>1, <2>2
<1>8. ASSUME NEW a \in Actions, NEW succeeded \in BOOLEAN, Reconcile(a, succeeded)
      PROVE  FreezeStaysOrderly(r)
  <2>1. \/ lock'[r] = lock[r] /\ (lock[r].frozen => lock[r].owner # a)
        \/ lock[r].owner = a /\ ~lock'[r].frozen
    <3>1. CASE Owns(lock, a) /\ ResourceOf[a] = r
      <4>1. lock'[r] = Thawed(lock[r])
        BY <1>8, <3>1 DEF Reconcile, TypeOK
      <4> QED
        BY <1>0, <3>1, <4>1, SettledLockRow DEF Owns
    <3>2. CASE ~Owns(lock, a) \/ ResourceOf[a] # r
      <4>1. lock'[r] = lock[r]
        BY <1>8, <3>2 DEF Reconcile, TypeOK
      <4>2. lock[r].frozen => lock[r].owner # a
        BY <1>0, <3>2 DEF FrozenForItsOwner, FrozenForACause, Owns
      <4> QED
        BY <4>1, <4>2
    <3> QED
      BY <3>1, <3>2
  <2>2. /\ action[a] = "UNKNOWN"
        /\ action' = [action EXCEPT ![a] = IF succeeded THEN "SUCCEEDED" ELSE "FAILED"]
    BY <1>8 DEF Reconcile
  <2> QED
    BY <1>0, <2>1, <2>2
    DEF FreezeStaysOrderly, FrozenForItsOwner, FrozenForACause, LiftedBySettling,
        TypeOK
<1>9. ASSUME NEW found \in SUBSET ExpiredRunning, Recovered(found)
      PROVE  FreezeStaysOrderly(r)
  <2>1. /\ LockRecovered(r, found)
        /\ \A b \in Actions : RowsRecovered(b, found)
    BY <1>9, RecoveryChanges
  <2> QED
    BY <1>0, <2>1
    DEF FreezeStaysOrderly, FrozenForItsOwner, FrozenForACause, LiftedBySettling,
        LockRecovered, SameGrant, FrozenByRecovery,
        RowsRecovered, RowsAgree, ExpiredRunning
<1>10. ASSUME NEW s \in Runners, NEW heard \in BOOLEAN, NEW found \in SUBSET ExpiredRunning,
              Claim(s, heard, found)
       PROVE  FreezeStaysOrderly(r)
  <2> PICK a \in Actions :
            /\ ClaimStarts(a, found)
            /\ \A b \in Actions \ {a} : RowsRecovered(b, found)
            /\ \A q \in Resources \ {ResourceOf[a]} : LockRecovered(q, found)
    BY <1>10, ClaimChanges
  <2>1. CASE r = ResourceOf[a]
    BY <1>0, <2>1
    DEF FreezeStaysOrderly, FrozenForItsOwner, FrozenForACause, LiftedBySettling,
        ClaimStarts, SameGrant, LockRecord
  <2>2. CASE r # ResourceOf[a]
    <3>1. LockRecovered(r, found)
      BY <2>2
    <3>2. a \notin found /\ action[a] = "DISPATCHING"
      BY DEF ClaimStarts, ExpiredRunning
    <3> QED
      BY <1>0, <3>1, <3>2
      DEF FreezeStaysOrderly, FrozenForItsOwner, FrozenForACause, LiftedBySettling,
          LockRecovered, SameGrant, FrozenByRecovery,
          RowsRecovered, RowsAgree, ExpiredRunning
  <2> QED
    BY <2>1, <2>2
<1>11. ASSUME NEW s \in Runners, NEW found \in SUBSET ExpiredRunning, ClaimNothing(s, found)
       PROVE  FreezeStaysOrderly(r)
  BY <1>9, <1>11 DEF ClaimNothing
<1>12. ASSUME UNCHANGED <<action, lock>> PROVE FreezeStaysOrderly(r)
  BY <1>0, <1>12
  DEF FreezeStaysOrderly, FrozenForItsOwner, FrozenForACause, LiftedBySettling
<1>13. ASSUME NEW a \in Actions, Renew(a) PROVE FreezeStaysOrderly(r)
  BY <1>0, <1>13
  DEF FreezeStaysOrderly, FrozenForItsOwner, FrozenForACause, LiftedBySettling, Renew,
      OwnedRunning, Owns, Renewed, TypeOK, LockRecord
<1>14. ASSUME NEW a \in Actions, NEW heard \in BOOLEAN, Complete(a, heard) PROVE FreezeStaysOrderly(r)
  <2>1. action[a] = "RUNNING"
    BY <1>14 DEF Complete, OwnedRunning, RowsAgree
  <2> QED
    BY <1>0, <1>14, <2>1
    DEF FreezeStaysOrderly, FrozenForItsOwner, FrozenForACause, LiftedBySettling,
        Complete, OwnedRunning, Owns, Released, Frozen,
        TypeOK, LockRecord
<1>15. ASSUME NEW a \in Actions, TaskPassed(a) PROVE FreezeStaysOrderly(r)
  BY <1>1, <1>15 DEF TaskPassed, RowsAgree
<1>16. ASSUME NEW a \in Actions, TaskFailed(a) PROVE FreezeStaysOrderly(r)
  BY <1>1, <1>12, <1>16 DEF TaskFailed, RowsAgree
<1>17. ASSUME NEW a \in Actions, TaskLost(a) PROVE FreezeStaysOrderly(r)
  BY <1>1, <1>12, <1>17 DEF TaskLost, RowsAgree
<1>18. CASE Tick
  <2>1. action' = action /\ SameGrant(lock[r], lock'[r]) /\ lock'[r].frozen = lock[r].frozen
    BY <1>18, TickChanges
  <2> QED
    BY <1>0, <2>1
    DEF FreezeStaysOrderly, FrozenForItsOwner, FrozenForACause, LiftedBySettling,
        SameGrant
<1>19. ASSUME NEW a \in Actions,
              \/ \E result \in JobResult : JobEnds(a, result)
              \/ CompletionReplayed(a)
              \/ JobAbandoned(a)
              \/ TaskClaimed(a)
       PROVE  FreezeStaysOrderly(r)
  BY <1>12, <1>19 DEF JobEnds, CompletionReplayed, JobAbandoned, TaskClaimed
<1>20. ASSUME NEW s \in Runners, RunnerLost(s) \/ RunnerBack(s) PROVE FreezeStaysOrderly(r)
  BY <1>12, <1>20 DEF RunnerLost, RunnerBack
<1>21. CASE UNCHANGED vars
  BY <1>12, <1>21 DEF vars
<1>22. CASE OperatorNext
  BY <1>2, <1>3, <1>4, <1>5, <1>6, <1>7, <1>8, <1>9, <1>22
  DEF OperatorNext, RecoveryScan
<1>23. CASE RunnerNext
  BY <1>10, <1>11, <1>13, <1>14, <1>19, <1>20, <1>23 DEF RunnerNext
<1>24. CASE VerificationNext
  BY <1>15, <1>16, <1>17, <1>19, <1>24 DEF VerificationNext
<1> QED
  BY <1>18, <1>21, <1>22, <1>23, <1>24 DEF Next

\* A freeze is always that of the action the lock row names, on its resource.
LEMMA FreezesHaveOwners == Spec => [](\A r \in Resources : FrozenForItsOwner(r))
<1> DEFINE Inv == \A r \in Resources : FrozenForItsOwner(r)
<1>1. Init => Inv
  BY DEF Init, FrozenForItsOwner, FrozenForACause, NoLock
<1>2. TypeOK /\ RowsAgree /\ Inv /\ [Next]_vars => Inv'
  BY FreezeStep DEF FreezeStaysOrderly
<1> QED
  BY <1>1, <1>2, TypeCorrect, RowsCorrect, PTL DEF Spec

\* Every freeze has an action that is still to be settled or that failed its
\* verification, and only the settling of that action lifts it.
THEOREM FreezesAreOrderly == Spec => FreezeIsOrderly
<1> DEFINE Inv == \A r \in Resources : FrozenForItsOwner(r)
<1>1. Inv => \A r \in Resources : FrozenForACause(r)
  BY DEF FrozenForItsOwner
<1>2. TypeOK /\ RowsAgree /\ Inv /\ [Next]_vars
        => [\A r \in Resources :
              lock[r].frozen =>
                  \/ lock'[r].frozen /\ lock'[r].owner = lock[r].owner /\ ~lock'[r].released
                  \/ /\ action[lock[r].owner] \in {"VERIFYING", "UNKNOWN"}
                     /\ action'[lock[r].owner] \in {"SUCCEEDED", "FAILED"}]_vars
  BY FreezeStep DEF FreezeStaysOrderly, LiftedBySettling
<1> QED
  BY <1>1, <1>2, FreezesHaveOwners, TypeCorrect, RowsCorrect, PTL
  DEF Spec, FreezeIsOrderly, FreezeLiftedBySettling

-----------------------------------------------------------------------------
(* The refinement of ResourceExclusion.                                      *)

\* What a lock row means for its resource.
LEMMA PhaseOfRow ==
    ASSUME NEW r \in Resources
    PROVE  /\ lock[r].frozen => Phase(r) = "frozen"
           /\ ~lock[r].frozen /\ lock[r].released => Phase(r) = "free"
           /\ ~lock[r].frozen /\ ~lock[r].released /\ lock[r].lease > 0 => Phase(r) = "held"
           /\ ~lock[r].frozen /\ ~lock[r].released /\ ~(lock[r].lease > 0) => Phase(r) = "lapsed"
BY DEF Phase

LEMMA PhaseOfNextRow ==
    ASSUME NEW r \in Resources
    PROVE  /\ lock'[r].frozen => Phase(r)' = "frozen"
           /\ ~lock'[r].frozen /\ lock'[r].released => Phase(r)' = "free"
           /\ ~lock'[r].frozen /\ ~lock'[r].released /\ lock'[r].lease > 0 => Phase(r)' = "held"
           /\ ~lock'[r].frozen /\ ~lock'[r].released /\ ~(lock'[r].lease > 0)
                => Phase(r)' = "lapsed"
BY DEF Phase

\* One lemma for each kind of change to the row, which names the abstract step.
ExclusionStep(r) == [Exclusion(r)!Next]_(Exclusion(r)!vars)
SameWriters(r) == Writers(r)' = Writers(r)

LEMMA RowKept ==
    ASSUME NEW r \in Resources, lock'[r] = lock[r], SameWriters(r)
    PROVE  ExclusionStep(r)
BY DEF ExclusionStep, SameWriters, Exclusion!vars, Phase

LEMMA RowRenewed ==
    ASSUME NEW r \in Resources, SameGrant(lock[r], lock'[r]), lock'[r].frozen = lock[r].frozen,
           lock[r].lease > 0, lock'[r].lease > 0, SameWriters(r)
    PROVE  ExclusionStep(r)
BY DEF ExclusionStep, SameWriters, SameGrant, Exclusion!vars, Phase

LEMMA RowAged ==
    ASSUME NEW r \in Resources, SameGrant(lock[r], lock'[r]), lock'[r].frozen = lock[r].frozen,
           lock'[r].lease > 0 => lock[r].lease > 0, Writers(r) = {}, SameWriters(r)
    PROVE  ExclusionStep(r)
BY PhaseOfRow, PhaseOfNextRow
DEF ExclusionStep, SameWriters, SameGrant, Exclusion!vars, Exclusion!Next,
    Exclusion!Lapse

LEMMA RowReleased ==
    ASSUME NEW r \in Resources, ~lock'[r].frozen, lock'[r].released,
           lock'[r].owner = lock[r].owner, lock'[r].token = lock[r].token,
           Writers(r) = {}, SameWriters(r)
    PROVE  ExclusionStep(r)
BY PhaseOfRow, PhaseOfNextRow
DEF ExclusionStep, SameWriters, Exclusion!vars, Exclusion!Next, Exclusion!Lapse,
    Exclusion!GiveBack, Exclusion!Thaw

LEMMA RowFrozen ==
    ASSUME NEW r \in Resources, lock'[r].frozen, SameGrant(lock[r], lock'[r]),
           ~lock[r].released, Writers(r) = {}, SameWriters(r)
    PROVE  ExclusionStep(r)
BY PhaseOfRow, PhaseOfNextRow
DEF ExclusionStep, SameWriters, SameGrant, Exclusion!vars, Exclusion!Next,
    Exclusion!Freeze

LEMMA RowGranted ==
    ASSUME NEW r \in Resources, NEW a \in Actions, ~lock[r].frozen,
           lock[r].released \/ ~(lock[r].lease > 0),
           lock'[r].owner = a, lock'[r].token = lock[r].token + 1, lock'[r].lease > 0,
           ~lock'[r].released, ~lock'[r].frozen, Writers(r) = {}, SameWriters(r)
    PROVE  ExclusionStep(r)
BY PhaseOfRow, PhaseOfNextRow
DEF ExclusionStep, SameWriters, Exclusion!Next, Exclusion!Grant

LEMMA RowTaken ==
    ASSUME NEW r \in Resources, NEW a \in Actions, ~lock[r].frozen, ~lock[r].released,
           lock[r].owner = a, SameGrant(lock[r], lock'[r]), ~lock'[r].frozen,
           lock'[r].lease > 0, Writers(r) = {}, Writers(r)' = {a}
    PROVE  ExclusionStep(r)
BY PhaseOfRow, PhaseOfNextRow
DEF ExclusionStep, SameGrant, Exclusion!Next, Exclusion!StartWriting

LEMMA RowLeft ==
    ASSUME NEW r \in Resources, ~lock[r].frozen, ~lock[r].released, lock[r].lease > 0,
           lock'[r].owner = lock[r].owner, lock'[r].token = lock[r].token,
           Writers(r) # {}, Writers(r)' = {}
    PROVE  ExclusionStep(r)
BY PhaseOfRow, PhaseOfNextRow
DEF ExclusionStep, Exclusion!Next, Exclusion!StopWriting

LEMMA ThawedRow ==
    ASSUME NEW l \in LockRecord
    PROVE  /\ ~Thawed(l).frozen
           /\ Thawed(l).released
           /\ Thawed(l).owner = l.owner
           /\ Thawed(l).token = l.token
BY DEF Thawed, LockRecord

\* Who writes, and when nobody does.
LEMMA WritersKept ==
    ASSUME NEW r \in Resources,
           \A b \in Actions : ResourceOf[b] = r => (LiveExecution(b)' <=> LiveExecution(b))
    PROVE  SameWriters(r)
BY DEF SameWriters, Writers

LEMMA NoWriter ==
    ASSUME TypeOK, LiveExecutionHoldsLock, NEW r \in Resources,
           \/ lock[r].released
           \/ ~(lock[r].lease > 0)
           \/ \A a \in Actions : lock[r].owner = a => ~LiveExecution(a)
    PROVE  Writers(r) = {}
<1> SUFFICES ASSUME NEW a \in Actions, ResourceOf[a] = r, LiveExecution(a)
             PROVE  FALSE
  BY DEF Writers
<1>1. /\ lock[r].owner = a
      /\ ~lock[r].released
      /\ lock[r].lease >= execution[a].lease
  BY DEF LiveExecutionHoldsLock, Owns
<1>2. execution[a].lease > 0 /\ execution[a].lease \in Nat /\ lock[r].lease \in Nat
  BY DEF LiveExecution, TypeOK, ExecutionRecord, LockRecord
<1> QED
  BY <1>1, <1>2

LEMMA RecoveredWriters ==
    ASSUME NEW found \in SUBSET ExpiredRunning, NEW b \in Actions, TypeOK,
           RowsRecovered(b, found)
    PROVE  LiveExecution(b)' <=> LiveExecution(b)
BY DEF RowsRecovered, LiveExecution, TypeOK, ExecutionRecord

LEMMA RecoveredRow ==
    ASSUME TypeOK, RowsAgree, LiveExecutionHoldsLock, NEW r \in Resources,
           NEW found \in SUBSET ExpiredRunning, LockRecovered(r, found), SameWriters(r)
    PROVE  ExclusionStep(r)
<1>1. CASE lock'[r] = lock[r]
  BY <1>1, RowKept
<1>2. CASE FrozenByRecovery(lock[r], lock'[r], r, found)
  <2>1. ~LiveExecution(lock[r].owner) /\ lock[r].owner \in Actions
    BY <1>2 DEF FrozenByRecovery, ExpiredRunning, LiveExecution
  <2>2. Writers(r) = {}
    BY <2>1, NoWriter
  <2> QED
    BY <1>2, <2>2, RowFrozen DEF FrozenByRecovery, LockRecovered
<1> QED
  BY <1>1, <1>2 DEF LockRecovered

\* What a step of the write path may rely on.
Safe ==
    /\ TypeOK
    /\ RowsAgree
    /\ LiveExecutionHoldsLock
    /\ UnverifiedEffectIsFrozen
    /\ \A r \in Resources : FrozenForItsOwner(r)

LEMMA ExclusionStepTaken ==
    ASSUME ExecutionLease <= ResourceLockLease, Safe, LiveExecutionHoldsLock', [Next]_vars,
           NEW r \in Resources
    PROVE  ExclusionStep(r)
<1>0. /\ TypeOK /\ RowsAgree /\ LiveExecutionHoldsLock /\ UnverifiedEffectIsFrozen
      /\ lock[r] \in LockRecord
      /\ FrozenForItsOwner(r)
  BY DEF Safe, TypeOK
<1>1. ASSUME UNCHANGED <<execution, lock>> PROVE ExclusionStep(r)
  BY <1>1, WritersKept, RowKept DEF LiveExecution
<1>2. ASSUME NEW found \in SUBSET ExpiredRunning, Recovered(found) PROVE ExclusionStep(r)
  BY <1>0, <1>2, RecoveryChanges, RecoveredWriters, WritersKept, RecoveredRow
<1>3. ASSUME NEW a \in Actions, Cancel(a) PROVE ExclusionStep(r)
  <2>1. SameWriters(r)
    BY <1>3, WritersKept DEF Cancel, LiveExecution
  <2>2. CASE Owns(lock, a) /\ ResourceOf[a] = r
    <3>1. /\ lock[r].owner = a /\ action[a] = "READY"
          /\ lock'[r] = Released(lock[r])
      BY <1>0, <1>3, <2>2 DEF Cancel, Owns, TypeOK
    <3>2. ~lock[r].frozen
      BY <1>0, <3>1 DEF FrozenForItsOwner, FrozenForACause
    <3>3. ~LiveExecution(a)
      BY <1>0, <3>1 DEF RowsAgree, LiveExecution
    <3>4. Writers(r) = {}
      BY <1>0, <3>1, <3>3, NoWriter
    <3> QED
      BY <1>0, <2>1, <3>1, <3>2, <3>4, RowReleased DEF Released, LockRecord
  <2>3. CASE ~(Owns(lock, a) /\ ResourceOf[a] = r)
    BY <1>0, <1>3, <2>1, <2>3, RowKept DEF Cancel, TypeOK
  <2> QED
    BY <2>2, <2>3
<1>4. ASSUME NEW a \in Actions, AcquireLock(a) PROVE ExclusionStep(r)
  <2>1. SameWriters(r)
    BY <1>4, WritersKept DEF AcquireLock, LiveExecution
  <2>2. CASE ResourceOf[a] = r
    <3>1. /\ ~lock[r].frozen
          /\ lock[r].released \/ ~(lock[r].lease > 0)
          /\ lock'[r] = Acquired(lock[r], a)
          /\ ~HeldBy(lock[r], a)
      BY <1>0, <1>4, <2>2 DEF AcquireLock, Takeable, TypeOK, LockRecord
    <3>2. /\ lock'[r].owner = a
          /\ lock'[r].token = lock[r].token + 1
          /\ lock'[r].lease > 0
          /\ ~lock'[r].released
          /\ ~lock'[r].frozen
      BY <3>1 DEF Acquired
    <3> QED
      BY <1>0, <2>1, <3>1, <3>2, NoWriter, RowGranted
  <2>3. CASE ResourceOf[a] # r
    BY <1>0, <1>4, <2>1, <2>3, RowKept DEF AcquireLock, TypeOK
  <2> QED
    BY <2>2, <2>3
<1>5. ASSUME NEW a \in Actions, RenewLock(a) PROVE ExclusionStep(r)
  <2>1. SameWriters(r)
    BY <1>5, WritersKept DEF RenewLock, LiveExecution
  <2>2. CASE ResourceOf[a] = r
    <3>1. lock[r].lease > 0 /\ lock'[r] = Renewed(lock[r])
      BY <1>0, <1>5, <2>2 DEF RenewLock, HeldBy, TypeOK
    <3> QED
      BY <1>0, <2>1, <3>1, RowRenewed DEF Renewed, SameGrant, LockRecord
  <2>3. CASE ResourceOf[a] # r
    BY <1>0, <1>5, <2>1, <2>3, RowKept DEF RenewLock, TypeOK
  <2> QED
    BY <2>2, <2>3
<1>6. ASSUME NEW a \in Actions, ReleaseLock(a) PROVE ExclusionStep(r)
  <2>1. SameWriters(r)
    BY <1>6, WritersKept DEF ReleaseLock, LiveExecution
  <2>2. CASE ResourceOf[a] = r
    <3>1. lock[r].owner = a /\ action[a] = "READY" /\ lock'[r] = Released(lock[r])
      BY <1>0, <1>6, <2>2 DEF ReleaseLock, HeldBy, TypeOK
    <3>2. ~lock[r].frozen
      BY <1>0, <3>1 DEF FrozenForItsOwner, FrozenForACause
    <3>3. ~LiveExecution(a)
      BY <1>0, <3>1 DEF RowsAgree, LiveExecution
    <3>4. Writers(r) = {}
      BY <1>0, <3>1, <3>3, NoWriter
    <3> QED
      BY <1>0, <2>1, <3>1, <3>2, <3>4, RowReleased DEF Released, LockRecord
  <2>3. CASE ResourceOf[a] # r
    BY <1>0, <1>6, <2>1, <2>3, RowKept DEF ReleaseLock, TypeOK
  <2> QED
    BY <2>2, <2>3
<1>7. ASSUME NEW a \in Actions, NEW s \in Runners, NEW found \in SUBSET ExpiredRunning,
             Dispatch(a, s, found)
      PROVE  ExclusionStep(r)
  <2>1. SameWriters(r)
    <3>1. ~LiveExecution(a) /\ ~LiveExecution(a)'
      BY <1>0, <1>7, DispatchChanges DEF LiveExecution
    <3>2. \A b \in Actions \ {a} : LiveExecution(b)' <=> LiveExecution(b)
      BY <1>0, <1>7, DispatchChanges, RecoveredWriters
    <3> QED
      BY <3>1, <3>2, WritersKept
  <2>2. CASE ResourceOf[a] = r
    <3>1. CASE lock'[r] = lock[r]
      BY <2>1, <3>1, RowKept
    <3>2. CASE lock'[r] # lock[r]
      <4>1. /\ ~lock[r].frozen
            /\ lock[r].released \/ ~(lock[r].lease > 0)
            /\ lock'[r].owner = a
            /\ lock'[r].token = lock[r].token + 1
            /\ ~lock'[r].released
            /\ ~lock'[r].frozen
        BY <1>0, <1>7, <2>2, <3>2, DispatchChanges DEF LockRecord
      <4>2. lock'[r].lease > 0
        <5>1. lock'[r] = Acquired(RecoveredLock(found)[r], a)
          BY <1>0, <1>7, <2>2, RecoveredTypes DEF Dispatch
        <5>2. lock'[r].lease = ResourceLockLease \/ HeldBy(lock'[r], a)
          BY <5>1 DEF Acquired
        <5> QED
          BY <5>2 DEF HeldBy
      <4> QED
        BY <1>0, <2>1, <4>1, <4>2, NoWriter, RowGranted
    <3> QED
      BY <3>1, <3>2
  <2>3. CASE ResourceOf[a] # r
    BY <1>0, <1>7, <2>1, <2>3, DispatchChanges, RecoveredRow
  <2> QED
    BY <2>2, <2>3
<1>8. ASSUME NEW a \in Actions, NEW succeeded \in BOOLEAN, Reconcile(a, succeeded)
      PROVE  ExclusionStep(r)
  <2>1. action[a] = "UNKNOWN" /\ execution[a].status = "UNKNOWN"
    BY <1>0, <1>8
    DEF Reconcile, RowsAgree, TypeOK, ExecutionRecord, ExecutionStatus
  <2>2. SameWriters(r)
    <3>1. \A b \in Actions : LiveExecution(b)' <=> LiveExecution(b)
      BY <1>0, <1>8, <2>1 DEF Reconcile, LiveExecution, TypeOK, ExecutionRecord
    <3> QED
      BY <3>1, WritersKept
  <2>3. CASE Owns(lock, a) /\ ResourceOf[a] = r
    <3>1. lock[r].owner = a /\ lock'[r] = Thawed(lock[r])
      BY <1>0, <1>8, <2>3 DEF Reconcile, Owns, TypeOK
    <3>2. Writers(r) = {}
      BY <1>0, <2>1, <3>1, NoWriter DEF LiveExecution
    <3> QED
      BY <1>0, <2>2, <3>1, <3>2, ThawedRow, RowReleased
  <2>4. CASE ~(Owns(lock, a) /\ ResourceOf[a] = r)
    BY <1>0, <1>8, <2>2, <2>4, RowKept DEF Reconcile, TypeOK
  <2> QED
    BY <2>3, <2>4
<1>9. ASSUME NEW s \in Runners, NEW heard \in BOOLEAN, NEW found \in SUBSET ExpiredRunning,
             Claim(s, heard, found)
      PROVE  ExclusionStep(r)
  <2> PICK a \in Actions :
            /\ ClaimStarts(a, found)
            /\ \A b \in Actions \ {a} : RowsRecovered(b, found)
            /\ \A q \in Resources \ {ResourceOf[a]} : LockRecovered(q, found)
    BY <1>0, <1>9, ClaimChanges
  <2>1. \A b \in Actions \ {a} : LiveExecution(b)' <=> LiveExecution(b)
    BY <1>0, RecoveredWriters
  <2>2. ~LiveExecution(a) /\ LiveExecution(a)'
    BY DEF ClaimStarts, LiveExecution
  <2>3. CASE ResourceOf[a] = r
    <3>1. Writers(r) = {}
      BY <1>0, <2>2, <2>3, NoWriter DEF ClaimStarts
    <3>2. Writers(r)' = {a}
      BY <2>1, <2>2, <2>3, <3>1 DEF Writers
    <3>3. ~lock[r].frozen
      BY <1>0, <2>3 DEF ClaimStarts, FrozenForItsOwner, FrozenForACause
    <3> QED
      BY <1>0, <2>3, <3>1, <3>2, <3>3, RowTaken DEF ClaimStarts
  <2>4. CASE ResourceOf[a] # r
    <3>1. SameWriters(r)
      BY <2>1, <2>4, WritersKept
    <3> QED
      BY <1>0, <2>4, <3>1, RecoveredRow
  <2> QED
    BY <2>3, <2>4
<1>10. ASSUME NEW a \in Actions, Renew(a) PROVE ExclusionStep(r)
  <2>1. LiveExecution(a)
    BY <1>10 DEF Renew, OwnedRunning, LiveExecution
  <2>2. SameWriters(r)
    <3>1. \A b \in Actions : LiveExecution(b)' <=> LiveExecution(b)
      BY <1>0, <1>10, <2>1 DEF Renew, Extended, LiveExecution, TypeOK, ExecutionRecord
    <3> QED
      BY <3>1, WritersKept
  <2>3. CASE ResourceOf[a] = r
    <3>1. lock[r].lease > 0
      BY <1>0, <2>1, <2>3, NoWriter DEF Writers
    <3>2. lock'[r] = Renewed(lock[r])
      BY <1>0, <1>10, <2>3 DEF Renew, TypeOK
    <3> QED
      BY <1>0, <2>2, <3>1, <3>2, RowRenewed DEF Renewed, SameGrant, LockRecord
  <2>4. CASE ResourceOf[a] # r
    BY <1>0, <1>10, <2>2, <2>4, RowKept DEF Renew, TypeOK
  <2> QED
    BY <2>3, <2>4
<1>11. ASSUME NEW a \in Actions, NEW heard \in BOOLEAN, Complete(a, heard)
       PROVE  ExclusionStep(r)
  <2>1. /\ LiveExecution(a) /\ action[a] = "RUNNING"
        /\ lock[ResourceOf[a]].owner = a /\ ~lock[ResourceOf[a]].released
    BY <1>0, <1>11 DEF Complete, OwnedRunning, LiveExecution, RowsAgree, Owns
  <2>2. \A b \in Actions \ {a} : LiveExecution(b)' <=> LiveExecution(b)
    BY <1>0, <1>11 DEF Complete, LiveExecution, TypeOK
  <2>3. CASE ResourceOf[a] = r
    <3>1. lock[r].lease > 0 /\ Writers(r) # {}
      BY <1>0, <2>1, <2>3, NoWriter DEF Writers
    <3>2. ~lock[r].frozen
      BY <1>0, <2>1, <2>3 DEF FrozenForItsOwner, FrozenForACause
    <3>3. lock'[r] = Frozen(lock[r]) \/ lock'[r] = Released(lock[r])
      BY <1>0, <1>11, <2>3 DEF Complete, TypeOK
    <3>4. lock'[r].owner = lock[r].owner /\ lock'[r].token = lock[r].token
      BY <1>0, <3>3 DEF Frozen, Released, LockRecord
    <3>5. ~LiveExecution(a)'
      BY <1>0, <1>11 DEF Complete, Completed, LiveExecution, TypeOK, ExecutionRecord
    <3>6. \A b \in Actions \ {a} : ResourceOf[b] = r => ~LiveExecution(b)
      BY <1>0, <2>1, <2>3 DEF LiveExecutionHoldsLock, Owns
    <3>7. Writers(r)' = {}
      BY <2>2, <3>5, <3>6 DEF Writers
    <3> QED
      BY <1>0, <2>1, <2>3, <3>1, <3>2, <3>4, <3>7, RowLeft
  <2>4. CASE ResourceOf[a] # r
    <3>1. SameWriters(r)
      BY <2>2, <2>4, WritersKept
    <3>2. lock'[r] = lock[r]
      BY <1>0, <1>11, <2>4 DEF Complete, TypeOK
    <3> QED
      BY <3>1, <3>2, RowKept
  <2> QED
    BY <2>3, <2>4
<1>12. ASSUME NEW a \in Actions, NEW passed \in BOOLEAN,
              Finalized(a, passed), action[a] = "VERIFYING"
       PROVE  ExclusionStep(r)
  <2>1. /\ execution[a].status = "APPLIED"
        /\ Owns(lock, a)
        /\ lock[ResourceOf[a]].frozen
    BY <1>0, <1>12 DEF RowsAgree, UnverifiedEffectIsFrozen
  <2>2. SameWriters(r)
    <3>1. \A b \in Actions : LiveExecution(b)' <=> LiveExecution(b)
      BY <1>0, <1>12, <2>1 DEF Finalized, LiveExecution, TypeOK, ExecutionRecord
    <3> QED
      BY <3>1, WritersKept
  <2>3. CASE ResourceOf[a] = r
    <3>1. lock'[r] = IF passed THEN Thawed(lock[r]) ELSE Frozen(lock[r])
      BY <1>0, <1>12, <2>1, <2>3 DEF Finalized, TypeOK
    <3>2. Writers(r) = {}
      BY <1>0, <2>1, <2>3, NoWriter DEF Owns, LiveExecution
    <3>3. CASE passed
      BY <1>0, <2>2, <3>1, <3>2, <3>3, ThawedRow, RowReleased
    <3>4. CASE ~passed
      BY <1>0, <2>1, <2>2, <2>3, <3>1, <3>2, <3>4, SettledLockRow, RowFrozen DEF Owns
    <3> QED
      BY <3>3, <3>4
  <2>4. CASE ResourceOf[a] # r
    BY <1>0, <1>12, <2>2, <2>4, RowKept DEF Finalized, TypeOK
  <2> QED
    BY <2>3, <2>4
<1>13. CASE Tick
  <2>1. /\ SameGrant(lock[r], lock'[r])
        /\ lock'[r].frozen = lock[r].frozen
        /\ lock'[r].lease = Less(lock[r].lease)
    BY <1>0, <1>13, TickChanges
  <2>2. \A b \in Actions : LiveExecution(b)' => LiveExecution(b)
    BY <1>0, <1>13, TickChanges DEF LiveExecution, Less, TypeOK, ExecutionRecord
  <2>3. CASE Writers(r) = {}
    <3>1. SameWriters(r)
      BY <2>2, <2>3 DEF SameWriters, Writers
    <3> QED
      BY <1>0, <2>1, <2>3, <3>1, RowAged DEF Less, LockRecord
  <2>4. CASE Writers(r) # {}
    <3>1. /\ lock[r].lease > 0 /\ ~lock[r].released
          /\ ~lock[r].frozen
      <4> PICK a \in Actions : ResourceOf[a] = r /\ LiveExecution(a)
        BY <2>4 DEF Writers
      <4>1. lock[r].owner = a /\ action[a] = "RUNNING"
        BY <1>0 DEF LiveExecutionHoldsLock, Owns, RowsAgree, LiveExecution
      <4> QED
        BY <1>0, <2>4, <4>1, NoWriter DEF FrozenForItsOwner, FrozenForACause
    <3>2. CASE Writers(r)' = {}
      BY <1>0, <2>1, <2>4, <3>1, <3>2, RowLeft DEF SameGrant
    <3>3. CASE Writers(r)' # {}
      <4> PICK a \in Actions : ResourceOf[a] = r /\ LiveExecution(a)'
        BY <3>3 DEF Writers
      <4>1. \A b \in Actions : ResourceOf[b] = r /\ LiveExecution(b) => b = a
        BY <1>0, <2>2 DEF LiveExecutionHoldsLock, Owns
      <4>2. SameWriters(r)
        BY <2>2, <4>1 DEF SameWriters, Writers
      <4>3. lock'[r].lease > 0
        <5>1. lock'[r].lease >= execution'[a].lease /\ execution'[a].lease > 0
          BY DEF LiveExecutionHoldsLock, LiveExecution
        <5>2. execution'[a].lease \in Nat /\ lock'[r].lease \in Nat
          <6>1. execution[a].lease \in Nat /\ lock[r].lease \in Nat
            BY <1>0 DEF TypeOK, ExecutionRecord, LockRecord
          <6>2. execution'[a].lease = Less(execution[a].lease)
            BY <1>0, <1>13, TickChanges
          <6> QED
            BY <2>1, <6>1, <6>2 DEF Less
        <5> QED
          BY <5>1, <5>2
      <4> QED
        BY <2>1, <3>1, <4>2, <4>3, RowRenewed
    <3> QED
      BY <3>2, <3>3
  <2> QED
    BY <2>3, <2>4
<1>14. ASSUME NEW a \in Actions, TaskPassed(a) \/ TaskFailed(a) \/ TaskLost(a)
       PROVE  ExclusionStep(r)
  <2>1. action[a] = "VERIFYING"
    BY <1>0, <1>14 DEF TaskPassed, TaskFailed, TaskLost, RowsAgree
  <2> QED
    BY <1>1, <1>12, <1>14, <2>1 DEF TaskPassed, TaskFailed, TaskLost
<1>15. CASE OperatorNext
  BY <1>1, <1>2, <1>3, <1>4, <1>5, <1>6, <1>7, <1>8, <1>15
  DEF OperatorNext, Create, RecoveryScan
<1>16. CASE RunnerNext
  BY <1>1, <1>2, <1>9, <1>10, <1>11, <1>16
  DEF RunnerNext, ClaimNothing, RunnerLost, RunnerBack, JobEnds, CompletionReplayed,
      JobAbandoned
<1>17. CASE VerificationNext
  BY <1>1, <1>14, <1>17 DEF VerificationNext, TaskClaimed
<1>18. CASE UNCHANGED vars
  BY <1>1, <1>18 DEF vars
<1> QED
  BY <1>13, <1>15, <1>16, <1>17, <1>18 DEF Next

\* Seen from one resource, every transaction of the dispatcher, the lock service,
\* recovery and verification is one step of ResourceExclusion or none.
THEOREM ActionsImplementExclusion ==
    ASSUME ExecutionLease <= ResourceLockLease
    PROVE  Spec => ImplementsResourceExclusion
<1>1. Init => \A r \in Resources : Exclusion(r)!Init
  BY PhaseOfRow DEF Init, NoLock, NoExecution, Writers, LiveExecution, Exclusion!Init
<1>2. Safe /\ LiveExecutionHoldsLock' /\ [Next]_vars
        => [\A r \in Resources : [Exclusion(r)!Next]_(Exclusion(r)!vars)]_vars
  BY ExclusionStepTaken DEF ExclusionStep
<1>3. Spec => []Safe
  BY TypeCorrect, RowsCorrect, LiveExecutionOwnsLock, UnverifiedEffectStaysFrozen,
     FreezesHaveOwners, PTL DEF Safe
<1> QED
  BY <1>1, <1>2, <1>3, LiveExecutionOwnsLock, PTL
  DEF Spec, ImplementsResourceExclusion

\* The write path implements both of its abstract specifications.
THEOREM ActionsImplementAbstractions ==
    ASSUME ExecutionLease <= ResourceLockLease
    PROVE  Spec => ImplementsAbstractions
BY ActionsImplementExclusion, TasksOfActionsImplementLifecycle
DEF ImplementsAbstractions
=============================================================================
