------------------------ MODULE OutboxDeliveryProofs ------------------------
(* The outbox for every number of events, publishers, crashes and replays:   *)
(* types, exclusive work, what publication and dead letters mean, and the    *)
(* refinement of EventDelivery.                                              *)
EXTENDS OutboxDelivery, TLAPS

USE OutboxAssumption

\* What a publisher has noted of an event agrees with what happened to it.
NotesAreTrue ==
    \A p \in Publishers : \A e \in batch[p].claimed :
        /\ batch[p].outcome[e] = "published" => e \in received
        /\ batch[p].outcome[e] = "retry" => row[e].attempts + 1 < MaxAttempts
        /\ batch[p].outcome[e] = "dead" =>
                row[e].attempts + 1 = MaxAttempts \/ e \in refused

\* A pending event has an attempt left.
PendingMayBeTried ==
    \A e \in Events : row[e].status = "pending" => row[e].attempts < MaxAttempts

-----------------------------------------------------------------------------
LEMMA FirstAvailable ==
    First(Available) \subseteq {e \in Events : row[e].status = "pending"} \ Locked
BY DEF First, Available

\* What a commit makes of the row of each event.
CommittedRow(p, expired, e) ==
    CASE e \in batch[p].claimed -> Attempted(row[e], batch[p].outcome[e])
      [] e \in expired \ batch[p].claimed -> [row[e] EXCEPT !.status = "deleted"]
      [] OTHER -> row[e]

LEMMA AttemptedRow ==
    ASSUME NEW old \in RowRecord, NEW outcome \in Outcome
    PROVE  /\ Attempted(old, outcome) \in RowRecord
           /\ Attempted(old, outcome).attempts = old.attempts + 1
           /\ outcome = "published" => Attempted(old, outcome).status = "published"
           /\ outcome = "retry" => Attempted(old, outcome).status = "pending"
           /\ outcome = "dead" => Attempted(old, outcome).status = "dead"
BY DEF Attempted, RowRecord, Outcome

LEMMA CommitChanges ==
    ASSUME TypeOK, NEW p \in Publishers, NEW expired \in SUBSET Old, Commit(p, expired)
    PROVE  /\ \A e \in batch[p].claimed :
                /\ e \in Events
                /\ batch[p].outcome[e] \in Outcome
                /\ row'[e] = Attempted(row[e], batch[p].outcome[e])
           /\ \A e \in expired \ batch[p].claimed :
                /\ e \in Events
                /\ row[e].status = "published"
                /\ row'[e] = [row[e] EXCEPT !.status = "deleted"]
           /\ \A e \in Events : e \notin batch[p].claimed /\ e \notin expired => row'[e] = row[e]
<1>1. batch[p] \in BatchRecord
  BY DEF TypeOK
<1>2. \A e \in batch[p].claimed : e \in Events /\ batch[p].outcome[e] \in Outcome
  BY <1>1 DEF Commit, Unsent, BatchRecord
<1>3. \A e \in Events : row'[e] = CommittedRow(p, expired, e)
  BY DEF Commit, CommittedRow
<1> QED
  BY <1>2, <1>3 DEF CommittedRow, Old

-----------------------------------------------------------------------------
\* Every variable of the outbox keeps its type.
THEOREM OutboxTypes == Spec => []TypeOK
<1>1. Init => TypeOK
  BY DEF Init, TypeOK, RowRecord, BatchRecord, Closed, NoOutcome
<1>2. TypeOK /\ [Next]_vars => TypeOK'
  <2> SUFFICES ASSUME TypeOK, [Next]_vars PROVE TypeOK'
    OBVIOUS
  <2>1. ASSUME NEW e \in Events, Record(e) \/ Due(e) \/ Replay(e) PROVE TypeOK'
    <3>1. CASE Record(e)
      BY <3>1 DEF TypeOK, Record, RowRecord
    <3>2. CASE Due(e)
      BY <3>2 DEF TypeOK, Due, RowRecord
    <3>3. CASE Replay(e)
      BY <3>3 DEF TypeOK, Replay, RowRecord
    <3> QED
      BY <2>1, <3>1, <3>2, <3>3
  <2>2. ASSUME NEW p \in Publishers, Select(p) PROVE TypeOK'
    <3>1. [Closed EXCEPT !.open = TRUE, !.claimed = First(Available)] \in BatchRecord
      BY FirstAvailable DEF Closed, BatchRecord, NoOutcome
    <3> QED
      BY <2>2, <3>1 DEF TypeOK, Select
  <2>3. ASSUME NEW p \in Publishers, NEW answer \in Answer, Publish(p, answer)
        PROVE  TypeOK'
    <3>1. PICK e \in Unsent(p) :
            /\ batch' = [batch EXCEPT ![p].outcome[e] = Judged(e, answer)]
            /\ received' = IF answer \in {"accepted", "lost"}
                           THEN received \union {e}
                           ELSE received
            /\ refused' = IF answer = "refused" THEN refused \union {e} ELSE refused
            /\ UNCHANGED <<row, crashes, replays>>
      BY <2>3 DEF Publish
    <3>2. e \in Events
      BY DEF TypeOK, BatchRecord, Unsent
    <3>3. Judged(e, answer) \in Outcome
      BY DEF Judged, Outcome
    <3>4. batch' \in [Publishers -> BatchRecord]
      BY <3>1, <3>2, <3>3 DEF TypeOK, BatchRecord
    <3> QED
      BY <3>1, <3>2, <3>4 DEF TypeOK
  <2>4. ASSUME NEW p \in Publishers, NEW expired \in SUBSET Old, Commit(p, expired)
        PROVE  TypeOK'
    <3>1. \A e \in Events : row'[e] \in RowRecord
      <4> SUFFICES ASSUME NEW e \in Events PROVE row'[e] \in RowRecord
        OBVIOUS
      <4>1. row[e] \in RowRecord
        BY DEF TypeOK
      <4>2. CASE e \in batch[p].claimed
        BY <2>4, <4>1, <4>2, CommitChanges, AttemptedRow
      <4>3. CASE e \in expired \ batch[p].claimed
        <5>1. row'[e] = [row[e] EXCEPT !.status = "deleted"]
          BY <2>4, <4>3, CommitChanges
        <5> QED
          BY <4>1, <5>1 DEF RowRecord
      <4>4. CASE e \notin batch[p].claimed /\ e \notin expired
        BY <2>4, <4>1, <4>4, CommitChanges
      <4> QED
        BY <4>2, <4>3, <4>4
    <3>2. row' \in [Events -> RowRecord]
      BY <2>4, <3>1 DEF Commit
    <3>3. Closed \in BatchRecord
      BY DEF Closed, BatchRecord, NoOutcome
    <3>4. batch' \in [Publishers -> BatchRecord]
      BY <2>4, <3>3 DEF TypeOK, Commit
    <3> QED
      BY <2>4, <3>2, <3>4 DEF TypeOK, Commit
  <2>5. ASSUME NEW p \in Publishers, Crash(p) PROVE TypeOK'
    <3>1. Closed \in BatchRecord
      BY DEF Closed, BatchRecord, NoOutcome
    <3> QED
      BY <2>5, <3>1 DEF TypeOK, Crash
  <2>6. CASE UNCHANGED vars
    BY <2>6 DEF TypeOK, vars
  <2> QED
    BY <2>1, <2>2, <2>3, <2>4, <2>5, <2>6 DEF Next
<1> QED
  BY <1>1, <1>2, PTL DEF Spec

-----------------------------------------------------------------------------
\* What one publication changes.
LEMMA PublishChanges ==
    ASSUME TypeOK, NEW p \in Publishers, NEW answer \in Answer, Publish(p, answer)
    PROVE  \E e \in batch[p].claimed :
            /\ e \in Events
            /\ batch[p].outcome[e] = "none"
            /\ \A q \in Publishers : batch'[q].claimed = batch[q].claimed
            /\ \A q \in Publishers \ {p} : batch'[q] = batch[q]
            /\ \A f \in Events \ {e} : batch'[p].outcome[f] = batch[p].outcome[f]
            /\ batch'[p].outcome[e] = Judged(e, answer)
            /\ received' = IF answer \in {"accepted", "lost"}
                           THEN received \union {e}
                           ELSE received
            /\ refused' = IF answer = "refused" THEN refused \union {e} ELSE refused
            /\ UNCHANGED <<row, crashes, replays>>
<1>1. PICK e \in Unsent(p) :
        /\ batch' = [batch EXCEPT ![p].outcome[e] = Judged(e, answer)]
        /\ received' = IF answer \in {"accepted", "lost"}
                       THEN received \union {e}
                       ELSE received
        /\ refused' = IF answer = "refused" THEN refused \union {e} ELSE refused
        /\ UNCHANGED <<row, crashes, replays>>
  BY DEF Publish
<1>2. e \in batch[p].claimed /\ e \in Events /\ batch[p].outcome[e] = "none"
  BY DEF TypeOK, BatchRecord, Unsent
<1>3. /\ \A q \in Publishers : batch'[q].claimed = batch[q].claimed
      /\ \A q \in Publishers \ {p} : batch'[q] = batch[q]
      /\ \A f \in Events \ {e} : batch'[p].outcome[f] = batch[p].outcome[f]
      /\ batch'[p].outcome[e] = Judged(e, answer)
  BY <1>1, <1>2 DEF TypeOK, BatchRecord
<1> QED
  BY <1>1, <1>2, <1>3

\* No two publishers work on one event, and a row somebody works on is pending
\* until that publisher commits.
LEMMA ExclusiveStep ==
    ASSUME TypeOK, WorkIsExclusive, [Next]_vars
    PROVE  WorkIsExclusive'
<1>1. ASSUME NEW e \in Events, Record(e) \/ Due(e) \/ Replay(e) PROVE WorkIsExclusive'
  <2>1. batch' = batch
    BY <1>1 DEF Record, Due, Replay
  <2>2. \A f \in Events : row[f].status = "pending" => row'[f].status = "pending"
    BY <1>1 DEF Record, Due, Replay, TypeOK, RowRecord
  <2>3. \A p \in Publishers : batch[p].claimed \subseteq Events
    BY DEF TypeOK, BatchRecord
  <2> QED
    BY <2>1, <2>2, <2>3 DEF WorkIsExclusive
<1>2. ASSUME NEW p \in Publishers, Select(p) PROVE WorkIsExclusive'
  <2>1. batch'[p].claimed = First(Available)
    BY <1>2 DEF Select, Closed, TypeOK
  <2>2. \A q \in Publishers \ {p} : batch'[q] = batch[q]
    BY <1>2 DEF Select, TypeOK
  <2>3. \A q \in Publishers \ {p} : batch[q].claimed \intersect First(Available) = {}
    BY FirstAvailable DEF Locked
  <2>4. \A e \in First(Available) : row[e].status = "pending"
    BY FirstAvailable
  <2>5. row' = row
    BY <1>2 DEF Select
  <2> QED
    BY <2>1, <2>2, <2>3, <2>4, <2>5 DEF WorkIsExclusive
<1>3. ASSUME NEW p \in Publishers, NEW answer \in Answer, Publish(p, answer)
      PROVE  WorkIsExclusive'
  BY <1>3, PublishChanges DEF WorkIsExclusive
<1>4. ASSUME NEW p \in Publishers, NEW expired \in SUBSET Old, Commit(p, expired)
      PROVE  WorkIsExclusive'
  <2>1. batch'[p].claimed = {} /\ \A q \in Publishers \ {p} : batch'[q] = batch[q]
    BY <1>4 DEF Commit, Closed, TypeOK
  <2>2. \A q \in Publishers \ {p} : \A e \in batch[q].claimed :
            e \notin batch[p].claimed /\ e \notin expired /\ e \in Events
    BY DEF WorkIsExclusive, Old, TypeOK, BatchRecord
  <2>3. \A q \in Publishers \ {p} : \A e \in batch[q].claimed : row'[e] = row[e]
    BY <1>4, <2>2, CommitChanges
  <2> QED
    BY <2>1, <2>3 DEF WorkIsExclusive
<1>5. ASSUME NEW p \in Publishers, Crash(p) PROVE WorkIsExclusive'
  <2>1. batch'[p].claimed = {} /\ \A q \in Publishers \ {p} : batch'[q] = batch[q]
    BY <1>5 DEF Crash, Closed, TypeOK
  <2> QED
    BY <1>5, <2>1 DEF WorkIsExclusive, Crash
<1>6. CASE UNCHANGED vars
  BY <1>6 DEF WorkIsExclusive, vars
<1> QED
  BY <1>1, <1>2, <1>3, <1>4, <1>5, <1>6 DEF Next

\* Two publishers never work on one event, and nobody changes its row meanwhile.
THEOREM ExclusiveWork == Spec => []WorkIsExclusive
<1>1. Init => WorkIsExclusive
  BY DEF Init, WorkIsExclusive, Closed
<1>2. TypeOK /\ WorkIsExclusive /\ [Next]_vars => WorkIsExclusive'
  BY ExclusiveStep
<1> QED
  BY <1>1, <1>2, OutboxTypes, PTL DEF Spec

-----------------------------------------------------------------------------
\* A publisher's notes stay true: the sink's answers are noted as they came, and
\* nobody else touches the rows or lets the sink forget.
LEMMA NotesStep ==
    ASSUME TypeOK, TypeOK', WorkIsExclusive, PendingMayBeTried, NotesAreTrue, [Next]_vars
    PROVE  NotesAreTrue'
<1>1. ASSUME NEW e \in Events, Record(e) \/ Due(e) \/ Replay(e) PROVE NotesAreTrue'
  <2>1. batch' = batch /\ received' = received
    BY <1>1 DEF Record, Due, Replay
  <2>2. \A p \in Publishers : \A f \in batch[p].claimed :
            /\ f \in Events
            /\ row'[f].attempts = row[f].attempts
            /\ f \in refused => f \in refused'
    BY <1>1 DEF Record, Due, Replay, TypeOK, RowRecord, BatchRecord, WorkIsExclusive
  <2> QED
    BY <2>1, <2>2 DEF NotesAreTrue
<1>2. ASSUME NEW p \in Publishers, Select(p) PROVE NotesAreTrue'
  <2>1. /\ \A e \in First(Available) : batch'[p].outcome[e] = "none"
        /\ batch'[p].claimed = First(Available)
    BY <1>2, FirstAvailable DEF Select, Closed, NoOutcome, TypeOK
  <2>2. \A q \in Publishers \ {p} : batch'[q] = batch[q]
    BY <1>2 DEF Select, TypeOK
  <2>3. UNCHANGED <<row, received, refused>>
    BY <1>2 DEF Select
  <2> QED
    BY <2>1, <2>2, <2>3 DEF NotesAreTrue
<1>3. ASSUME NEW p \in Publishers, NEW answer \in Answer, Publish(p, answer)
      PROVE  NotesAreTrue'
  <2>1. PICK e \in batch[p].claimed :
            /\ e \in Events
            /\ \A q \in Publishers : batch'[q].claimed = batch[q].claimed
            /\ \A q \in Publishers \ {p} : batch'[q] = batch[q]
            /\ \A f \in Events \ {e} : batch'[p].outcome[f] = batch[p].outcome[f]
            /\ batch'[p].outcome[e] = Judged(e, answer)
            /\ received' = IF answer \in {"accepted", "lost"}
                           THEN received \union {e}
                           ELSE received
            /\ refused' = IF answer = "refused" THEN refused \union {e} ELSE refused
            /\ row' = row
    BY <1>3, PublishChanges
  <2>2. row[e].attempts \in Nat /\ row[e].attempts < MaxAttempts
    BY <2>1 DEF TypeOK, RowRecord, WorkIsExclusive, PendingMayBeTried
  <2>3. /\ Judged(e, answer) = "published" => e \in received'
        /\ Judged(e, answer) = "retry" => row[e].attempts + 1 < MaxAttempts
        /\ Judged(e, answer) = "dead" =>
                row[e].attempts + 1 = MaxAttempts \/ e \in refused'
    BY <2>1, <2>2 DEF Judged, Answer
  <2>4. received \subseteq received' /\ refused \subseteq refused'
    BY <2>1
  <2>5. \A q \in Publishers : batch[q].claimed \subseteq Events
    BY DEF TypeOK, BatchRecord
  <2>6. ASSUME NEW q \in Publishers, NEW f \in batch'[q].claimed, q # p \/ f # e
        PROVE  /\ batch'[q].outcome[f] = batch[q].outcome[f]
               /\ f \in batch[q].claimed
    BY <2>1, <2>5, <2>6
  <2>7. ASSUME NEW q \in Publishers, NEW f \in batch'[q].claimed
        PROVE  /\ batch'[q].outcome[f] = "published" => f \in received'
               /\ batch'[q].outcome[f] = "retry" => row'[f].attempts + 1 < MaxAttempts
               /\ batch'[q].outcome[f] = "dead" =>
                        row'[f].attempts + 1 = MaxAttempts \/ f \in refused'
    <3>1. CASE q = p /\ f = e
      BY <2>1, <2>3, <3>1
    <3>2. CASE q # p \/ f # e
      BY <2>1, <2>4, <2>6, <3>2 DEF NotesAreTrue
    <3> QED
      BY <3>1, <3>2
  <2> QED
    BY <2>7 DEF NotesAreTrue
<1>4. ASSUME NEW p \in Publishers, NEW expired \in SUBSET Old, Commit(p, expired)
      PROVE  NotesAreTrue'
  <2>1. batch'[p].claimed = {} /\ \A q \in Publishers \ {p} : batch'[q] = batch[q]
    BY <1>4 DEF Commit, Closed, TypeOK
  <2>2. \A q \in Publishers \ {p} : \A e \in batch[q].claimed :
            e \notin batch[p].claimed /\ e \notin expired /\ e \in Events
    BY DEF WorkIsExclusive, Old, TypeOK, BatchRecord
  <2>3. \A q \in Publishers \ {p} : \A e \in batch[q].claimed : row'[e] = row[e]
    BY <1>4, <2>2, CommitChanges
  <2>4. UNCHANGED <<received, refused>>
    BY <1>4 DEF Commit
  <2> QED
    BY <2>1, <2>3, <2>4 DEF NotesAreTrue
<1>5. ASSUME NEW p \in Publishers, Crash(p) PROVE NotesAreTrue'
  <2>1. batch'[p].claimed = {} /\ \A q \in Publishers \ {p} : batch'[q] = batch[q]
    BY <1>5 DEF Crash, Closed, TypeOK
  <2> QED
    BY <1>5, <2>1 DEF NotesAreTrue, Crash
<1>6. CASE UNCHANGED vars
  BY <1>6 DEF NotesAreTrue, vars
<1> QED
  BY <1>1, <1>2, <1>3, <1>4, <1>5, <1>6 DEF Next

\* What a commit, the only action that settles a row, makes of it.
LEMMA CommittedRows ==
    ASSUME TypeOK, WorkIsExclusive, PendingMayBeTried, NotesAreTrue,
           NEW p \in Publishers, NEW expired \in SUBSET Old, Commit(p, expired),
           NEW e \in Events
    PROVE  \/ row'[e] = row[e]
           \/ /\ row[e].status = "pending"
              /\ row'[e].attempts = row[e].attempts + 1
              /\ row'[e].attempts <= MaxAttempts
              /\ \/ row'[e].status = "published" /\ e \in received
                 \/ row'[e].status = "pending" /\ row'[e].attempts < MaxAttempts
                 \/ /\ row'[e].status = "dead"
                    /\ row'[e].attempts = MaxAttempts \/ e \in refused
           \/ /\ row[e].status = "published"
              /\ row'[e].status = "deleted"
              /\ row'[e].attempts = row[e].attempts
<1>1. row[e] \in RowRecord
  BY DEF TypeOK
<1>2. CASE e \in batch[p].claimed
  <2>1. /\ batch[p].outcome[e] \in Outcome
        /\ row'[e] = Attempted(row[e], batch[p].outcome[e])
    BY <1>2, CommitChanges
  <2>2. row[e].status = "pending" /\ row[e].attempts < MaxAttempts
    BY <1>2 DEF WorkIsExclusive, PendingMayBeTried
  <2>3. /\ row'[e].attempts = row[e].attempts + 1
        /\ batch[p].outcome[e] = "published" => row'[e].status = "published"
        /\ batch[p].outcome[e] = "retry" => row'[e].status = "pending"
        /\ batch[p].outcome[e] = "dead" => row'[e].status = "dead"
    BY <1>1, <2>1, AttemptedRow
  <2>4. /\ batch[p].outcome[e] = "published" => e \in received
        /\ batch[p].outcome[e] = "retry" => row[e].attempts + 1 < MaxAttempts
        /\ batch[p].outcome[e] = "dead" =>
                row[e].attempts + 1 = MaxAttempts \/ e \in refused
    BY <1>2 DEF NotesAreTrue
  <2>5. row[e].attempts \in Nat /\ row[e].attempts + 1 <= MaxAttempts
    BY <1>1, <2>2 DEF RowRecord
  <2> QED
    BY <2>1, <2>2, <2>3, <2>4, <2>5 DEF Outcome
<1>3. CASE e \in expired \ batch[p].claimed
  <2>1. row[e].status = "published" /\ row'[e] = [row[e] EXCEPT !.status = "deleted"]
    BY <1>3, CommitChanges
  <2> QED
    BY <1>1, <2>1 DEF RowRecord
<1>4. CASE e \notin batch[p].claimed /\ e \notin expired
  BY <1>4, CommitChanges
<1> QED
  BY <1>2, <1>3, <1>4

-----------------------------------------------------------------------------
\* Everything a commit relies on.
OutboxInv ==
    /\ TypeOK
    /\ WorkIsExclusive
    /\ PendingMayBeTried
    /\ NotesAreTrue
    /\ PublishedWasReceived
    /\ DeadLetterHasReason

\* What happens to the row of one event in a step other than a commit.
LEMMA OtherRows ==
    ASSUME TypeOK, WorkIsExclusive, [Next]_vars, NEW e \in Events,
           ~\E p \in Publishers, expired \in SUBSET Old : Commit(p, expired)
    PROVE  /\ \/ row'[e].status = row[e].status /\ row'[e].attempts = row[e].attempts
              \/ /\ row[e].status \in {"absent", "dead"}
                 /\ row'[e].status = "pending"
                 /\ row'[e].attempts = 0
           /\ received \subseteq received'
           /\ row'[e].status = "dead" => (e \in refused => e \in refused')
<1>1. ASSUME NEW f \in Events, Record(f) \/ Due(f) \/ Replay(f)
      PROVE  /\ \/ row'[e].status = row[e].status /\ row'[e].attempts = row[e].attempts
                \/ /\ row[e].status \in {"absent", "dead"}
                   /\ row'[e].status = "pending"
                   /\ row'[e].attempts = 0
             /\ received \subseteq received'
             /\ row'[e].status = "dead" => (e \in refused => e \in refused')
  <2>1. CASE Record(f)
    BY <2>1 DEF Record, TypeOK, RowRecord
  <2>2. CASE Due(f)
    BY <2>2 DEF Due, TypeOK, RowRecord
  <2>3. CASE Replay(f)
    BY <2>3 DEF Replay, TypeOK, RowRecord
  <2> QED
    BY <1>1, <2>1, <2>2, <2>3
<1>2. ASSUME NEW p \in Publishers, Select(p) \/ Crash(p)
      PROVE  UNCHANGED <<row, received, refused>>
  BY <1>2 DEF Select, Crash
<1>3. ASSUME NEW p \in Publishers, NEW answer \in Answer, Publish(p, answer)
      PROVE  row' = row /\ received \subseteq received' /\ refused \subseteq refused'
  BY <1>3 DEF Publish
<1>4. CASE UNCHANGED vars
  BY <1>4 DEF vars
<1> QED
  BY <1>1, <1>2, <1>3, <1>4 DEF Next

LEMMA OutboxStep ==
    ASSUME OutboxInv, TypeOK', [Next]_vars
    PROVE  OutboxInv'
<1>1. WorkIsExclusive'
  BY ExclusiveStep DEF OutboxInv
<1>2. NotesAreTrue'
  BY NotesStep DEF OutboxInv
<1>3. ASSUME NEW e \in Events
      PROVE  /\ row'[e].status = "pending" => row'[e].attempts < MaxAttempts
             /\ row'[e].status \in {"published", "deleted"} => e \in received'
             /\ row'[e].attempts <= MaxAttempts
             /\ row'[e].status = "dead" =>
                    row'[e].attempts = MaxAttempts \/ e \in refused'
  <2>1. /\ row[e] \in RowRecord
        /\ row[e].status = "pending" => row[e].attempts < MaxAttempts
        /\ row[e].status \in {"published", "deleted"} => e \in received
        /\ row[e].attempts <= MaxAttempts
        /\ row[e].status = "dead" => row[e].attempts = MaxAttempts \/ e \in refused
    BY DEF OutboxInv, TypeOK, PendingMayBeTried, PublishedWasReceived,
           DeadLetterHasReason
  <2>2. ASSUME NEW p \in Publishers, NEW expired \in SUBSET Old, Commit(p, expired)
        PROVE  /\ row'[e].status = "pending" => row'[e].attempts < MaxAttempts
               /\ row'[e].status \in {"published", "deleted"} => e \in received'
               /\ row'[e].attempts <= MaxAttempts
               /\ row'[e].status = "dead" =>
                      row'[e].attempts = MaxAttempts \/ e \in refused'
    <3>1. UNCHANGED <<received, refused>>
      BY <2>2 DEF Commit
    <3>2. \/ row'[e] = row[e]
          \/ /\ row'[e].attempts <= MaxAttempts
             /\ \/ row'[e].status = "published" /\ e \in received
                \/ row'[e].status = "pending" /\ row'[e].attempts < MaxAttempts
                \/ /\ row'[e].status = "dead"
                   /\ row'[e].attempts = MaxAttempts \/ e \in refused
          \/ /\ row[e].status = "published"
             /\ row'[e].status = "deleted"
             /\ row'[e].attempts = row[e].attempts
      BY <2>2, CommittedRows DEF OutboxInv
    <3> QED
      BY <2>1, <3>1, <3>2
  <2>3. CASE ~\E p \in Publishers, expired \in SUBSET Old : Commit(p, expired)
    BY <2>1, <2>3, OtherRows DEF OutboxInv
  <2> QED
    BY <2>2, <2>3
<1> QED
  BY <1>1, <1>2, <1>3 DEF OutboxInv, PendingMayBeTried, PublishedWasReceived,
     DeadLetterHasReason

LEMMA OutboxInvariant == Spec => []OutboxInv
<1>1. Init => OutboxInv
  <2>1. Init => TypeOK
    BY DEF Init, TypeOK, RowRecord, BatchRecord, Closed, NoOutcome
  <2> QED
    BY <2>1 DEF Init, OutboxInv, WorkIsExclusive, PendingMayBeTried, NotesAreTrue,
       PublishedWasReceived, DeadLetterHasReason, Closed
<1>2. OutboxInv /\ TypeOK' /\ [Next]_vars => OutboxInv'
  BY OutboxStep
<1> QED
  BY <1>1, <1>2, OutboxTypes, PTL DEF Spec

\* What counts as published, or was deleted, did reach the sink.
THEOREM NothingIsLost == Spec => []PublishedWasReceived
<1>1. OutboxInv => PublishedWasReceived
  BY DEF OutboxInv
<1> QED
  BY <1>1, OutboxInvariant, PTL

\* A dead letter was refused by the sink or had all its attempts, and no more.
THEOREM DeadLettersAreJustified == Spec => []DeadLetterHasReason
<1>1. OutboxInv => DeadLetterHasReason
  BY DEF OutboxInv
<1> QED
  BY <1>1, OutboxInvariant, PTL

-----------------------------------------------------------------------------
(* Refinement.                                                               *)

LEMMA StageOf ==
    /\ Stage["absent"] = "absent"
    /\ Stage["pending"] = "waiting"
    /\ Stage["dead"] = "parked"
    /\ Stage["published"] = "delivered"
    /\ Stage["deleted"] = "forgotten"
BY DEF Stage

\* Seen from one event every step is one of EventDelivery, or none.
LEMMA DeliveryStep ==
    ASSUME OutboxInv, [Next]_vars, NEW e \in Events
    PROVE  [Delivery(e)!Next]_(Delivery(e)!vars)
<1> USE DEF Delivery!Next, Delivery!vars
<1>0. row[e] \in RowRecord
  BY DEF OutboxInv, TypeOK
<1>1. ASSUME NEW f \in Events, Record(f) \/ Due(f) \/ Replay(f)
      PROVE  [Delivery(e)!Next]_(Delivery(e)!vars)
  <2>1. received' = received
    BY <1>1 DEF Record, Due, Replay
  <2>2. CASE row'[e].status = row[e].status
    BY <2>1, <2>2
  <2>3. CASE row[e].status = "absent" /\ row'[e].status = "pending"
    BY <2>1, <2>3, StageOf DEF Delivery!Record
  <2>4. CASE row[e].status = "dead" /\ row'[e].status = "pending"
    BY <2>1, <2>4, StageOf DEF Delivery!Resume
  <2>5. \/ row'[e].status = row[e].status
        \/ row[e].status \in {"absent", "dead"} /\ row'[e].status = "pending"
    <3>1. CASE Record(f)
      BY <3>1 DEF Record, OutboxInv, TypeOK, RowRecord
    <3>2. CASE Due(f)
      BY <3>2 DEF Due, OutboxInv, TypeOK, RowRecord
    <3>3. CASE Replay(f)
      BY <3>3 DEF Replay, OutboxInv, TypeOK, RowRecord
    <3> QED
      BY <1>1, <3>1, <3>2, <3>3
  <2> QED
    BY <2>2, <2>3, <2>4, <2>5
<1>2. ASSUME NEW p \in Publishers, Select(p) \/ Crash(p)
      PROVE  [Delivery(e)!Next]_(Delivery(e)!vars)
  BY <1>2 DEF Select, Crash
<1>3. ASSUME NEW p \in Publishers, NEW answer \in Answer, Publish(p, answer)
      PROVE  [Delivery(e)!Next]_(Delivery(e)!vars)
  <2>1. PICK f \in batch[p].claimed :
            /\ received' = received \/ received' = received \union {f}
            /\ row' = row
    BY <1>3, PublishChanges DEF OutboxInv
  <2>2. row[f].status = "pending"
    BY DEF OutboxInv, WorkIsExclusive
  <2>3. CASE f = e /\ e \in received'
    BY <2>1, <2>2, <2>3, StageOf DEF Delivery!Receive
  <2>4. CASE (e \in received') <=> (e \in received)
    BY <2>1, <2>4
  <2> QED
    BY <2>1, <2>3, <2>4
<1>4. ASSUME NEW p \in Publishers, NEW expired \in SUBSET Old, Commit(p, expired)
      PROVE  [Delivery(e)!Next]_(Delivery(e)!vars)
  <2>1. received' = received
    BY <1>4 DEF Commit
  <2>2. \/ row'[e].status = row[e].status
        \/ row[e].status = "pending" /\ row'[e].status = "published" /\ e \in received
        \/ row[e].status = "pending" /\ row'[e].status = "dead"
        \/ row[e].status = "published" /\ row'[e].status = "deleted"
    BY <1>4, CommittedRows DEF OutboxInv
  <2>3. CASE row'[e].status = row[e].status
    BY <2>1, <2>3
  <2>4. CASE row[e].status = "pending" /\ row'[e].status = "published" /\ e \in received
    BY <2>1, <2>4, StageOf DEF Delivery!Acknowledge
  <2>5. CASE row[e].status = "pending" /\ row'[e].status = "dead"
    BY <2>1, <2>5, StageOf DEF Delivery!Park
  <2>6. CASE row[e].status = "published" /\ row'[e].status = "deleted"
    BY <2>1, <2>6, StageOf DEF Delivery!Forget
  <2> QED
    BY <2>2, <2>3, <2>4, <2>5, <2>6
<1>5. CASE UNCHANGED vars
  BY <1>5 DEF vars
<1> QED
  BY <1>1, <1>2, <1>3, <1>4, <1>5 DEF Next

\* Batches, retries, crashes, replays and retention of any number of publishers
\* deliver every event at least once before it is forgotten.
THEOREM OutboxDelivers == Spec => ImplementsEventDelivery
<1>1. Init => \A e \in Events : Delivery(e)!Init
  BY StageOf DEF Init, Delivery!Init
<1>2. OutboxInv /\ [Next]_vars
        => [\A e \in Events : [Delivery(e)!Next]_(Delivery(e)!vars)]_vars
  BY DeliveryStep
<1> QED
  BY <1>1, <1>2, OutboxInvariant, PTL DEF Spec, ImplementsEventDelivery
=============================================================================
