--------------------------- MODULE OutboxDelivery ---------------------------
(***************************************************************************)
(* The publisher of the outbox: batches of pending events are sent to a    *)
(* sink, retried after a delay, parked as dead letters, replayed by an     *)
(* administrator and deleted after their retention, by any number of       *)
(* publishers that may die between the sink's answer and their commit.     *)
(*                                                                         *)
(* Source: services/outbox.py, OutboxRepository in storage/repositories.py *)
(* and the replay of api/v1/routes/outbox.py.                              *)
(*                                                                         *)
(* run_once is one transaction around many calls of the sink, so its       *)
(* select, each publication and its commit are actions of their own.       *)
(***************************************************************************)
EXTENDS Naturals, FiniteSets

CONSTANTS
    Events,             \* sequence numbers of the events
    Publishers,         \* control plane processes that publish
    BatchSize,          \* outbox_publisher_batch_size
    MaxAttempts,        \* outbox_max_publish_attempts
    MaxCrashes,         \* bound: publishers that die in the middle of a batch
    MaxReplays          \* bound: dead letters an administrator replays

ASSUME OutboxAssumption ==
    /\ Events \subseteq Nat
    /\ BatchSize \in Nat \ {0}
    /\ MaxAttempts \in Nat \ {0}
    /\ MaxCrashes \in Nat
    /\ MaxReplays \in Nat

VARIABLES
    row,                \* the committed row of each event
    batch,              \* the open transaction of each publisher
    received,           \* events the sink has got at least once
    refused,            \* history: events the sink refused since their last replay
    crashes,
    replays

vars == <<row, batch, received, refused, crashes, replays>>

\* due: next_attempt_at is absent or has passed.
RowRecord ==
    [status : {"absent", "pending", "published", "dead", "deleted"},
     attempts : Nat, due : BOOLEAN]
Outcome == {"published", "retry", "dead"}
BatchRecord ==
    [open : BOOLEAN, claimed : SUBSET Events, outcome : [Events -> Outcome \union {"none"}]]

NoOutcome == [e \in Events |-> "none"]
Closed == [open |-> FALSE, claimed |-> {}, outcome |-> NoOutcome]

TypeOK ==
    /\ row \in [Events -> RowRecord]
    /\ batch \in [Publishers -> BatchRecord]
    /\ received \subseteq Events
    /\ refused \subseteq Events
    /\ crashes \in Nat
    /\ replays \in Nat

Init ==
    /\ row = [e \in Events |-> [status |-> "absent", attempts |-> 0, due |-> FALSE]]
    /\ batch = [p \in Publishers |-> Closed]
    /\ received = {}
    /\ refused = {}
    /\ crashes = 0
    /\ replays = 0

-----------------------------------------------------------------------------
\* EventRecorder.record and the commit of its transaction; sequence numbers may
\* be committed in any order.
Record(e) ==
    /\ row[e].status = "absent"
    /\ row' = [row EXCEPT ![e] = [status |-> "pending", attempts |-> 0, due |-> TRUE]]
    /\ UNCHANGED <<batch, received, refused, crashes, replays>>

\* next_attempt_at passes.
Due(e) ==
    /\ row[e].status = "pending"
    /\ ~row[e].due
    /\ row' = [row EXCEPT ![e].due = TRUE]
    /\ UNCHANGED <<batch, received, refused, crashes, replays>>

Locked == UNION {batch[p].claimed : p \in Publishers}

AvailableOnce ==
    {e \in Events : row[e].status = "pending" /\ row[e].attempts = 0} \ Locked

\* The rows OutboxRepository.pending_for_publish may select, and the first of them.
Available == {e \in Events : row[e].status = "pending" /\ row[e].due} \ Locked

First(events) ==
    {e \in events : Cardinality({f \in events : f <= e}) <= BatchSize}

\* The first half of OutboxPublisher.run_once.  An empty batch still deletes.
Select(p) ==
    /\ ~batch[p].open
    /\ batch' = [batch EXCEPT
            ![p] = [Closed EXCEPT !.open = TRUE, !.claimed = First(Available)]]
    /\ UNCHANGED <<row, received, refused, crashes, replays>>

Unsent(p) == {e \in batch[p].claimed : batch[p].outcome[e] = "none"}

JudgedGenerously(e, answer) ==
    CASE answer = "unavailable" -> "published"
      [] answer = "refused" -> "dead"
      [] OTHER -> "retry"

\* What run_once makes of the sink's answer.
Judged(e, answer) ==
    CASE answer = "accepted" -> "published"
      [] answer = "refused" -> "dead"
      [] OTHER -> IF row[e].attempts + 1 >= MaxAttempts THEN "dead" ELSE "retry"

\* WebhookOutboxSink.publish: accepted, accepted with its answer lost, not
\* reached or asked to come again, refused for good.
Answer == {"accepted", "lost", "unavailable", "refused"}

Publish(p, answer) ==
    \E e \in Unsent(p) :
        /\ \A f \in Unsent(p) : e <= f
        /\ batch' = [batch EXCEPT ![p].outcome[e] = Judged(e, answer)]
        /\ received' = IF answer \in {"accepted", "lost"}
                       THEN received \union {e}
                       ELSE received
        /\ refused' = IF answer = "refused" THEN refused \union {e} ELSE refused
        /\ UNCHANGED <<row, crashes, replays>>

\* The row of an event after its attempt.
Attempted(old, outcome) ==
    CASE outcome = "published" ->
            [status |-> "published", attempts |-> old.attempts + 1, due |-> TRUE]
      [] outcome = "retry" ->
            [status |-> "pending", attempts |-> old.attempts + 1, due |-> FALSE]
      [] outcome = "dead" ->
            [status |-> "dead", attempts |-> old.attempts + 1, due |-> TRUE]

\* Mutant of Old: a dead letter grows old as well.
OldDead == {e \in Events : row[e].status \in {"published", "dead"}}

\* Events that may have outlived their retention when a transaction started.
Old == {e \in Events : row[e].status = "published"}

\* The second half of run_once: delete_published_before, then the commit.
Commit(p, expired) ==
    /\ batch[p].open
    /\ Unsent(p) = {}
    /\ expired \subseteq Old
    /\ Cardinality(expired) <= BatchSize
    /\ row' = [e \in Events |->
            CASE e \in batch[p].claimed -> Attempted(row[e], batch[p].outcome[e])
              [] e \in expired \ batch[p].claimed -> [row[e] EXCEPT !.status = "deleted"]
              [] OTHER -> row[e]]
    /\ batch' = [batch EXCEPT ![p] = Closed]
    /\ UNCHANGED <<received, refused, crashes, replays>>

\* The process dies or is cancelled, or the commit fails: everything is rolled
\* back but what the sink has got.
Crash(p) ==
    /\ batch[p].open
    /\ crashes < MaxCrashes
    /\ crashes' = crashes + 1
    /\ batch' = [batch EXCEPT ![p] = Closed]
    /\ UNCHANGED <<row, received, refused, replays>>

\* replay_outbox_dead_letter.
Replay(e) ==
    /\ row[e].status = "dead"
    /\ replays < MaxReplays
    /\ replays' = replays + 1
    /\ row' = [row EXCEPT ![e] = [status |-> "pending", attempts |-> 0, due |-> TRUE]]
    /\ refused' = refused \ {e}
    /\ UNCHANGED <<batch, received, crashes>>

-----------------------------------------------------------------------------
Next ==
    \/ \E e \in Events : Record(e) \/ Due(e) \/ Replay(e)
    \/ \E p \in Publishers :
        \/ Select(p)
        \/ \E answer \in Answer : Publish(p, answer)
        \/ \E expired \in SUBSET Old : Commit(p, expired)
        \/ Crash(p)

Spec == Init /\ [][Next]_vars

\* Time passes, every publisher runs again after its interval, and the sink
\* answers within its timeout, in whatever way.
Fairness ==
    /\ \A e \in Events : WF_vars(Due(e))
    /\ \A p \in Publishers :
        /\ WF_vars(Select(p))
        /\ WF_vars(\E answer \in Answer : Publish(p, answer))
        /\ WF_vars(\E expired \in SUBSET Old : Commit(p, expired))

FairSpec == Spec /\ Fairness

-----------------------------------------------------------------------------
(* Correctness.                                                             *)

\* An event that counts as published, or was deleted, did reach the sink, also
\* when answers were lost and publishers died on the way.
PublishedWasReceived ==
    \A e \in Events :
        row[e].status \in {"published", "deleted"} => e \in received

\* docs/Outbox发布与事件保留.md:17-18: two publishers never work on one event.
\* Nobody changes a row while a publisher works on it either.
WorkIsExclusive ==
    /\ \A p, q \in Publishers :
        p # q => batch[p].claimed \intersect batch[q].claimed = {}
    /\ \A p \in Publishers : \A e \in batch[p].claimed : row[e].status = "pending"

\* An event is given up only when the sink refused it or it had all the attempts
\* of its present life, and it never has more.
DeadLetterHasReason ==
    \A e \in Events :
        /\ row[e].attempts <= MaxAttempts
        /\ row[e].status = "dead" => row[e].attempts = MaxAttempts \/ e \in refused

\* Whatever fails, a recorded event comes to be published or a dead letter, and
\* a dead letter before it does not keep others from it.
EveryEventSettles ==
    \A e \in Events :
        row[e].status = "pending" ~> row[e].status \in {"published", "dead", "deleted"}

-----------------------------------------------------------------------------
(* Refinement.                                                              *)

Stage ==
    [absent |-> "absent", pending |-> "waiting", dead |-> "parked",
     published |-> "delivered", deleted |-> "forgotten"]

Delivery(e) ==
    INSTANCE EventDelivery WITH
        stage <- Stage[row[e].status], received <- e \in received

\* Seen from one event, batches, retries, crashes, replays and retention amount
\* to a delivery at least once.
ImplementsEventDelivery ==
    /\ \A e \in Events : Delivery(e)!Init
    /\ [][\A e \in Events : [Delivery(e)!Next]_(Delivery(e)!vars)]_vars
=============================================================================
