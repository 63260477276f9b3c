---------------------------- MODULE EventStream ----------------------------
(***************************************************************************)
(* The events of one incident and the clients that follow them.  A handler *)
(* records an event by inserting it into the timeline and into the outbox, *)
(* whose sequence numbers come from the database, and by advancing the     *)
(* cursor of the incident.  A client reads the incident, takes its cursor  *)
(* and asks the event stream for everything after it.                      *)
(*                                                                         *)
(* Source: services/events.py, IncidentRepository.advance_event_cursor,    *)
(* OutboxRepository.list_after, api/v1/routes/events.py, the detail of an  *)
(* incident in api/v1/routes/incidents.py.                                 *)
(*                                                                         *)
(* A sequence number is drawn when the row is inserted and is visible to   *)
(* others only at the commit, so handlers are split into statements here.  *)
(* What orders them is the row of the incident: a handler that read it     *)
(* FOR UPDATE excludes every other; one that did not holds it from its     *)
(* UPDATE of the cursor on, and its insert, by the foreign key, only keeps *)
(* others from reading the row FOR UPDATE.                                 *)
(***************************************************************************)
EXTENDS Naturals, FiniteSets

CONSTANTS
    Writers,            \* handlers that record events of the incident
    Locking,            \* those that read the incident FOR UPDATE first
    Readers,            \* clients that follow the incident
    BatchSize,          \* sse_batch_size
    MaxSequence         \* bound: highest sequence number that is explored

ASSUME StreamAssumption ==
    /\ Locking \subseteq Writers
    /\ BatchSize \in Nat \ {0}
    /\ MaxSequence \in Nat

VARIABLES
    sequence,           \* last number drawn, never given back
    writer,             \* the transaction of each writer
    stored,             \* committed events that are in the outbox
    timeline,           \* committed events of the incident
    cursor,             \* IncidentRecord.event_cursor, committed
    reader              \* what each client holds

vars == <<sequence, writer, stored, timeline, cursor, reader>>

Event == 1..MaxSequence
WriterRecord ==
    [phase : {"idle", "open", "recorded"}, locked : BOOLEAN, updated : BOOLEAN,
     event : Event \union {0}, events : SUBSET Event, cursor : Event \union {0}]
ReaderRecord ==
    [phase : {"away", "reading", "streaming"}, cursor : Event \union {0},
     seen : SUBSET Event]

NoTransaction ==
    [phase |-> "idle", locked |-> FALSE, updated |-> FALSE, event |-> 0,
     events |-> {}, cursor |-> 0]

TypeOK ==
    /\ sequence \in 0..MaxSequence
    /\ writer \in [Writers -> WriterRecord]
    /\ stored \subseteq Event
    /\ timeline \subseteq Event
    /\ cursor \in Event \union {0}
    /\ reader \in [Readers -> ReaderRecord]

Init ==
    /\ sequence = 0
    /\ writer = [w \in Writers |-> NoTransaction]
    /\ stored = {}
    /\ timeline = {}
    /\ cursor = 0
    /\ reader = [r \in Readers |-> [phase |-> "away", cursor |-> 0, seen |-> {}]]

-----------------------------------------------------------------------------
(* Writers.                                                                 *)

Active(w) == writer[w].phase # "idle"

\* IncidentRepository.get(for_update=True) waits for every open insert.
Lock(w) ==
    /\ w \in Locking
    /\ \A v \in Writers : ~Active(v)
    /\ writer' = [writer EXCEPT ![w].phase = "open", ![w].locked = TRUE]
    /\ UNCHANGED <<sequence, stored, timeline, cursor, reader>>

\* EventRecorder.record up to the insert into the outbox.  A transaction may
\* record several events.
Record(w) ==
    /\ writer[w].phase = "open" \/ (~Active(w) /\ w \notin Locking)
    /\ \A v \in Writers \ {w} : ~writer[v].locked
    /\ sequence < MaxSequence
    /\ sequence' = sequence + 1
    /\ writer' = [writer EXCEPT ![w].phase = "recorded", ![w].event = sequence + 1]
    /\ UNCHANGED <<stored, timeline, cursor, reader>>

AlwaysUpdate(w) == TRUE

Later(old, event) == IF old < event THEN event ELSE old

\* The UPDATE waits for the transaction that changed the row before.
MayUpdate(w) == \A v \in Writers \ {w} : ~writer[v].updated /\ ~writer[v].locked

\* IncidentRepository.advance_event_cursor.
Advance(w) ==
    LET visible == IF writer[w].updated THEN writer[w].cursor ELSE cursor
    IN  /\ writer[w].phase = "recorded"
        /\ MayUpdate(w)
        /\ writer' = [writer EXCEPT
                ![w].phase = "open", ![w].updated = TRUE, ![w].event = 0,
                ![w].events = @ \union {writer[w].event},
                ![w].cursor = Later(visible, writer[w].event)]
        /\ UNCHANGED <<sequence, stored, timeline, cursor, reader>>

Commit(w) ==
    /\ writer[w].phase = "open"
    /\ writer[w].updated
    /\ stored' = stored \union writer[w].events
    /\ timeline' = timeline \union writer[w].events
    /\ cursor' = writer[w].cursor
    /\ writer' = [writer EXCEPT ![w] = NoTransaction]
    /\ UNCHANGED <<sequence, reader>>

\* The request is refused or its process dies; the numbers it drew are lost.
Rollback(w) ==
    /\ Active(w)
    /\ writer' = [writer EXCEPT ![w] = NoTransaction]
    /\ UNCHANGED <<sequence, stored, timeline, cursor, reader>>

\* The retention of OutboxPublisher.run_once; see OutboxDelivery.
Delete(e) ==
    /\ e \in stored
    /\ stored' = stored \ {e}
    /\ UNCHANGED <<sequence, writer, timeline, cursor, reader>>

-----------------------------------------------------------------------------
(* Clients.                                                                 *)

\* The first statement of the detail of an incident reads its row, when the
\* client starts or starts again.
OpenIncident(r) ==
    /\ reader' = [reader EXCEPT
            ![r] = [phase |-> "reading", cursor |-> cursor, seen |-> {}]]
    /\ UNCHANGED <<sequence, writer, stored, timeline, cursor>>

\* A later statement reads the timeline.
ReadTimeline(r) ==
    /\ reader[r].phase = "reading"
    /\ reader' = [reader EXCEPT ![r].phase = "streaming", ![r].seen = timeline]
    /\ UNCHANGED <<sequence, writer, stored, timeline, cursor>>

UpTo(events, e) == {f \in events : f <= e}

\* Mutant of Page: the first page only.
PageFromStart(from) == {e \in stored : Cardinality(UpTo(stored, e)) <= BatchSize}

\* OutboxRepository.list_after.
Page(from) ==
    LET ahead == {e \in stored : e > from}
    IN  {e \in ahead : Cardinality(UpTo(ahead, e)) <= BatchSize}

\* _event_stream sends a page; the connection may end after any event of it.
Receive(r, last) ==
    /\ reader[r].phase = "streaming"
    /\ last \in Page(reader[r].cursor)
    /\ reader' = [reader EXCEPT
            ![r].cursor = last,
            ![r].seen = @ \union UpTo(Page(reader[r].cursor), last)]
    /\ UNCHANGED <<sequence, writer, stored, timeline, cursor>>

-----------------------------------------------------------------------------
WriterNext ==
    \E w \in Writers : Lock(w) \/ Record(w) \/ Advance(w) \/ Commit(w) \/ Rollback(w)

ReaderNext ==
    \E r \in Readers :
        \/ OpenIncident(r)
        \/ ReadTimeline(r)
        \/ \E last \in Event : Receive(r, last)

Next == WriterNext \/ ReaderNext \/ \E e \in Event : Delete(e)

Spec == Init /\ [][Next]_vars

\* The server polls for every open stream, and a client that began to read an
\* incident goes on.
Fairness ==
    \A r \in Readers :
        /\ WF_vars(ReadTimeline(r))
        /\ WF_vars(\E last \in Event : Receive(r, last))

FairSpec == Spec /\ Fairness

-----------------------------------------------------------------------------
(* Correctness.                                                             *)

\* The cursor of an incident is its newest committed event, although handlers
\* draw their numbers in one order and commit in another.
CursorIsNewestEvent ==
    /\ cursor \in timeline \union {0}
    /\ \A e \in timeline : e <= cursor

\* The cursor a client reads never goes back.
CursorNeverGoesBack == [][cursor' >= cursor]_vars

\* docs/后端Phase7-前端产品化支撑.md:389: the cursor guarantees that what is
\* committed after the snapshot is replayed.  An event that is stored is never
\* behind the cursor of a client that does not have it.
StreamIsComplete ==
    \A r \in Readers :
        reader[r].phase = "streaming" =>
            \A e \in stored : e <= reader[r].cursor => e \in reader[r].seen

\* A client that streams comes to have every event ahead of its cursor, unless
\* the event is deleted first or the client reads the incident anew.
EventReachesReader ==
    \A r \in Readers, e \in Event :
        e \in stored /\ reader[r].phase = "streaming" /\ e > reader[r].cursor ~>
            e \in reader[r].seen \/ e \notin stored \/ reader[r].phase = "reading"
=============================================================================
