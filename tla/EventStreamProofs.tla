-------------------------- MODULE EventStreamProofs --------------------------
(* Event streams for every number of handlers, clients and events: the       *)
(* cursor in general, completeness if every handler locks the incident.      *)
EXTENDS EventStream, FiniteSetTheorems, TLAPS

USE StreamAssumption

\* What an open transaction has written is newer than what is committed, and
\* only one has written the row of the incident.
TransactionsOrdered ==
    /\ \A w \in Writers :
        /\ writer[w].phase = "recorded" => writer[w].event # 0
        /\ ~writer[w].updated => writer[w].events = {}
    /\ \A w \in Writers : writer[w].updated =>
        /\ writer[w].cursor >= cursor
        /\ writer[w].cursor \in timeline \union {0} \union writer[w].events
        /\ \A e \in writer[w].events : e <= writer[w].cursor
    /\ \A v, w \in Writers : writer[v].updated /\ writer[w].updated => v = w

CursorInv == TypeOK /\ CursorIsNewestEvent /\ TransactionsOrdered

-----------------------------------------------------------------------------
LEMMA CursorInit == Init => CursorInv
BY DEF Init, CursorInv, TypeOK, CursorIsNewestEvent, TransactionsOrdered, NoTransaction,
       WriterRecord, ReaderRecord

LEMMA TypesOfWriter ==
    ASSUME TypeOK, TransactionsOrdered, NEW w \in Writers,
           Lock(w) \/ Record(w) \/ Advance(w) \/ Commit(w) \/ Rollback(w)
    PROVE  TypeOK'
<1>1. CASE Lock(w)
  BY <1>1, ZenonT(40) DEF TypeOK, Lock, WriterRecord
<1>2. CASE Record(w)
  <2>1. sequence + 1 \in Event /\ sequence + 1 \in 0..MaxSequence
    BY <1>2 DEF TypeOK, Record, Event
  <2>2. writer[w] \in WriterRecord
    BY DEF TypeOK
  <2>3. [writer[w] EXCEPT !.phase = "recorded", !.event = sequence + 1] \in WriterRecord
    BY <2>1, <2>2 DEF WriterRecord
  <2>4. writer' = [writer EXCEPT
            ![w] = [writer[w] EXCEPT !.phase = "recorded", !.event = sequence + 1]]
    BY <1>2 DEF Record, TypeOK
  <2>5. writer' \in [Writers -> WriterRecord]
    BY <2>3, <2>4 DEF TypeOK
  <2> QED
    BY <1>2, <2>1, <2>5 DEF TypeOK, Record
<1>3. CASE Advance(w)
  <2>1. writer[w] \in WriterRecord
    BY DEF TypeOK
  <2>2. writer[w].event \in Event
    BY <1>3, <2>1 DEF Advance, WriterRecord, TransactionsOrdered
  <2>3. Later(IF writer[w].updated THEN writer[w].cursor ELSE cursor, writer[w].event)
            \in Event \union {0}
    BY <2>1, <2>2 DEF TypeOK, WriterRecord, Later
  <2>4. writer[w].events \union {writer[w].event} \in SUBSET Event
    BY <2>1, <2>2 DEF WriterRecord
  <2>5. writer' \in [Writers -> WriterRecord]
    BY <1>3, <2>1, <2>3, <2>4 DEF TypeOK, Advance, WriterRecord
  <2> QED
    BY <1>3, <2>5 DEF TypeOK, Advance
<1>4. CASE Commit(w)
  BY <1>4 DEF TypeOK, Commit, WriterRecord, NoTransaction
<1>5. CASE Rollback(w)
  BY <1>5 DEF TypeOK, Rollback, WriterRecord, NoTransaction
<1> QED
  BY <1>1, <1>2, <1>3, <1>4, <1>5

LEMMA TypesOfReader ==
    ASSUME TypeOK, NEW r \in Readers, NEW last \in Event,
           OpenIncident(r) \/ ReadTimeline(r) \/ Receive(r, last)
    PROVE  TypeOK'
<1>1. CASE OpenIncident(r)
  BY <1>1 DEF TypeOK, OpenIncident, ReaderRecord
<1>2. CASE ReadTimeline(r)
  BY <1>2, ZenonT(40) DEF TypeOK, ReadTimeline, ReaderRecord
<1>3. CASE Receive(r, last)
  <2>1. UpTo(Page(reader[r].cursor), last) \subseteq Event
    BY DEF UpTo, Page, TypeOK
  <2>2. last \in Nat
    BY DEF Event
  <2> QED
    BY <1>3, <2>1, <2>2, ZenonT(40) DEF TypeOK, Receive, ReaderRecord
<1> QED
  BY <1>1, <1>2, <1>3

\* Every writer step keeps the order of the transactions and the cursor, which
\* never goes back.
LEMMA WriterKeepsCursor ==
    ASSUME CursorInv, NEW w \in Writers,
           Lock(w) \/ Record(w) \/ Advance(w) \/ Commit(w) \/ Rollback(w)
    PROVE  CursorInv' /\ cursor' >= cursor
<1> USE DEF CursorInv
<1>0. TypeOK' /\ cursor \in Nat /\ timeline \subseteq Nat /\ \A v \in Writers : writer[v] \in WriterRecord
  BY TypesOfWriter DEF TypeOK, Event
<1>1. CASE Lock(w)
  <2>1. \A v \in Writers :
            /\ writer'[v].updated = writer[v].updated
            /\ writer'[v].events = writer[v].events
            /\ writer'[v].cursor = writer[v].cursor
            /\ writer'[v].phase = "recorded" => writer'[v].event # 0
    BY <1>1 DEF Lock, TransactionsOrdered, TypeOK, WriterRecord
  <2>2. UNCHANGED <<cursor, timeline>>
    BY <1>1 DEF Lock
  <2>3. TransactionsOrdered'
    BY <2>1, <2>2 DEF TransactionsOrdered
  <2> QED
    BY <1>0, <2>2, <2>3 DEF CursorIsNewestEvent
<1>2. CASE Record(w)
  <2>1. \A v \in Writers :
            /\ writer'[v].updated = writer[v].updated
            /\ writer'[v].events = writer[v].events
            /\ writer'[v].cursor = writer[v].cursor
            /\ writer'[v].phase = "recorded" => writer'[v].event # 0
    BY <1>2 DEF Record, TransactionsOrdered, TypeOK, WriterRecord
  <2>2. UNCHANGED <<cursor, timeline>>
    BY <1>2 DEF Record
  <2>3. TransactionsOrdered'
    BY <2>1, <2>2 DEF TransactionsOrdered
  <2> QED
    BY <1>0, <2>2, <2>3 DEF CursorIsNewestEvent
<1>3. CASE Advance(w)
  <2> DEFINE visible == IF writer[w].updated THEN writer[w].cursor ELSE cursor
  <2>1. \A v \in Writers \ {w} : writer'[v] = writer[v] /\ ~writer[v].updated
    BY <1>3 DEF Advance, MayUpdate, TypeOK
  <2>2. /\ writer'[w].updated
        /\ writer'[w].phase = "open"
        /\ writer'[w].events = writer[w].events \union {writer[w].event}
        /\ writer'[w].cursor = Later(visible, writer[w].event)
    BY <1>3 DEF Advance, TypeOK, WriterRecord
  <2>3. /\ visible \in Nat
        /\ visible >= cursor
        /\ visible \in timeline \union {0} \union writer[w].events
        /\ \A e \in writer[w].events : e <= visible
    BY <1>0 DEF TransactionsOrdered, CursorIsNewestEvent, WriterRecord, Event
  <2>4. writer[w].event \in Nat /\ writer[w].events \subseteq Nat
    BY <1>0 DEF WriterRecord, Event
  <2>5. /\ writer'[w].cursor >= cursor
        /\ writer'[w].cursor \in timeline \union {0} \union writer'[w].events
        /\ \A e \in writer'[w].events : e <= writer'[w].cursor
    BY <1>0, <2>2, <2>3, <2>4 DEF Later
  <2>6. UNCHANGED <<cursor, timeline>>
    BY <1>3 DEF Advance
  <2>7. TransactionsOrdered'
    BY <2>1, <2>2, <2>5, <2>6 DEF TransactionsOrdered
  <2> QED
    BY <1>0, <2>6, <2>7 DEF CursorIsNewestEvent
<1>4. CASE Commit(w)
  <2>1. /\ cursor' = writer[w].cursor
        /\ timeline' = timeline \union writer[w].events
        /\ writer[w].updated
    BY <1>4 DEF Commit
  <2>2. \A v \in Writers \ {w} : writer'[v] = writer[v] /\ ~writer[v].updated
    BY <1>4, <2>1 DEF Commit, TransactionsOrdered
  <2>3. ~writer'[w].updated /\ writer'[w].events = {} /\ writer'[w].phase = "idle"
    BY <1>4 DEF Commit, NoTransaction, TypeOK
  <2>4. cursor' \in Nat /\ cursor' >= cursor
    BY <1>0, <2>1 DEF TransactionsOrdered, WriterRecord, Event
  <2>5. CursorIsNewestEvent'
    <3>1. cursor' \in timeline' \union {0}
      BY <2>1 DEF TransactionsOrdered
    <3>2. \A e \in timeline : e <= cursor'
      BY <1>0, <2>4 DEF CursorIsNewestEvent
    <3>3. \A e \in writer[w].events : e <= cursor'
      BY <2>1 DEF TransactionsOrdered
    <3> QED
      BY <2>1, <3>1, <3>2, <3>3 DEF CursorIsNewestEvent
  <2>6. TransactionsOrdered'
    BY <2>2, <2>3 DEF TransactionsOrdered
  <2> QED
    BY <1>0, <2>4, <2>5, <2>6
<1>5. CASE Rollback(w)
  <2>1. \A v \in Writers \ {w} : writer'[v] = writer[v]
    BY <1>5 DEF Rollback
  <2>2. ~writer'[w].updated /\ writer'[w].events = {} /\ writer'[w].phase = "idle"
    BY <1>5 DEF Rollback, NoTransaction, TypeOK
  <2>3. UNCHANGED <<cursor, timeline>>
    BY <1>5 DEF Rollback
  <2>4. TransactionsOrdered'
    BY <2>1, <2>2, <2>3 DEF TransactionsOrdered
  <2> QED
    BY <1>0, <2>3, <2>4 DEF CursorIsNewestEvent
<1> QED
  BY <1>1, <1>2, <1>3, <1>4, <1>5

LEMMA CursorStep ==
    ASSUME CursorInv, [Next]_vars
    PROVE  CursorInv' /\ cursor' >= cursor
<1> USE DEF CursorInv
<1>0. cursor \in Nat
  BY DEF TypeOK, Event
<1>1. CASE WriterNext
  BY <1>1, WriterKeepsCursor DEF WriterNext
<1>2. CASE ReaderNext
  <2>1. PICK r \in Readers :
            \/ OpenIncident(r)
            \/ ReadTimeline(r)
            \/ \E last \in Event : Receive(r, last)
    BY <1>2 DEF ReaderNext
  <2>2. UNCHANGED <<writer, timeline, cursor>>
    BY <2>1 DEF OpenIncident, ReadTimeline, Receive
  <2>3. TypeOK'
    <3>1. CASE OpenIncident(r)
      BY <3>1 DEF TypeOK, OpenIncident, ReaderRecord
    <3>2. CASE ReadTimeline(r)
      BY <3>2, ZenonT(40) DEF TypeOK, ReadTimeline, ReaderRecord
    <3>3. CASE \E last \in Event : Receive(r, last)
      BY <3>3, TypesOfReader
    <3> QED
      BY <2>1, <3>1, <3>2, <3>3
  <2>4. CursorIsNewestEvent'
    BY <2>2 DEF CursorIsNewestEvent
  <2>5. TransactionsOrdered'
    BY <2>2 DEF TransactionsOrdered
  <2> QED
    BY <1>0, <2>2, <2>3, <2>4, <2>5
<1>3. CASE (\E e \in Event : Delete(e)) \/ UNCHANGED vars
  <2>1. stored' \subseteq stored /\ UNCHANGED <<sequence, writer, timeline, cursor, reader>>
    BY <1>3 DEF Delete, vars
  <2>2. TypeOK'
    BY <2>1 DEF TypeOK
  <2>3. CursorIsNewestEvent' /\ TransactionsOrdered'
    BY <2>1 DEF CursorIsNewestEvent, TransactionsOrdered
  <2> QED
    BY <1>0, <2>1, <2>2, <2>3
<1> QED
  BY <1>1, <1>2, <1>3 DEF Next

LEMMA CursorInductive == Spec => []CursorInv
<1>1. CursorInv /\ [Next]_vars => CursorInv'
  BY CursorStep
<1> QED
  BY <1>1, CursorInit, PTL DEF Spec

-----------------------------------------------------------------------------
\* Every variable of the stream keeps its type.
THEOREM StreamTypes == Spec => []TypeOK
BY CursorInductive, PTL DEF CursorInv

\* EventRecorder.record keeps event_cursor at the newest committed event,
\* whatever order handlers draw and commit their numbers in.
THEOREM CursorNewest == Spec => []CursorIsNewestEvent
BY CursorInductive, PTL DEF CursorInv

\* advance_event_cursor never lowers the cursor that clients read.
THEOREM CursorMonotone == Spec => CursorNeverGoesBack
<1>1. CursorInv /\ [Next]_vars => [cursor' >= cursor]_vars
  BY CursorStep
<1> QED
  BY <1>1, CursorInductive, PTL DEF Spec, CursorNeverGoesBack

-----------------------------------------------------------------------------
(* Completeness.                                                            *)

\* With the incident locked there is one transaction at a time, and what it
\* writes is newer than everything that is committed.
OneTransaction ==
    /\ \A v, w \in Writers : Active(v) /\ Active(w) => v = w
    /\ \A w \in Writers :
        /\ Active(w) => writer[w].locked
        /\ ~Active(w) => ~writer[w].updated

EventsAreNewer ==
    /\ stored \subseteq timeline
    /\ \A e \in timeline : e <= sequence
    /\ \A w \in Writers :
        /\ writer[w].phase = "recorded" =>
            writer[w].event > cursor /\ writer[w].event <= sequence
        /\ \A e \in writer[w].events : e > cursor /\ e <= sequence

ReadersBehindCursor == \A r \in Readers : reader[r].cursor <= cursor

StreamInv ==
    CursorInv /\ OneTransaction /\ EventsAreNewer /\ ReadersBehindCursor /\ StreamIsComplete

LEMMA StreamInit == Init => StreamInv
BY CursorInit DEF Init, StreamInv, OneTransaction, EventsAreNewer, ReadersBehindCursor,
                  StreamIsComplete, Active, NoTransaction

\* A page leaves nothing out before its last event.
LEMMA PageIsPrefix ==
    ASSUME stored \subseteq Event, NEW from \in Nat, NEW last \in Page(from),
           NEW e \in stored, e > from, e <= last
    PROVE  e \in Page(from)
<1> DEFINE ahead == {f \in stored : f > from}
<1>1. IsFiniteSet(Event)
  BY FS_Interval DEF Event
<1>2. IsFiniteSet(UpTo(ahead, last))
  BY <1>1, FS_Subset DEF UpTo
<1>3. UpTo(ahead, e) \subseteq UpTo(ahead, last)
  <2>1. /\ \A f \in ahead : f \in Nat
        /\ last \in Nat
        /\ e \in Nat
    BY DEF Page, Event
  <2> HIDE DEF ahead
  <2>2. \A f \in ahead : f <= e => f <= last
    BY <2>1
  <2> QED
    BY <2>2 DEF UpTo
<1>4. /\ IsFiniteSet(UpTo(ahead, e))
      /\ Cardinality(UpTo(ahead, e)) <= Cardinality(UpTo(ahead, last))
  BY <1>2, <1>3, FS_Subset
<1>5. Cardinality(UpTo(ahead, last)) <= BatchSize
  BY DEF Page
<1>6. Cardinality(UpTo(ahead, e)) \in Nat /\ Cardinality(UpTo(ahead, last)) \in Nat
  BY <1>2, <1>4, FS_CardinalityType
<1>7. Cardinality(UpTo(ahead, e)) <= BatchSize
  BY <1>4, <1>5, <1>6
<1> QED
  BY <1>7 DEF Page

LEMMA ReaderKeepsStream ==
    ASSUME StreamInv, NEW r \in Readers,
           OpenIncident(r) \/ ReadTimeline(r) \/ \E last \in Event : Receive(r, last)
    PROVE  ReadersBehindCursor' /\ StreamIsComplete'
<1> USE DEF StreamInv, CursorInv
<1>0. /\ cursor \in Nat
      /\ stored \subseteq Event
      /\ timeline \subseteq Event
      /\ reader \in [Readers -> ReaderRecord]
  BY DEF TypeOK, Event
<1>1. CASE OpenIncident(r)
  BY <1>0, <1>1 DEF OpenIncident, ReadersBehindCursor, StreamIsComplete, ReaderRecord
<1>2. CASE ReadTimeline(r)
  BY <1>0, <1>2 DEF ReadTimeline, ReadersBehindCursor, StreamIsComplete, ReaderRecord, EventsAreNewer
<1>3. ASSUME NEW last \in Event, Receive(r, last)
      PROVE  ReadersBehindCursor' /\ StreamIsComplete'
  <2>1. reader[r].cursor \in Nat /\ reader[r].phase = "streaming"
    <3>1. reader[r].cursor \in Event \union {0}
      BY <1>0 DEF ReaderRecord
    <3> QED
      BY <1>3, <3>1 DEF Receive, Event
  <2>2. last \in stored /\ last > reader[r].cursor /\ last \in Page(reader[r].cursor)
    BY <1>3 DEF Receive, Page
  <2>3. /\ \A q \in Readers \ {r} : reader'[q] = reader[q]
        /\ reader'[r].cursor = last
        /\ reader'[r].phase = "streaming"
        /\ reader'[r].seen = reader[r].seen \union UpTo(Page(reader[r].cursor), last)
        /\ UNCHANGED <<stored, cursor>>
    <3> DEFINE read == reader[r].seen \union UpTo(Page(reader[r].cursor), last)
    <3>1. reader' = [reader EXCEPT ![r].cursor = last, ![r].seen = read]
      BY <1>3 DEF Receive
    <3> HIDE DEF read
    <3>2. /\ \A q \in Readers \ {r} : reader'[q] = reader[q]
          /\ reader'[r].cursor = last
          /\ reader'[r].phase = "streaming"
          /\ reader'[r].seen = read
      BY <1>0, <2>1, <3>1 DEF ReaderRecord
    <3> QED
      BY <1>3, <3>2 DEF Receive, read
  <2>4. last <= cursor
    BY <2>2 DEF EventsAreNewer, CursorIsNewestEvent
  <2>5. ReadersBehindCursor'
    BY <2>3, <2>4 DEF ReadersBehindCursor
  <2>6. ASSUME NEW e \in stored, e <= last PROVE e \in reader'[r].seen
    <3>1. CASE e <= reader[r].cursor
      BY <2>1, <2>3, <3>1 DEF StreamIsComplete
    <3>2. CASE e > reader[r].cursor
      <4>1. e \in Page(reader[r].cursor)
        BY <1>0, <2>1, <2>2, <2>6, <3>2, PageIsPrefix
      <4> QED
        BY <2>3, <2>6, <4>1 DEF UpTo
    <3> QED
      BY <1>0, <2>1, <3>1, <3>2 DEF Event
  <2> QED
    BY <2>3, <2>5, <2>6 DEF StreamIsComplete
<1> QED
  BY <1>1, <1>2, <1>3

LEMMA WriterKeepsStream ==
    ASSUME Locking = Writers, StreamInv, NEW w \in Writers,
           Lock(w) \/ Record(w) \/ Advance(w) \/ Commit(w) \/ Rollback(w)
    PROVE  OneTransaction' /\ EventsAreNewer' /\ ReadersBehindCursor' /\ StreamIsComplete'
<1> USE DEF StreamInv, CursorInv
<1>0. /\ cursor \in Nat
      /\ sequence \in Nat
      /\ timeline \subseteq Nat
      /\ \A v \in Writers : writer[v] \in WriterRecord
      /\ \A r \in Readers : reader[r].cursor \in Nat
  BY DEF TypeOK, Event, ReaderRecord
<1>1. \A v \in Writers \ {w} : writer'[v] = writer[v] /\ ~Active(v)
  <2>1. CASE Lock(w)
    BY <2>1 DEF Lock, TypeOK
  <2>2. CASE ~Lock(w)
    <3>1. Active(w)
      BY <2>2 DEF Record, Advance, Commit, Rollback, Active
    <3>2. Active(w) => \A v \in Writers \ {w} : ~Active(v)
      BY DEF OneTransaction
    <3> QED
      BY <2>2, <3>1, <3>2 DEF Record, Advance, Commit, Rollback, TypeOK
  <2> QED
    BY <2>1, <2>2
<1>2. \A v \in Writers \ {w} : writer[v].events = {} /\ ~writer[v].updated /\ writer[v].phase = "idle"
  BY <1>1 DEF OneTransaction, TransactionsOrdered, Active
<1>3. cursor <= sequence
  BY <1>0 DEF CursorIsNewestEvent, EventsAreNewer
<1>4. CASE Lock(w)
  <2>1. /\ writer'[w].phase = "open"
        /\ writer'[w].locked
        /\ writer'[w].events = writer[w].events
        /\ UNCHANGED <<sequence, stored, timeline, cursor, reader>>
    BY <1>0, <1>4 DEF Lock, TypeOK, WriterRecord
  <2> QED
    BY <1>1, <1>2, <2>1 DEF OneTransaction, EventsAreNewer, ReadersBehindCursor,
                            StreamIsComplete, Active
<1>5. CASE Record(w)
  <2>0. Active(w)
    BY <1>5 DEF Record, Active
  <2>1. /\ writer'[w].phase = "recorded"
        /\ writer'[w].locked = writer[w].locked
        /\ writer'[w].event = sequence + 1
        /\ writer'[w].events = writer[w].events
        /\ sequence' = sequence + 1
        /\ UNCHANGED <<stored, timeline, cursor, reader>>
    BY <1>0, <1>5 DEF Record, TypeOK, WriterRecord
  <2>2. OneTransaction'
    BY <1>1, <1>2, <2>0, <2>1 DEF OneTransaction, Active
  <2>3. writer[w].events \subseteq Nat
    BY <1>0 DEF WriterRecord, Event
  <2>4. EventsAreNewer'
    BY <1>0, <1>1, <1>2, <1>3, <2>1, <2>3 DEF EventsAreNewer
  <2> QED
    BY <2>1, <2>2, <2>4 DEF ReadersBehindCursor, StreamIsComplete
<1>6. CASE Advance(w)
  <2>0. Active(w)
    BY <1>6 DEF Advance, Active
  <2>1. /\ writer'[w].phase = "open"
        /\ writer'[w].locked = writer[w].locked
        /\ writer'[w].events = writer[w].events \union {writer[w].event}
        /\ writer[w].phase = "recorded"
        /\ UNCHANGED <<sequence, stored, timeline, cursor, reader>>
    BY <1>0, <1>6 DEF Advance, TypeOK, WriterRecord
  <2>2. OneTransaction'
    BY <1>1, <1>2, <2>0, <2>1 DEF OneTransaction, Active
  <2>3. EventsAreNewer'
    BY <1>1, <1>2, <2>1 DEF EventsAreNewer
  <2> QED
    BY <2>1, <2>2, <2>3 DEF ReadersBehindCursor, StreamIsComplete
<1>7. CASE Commit(w)
  <2>1. /\ writer'[w] = NoTransaction
        /\ stored' = stored \union writer[w].events
        /\ timeline' = timeline \union writer[w].events
        /\ UNCHANGED <<sequence, reader>>
    BY <1>7 DEF Commit, TypeOK
  <2>2. cursor' \in Nat /\ cursor' >= cursor
    <3>1. cursor' >= cursor /\ TypeOK'
      BY <1>7, WriterKeepsCursor
    <3> QED
      BY <3>1 DEF TypeOK, Event
  <2>3. OneTransaction'
    BY <1>1, <1>2, <2>1 DEF OneTransaction, Active, NoTransaction
  <2>4. EventsAreNewer'
    BY <1>1, <1>2, <2>1 DEF EventsAreNewer, NoTransaction
  <2>5. ReadersBehindCursor'
    BY <1>0, <2>1, <2>2 DEF ReadersBehindCursor
  <2>6. writer[w].events \subseteq Nat /\ \A e \in writer[w].events : e > cursor
    BY <1>0 DEF EventsAreNewer, WriterRecord, Event
  <2>7. StreamIsComplete'
    BY <1>0, <2>1, <2>6 DEF StreamIsComplete, ReadersBehindCursor
  <2> QED
    BY <2>3, <2>4, <2>5, <2>7
<1>8. CASE Rollback(w)
  <2>1. writer'[w] = NoTransaction /\ UNCHANGED <<sequence, stored, timeline, cursor, reader>>
    BY <1>8 DEF Rollback, TypeOK
  <2>2. OneTransaction'
    BY <1>1, <1>2, <2>1 DEF OneTransaction, Active, NoTransaction
  <2>3. EventsAreNewer'
    BY <1>1, <1>2, <2>1 DEF EventsAreNewer, NoTransaction
  <2> QED
    BY <2>1, <2>2, <2>3 DEF ReadersBehindCursor, StreamIsComplete
<1> QED
  BY <1>4, <1>5, <1>6, <1>7, <1>8

\* docs/后端Phase7-前端产品化支撑.md:389 holds if every handler that records an
\* event reads the incident FOR UPDATE: no client misses an event that is stored.
THEOREM LockedStreamComplete ==
    ASSUME Locking = Writers
    PROVE  Spec => []StreamIsComplete
<1>1. StreamInv /\ [Next]_vars => StreamInv'
  <2> SUFFICES ASSUME StreamInv, [Next]_vars PROVE StreamInv'
    OBVIOUS
  <2>1. CursorInv'
    BY CursorStep DEF StreamInv
  <2>2. CASE WriterNext
    BY <2>1, <2>2, WriterKeepsStream DEF WriterNext, StreamInv
  <2>3. CASE ReaderNext
    <3>1. ReadersBehindCursor' /\ StreamIsComplete'
      BY <2>3, ReaderKeepsStream DEF ReaderNext
    <3>2. UNCHANGED <<sequence, writer, stored, timeline, cursor>>
      BY <2>3 DEF ReaderNext, OpenIncident, ReadTimeline, Receive
    <3> QED
      BY <2>1, <3>1, <3>2 DEF StreamInv, OneTransaction, EventsAreNewer, Active
  <2>4. CASE \E e \in Event : Delete(e)
    BY <2>1, <2>4 DEF Delete, StreamInv, OneTransaction, EventsAreNewer, ReadersBehindCursor,
                      StreamIsComplete, Active
  <2>5. CASE UNCHANGED vars
    BY <2>1, <2>5 DEF vars, StreamInv, OneTransaction, EventsAreNewer, ReadersBehindCursor,
                      StreamIsComplete, Active
  <2> QED
    BY <2>2, <2>3, <2>4, <2>5 DEF Next
<1>2. StreamInv => StreamIsComplete
  BY DEF StreamInv
<1> QED
  BY <1>1, <1>2, StreamInit, PTL DEF Spec
=============================================================================
