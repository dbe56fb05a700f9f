------------------------------ MODULE Collector ------------------------------
(***************************************************************************)
(* One streaming collector process (qde/stream/collector.py) with its      *)
(* sequence tracker (qde/stream/gaps.py), from the venue's sockets to the  *)
(* part files: connect and reconnect, the overlapped and the               *)
(* close-then-reopen handover, duplicate discarding, gap and session       *)
(* records, the flush loop, kills and restarts.                            *)
(*                                                                         *)
(* A venue message is the pair <<stream, id>>; ids of a stream start at 1  *)
(* and grow by one.  (Binance's book ticker skips ids; the tracker draws   *)
(* nothing from the size of a step there, so unit steps lose nothing.)     *)
(* What the collector buffers for a stream is kept, in order, as a tape of *)
(* entries: rows and the session, gap and handover records beside them.    *)
(* Each entry is still in memory, on disk, or lost.  Row contents, backoff *)
(* times and the counts in the session record are left out.                *)
(***************************************************************************)
EXTENDS Naturals, Sequences, FiniteSets

CONSTANTS
    Counted,      \* streams whose ids are contiguous: trades, Binance depth
    Rising,       \* streams whose ids only rise: book_ticker
    Unsequenced,  \* streams without an id: Coinbase level2_batch
    DrainCeiling, \* RECEIVE_QUEUE_FRAMES: a drain reads at most this many
    MaxId,        \* bound: messages the venue sends per stream
    MaxRecycles,  \* bound: connections old enough to be replaced
    MaxFaults     \* bound: drops, closes, failed connects and writes, kills

Streams == Counted \cup Rising \cup Unsequenced

ASSUME CollectorAssumption ==
    /\ IsFiniteSet(Streams)
    /\ Counted \cap Rising = {} /\ (Counted \cup Rising) \cap Unsequenced = {}
    /\ DrainCeiling \in Nat \ {0}
    /\ MaxId \in Nat /\ MaxRecycles \in Nat /\ MaxFaults \in Nat

NoSocket == [open |-> FALSE, queue |-> <<>>]

VARIABLES
    sent,      \* venue: last id sent per stream
    ws,        \* the socket being read: still open?, frames received
    succ,      \* the successor during an overlapped handover
    pc,        \* where run() stands
    caughtUp,  \* the drain has found the predecessor's queue empty
    drained,   \* messages read by the running drain
    down,      \* _disconnected_at is set
    last,      \* SequenceTracker._last; 0 when a stream is not tracked
    floor,     \* _overlap_floor; 0 when a stream is not in it
    flusher,   \* the _flush_loop task is alive
    tape,      \* history: everything buffered for a stream, in order
    outage,    \* history: number of outages begun
    missed,    \* history: <<outage, tracked?>> pairs in which a stream that
               \*   had delivered this session lost a message
    mishap,    \* history: "write failed", "killed mid-flush", "drain cut"
    recycles, faults

venue   == <<sent>>
sockets == <<ws, succ>>
drain   == <<caughtUp, drained>>
history == <<outage, missed, mishap>>
vars == <<sent, ws, succ, pc, caughtUp, drained, down, last, floor, flusher,
          tape, outage, missed, mishap, recycles, faults>>

-----------------------------------------------------------------------------
Fault == faults < MaxFaults /\ faults' = faults + 1

\* supports_overlap: only if every configured stream carries an id.
SupportsOverlap == Unsequenced = {}

Entry(what, id) == [what |-> what, id |-> id, at |-> "buffer"]
Row(n)            == Entry("row", n)
SessionRecord(e)  == Entry(e, 0)
ReconnectGap(k)   == Entry("reconnect", k)
HandoverRecord(f) == Entry("handover", f)
SequenceJump(l)   == Entry("jump", l)

\* The buffer, and so the part file, an entry goes to.
KeyOf(s, e) == CASE e.what = "row" -> s
                 [] e.what \in {"session", "stop"} -> "session"
                 [] OTHER -> "gaps"
Keys == Streams \cup {"session", "gaps"}

\* The tape after the buffers in W reached disk and those in L were lost.
Settled(t, W, L) ==
    [s \in Streams |-> [i \in DOMAIN t[s] |->
        LET e == t[s][i] IN
        IF e.at # "buffer" THEN e
        ELSE IF KeyOf(s, e) \in W THEN [e EXCEPT !.at = "disk"]
        ELSE IF KeyOf(s, e) \in L THEN [e EXCEPT !.at = "lost"]
        ELSE e]]

\* Mutant of Flushed: the record buffers are forgotten.
FlushRowsOnly(t) == Settled(t, Streams, {})

\* flush: every buffer that is not empty is written.
Flushed(t) == Settled(t, Keys, {})

\* Mutant of PartialFlush: the buffers are written in any order.
AnyOrder == SUBSET Keys

\* How far an interrupted flush got: the session buffer is the oldest key and
\* is written first; the others in the order their first row came.
PartialFlush == {{}} \cup {W \in SUBSET Keys : "session" \in W}

Pending(s, i) == i \in DOMAIN tape[s] /\ tape[s][i].at = "buffer"

\* A write raises: the buffers written before it are on disk, the detached
\* rows of buffer k are gone, the rest stays buffered.
WriteFails(W, k) ==
    /\ W \in PartialFlush
    /\ k \in Keys \ W
    /\ k # "session" => "session" \in W
    /\ \E s \in Streams : \E i \in DOMAIN tape[s] :
         Pending(s, i) /\ KeyOf(s, tape[s][i]) = k
    /\ mishap' = mishap \cup {"write failed"}

\* One record for each stream in S.
AddAll(t, S, e) == [s \in Streams |-> IF s \in S THEN Append(t[s], e) ELSE t[s]]

Delivered(s) ==
    \E i \in DOMAIN tape[s] :
        /\ tape[s][i].what = "row"
        /\ \A j \in (i + 1)..Len(tape[s]) : tape[s][j].what # "session"

-----------------------------------------------------------------------------
Init ==
    /\ sent = [s \in Streams |-> 0]
    /\ ws = NoSocket
    /\ succ = NoSocket
    /\ pc = "down"
    /\ caughtUp = FALSE
    /\ drained = 0
    /\ down = FALSE
    /\ last = [s \in Streams |-> 0]
    /\ floor = [s \in Streams |-> 0]
    /\ flusher = FALSE
    /\ tape = [s \in Streams |-> <<>>]
    /\ outage = 0
    /\ missed = [s \in Streams |-> {}]
    /\ mishap = {}
    /\ recycles = 0
    /\ faults = 0

(***************************************************************************)
(* The venue and the network.                                              *)
(***************************************************************************)
Receive(sock, s, n) ==
    IF sock.open THEN [sock EXCEPT !.queue = Append(@, <<s, n>>)] ELSE sock

\* The streams in S lose a message to the outage being counted.
Miss(S, k) ==
    missed' = [s \in Streams |->
                 IF s \in S /\ Delivered(s)
                 THEN missed[s] \cup {<<k, last[s] # 0>>} ELSE missed[s]]

Emit(s) ==
    /\ sent[s] < MaxId
    /\ sent' = [sent EXCEPT ![s] = @ + 1]
    /\ ws' = Receive(ws, s, sent[s] + 1)
    /\ succ' = Receive(succ, s, sent[s] + 1)
    /\ IF down /\ ~ws.open THEN Miss({s}, outage)
       ELSE UNCHANGED missed
    /\ UNCHANGED <<pc, drain, down, last, floor, flusher, tape, outage, mishap,
                   recycles, faults>>

\* A long-lived connection silently skips a message (the reason connections
\* are recycled at all).
VenueSkips(s) ==
    /\ sent[s] < MaxId
    /\ ws.open
    /\ Fault
    /\ sent' = [sent EXCEPT ![s] = @ + 1]
    /\ succ' = Receive(succ, s, sent[s] + 1)
    /\ UNCHANGED <<ws, pc, drain, down, last, floor, flusher, tape, history,
                   recycles>>

\* The peer closes, or the transport fails; frames already received are still
\* handed out.
SocketEnds ==
    /\ ws.open
    /\ Fault
    /\ ws' = [ws EXCEPT !.open = FALSE]
    /\ UNCHANGED <<venue, succ, pc, drain, down, last, floor, flusher, tape,
                   history, recycles>>

(***************************************************************************)
(* run(): session start, connect, the ritual of a fresh connection.        *)
(***************************************************************************)
StartProcess ==
    /\ pc = "down"
    /\ pc' = "connect"
    /\ tape' = AddAll(tape, Streams, SessionRecord("session"))
    /\ flusher' = TRUE
    /\ UNCHANGED <<venue, sockets, drain, down, last, floor, history, recycles,
                   faults>>

\* The marker of an outage: where it is set for the first time, one begins.
Outage == IF down THEN outage ELSE outage + 1
MarkDown == down' = TRUE /\ outage' = Outage

Connect ==
    /\ pc = "connect"
    /\ ws' = [open |-> TRUE, queue |-> <<>>]
    /\ pc' = "ritual"
    /\ UNCHANGED <<venue, succ, drain, down, last, floor, flusher, tape,
                   history, recycles, faults>>

ConnectFails ==
    /\ pc = "connect"
    /\ Fault
    /\ MarkDown
    /\ tape' = Flushed(tape)
    /\ UNCHANGED <<venue, sockets, pc, drain, last, floor, flusher, missed,
                   mishap, recycles>>

\* Mutant of TrackedStreams: reset() reports nothing it forgets.
NoStreams == {}

\* SequenceTracker.reset() reports the streams that have a position.
TrackedStreams == {s \in Streams : last[s] # 0}

\* Records the outage that preceded this connection, if any.
OnConnected ==
    IF down
    THEN /\ tape' = AddAll(tape, TrackedStreams, ReconnectGap(outage))
         /\ last' = [s \in Streams |-> 0]
         /\ down' = FALSE
    ELSE UNCHANGED <<tape, last, down>>

\* The ritual of a fresh connection ends with the snapshot of a venue that
\* needs one, awaited with the socket already buffering: reading starts in a
\* later step.
Ritual ==
    /\ pc = "ritual"
    /\ OnConnected
    /\ pc' = "read"
    /\ UNCHANGED <<venue, sockets, drain, floor, flusher, history, recycles,
                   faults>>

(***************************************************************************)
(* _handle: the overlap filter, the buffer, the sequence check.            *)
(***************************************************************************)
\* Mutants: no id is ever unexpected; the id that comes next is kept.
JumpNever(s, n) == FALSE
PositionExpected(s, n) == IF s \in Unsequenced THEN 0 ELSE n + 1

IsOverlapDuplicate(s, n) == floor[s] # 0 /\ n <= floor[s]

\* SequenceTracker.check: whether a gap record is returned, and the position
\* kept.  An unsequenced stream is never tracked.
Jumps(s, n) ==
    /\ last[s] # 0
    /\ \/ s \in Counted /\ n > last[s] + 1
       \/ s \in Rising /\ n <= last[s]

Position(s, n) ==
    CASE s \in Counted -> n
      [] s \in Rising -> IF n > last[s] THEN n ELSE last[s]
      [] s \in Unsequenced -> 0

Handle(s, n) ==
    IF IsOverlapDuplicate(s, n)
    THEN UNCHANGED <<tape, last, floor>>
    ELSE /\ tape' = [tape EXCEPT ![s] = @
              \o (IF floor[s] # 0 THEN <<HandoverRecord(floor[s])>> ELSE <<>>)
              \o <<Row(n)>>
              \o (IF Jumps(s, n) THEN <<SequenceJump(last[s])>> ELSE <<>>)]
         /\ last' = [last EXCEPT ![s] = Position(s, n)]
         /\ floor' = [floor EXCEPT ![s] = 0]

\* _should_recycle: any connection may be found old enough.
ShouldRecycle == recycles < MaxRecycles

\* One message from the read loop; afterwards the connection may turn out to
\* be old enough to replace.
Read ==
    /\ pc = "read"
    /\ ws.queue # <<>>
    /\ LET m == Head(ws.queue) IN Handle(m[1], m[2])
    /\ ws' = [ws EXCEPT !.queue = Tail(@)]
    /\ \/ UNCHANGED <<pc, recycles>>
       \/ /\ ShouldRecycle
          /\ recycles' = recycles + 1
          /\ pc' = IF SupportsOverlap THEN "handover" ELSE "recycle"
    /\ UNCHANGED <<venue, succ, drain, down, flusher, history, faults>>

\* The iterator ends, cleanly or by an exception.
ReadEnds ==
    /\ pc = "read"
    /\ ws.queue = <<>>
    /\ ~ws.open
    /\ MarkDown
    /\ tape' = Flushed(tape)
    /\ pc' = "connect"
    /\ UNCHANGED <<venue, sockets, drain, last, floor, flusher, missed, mishap,
                   recycles, faults>>

\* The same, and a write raises.  After a clean close the handler below the
\* read loop catches it and flushes again, which writes the other buffers;
\* anywhere else it leaves run() (see Dies).
ReadEndsUnsaved ==
    /\ pc = "read"
    /\ ws.queue = <<>>
    /\ ~ws.open
    /\ Fault
    /\ MarkDown
    /\ \E W \in SUBSET Keys, k \in Keys :
         WriteFails(W, k) /\ tape' = Settled(tape, Keys \ {k}, {k})
    /\ pc' = "connect"
    /\ UNCHANGED <<venue, sockets, drain, last, floor, flusher, missed,
                   recycles>>

\* A quiet market: the loop waits on a socket nothing comes from.
Waits ==
    /\ pc = "read"
    /\ ws.queue = <<>>
    /\ ws.open
    /\ UNCHANGED vars

(***************************************************************************)
(* _handover.                                                              *)
(***************************************************************************)
\* Close first, then reopen: what the old socket still held is discarded.
\* The reopening is Connect; when it fails the loop is back at its top with
\* nothing left to flush, as after ConnectFails.
CloseThenReopen ==
    /\ pc = "recycle"
    /\ MarkDown
    /\ Miss({m[1] : m \in {ws.queue[i] : i \in DOMAIN ws.queue}}, Outage)
    /\ tape' = Flushed(tape)
    /\ ws' = NoSocket
    /\ pc' = "connect"
    /\ UNCHANGED <<venue, succ, drain, last, floor, flusher, mishap, recycles,
                   faults>>

OpenSuccessor ==
    /\ pc = "handover"
    /\ succ' = [open |-> TRUE, queue |-> <<>>]
    /\ caughtUp' = (ws.queue = <<>>)
    /\ pc' = "drain"
    /\ UNCHANGED <<venue, ws, drained, down, last, floor, flusher, tape, history,
                   recycles, faults>>

\* The predecessor is kept.
SuccessorFails ==
    /\ pc = "handover"
    /\ Fault
    /\ pc' = "read"
    /\ UNCHANGED <<venue, sockets, drain, down, last, floor, flusher, tape,
                   history, recycles>>

DrainGoesOn == drained < DrainCeiling /\ ws.queue # <<>>

Drain ==
    /\ pc = "drain"
    /\ DrainGoesOn
    /\ LET m == Head(ws.queue) IN Handle(m[1], m[2])
    /\ ws' = [ws EXCEPT !.queue = Tail(@)]
    /\ drained' = drained + 1
    /\ caughtUp' = (caughtUp \/ Tail(ws.queue) = <<>>)
    /\ UNCHANGED <<venue, succ, pc, down, flusher, history, recycles, faults>>

\* _close_out_overlap: a record for every stream still in an overlap.
CloseOut ==
    [s \in Streams |-> IF floor[s] # 0
                       THEN Append(tape[s], HandoverRecord(floor[s]))
                       ELSE tape[s]]

\* Mutant of OverlapFloor: the positions are not frozen.
NoFloor == floor

\* _arm_overlap: the tracker's positions, after the drain.
OverlapFloor == last

\* Mutants of DrainMayStop: the predecessor is closed unread; the drain only
\* ends with its connection.
DrainMayStopAtOnce == TRUE
DrainToTheClose == ws.queue = <<>> /\ ~ws.open

\* A receive that had to wait means the queue was empty at some moment of the
\* drain; so does the idle timeout.  A closed socket raises once it is empty,
\* and the ceiling ends the drain anyway.
DrainMayStop == caughtUp \/ ws.queue = <<>> \/ drained = DrainCeiling

FinishHandover ==
    /\ pc = "drain"
    /\ DrainMayStop
    /\ tape' = CloseOut
    /\ floor' = OverlapFloor
    /\ ws' = succ
    /\ succ' = NoSocket
    /\ pc' = "ritual"
    /\ mishap' = IF drained = DrainCeiling /\ ~caughtUp
                 THEN mishap \cup {"drain cut"} ELSE mishap
    /\ caughtUp' = FALSE
    /\ drained' = 0
    /\ UNCHANGED <<venue, down, last, flusher, outage, missed, recycles, faults>>

(***************************************************************************)
(* Flushing, stopping, dying.  flush() does not await, so no other task of *)
(* the process sees it half done; a failing write or a kill does.          *)
(***************************************************************************)
TimerFlush ==
    /\ pc # "down"
    /\ flusher
    /\ tape' = Flushed(tape)
    /\ tape' # tape
    /\ UNCHANGED <<venue, sockets, pc, drain, down, last, floor, flusher,
                   history, recycles, faults>>

\* In the flush loop nothing catches a failing write, so the task ends.
TimerFlushFails ==
    /\ pc # "down"
    /\ flusher
    /\ Fault
    /\ \E W \in SUBSET Keys, k \in Keys :
         WriteFails(W, k) /\ tape' = Settled(tape, W, {k})
    /\ flusher' = FALSE
    /\ UNCHANGED <<venue, sockets, pc, drain, down, last, floor, outage, missed,
                   recycles>>

\* The process is gone, and its memory with it.
Gone ==
    /\ Fault
    /\ ws' = NoSocket
    /\ succ' = NoSocket
    /\ pc' = "down"
    /\ caughtUp' = FALSE
    /\ drained' = 0
    /\ down' = FALSE
    /\ last' = [s \in Streams |-> 0]
    /\ floor' = [s \in Streams |-> 0]
    /\ flusher' = FALSE
    /\ missed' = [s \in Streams |-> {}]
    /\ UNCHANGED <<venue, outage, recycles>>

\* The tape as `finally` leaves it before its flush: open overlaps closed out,
\* the stop marker added.
Stopped == AddAll(CloseOut, Streams, SessionRecord("stop"))

\* SIGTERM, or an exception that leaves the loop (a venue error message).
StopProcess ==
    /\ pc # "down"
    /\ Gone
    /\ tape' = Flushed(Stopped)
    /\ UNCHANGED mishap

\* The same, brought about or cut short by writes that raise: whatever buffers
\* the last flush does not reach are gone with the process.
Dies ==
    /\ pc # "down"
    /\ Gone
    /\ \E W \in SUBSET Keys, k \in Keys : WriteFails(W, k)
    /\ \E L \in (SUBSET Keys) \ {{}} : tape' = Settled(Stopped, Keys \ L, L)

\* SIGKILL or a power cut, in the middle of a flush or not: what is still in
\* memory is gone.
Kill ==
    /\ pc # "down"
    /\ Gone
    /\ \E W \in PartialFlush :
         /\ tape' = Settled(tape, W, Keys \ W)
         /\ mishap' = IF W = {} THEN mishap ELSE mishap \cup {"killed mid-flush"}

-----------------------------------------------------------------------------
Venue == \/ \E s \in Streams : Emit(s) \/ VenueSkips(s)
         \/ SocketEnds

Run == \/ StartProcess \/ Connect \/ ConnectFails \/ Ritual
       \/ Read \/ ReadEnds \/ ReadEndsUnsaved
       \/ CloseThenReopen \/ OpenSuccessor \/ SuccessorFails
       \/ Drain \/ FinishHandover

Tasks == TimerFlush \/ TimerFlushFails \/ StopProcess \/ Dies \/ Kill

Next == Venue \/ Run \/ Waits \/ Tasks

Spec == Init /\ [][Next]_vars

\* The event loop runs every ready task: the read loop, and the flush loop
\* once its interval is over.  `restart: unless-stopped` starts the process.
Fairness == WF_vars(Run) /\ WF_vars(TimerFlush)

FairSpec == Spec /\ Fairness

-----------------------------------------------------------------------------
Msg == Streams \X (1..MaxId)
Socket == [open : BOOLEAN, queue : Seq(Msg)]
Entries == [what : {"row", "session", "stop", "reconnect", "jump", "handover"},
            id : Nat, at : {"buffer", "disk", "lost"}]

TypeOK ==
    /\ sent \in [Streams -> 0..MaxId]
    /\ ws \in Socket /\ succ \in Socket
    /\ pc \in {"down", "connect", "ritual", "read", "recycle", "handover",
               "drain"}
    /\ caughtUp \in BOOLEAN /\ drained \in 0..DrainCeiling
    /\ down \in BOOLEAN
    /\ last \in [Streams -> 0..MaxId]
    /\ floor \in [Streams -> 0..MaxId]
    /\ flusher \in BOOLEAN
    /\ tape \in [Streams -> Seq(Entries)]
    /\ outage \in Nat
    /\ missed \in [Streams -> SUBSET (Nat \X BOOLEAN)]
    /\ mishap \subseteq {"write failed", "killed mid-flush", "drain cut"}
    /\ recycles \in 0..MaxRecycles /\ faults \in 0..MaxFaults

\* What a reader finds: entries not lost.
Shown(s, i) == tape[s][i].at # "lost"
IsRow(s, i) == tape[s][i].what = "row"
NextRow(s, i, j) ==
    /\ i < j
    /\ IsRow(s, i) /\ IsRow(s, j) /\ Shown(s, i) /\ Shown(s, j)
    /\ \A k \in (i + 1)..(j - 1) : ~(IsRow(s, k) /\ Shown(s, k))

\* Between two consecutive rows of a counted stream that are not consecutive
\* ids there is a session or reconnect record, or a jump recorded with the
\* later one: a hole is never silent, across handovers, kills and restarts,
\* unless a write failed or the process was killed in the middle of a flush
\* (gaps.py:1-6).
HolesMarked ==
    mishap \subseteq {"drain cut"} =>
      \A s \in Counted : \A i, j \in DOMAIN tape[s] :
        (NextRow(s, i, j) /\ tape[s][j].id # tape[s][i].id + 1) =>
          \/ \E k \in (i + 1)..(j - 1) :
               tape[s][k].what \in {"session", "reconnect"} /\ Shown(s, k)
          \/ /\ j < Len(tape[s])
             /\ tape[s][j + 1].what = "jump"
             /\ tape[s][j + 1].id = tape[s][i].id
             /\ Shown(s, j + 1)

\* No message is captured twice: what the successor replays of an overlap is
\* discarded by id (collector.py:437-466).
CapturedOnce ==
    \A s \in Counted \cup Rising : \A i, j \in DOMAIN tape[s] :
        NextRow(s, i, j) => tape[s][i].id < tape[s][j].id

\* Without a fault an overlapped handover loses nothing on any stream, those
\* whose holes cannot be seen included, as long as its drain caught up with
\* the predecessor (collector.py:308-314, 345-350).
HandoverLosesNothing ==
    (SupportsOverlap /\ faults = 0 /\ mishap = {}) =>
      \A s \in Streams : \A i, j \in DOMAIN tape[s] :
        NextRow(s, i, j) => tape[s][j].id = tape[s][i].id + 1

\* Every row on disk has its session's start marker on disk, whatever killed
\* the process and when, unless a write failed (collector.py:121-124, 232-233).
SessionBounded ==
    "write failed" \notin mishap =>
      \A s \in Streams : \A i, j \in DOMAIN tape[s] :
        (/\ tape[s][i].what = "session"
         /\ IsRow(s, j) /\ tape[s][j].at = "disk"
         /\ i < j
         /\ \A k \in (i + 1)..j : tape[s][k].what # "session")
        => tape[s][i].at = "disk"

\* Once reading has resumed, every outage that cost a tracked stream a message
\* has its reconnect record (collector.py:529-537).
Recorded(s, k) == \E i \in DOMAIN tape[s] :
    tape[s][i].what = "reconnect" /\ tape[s][i].id = k

OutageRecorded ==
    pc = "read" /\ ~down =>
      \A s \in Counted \cup Rising : \A k \in 1..outage :
        <<k, TRUE>> \in missed[s] => Recorded(s, k)

\* What was buffered is written or its process killed, unless a write failed
\* (collector.py:568-572).
BufferedIsWritten ==
    \A s \in Streams : \A i \in 1..MaxId :
        Pending(s, i) ~> (~Pending(s, i) \/ "write failed" \in mishap)

\* The collector gets back to reading from wherever faults leave it; no
\* handover, reconnect or drain stalls it (collector.py:388-390).
AlwaysReadsAgain == []<>(pc = "read")

\* README.md:62: "recording every gap so a hole in the tape is never silent":
\* every outage that cost a stream of this session a message is recorded.
NoSilentOutage ==
    pc = "read" /\ ~down =>
      \A s \in Streams : \A k \in 1..outage :
        (\E t \in BOOLEAN : <<k, t>> \in missed[s]) => Recorded(s, k)
=============================================================================
