--------------------------- MODULE CollectorProofs ---------------------------
(***************************************************************************)
(* What a streaming collector keeps true, for any sets of streams, any     *)
(* ceiling of a drain and any number of messages, handovers and faults,    *)
(* from CollectorAssumption.                                               *)
(*                                                                         *)
(* The properties speak of what a reader finds on the tape, but rows,      *)
(* jumps and markers stand in buffers when they are decided upon, and      *)
(* reach the disk or are lost later. So the invariant speaks of the tape   *)
(* with its places (HolesInv, SessionInv) and of what is still in the      *)
(* sockets: a message to be read is new or the overlap discards it         *)
(* (QueueInv), rows ascend up to where tracker and overlap stand           *)
(* (RowsInv), and without a fault every message after a stream's first     *)
(* row is on the tape or in the queue that is read next (WholeInv). A      *)
(* step is one of a few kinds: it adds records, moves buffers, receives,   *)
(* or reads one message (Adding, Settles and the lemmas after them), and   *)
(* each part of the invariant is shown for the kinds, not for the          *)
(* actions.                                                                *)
(***************************************************************************)
EXTENDS Collector, SequenceTheorems, TLAPS

-----------------------------------------------------------------------------
(* Tapes.                                                                  *)

\* The tape u holds what the tape t holds, wherever it is now, and after it no
\* further row and no jump.
Extends(t, u) ==
    \A s \in Streams :
        /\ Len(t[s]) <= Len(u[s])
        /\ \A i \in 1..Len(t[s]) : u[s][i].what = t[s][i].what /\ u[s][i].id = t[s][i].id
        /\ \A i \in (Len(t[s]) + 1)..Len(u[s]) : u[s][i].what \notin {"row", "jump"}

Tapes == [Streams -> Seq(Entries)]

\* The assumptions as they are used.
LEMMA Constants ==
  /\ DrainCeiling \in Nat \ {0} /\ MaxId \in Nat /\ MaxRecycles \in Nat /\ MaxFaults \in Nat
  /\ \A s \in Counted : s \notin Rising /\ s \notin Unsequenced
  /\ \A s \in Rising : s \notin Unsequenced
  /\ \A n \in 0..MaxId : n \in Nat
BY CollectorAssumption

\* The types as they are used.
LEMMA Typed ==
  ASSUME TypeOK
  PROVE  /\ tape \in Tapes /\ last \in [Streams -> 0..MaxId]
         /\ floor \in [Streams -> 0..MaxId] /\ sent \in [Streams -> 0..MaxId]
         /\ outage \in Nat
         /\ \A s \in Streams :
              /\ tape[s] \in Seq(Entries) /\ Len(tape[s]) \in Nat
              /\ DOMAIN tape[s] = 1..Len(tape[s])
              /\ last[s] \in Nat /\ floor[s] \in Nat /\ sent[s] \in Nat
         /\ \A s \in Streams : \A i \in 1..Len(tape[s]) : tape[s][i] \in Entries
<1>1. /\ tape \in Tapes /\ last \in [Streams -> 0..MaxId]
      /\ floor \in [Streams -> 0..MaxId] /\ sent \in [Streams -> 0..MaxId]
      /\ outage \in Nat
  BY DEF TypeOK, Tapes
<1>2. ASSUME NEW s \in Streams
      PROVE  /\ tape[s] \in Seq(Entries) /\ Len(tape[s]) \in Nat
             /\ DOMAIN tape[s] = 1..Len(tape[s])
             /\ \A i \in 1..Len(tape[s]) : tape[s][i] \in Entries
  BY <1>1 DEF Tapes
<1>3. ASSUME NEW s \in Streams PROVE last[s] \in Nat /\ floor[s] \in Nat /\ sent[s] \in Nat
  BY <1>1, Constants
<1> QED
  BY <1>1, <1>2, <1>3

\* What the entries are.
LEMMA EntryIs ==
  ASSUME NEW n \in Nat
  PROVE  /\ Row(n) \in Entries /\ Row(n).what = "row" /\ Row(n).id = n /\ Row(n).at = "buffer"
         /\ HandoverRecord(n) \in Entries /\ HandoverRecord(n).what = "handover"
         /\ HandoverRecord(n).at = "buffer"
         /\ SequenceJump(n) \in Entries /\ SequenceJump(n).what = "jump"
         /\ SequenceJump(n).id = n /\ SequenceJump(n).at = "buffer"
         /\ ReconnectGap(n) \in Entries /\ ReconnectGap(n).what = "reconnect"
         /\ ReconnectGap(n).id = n /\ ReconnectGap(n).at = "buffer"
         /\ \A e \in {"session", "stop"} :
              /\ SessionRecord(e) \in Entries /\ SessionRecord(e).what = e
              /\ SessionRecord(e).at = "buffer"
BY DEF Entries, Entry, Row, HandoverRecord, SequenceJump, ReconnectGap, SessionRecord

\* The place of an entry after the buffers in W reached disk and those in L
\* were lost (Settled).
Place(s, e, W, L) ==
    IF e.at # "buffer" THEN e.at
    ELSE IF KeyOf(s, e) \in W THEN "disk"
    ELSE IF KeyOf(s, e) \in L THEN "lost"
    ELSE "buffer"

\* Settling moves entries and changes nothing else.
LEMMA SettledIs ==
  ASSUME NEW t \in Tapes, NEW W, NEW L
  PROVE  /\ Settled(t, W, L) \in Tapes
         /\ \A s \in Streams :
              /\ Len(Settled(t, W, L)[s]) = Len(t[s])
              /\ \A i \in 1..Len(t[s]) :
                   /\ Settled(t, W, L)[s][i].what = t[s][i].what
                   /\ Settled(t, W, L)[s][i].id = t[s][i].id
                   /\ Settled(t, W, L)[s][i].at = Place(s, t[s][i], W, L)
         /\ Extends(t, Settled(t, W, L))
<1> DEFINE Moved(s, e) ==
             IF e.at # "buffer" THEN e
             ELSE IF KeyOf(s, e) \in W THEN [e EXCEPT !.at = "disk"]
             ELSE IF KeyOf(s, e) \in L THEN [e EXCEPT !.at = "lost"]
             ELSE e
           u == Settled(t, W, L)
<1>1. ASSUME NEW s, NEW e \in Entries
      PROVE  /\ Moved(s, e) \in Entries
             /\ Moved(s, e).what = e.what /\ Moved(s, e).id = e.id
             /\ Moved(s, e).at = Place(s, e, W, L)
  <2> DEFINE key == KeyOf(s, e)
  <2> HIDE DEF key
  <2>1. Moved(s, e) = IF e.at # "buffer" THEN e
                      ELSE IF key \in W THEN [e EXCEPT !.at = "disk"]
                      ELSE IF key \in L THEN [e EXCEPT !.at = "lost"]
                      ELSE e
    BY DEF key
  <2>2. Place(s, e, W, L) = IF e.at # "buffer" THEN e.at
                            ELSE IF key \in W THEN "disk"
                            ELSE IF key \in L THEN "lost"
                            ELSE "buffer"
    BY DEF key, Place
  <2> HIDE DEF Moved
  <2> QED
    BY <2>1, <2>2 DEF Entries
<1>2. u = [s \in Streams |-> [i \in DOMAIN t[s] |-> Moved(s, t[s][i])]]
  BY DEF Settled
<1> HIDE DEF Moved, u
<1>3. ASSUME NEW s \in Streams
      PROVE  /\ u[s] \in Seq(Entries) /\ Len(u[s]) = Len(t[s])
             /\ \A i \in 1..Len(t[s]) :
                  u[s][i].what = t[s][i].what /\ u[s][i].id = t[s][i].id
                  /\ u[s][i].at = Place(s, t[s][i], W, L)
  <2>1. t[s] \in Seq(Entries) /\ Len(t[s]) \in Nat /\ DOMAIN t[s] = 1..Len(t[s])
    BY DEF Tapes
  <2>2. u[s] = [i \in 1..Len(t[s]) |-> Moved(s, t[s][i])]
    BY <1>2, <2>1
  <2>3. \A i \in 1..Len(t[s]) : t[s][i] \in Entries
    BY <2>1
  <2>4. u[s] \in [1..Len(t[s]) -> Entries]
    BY <1>1, <2>2, <2>3
  <2>5. u[s] \in Seq(Entries) /\ Len(u[s]) = Len(t[s])
    BY <2>1, <2>4
  <2> QED
    BY <1>1, <2>2, <2>3, <2>5
<1>4. u \in Tapes
  BY <1>2, <1>3 DEF Tapes
<1>5. Extends(t, u)
  <2> SUFFICES ASSUME NEW s \in Streams
               PROVE  /\ Len(t[s]) <= Len(u[s])
                      /\ \A i \in 1..Len(t[s]) :
                           u[s][i].what = t[s][i].what /\ u[s][i].id = t[s][i].id
                      /\ \A i \in (Len(t[s]) + 1)..Len(u[s]) : u[s][i].what \notin {"row", "jump"}
    BY DEF Extends
  <2>1. Len(t[s]) \in Nat
    BY DEF Tapes
  <2> QED
    BY <1>3, <2>1
<1> QED
  BY <1>3, <1>4, <1>5 DEF u

\* A record of each of some streams.
LEMMA AddAllIs ==
  ASSUME NEW t \in Tapes, NEW S, NEW e \in Entries
  PROVE  /\ AddAll(t, S, e) \in Tapes
         /\ \A s \in Streams :
              AddAll(t, S, e)[s] = IF s \in S THEN Append(t[s], e) ELSE t[s]
         /\ e.what \notin {"row", "jump"} => Extends(t, AddAll(t, S, e))
<1> DEFINE u == AddAll(t, S, e)
<1>1. \A s \in Streams : u[s] = IF s \in S THEN Append(t[s], e) ELSE t[s]
  BY DEF AddAll
<1>2. u \in Tapes
  BY DEF AddAll, Tapes
<1> HIDE DEF u
<1>3. ASSUME e.what \notin {"row", "jump"} PROVE Extends(t, u)
  <2> SUFFICES ASSUME NEW s \in Streams
               PROVE  /\ Len(t[s]) <= Len(u[s])
                      /\ \A i \in 1..Len(t[s]) :
                           u[s][i].what = t[s][i].what /\ u[s][i].id = t[s][i].id
                      /\ \A i \in (Len(t[s]) + 1)..Len(u[s]) : u[s][i].what \notin {"row", "jump"}
    BY DEF Extends
  <2>1. t[s] \in Seq(Entries)
    BY DEF Tapes
  <2>2. CASE s \in S
    <3>1. u[s] = Append(t[s], e)
      BY <1>1, <2>2
    <3> QED
      BY <1>3, <2>1, <3>1
  <2>3. CASE s \notin S
    BY <1>1, <2>1, <2>3
  <2> QED
    BY <2>2, <2>3
<1> QED
  BY <1>1, <1>2, <1>3 DEF u

\* A tape extends itself, and what it extends.
LEMMA ExtendsItself == ASSUME NEW t \in Tapes PROVE Extends(t, t)
<1>1. \A s \in Streams : Len(t[s]) \in Nat
  BY DEF Tapes
<1> QED
  BY <1>1 DEF Extends

\* Extending is transitive.
LEMMA ExtendsOn ==
  ASSUME NEW t \in Tapes, NEW u \in Tapes, NEW v \in Tapes, Extends(t, u), Extends(u, v)
  PROVE  Extends(t, v)
<1> SUFFICES ASSUME NEW s \in Streams
             PROVE  /\ Len(t[s]) <= Len(v[s])
                    /\ \A i \in 1..Len(t[s]) :
                         v[s][i].what = t[s][i].what /\ v[s][i].id = t[s][i].id
                    /\ \A i \in (Len(t[s]) + 1)..Len(v[s]) : v[s][i].what \notin {"row", "jump"}
  BY DEF Extends
<1>1. Len(t[s]) \in Nat /\ Len(u[s]) \in Nat /\ Len(v[s]) \in Nat
  BY DEF Tapes
<1>2. /\ Len(t[s]) <= Len(u[s])
      /\ \A i \in 1..Len(t[s]) : u[s][i].what = t[s][i].what /\ u[s][i].id = t[s][i].id
      /\ \A i \in (Len(t[s]) + 1)..Len(u[s]) : u[s][i].what \notin {"row", "jump"}
  BY DEF Extends
<1>3. /\ Len(u[s]) <= Len(v[s])
      /\ \A i \in 1..Len(u[s]) : v[s][i].what = u[s][i].what /\ v[s][i].id = u[s][i].id
      /\ \A i \in (Len(u[s]) + 1)..Len(v[s]) : v[s][i].what \notin {"row", "jump"}
  BY DEF Extends
<1>4. /\ Len(t[s]) <= Len(v[s])
      /\ \A i \in 1..Len(t[s]) : i \in 1..Len(u[s])
      /\ \A i \in (Len(t[s]) + 1)..Len(v[s]) :
           \/ i \in (Len(t[s]) + 1)..Len(u[s]) /\ i \in 1..Len(u[s])
           \/ i \in (Len(u[s]) + 1)..Len(v[s])
  BY <1>1, <1>2, <1>3
<1> QED
  BY <1>2, <1>3, <1>4

\* The records of the open overlaps.
LEMMA CloseOutIs ==
  ASSUME TypeOK
  PROVE  /\ CloseOut \in Tapes
         /\ \A s \in Streams :
              CloseOut[s] = IF floor[s] # 0 THEN Append(tape[s], HandoverRecord(floor[s]))
                            ELSE tape[s]
         /\ Extends(tape, CloseOut)
<1> DEFINE u == CloseOut
<1>1. \A s \in Streams :
        u[s] = IF floor[s] # 0 THEN Append(tape[s], HandoverRecord(floor[s])) ELSE tape[s]
  BY DEF CloseOut
<1>2. \A s \in Streams : tape[s] \in Seq(Entries) /\ HandoverRecord(floor[s]) \in Entries
  BY Typed, EntryIs
<1>3. u \in Tapes
  BY <1>2 DEF CloseOut, Tapes
<1> HIDE DEF u
<1>4. Extends(tape, u)
  <2> SUFFICES ASSUME NEW s \in Streams
               PROVE  /\ Len(tape[s]) <= Len(u[s])
                      /\ \A i \in 1..Len(tape[s]) :
                           u[s][i].what = tape[s][i].what /\ u[s][i].id = tape[s][i].id
                      /\ \A i \in (Len(tape[s]) + 1)..Len(u[s]) : u[s][i].what \notin {"row", "jump"}
    BY DEF Extends
  <2>1. HandoverRecord(floor[s]).what = "handover"
    BY DEF HandoverRecord, Entry
  <2>2. CASE floor[s] # 0
    <3>1. u[s] = Append(tape[s], HandoverRecord(floor[s]))
      BY <1>1, <2>2
    <3> QED
      BY <1>2, <2>1, <3>1
  <2>3. CASE floor[s] = 0
    BY <1>1, <1>2, <2>3
  <2> QED
    BY <2>2, <2>3
<1> QED
  BY <1>1, <1>3, <1>4 DEF u

-----------------------------------------------------------------------------
(* Steps: a message handled, and everything else.                          *)

\* Row n of stream s goes to place k of its tape; at most a handover record comes
\* before it and a jump after it.
Takes(s, n, k) ==
    /\ k \in {Len(tape[s]) + 1, Len(tape[s]) + 2}
    /\ Len(tape'[s]) = IF Jumps(s, n) THEN k + 1 ELSE k
    /\ \A i \in 1..Len(tape[s]) : tape'[s][i] = tape[s][i]
    /\ tape'[s][k] = Row(n)
    /\ \A i \in (Len(tape[s]) + 1)..Len(tape'[s]) :
         /\ i < k => tape'[s][i] = HandoverRecord(floor[s])
         /\ i > k => tape'[s][i] = SequenceJump(last[s])
    /\ \A r \in Streams \ {s} : tape'[r] = tape[r]
    /\ last' = [last EXCEPT ![s] = Position(s, n)]
    /\ floor' = [floor EXCEPT ![s] = 0]

\* The kinds of streams are apart.
LEMMA PositionIs ==
  ASSUME NEW s \in Streams, NEW n
  PROVE  /\ s \in Counted => Position(s, n) = n
         /\ s \in Rising => Position(s, n) = IF n > last[s] THEN n ELSE last[s]
         /\ s \in Unsequenced => Position(s, n) = 0
<1>1. /\ s \in Counted => s \notin Rising /\ s \notin Unsequenced
      /\ s \in Rising => s \notin Unsequenced
  BY CollectorAssumption
<1> QED
  BY <1>1, Zenon DEF Position

\* What is joined to a sequence comes after it.
LEMMA JoinIs ==
  ASSUME NEW S, NEW a \in Seq(S), NEW b \in Seq(S)
  PROVE  /\ Len(a) \in Nat /\ Len(b) \in Nat
         /\ a \o b \in Seq(S) /\ Len(a \o b) = Len(a) + Len(b)
         /\ \A i \in 1..Len(a) : (a \o b)[i] = a[i]
         /\ \A i \in 1..Len(b) : (a \o b)[Len(a) + i] = b[i]
<1>1. Len(a) \in Nat /\ Len(b) \in Nat
  OBVIOUS
<1>2. /\ a \o b \in Seq(S) /\ Len(a \o b) = Len(a) + Len(b)
      /\ \A i \in 1..Len(a) : (a \o b)[i] = a[i]
  OBVIOUS
<1>3. ASSUME NEW i \in 1..Len(b) PROVE (a \o b)[Len(a) + i] = b[i]
  <2>1. /\ Len(a) + i \in 1..(Len(a) + Len(b)) /\ ~(Len(a) + i <= Len(a))
        /\ Len(a) + i - Len(a) = i
    BY <1>1
  <2>2. \A j \in 1..(Len(a) + Len(b)) :
          (a \o b)[j] = IF j <= Len(a) THEN a[j] ELSE b[j - Len(a)]
    BY ConcatProperties
  <2> QED
    BY <2>1, <2>2
<1> QED
  BY <1>1, <1>2, <1>3

\* Four sequences joined.
LEMMA JoinFour ==
  ASSUME NEW S, NEW a \in Seq(S), NEW b \in Seq(S), NEW c \in Seq(S), NEW d \in Seq(S),
         NEW whole, whole = a \o b \o c \o d
  PROVE  /\ whole \in Seq(S) /\ Len(whole) = Len(a) + Len(b) + Len(c) + Len(d)
         /\ \A i \in 1..Len(a) : whole[i] = a[i]
         /\ \A i \in 1..Len(b) : whole[Len(a) + i] = b[i]
         /\ \A i \in 1..Len(c) : whole[Len(a) + Len(b) + i] = c[i]
         /\ \A i \in 1..Len(d) : whole[Len(a) + Len(b) + Len(c) + i] = d[i]
<1> DEFINE x == a \o b
           y == x \o c
           z == y \o d
<1> DEFINE m == Len(a)
           n == Len(b)
           q == Len(c)
           o == Len(d)
<1>0. m \in Nat /\ n \in Nat /\ q \in Nat /\ o \in Nat
  OBVIOUS
<1>1. /\ x \in Seq(S) /\ Len(x) = m + n
      /\ \A i \in 1..m : x[i] = a[i]
      /\ \A i \in 1..n : x[m + i] = b[i]
  BY JoinIs
<1> HIDE DEF x
<1>2. /\ y \in Seq(S) /\ Len(y) = m + n + q
      /\ \A i \in 1..(m + n) : y[i] = x[i]
      /\ \A i \in 1..q : y[m + n + i] = c[i]
  <2>1. x \in Seq(S)
    BY <1>1
  <2>2. /\ x \o c \in Seq(S) /\ Len(x \o c) = Len(x) + Len(c)
        /\ \A i \in 1..Len(x) : (x \o c)[i] = x[i]
        /\ \A i \in 1..Len(c) : (x \o c)[Len(x) + i] = c[i]
    BY <2>1, JoinIs
  <2>3. y = x \o c
    OBVIOUS
  <2> HIDE DEF y
  <2>4. /\ y \in Seq(S) /\ Len(y) = Len(x) + Len(c)
        /\ \A i \in 1..Len(x) : y[i] = x[i]
        /\ \A i \in 1..Len(c) : y[Len(x) + i] = c[i]
    BY <2>2, <2>3, Zenon
  <2> QED
    BY <1>1, <2>4
<1> HIDE DEF y
<1>3. /\ z \in Seq(S) /\ Len(z) = m + n + q + o
      /\ \A i \in 1..(m + n + q) : z[i] = y[i]
      /\ \A i \in 1..o : z[m + n + q + i] = d[i]
  <2>1. y \in Seq(S)
    BY <1>2
  <2>2. /\ y \o d \in Seq(S) /\ Len(y \o d) = Len(y) + Len(d)
        /\ \A i \in 1..Len(y) : (y \o d)[i] = y[i]
        /\ \A i \in 1..Len(d) : (y \o d)[Len(y) + i] = d[i]
    BY <2>1, JoinIs
  <2>3. z = y \o d
    OBVIOUS
  <2> HIDE DEF z
  <2>4. /\ z \in Seq(S) /\ Len(z) = Len(y) + Len(d)
        /\ \A i \in 1..Len(y) : z[i] = y[i]
        /\ \A i \in 1..Len(d) : z[Len(y) + i] = d[i]
    BY <2>2, <2>3, Zenon
  <2> QED
    BY <1>2, <2>4
<1>4. z = whole
  BY DEF x, y
<1> HIDE DEF z
<1> HIDE DEF m, n, q, o
<1>5. \A i \in 1..m : i \in 1..(m + n) /\ i \in 1..(m + n + q)
  BY <1>0
<1>6. \A i \in 1..n : m + i \in 1..(m + n) /\ m + i \in 1..(m + n + q)
  BY <1>0
<1>7. \A i \in 1..q : m + n + i \in 1..(m + n + q)
  BY <1>0
<1>8. /\ whole \in Seq(S) /\ Len(whole) = m + n + q + o
      /\ \A i \in 1..m : whole[i] = a[i]
      /\ \A i \in 1..n : whole[m + i] = b[i]
      /\ \A i \in 1..q : whole[m + n + i] = c[i]
      /\ \A i \in 1..o : whole[m + n + q + i] = d[i]
  BY <1>0, <1>1, <1>2, <1>3, <1>4, <1>5, <1>6, <1>7
<1> QED
  BY <1>8 DEF m, n, q, o

\* What _handle does.
LEMMA HandleIs ==
  ASSUME TypeOK, NEW s \in Streams, NEW n \in 1..MaxId, Handle(s, n)
  PROVE  /\ tape' \in Tapes /\ last' \in [Streams -> 0..MaxId]
         /\ floor' \in [Streams -> 0..MaxId]
         /\ \/ IsOverlapDuplicate(s, n) /\ UNCHANGED <<tape, last, floor>>
            \/ ~IsOverlapDuplicate(s, n) /\ \E k \in Nat : Takes(s, n, k)
<1>1. CASE IsOverlapDuplicate(s, n)
  BY <1>1 DEF Handle, TypeOK, Tapes
<1>2. CASE ~IsOverlapDuplicate(s, n)
  <2> DEFINE before == IF floor[s] # 0 THEN <<HandoverRecord(floor[s])>> ELSE <<>>
             after == IF Jumps(s, n) THEN <<SequenceJump(last[s])>> ELSE <<>>
             l == Len(tape[s])
             k == IF floor[s] # 0 THEN l + 2 ELSE l + 1
  <2>1. /\ tape' = [tape EXCEPT ![s] = @ \o before \o <<Row(n)>> \o after]
        /\ last' = [last EXCEPT ![s] = Position(s, n)]
        /\ floor' = [floor EXCEPT ![s] = 0]
    BY <1>2 DEF Handle
  <2>2. /\ HandoverRecord(floor[s]) \in Entries /\ Row(n) \in Entries
        /\ SequenceJump(last[s]) \in Entries
    BY Typed, EntryIs, Constants
  <2>3. tape \in Tapes /\ tape[s] \in Seq(Entries) /\ l \in Nat
    BY Typed
  <2>4. Position(s, n) \in 0..MaxId
    <3>1. last[s] \in 0..MaxId /\ 0 \in 0..MaxId /\ n \in 0..MaxId
      BY Typed, Constants
    <3> QED
      BY <3>1, PositionIs DEF Streams
  <2> DEFINE whole == tape[s] \o before \o <<Row(n)>> \o after
  <2>5. /\ before \in Seq(Entries) /\ after \in Seq(Entries)
        /\ <<Row(n)>> \in Seq(Entries)
        /\ Len(before) = (IF floor[s] # 0 THEN 1 ELSE 0)
        /\ Len(after) = (IF Jumps(s, n) THEN 1 ELSE 0)
        /\ floor[s] # 0 => before[1] = HandoverRecord(floor[s])
        /\ Jumps(s, n) => after[1] = SequenceJump(last[s])
    <3> HIDE DEF Jumps
    <3> QED
      BY <2>2
  <2>7. tape' = [tape EXCEPT ![s] = whole]
    BY <2>1
  <2>8. tape'[s] = whole /\ \A r \in Streams \ {s} : tape'[r] = tape[r]
    BY <2>7, <2>3 DEF Tapes
  <2> HIDE DEF before, after
  <2> DEFINE m == Len(before)
             r == Len(after)
  <2>6. /\ m \in Nat /\ r \in Nat /\ whole \in Seq(Entries) /\ Len(whole) = l + m + 1 + r
        /\ \A i \in 1..l : whole[i] = tape[s][i]
        /\ m = 1 => whole[l + 1] = before[1]
        /\ whole[l + m + 1] = Row(n)
        /\ r = 1 => whole[l + m + 2] = after[1]
    <3> DEFINE one == <<Row(n)>>
    <3>1. one \in Seq(Entries) /\ Len(one) = 1 /\ one[1] = Row(n)
      BY <2>5
    <3>2. whole = tape[s] \o before \o one \o after
      OBVIOUS
    <3> HIDE DEF whole, one
    <3>3. /\ l \in Nat /\ m \in Nat /\ r \in Nat
          /\ whole \in Seq(Entries) /\ Len(whole) = l + m + 1 + r
          /\ \A i \in 1..l : whole[i] = tape[s][i]
          /\ \A i \in 1..m : whole[l + i] = before[i]
          /\ \A i \in 1..1 : whole[l + m + i] = one[i]
          /\ \A i \in 1..r : whole[l + m + 1 + i] = after[i]
      <4>1. /\ tape[s] \in Seq(Entries) /\ before \in Seq(Entries)
            /\ one \in Seq(Entries) /\ after \in Seq(Entries)
        BY <2>3, <2>5, <3>1
      <4>2. /\ whole \in Seq(Entries)
            /\ Len(whole) = Len(tape[s]) + Len(before) + Len(one) + Len(after)
            /\ \A i \in 1..Len(tape[s]) : whole[i] = tape[s][i]
            /\ \A i \in 1..Len(before) : whole[Len(tape[s]) + i] = before[i]
            /\ \A i \in 1..Len(one) : whole[Len(tape[s]) + Len(before) + i] = one[i]
            /\ \A i \in 1..Len(after) :
                 whole[Len(tape[s]) + Len(before) + Len(one) + i] = after[i]
        BY <3>2, <4>1, JoinFour
      <4> QED
        <5>1. l \in Nat /\ m \in Nat /\ r \in Nat
          BY <4>1 DEF l, m, r
        <5>2. Len(one) = 1
          BY <3>1
        <5>3. /\ Len(whole) = l + m + Len(one) + r
              /\ \A i \in 1..l : whole[i] = tape[s][i]
              /\ \A i \in 1..m : whole[l + i] = before[i]
              /\ \A i \in 1..Len(one) : whole[l + m + i] = one[i]
              /\ \A i \in 1..r : whole[l + m + Len(one) + i] = after[i]
          BY <4>2 DEF l, m, r
        <5> HIDE DEF l, m, r
        <5>4. /\ Len(whole) = l + m + 1 + r
              /\ \A i \in 1..1 : whole[l + m + i] = one[i]
              /\ \A i \in 1..r : whole[l + m + 1 + i] = after[i]
          BY <5>2, <5>3, Zenon
        <5> QED
          BY <4>2, <5>1, <5>3, <5>4
    <3> HIDE DEF l, m, r
    <3>4. l + m + 1 + 1 = l + m + 2
      BY <3>3
    <3> QED
      BY <3>1, <3>3, <3>4
  <2> HIDE DEF whole, m, r
  <2>60. k = l + m + 1 /\ k \in Nat /\ r = IF Jumps(s, n) THEN 1 ELSE 0
    <3> HIDE DEF Jumps, l
    <3> QED
      BY <2>3, <2>5 DEF m, r
  <2>9. tape' \in Tapes
    BY <2>3, <2>6, <2>7 DEF Tapes
  <2>10. last' \in [Streams -> 0..MaxId] /\ floor' \in [Streams -> 0..MaxId]
    <3>1. 0 \in 0..MaxId
      BY Constants
    <3> QED
      BY <2>1, <2>4, <3>1, Typed
  <2>11. k \in Nat /\ k \in {l + 1, l + 2}
    BY <2>3
  <2>12. Takes(s, n, k)
    <3>1. Len(whole) = IF Jumps(s, n) THEN k + 1 ELSE k
      <4> HIDE DEF Jumps, k, l
      <4> QED
        BY <2>3, <2>6, <2>60
    <3>2. ASSUME NEW i \in (l + 1)..Len(whole)
          PROVE  /\ i < k => whole[i] = HandoverRecord(floor[s])
                 /\ i > k => whole[i] = SequenceJump(last[s])
      <4> HIDE DEF Jumps
      <4>1. CASE i < k
        <5>1. floor[s] # 0 /\ i = l + 1
          BY <2>3, <4>1
        <5> QED
          BY <5>1, <2>5, <2>6, <2>60, <4>1, <2>3 DEF m
      <4>2. CASE i > k
        <5>1. Jumps(s, n) /\ i = k + 1
          BY <2>3, <2>11, <3>1, <4>2
        <5> QED
          BY <5>1, <2>5, <2>6, <2>60, <4>2, <2>11, <2>3 DEF r
      <4> QED
        BY <4>1, <4>2
    <3> HIDE DEF k
    <3> QED
      BY <2>1, <2>6, <2>8, <2>11, <2>60, <3>1, <3>2 DEF Takes
  <2> QED
    BY <1>2, <2>9, <2>10, <2>11, <2>12
<1> QED
  BY <1>1, <1>2

\* The message at the head of a queue.
LEMMA HeadIs ==
  ASSUME TypeOK, ws.queue # <<>>
  PROVE  /\ Head(ws.queue) \in Msg /\ Head(ws.queue)[1] \in Streams
         /\ Head(ws.queue)[2] \in 1..MaxId
         /\ Tail(ws.queue) \in Seq(Msg)
         /\ Len(Tail(ws.queue)) = Len(ws.queue) - 1 /\ Len(ws.queue) \in Nat \ {0}
         /\ Head(ws.queue) = ws.queue[1]
         /\ \A i \in 1..Len(Tail(ws.queue)) : Tail(ws.queue)[i] = ws.queue[i + 1]
<1>1. ws.queue \in Seq(Msg)
  BY DEF TypeOK, Socket
<1>2. Head(ws.queue) \in Msg /\ Tail(ws.queue) \in Seq(Msg)
  BY <1>1, HeadTailProperties
<1> QED
  BY <1>1, <1>2 DEF Msg

\* The tape that a stop leaves extends the tape.
LEMMA StoppedIs ==
  ASSUME TypeOK
  PROVE  /\ Stopped \in Tapes /\ Extends(tape, Stopped)
         /\ \A s \in Streams : Stopped[s] = Append(CloseOut[s], SessionRecord("stop"))
<1>1. SessionRecord("stop") \in Entries /\ SessionRecord("stop").what \notin {"row", "jump"}
  BY EntryIs
<1>2. CloseOut \in Tapes /\ Extends(tape, CloseOut) /\ tape \in Tapes
  BY CloseOutIs, Typed
<1>3. /\ Stopped \in Tapes /\ Extends(CloseOut, Stopped)
      /\ \A s \in Streams : Stopped[s] = Append(CloseOut[s], SessionRecord("stop"))
  BY <1>1, <1>2, AddAllIs DEF Stopped
<1> QED
  BY <1>2, <1>3, ExtendsOn

\* A step adds no row, or handles the message at the head of the queue.
LEMMA StepOf ==
  ASSUME TypeOK, [Next]_vars
  PROVE  /\ tape' \in Tapes
         /\ \/ Extends(tape, tape') /\ ~Read /\ ~Drain
            \/ /\ Read \/ Drain
               /\ ws.queue # <<>>
               /\ Handle(Head(ws.queue)[1], Head(ws.queue)[2])
<1>0. tape \in Tapes /\ Extends(tape, tape)
  BY Typed, ExtendsItself
<1>1. CASE Read \/ Drain
  <2>1. ws.queue # <<>> /\ Handle(Head(ws.queue)[1], Head(ws.queue)[2])
    BY <1>1 DEF Read, Drain, DrainGoesOn
  <2> QED
    BY <1>1, <2>1, HeadIs, HandleIs
<1> DEFINE Good == tape' \in Tapes /\ Extends(tape, tape')
<1>3. ASSUME UNCHANGED vars PROVE Good
  BY <1>0, <1>3 DEF vars
<1>4. ASSUME NEW st \in Streams, Emit(st) \/ VenueSkips(st) PROVE Good
  BY <1>0, <1>4 DEF Emit, VenueSkips
<1>5. ASSUME SocketEnds PROVE Good
  BY <1>0, <1>5 DEF SocketEnds
<1>6. ASSUME Connect \/ OpenSuccessor \/ SuccessorFails \/ Waits PROVE Good
  BY <1>0, <1>6 DEF Connect, OpenSuccessor, SuccessorFails, Waits, vars
<1>7. ASSUME ConnectFails \/ ReadEnds \/ CloseThenReopen \/ TimerFlush PROVE Good
  <2>1. tape' = Settled(tape, Keys, {})
    BY <1>7 DEF ConnectFails, ReadEnds, CloseThenReopen, TimerFlush, Flushed
  <2> QED
    BY <1>0, <2>1, SettledIs
<1>8. ASSUME StartProcess PROVE Good
  <2>1. tape' = AddAll(tape, Streams, SessionRecord("session"))
    BY <1>8 DEF StartProcess
  <2>2. SessionRecord("session") \in Entries /\ SessionRecord("session").what \notin {"row", "jump"}
    BY EntryIs
  <2> QED
    BY <1>0, <2>1, <2>2, AddAllIs
<1>9. ASSUME Ritual PROVE Good
  <2>1. CASE tape' = tape
    BY <1>0, <2>1
  <2>2. CASE tape' = AddAll(tape, TrackedStreams, ReconnectGap(outage))
    <3>1. ReconnectGap(outage) \in Entries /\ ReconnectGap(outage).what \notin {"row", "jump"}
      BY Typed, EntryIs
    <3> QED
      BY <1>0, <2>2, <3>1, AddAllIs
  <2> QED
    BY <1>9, <2>1, <2>2 DEF Ritual, OnConnected
<1>10. ASSUME ReadEndsUnsaved PROVE Good
  <2>1. PICK W \in SUBSET Keys, k \in Keys : tape' = Settled(tape, Keys \ {k}, {k})
    BY <1>10 DEF ReadEndsUnsaved
  <2> QED
    BY <1>0, <2>1, SettledIs
<1>11. ASSUME FinishHandover PROVE Good
  BY <1>11, CloseOutIs DEF FinishHandover
<1>12. ASSUME TimerFlushFails PROVE Good
  <2>1. PICK W \in SUBSET Keys, k \in Keys : tape' = Settled(tape, W, {k})
    BY <1>12 DEF TimerFlushFails
  <2> QED
    BY <1>0, <2>1, SettledIs
<1>13. Stopped \in Tapes /\ Extends(tape, Stopped)
  BY StoppedIs
<1>14. ASSUME StopProcess PROVE Good
  <2>1. tape' = Settled(Stopped, Keys, {})
    BY <1>14 DEF StopProcess, Flushed
  <2>2. tape' \in Tapes /\ Extends(Stopped, tape')
    BY <1>13, <2>1, SettledIs
  <2> QED
    BY <1>0, <1>13, <2>2, ExtendsOn
<1>15. ASSUME Dies PROVE Good
  <2>1. PICK L \in (SUBSET Keys) \ {{}} : tape' = Settled(Stopped, Keys \ L, L)
    BY <1>15 DEF Dies
  <2>2. tape' \in Tapes /\ Extends(Stopped, tape')
    BY <1>13, <2>1, SettledIs
  <2> QED
    BY <1>0, <1>13, <2>2, ExtendsOn
<1>16. ASSUME Kill PROVE Good
  <2>1. PICK W \in PartialFlush : tape' = Settled(tape, W, Keys \ W)
    BY <1>16 DEF Kill
  <2> QED
    BY <1>0, <2>1, SettledIs
<1> HIDE DEF Good
<1>17. Read \/ Drain \/ Good
  BY <1>3, <1>4, <1>5, <1>6, <1>7, <1>8, <1>9, <1>10, <1>11, <1>12, <1>14, <1>15, <1>16
  DEF Next, Venue, Run, Tasks
<1> QED
  BY <1>1, <1>17 DEF Good

-----------------------------------------------------------------------------
(* Types.                                                                  *)

\* What a socket receives leaves it a socket.
LEMMA ReceiveIs ==
  ASSUME NEW sock \in Socket, NEW s \in Streams, NEW n \in 1..MaxId
  PROVE  /\ Receive(sock, s, n) \in Socket
         /\ Receive(sock, s, n).open = sock.open
         /\ Receive(sock, s, n).queue =
              IF sock.open THEN Append(sock.queue, <<s, n>>) ELSE sock.queue
<1>1. <<s, n>> \in Msg
  BY DEF Msg
<1>2. sock.queue \in Seq(Msg) /\ sock.open \in BOOLEAN
  BY DEF Socket
<1>3. Append(sock.queue, <<s, n>>) \in Seq(Msg)
  BY <1>1, <1>2
<1> QED
  BY <1>2, <1>3 DEF Receive, Socket

\* What the streams miss is typed.
LEMMA MissIs ==
  ASSUME TypeOK, NEW S, NEW k \in Nat, Miss(S, k)
  PROVE  missed' \in [Streams -> SUBSET (Nat \X BOOLEAN)]
<1>1. missed \in [Streams -> SUBSET (Nat \X BOOLEAN)]
  BY DEF TypeOK
<1>2. \A s \in Streams : <<k, last[s] # 0>> \in Nat \X BOOLEAN
  OBVIOUS
<1> QED
  BY <1>1, <1>2 DEF Miss

Places == {"down", "connect", "ritual", "read", "recycle", "handover", "drain"}

\* Type correctness without the tape and the positions.
Rest ==
    /\ sent \in [Streams -> 0..MaxId]
    /\ ws \in Socket /\ succ \in Socket
    /\ pc \in Places
    /\ caughtUp \in BOOLEAN /\ drained \in 0..DrainCeiling
    /\ down \in BOOLEAN /\ flusher \in BOOLEAN
    /\ outage \in Nat
    /\ missed \in [Streams -> SUBSET (Nat \X BOOLEAN)]
    /\ mishap \subseteq {"write failed", "killed mid-flush", "drain cut"}
    /\ recycles \in 0..MaxRecycles /\ faults \in 0..MaxFaults

Positions == last \in [Streams -> 0..MaxId] /\ floor \in [Streams -> 0..MaxId]

\* TypeOK is these three.
LEMMA TypeParts == TypeOK <=> tape \in Tapes /\ Rest /\ Positions
BY DEF TypeOK, Tapes, Rest, Positions, Places

\* Every step keeps the types.
LEMMA TypeStep ==
  ASSUME TypeOK, [Next]_vars
  PROVE  TypeOK'
<1>0. /\ tape \in Tapes /\ Rest /\ Positions /\ tape' \in Tapes
      /\ \A n \in 0..MaxFaults : n < MaxFaults => n + 1 \in 0..MaxFaults
      /\ NoSocket \in Socket /\ [open |-> TRUE, queue |-> <<>>] \in Socket
      /\ 0 \in 0..MaxId /\ 0 \in 0..DrainCeiling /\ MaxId \in Nat
      /\ \A n \in 0..MaxId : n < MaxId => n + 1 \in 1..MaxId /\ n + 1 \in 0..MaxId
      /\ [s \in Streams |-> 0] \in [Streams -> 0..MaxId]
      /\ Outage \in Nat
  <2>1. NoSocket \in Socket /\ [open |-> TRUE, queue |-> <<>>] \in Socket
    BY DEF NoSocket, Socket
  <2>2. Outage \in Nat
    BY Typed DEF Outage
  <2>3. tape \in Tapes /\ Rest /\ Positions /\ tape' \in Tapes
    BY TypeParts, StepOf
  <2> QED
    BY <2>1, <2>2, <2>3, Constants
<1> DEFINE Good == Rest' /\ Positions'
<1>3. ASSUME UNCHANGED vars PROVE Good
  BY <1>0, <1>3 DEF vars, Rest, Positions
<1>4. ASSUME NEW s \in Streams, Emit(s) PROVE Good
  <2>1. sent[s] + 1 \in 1..MaxId /\ sent[s] + 1 \in 0..MaxId
    BY <1>0, <1>4 DEF Emit, Rest
  <2>2. ws' \in Socket /\ succ' \in Socket
    BY <1>0, <1>4, <2>1, ReceiveIs DEF Emit, Rest
  <2>3. missed' \in [Streams -> SUBSET (Nat \X BOOLEAN)]
    BY <1>0, <1>4, MissIs DEF Emit, Rest
  <2>4. sent' \in [Streams -> 0..MaxId]
    BY <1>0, <1>4, <2>1 DEF Emit, Rest
  <2> QED
    BY <1>0, <1>4, <2>2, <2>3, <2>4 DEF Emit, Rest, Positions, drain
<1>5. ASSUME NEW s \in Streams, VenueSkips(s) PROVE Good
  <2>1. sent[s] + 1 \in 1..MaxId /\ sent[s] + 1 \in 0..MaxId
    BY <1>0, <1>5 DEF VenueSkips, Rest
  <2>2. succ' \in Socket
    BY <1>0, <1>5, <2>1, ReceiveIs DEF VenueSkips, Rest
  <2>4. sent' \in [Streams -> 0..MaxId]
    BY <1>0, <1>5, <2>1 DEF VenueSkips, Rest
  <2>5. faults' \in 0..MaxFaults
    BY <1>0, <1>5 DEF VenueSkips, Fault, Rest
  <2> QED
    BY <1>0, <1>5, <2>2, <2>4, <2>5 DEF VenueSkips, Rest, Positions, drain, history
<1>6. ASSUME SocketEnds PROVE Good
  <2>1. faults' \in 0..MaxFaults /\ ws' \in Socket
    BY <1>0, <1>6 DEF SocketEnds, Fault, Rest, Socket
  <2> QED
    BY <1>0, <1>6, <2>1 DEF SocketEnds, Rest, Positions, drain, history, venue
<1>7. ASSUME StartProcess PROVE Good
  BY <1>0, <1>7 DEF StartProcess, Rest, Positions, Places, drain, history, venue, sockets
<1>8. ASSUME Connect PROVE Good
  BY <1>0, <1>8 DEF Connect, Rest, Positions, Places, drain, history, venue
<1>9. ASSUME ConnectFails PROVE Good
  BY <1>0, <1>9 DEF ConnectFails, MarkDown, Fault, Rest, Positions, drain, venue, sockets
<1>10. ASSUME Ritual PROVE Good
  <2>1. down' \in BOOLEAN /\ last' \in [Streams -> 0..MaxId]
    BY <1>0, <1>10 DEF Ritual, OnConnected, Rest, Positions
  <2> QED
    BY <1>0, <1>10, <2>1
    DEF Ritual, Rest, Positions, Places, drain, history, venue, sockets
<1>11. ASSUME Read PROVE Good
  <2>1. Positions' /\ Tail(ws.queue) \in Seq(Msg)
    BY <1>11, HeadIs, HandleIs DEF Read, Positions
  <2>2. ws' \in Socket
    BY <1>0, <1>11, <2>1 DEF Read, Rest, Socket
  <2>3. pc' \in Places /\ recycles' \in 0..MaxRecycles
    <3>1. \/ pc' = pc /\ recycles' = recycles
          \/ /\ recycles < MaxRecycles /\ recycles' = recycles + 1
             /\ pc' = IF SupportsOverlap THEN "handover" ELSE "recycle"
      BY <1>11, Zenon DEF Read, ShouldRecycle
    <3>2. pc \in Places /\ recycles \in 0..MaxRecycles
      BY <1>0 DEF Rest
    <3>3. recycles < MaxRecycles => recycles + 1 \in 0..MaxRecycles
      BY <3>2, Constants
    <3> QED
      BY <3>1, <3>2, <3>3 DEF Places
  <2> QED
    BY <1>0, <1>11, <2>1, <2>2, <2>3 DEF Read, Rest, drain, history, venue
<1>12. ASSUME ReadEnds PROVE Good
  BY <1>0, <1>12 DEF ReadEnds, MarkDown, Rest, Positions, Places, drain, venue, sockets
<1>13. ASSUME ReadEndsUnsaved PROVE Good
  <2>1. PICK W \in SUBSET Keys, k \in Keys : WriteFails(W, k)
    BY <1>13 DEF ReadEndsUnsaved
  <2>2. mishap' = mishap \cup {"write failed"}
    BY <2>1 DEF WriteFails
  <2>3. faults' \in 0..MaxFaults
    BY <1>0, <1>13 DEF ReadEndsUnsaved, Fault, Rest
  <2> QED
    BY <1>0, <1>13, <2>2, <2>3
    DEF ReadEndsUnsaved, MarkDown, Rest, Positions, Places, drain, venue, sockets
<1>14. ASSUME CloseThenReopen PROVE Good
  <2>1. missed' \in [Streams -> SUBSET (Nat \X BOOLEAN)]
    BY <1>0, <1>14, MissIs DEF CloseThenReopen
  <2> QED
    BY <1>0, <1>14, <2>1
    DEF CloseThenReopen, MarkDown, Rest, Positions, Places, drain, venue
<1>15. ASSUME OpenSuccessor PROVE Good
  BY <1>0, <1>15 DEF OpenSuccessor, Rest, Positions, Places, history, venue
<1>16. ASSUME SuccessorFails PROVE Good
  BY <1>0, <1>16
  DEF SuccessorFails, Fault, Rest, Positions, Places, drain, history, venue, sockets
<1>17. ASSUME Drain PROVE Good
  <2>1. Positions' /\ Tail(ws.queue) \in Seq(Msg)
    BY <1>17, HeadIs, HandleIs DEF Drain, DrainGoesOn, Positions
  <2>2. ws' \in Socket
    BY <1>0, <1>17, <2>1 DEF Drain, Rest, Socket
  <2>3. drained' \in 0..DrainCeiling /\ caughtUp' \in BOOLEAN
    <3>1. /\ drained < DrainCeiling /\ drained' = drained + 1
          /\ caughtUp' = (caughtUp \/ Tail(ws.queue) = <<>>)
      BY <1>17 DEF Drain, DrainGoesOn
    <3>2. drained \in 0..DrainCeiling
      BY <1>0 DEF Rest
    <3> QED
      BY <3>1, <3>2, Constants
  <2> QED
    BY <1>0, <1>17, <2>1, <2>2, <2>3 DEF Drain, Rest, history, venue
<1>18. ASSUME FinishHandover PROVE Good
  <2>1. mishap' \subseteq {"write failed", "killed mid-flush", "drain cut"}
    BY <1>0, <1>18 DEF FinishHandover, Rest
  <2> QED
    BY <1>0, <1>18, <2>1
    DEF FinishHandover, OverlapFloor, Rest, Positions, Places, venue
<1>19. ASSUME Waits PROVE Good
  BY <1>3, <1>19 DEF Waits
<1>20. ASSUME TimerFlush PROVE Good
  BY <1>0, <1>20 DEF TimerFlush, Rest, Positions, drain, history, venue, sockets
<1>21. ASSUME TimerFlushFails PROVE Good
  <2>1. PICK W \in SUBSET Keys, k \in Keys : WriteFails(W, k)
    BY <1>21 DEF TimerFlushFails
  <2>2. mishap' = mishap \cup {"write failed"}
    BY <2>1 DEF WriteFails
  <2>3. faults' \in 0..MaxFaults
    BY <1>0, <1>21 DEF TimerFlushFails, Fault, Rest
  <2> QED
    BY <1>0, <1>21, <2>2, <2>3 DEF TimerFlushFails, Rest, Positions, drain, venue, sockets
<1>22. ASSUME Gone, mishap' \subseteq {"write failed", "killed mid-flush", "drain cut"}
       PROVE  Good
  <2>1. faults' \in 0..MaxFaults
    BY <1>0, <1>22 DEF Gone, Fault, Rest
  <2>2. missed' \in [Streams -> SUBSET (Nat \X BOOLEAN)]
    BY <1>22 DEF Gone
  <2>3. Positions'
    BY <1>0, <1>22 DEF Gone, Positions
  <2> QED
    BY <1>0, <1>22, <2>1, <2>2, <2>3 DEF Gone, Rest, Places, venue
<1>23. ASSUME StopProcess PROVE Good
  BY <1>0, <1>22, <1>23 DEF StopProcess, Rest
<1>24. ASSUME Dies PROVE Good
  <2>1. mishap' = mishap \cup {"write failed"}
    BY <1>24 DEF Dies, WriteFails
  <2> QED
    BY <1>0, <1>22, <1>24, <2>1 DEF Dies, Rest
<1>25. ASSUME Kill PROVE Good
  <2>1. mishap' \subseteq mishap \cup {"killed mid-flush"}
    BY <1>25 DEF Kill
  <2> QED
    BY <1>0, <1>22, <1>25, <2>1 DEF Kill, Rest
<1> HIDE DEF Good
<1>26. Good
  BY <1>3, <1>4, <1>5, <1>6, <1>7, <1>8, <1>9, <1>10, <1>11, <1>12, <1>13, <1>14, <1>15,
     <1>16, <1>17, <1>18, <1>19, <1>20, <1>21, <1>23, <1>24, <1>25
  DEF Next, Venue, Run, Tasks
<1>27. (tape \in Tapes)' /\ Rest' /\ Positions'
  BY <1>0, <1>26 DEF Good
<1> QED
  BY <1>27 DEF Rest, Positions, Tapes, Places, TypeOK

-----------------------------------------------------------------------------
(* The invariant, in parts.                                                *)

\* A successor is there only while its predecessor is drained, and an outage is
\* open only until the next connection is read.
PhaseInv ==
    /\ pc # "drain" => succ = NoSocket
    /\ down => pc \in {"connect", "ritual"}

\* A message missed by a stream with a position is recorded, or will be when the
\* positions are reset.
OutageInv ==
    \A s \in Counted \cup Rising : \A m \in missed[s] :
        m[2] => Recorded(s, m[1]) \/ (down /\ m[1] = outage /\ last[s] # 0)

\* A session marker is where its rows are, or on disk before them; that of the
\* running session is not lost.
NoSessionIn(s, i, j) == \A k \in i..j : tape[s][k].what # "session"
SessionInv ==
    "write failed" \notin mishap =>
    \A s \in Streams : \A i \in 1..Len(tape[s]) :
      tape[s][i].what = "session" =>
        /\ \A j \in (i + 1)..Len(tape[s]) :
             IsRow(s, j) /\ NoSessionIn(s, i + 1, j) =>
               tape[s][i].at = "disk" \/ tape[s][i].at = tape[s][j].at
        /\ pc # "down" /\ NoSessionIn(s, i + 1, Len(tape[s])) => tape[s][i].at # "lost"

RowsBelow(t, s, n) == \A i \in 1..Len(t[s]) : t[s][i].what = "row" => t[s][i].id < n
Ascending(t, s) ==
    \A i, j \in 1..Len(t[s]) :
        i < j /\ t[s][i].what = "row" /\ t[s][j].what = "row" => t[s][i].id < t[s][j].id

\* The rows of a stream ascend, up to where its tracker and its overlap stand.
RowsInv ==
    \A s \in Counted \cup Rising :
        /\ Ascending(tape, s)
        /\ RowsBelow(tape, s, sent[s] + 1)
        /\ last[s] <= sent[s]
        /\ last[s] # 0 => RowsBelow(tape, s, last[s] + 1)
        /\ floor[s] # 0 => RowsBelow(tape, s, floor[s] + 1)

\* A queue holds messages in the order they were sent, of those sent.
InOrder(queue, past) ==
    /\ \A i, j \in 1..Len(queue) :
         i < j /\ queue[i][1] = queue[j][1] => queue[i][2] < queue[j][2]
    /\ \A i \in 1..Len(queue) : queue[i][2] <= past[queue[i][1]]

\* A message to be read is new, or the overlap discards it; one of a successor is
\* new where no position can be frozen.
Fits(t, frozen, s, n) ==
    s \in Counted \cup Rising => (frozen[s] # 0 /\ n <= frozen[s]) \/ RowsBelow(t, s, n)
FitsLater(t, tracked, s, n) ==
    s \in Counted \cup Rising /\ tracked[s] = 0 => RowsBelow(t, s, n)
QueueInv ==
    /\ InOrder(ws.queue, sent) /\ InOrder(succ.queue, sent)
    /\ \A i \in 1..Len(ws.queue) : Fits(tape, floor, ws.queue[i][1], ws.queue[i][2])
    /\ \A i \in 1..Len(succ.queue) : FitsLater(tape, last, succ.queue[i][1], succ.queue[i][2])

\* What a reader finds of a tape, as NextRow, with the tape a parameter: a record
\* after entry i and up to j says that a hole may be there, or a jump beside j does.
Seen(t, s, i) == t[s][i].at # "lost"
SeenRow(t, s, i) == t[s][i].what = "row" /\ Seen(t, s, i)
Follows(t, s, i, j) ==
    /\ i < j /\ SeenRow(t, s, i) /\ SeenRow(t, s, j)
    /\ \A k \in (i + 1)..(j - 1) : ~SeenRow(t, s, k)
Told(t, s, i, j) ==
    \E k \in (i + 1)..j : t[s][k].what \in {"session", "reconnect"} /\ Seen(t, s, k)
Jumped(t, s, i, j) ==
    /\ j < Len(t[s]) /\ t[s][j + 1].what = "jump"
    /\ t[s][j + 1].id = t[s][i].id /\ Seen(t, s, j + 1)

\* What is in memory comes last, a jump is where its row is, holes are marked, and
\* so would be one at the end.
BufferedLast(t, s) ==
    \A i, j \in 1..Len(t[s]) : i < j /\ t[s][i].at = "buffer" => t[s][j].at = "buffer"
JumpsWithRow(t, s) ==
    \A i, j \in 1..Len(t[s]) : j = i + 1 /\ t[s][j].what = "jump" => t[s][j].at = t[s][i].at
Marked(t, s) ==
    \A i, j \in 1..Len(t[s]) :
        Follows(t, s, i, j) /\ t[s][j].id # t[s][i].id + 1 =>
          Told(t, s, i, j - 1) \/ Jumped(t, s, i, j)
Ends(t, s, position) ==
    \A i \in 1..Len(t[s]) :
        SeenRow(t, s, i) =>
          \/ \E j \in (i + 1)..Len(t[s]) : SeenRow(t, s, j)
          \/ position # 0 /\ t[s][i].id = position
          \/ Told(t, s, i, Len(t[s]))
HolesInv ==
    mishap \subseteq {"drain cut"} =>
    \A s \in Counted : /\ BufferedLast(tape, s) /\ JumpsWithRow(tape, s)
                       /\ Marked(tape, s)
                       /\ pc # "down" => Ends(tape, s, last[s])

RowOf(t, s, n) == \E i \in 1..Len(t[s]) : t[s][i].what = "row" /\ t[s][i].id = n
AfterRow(t, s, n) == \E i \in 1..Len(t[s]) : t[s][i].what = "row" /\ t[s][i].id < n
Queued(queue, s, n) == \E i \in 1..Len(queue) : queue[i] = <<s, n>>

\* After a message of a stream a queue holds every later one.
Filled(queue, past) ==
    \A i \in 1..Len(queue) : \A n \in (queue[i][2] + 1)..past[queue[i][1]] :
        Queued(queue, queue[i][1], n)

\* The stream s has every message after its first row, or has it still to read.
Whole(t, queue, tracked, past, s) ==
    /\ tracked[s] # 0 => RowOf(t, s, tracked[s])
    /\ \A i \in 1..Len(t[s]) : Seen(t, s, i) /\ (t[s][i].what = "row" => tracked[s] # 0)
    /\ \A n \in 1..past[s] :
         AfterRow(t, s, n) => RowOf(t, s, n) \/ (n > tracked[s] /\ Queued(queue, s, n))

\* Without a fault a stream has every message after its first row, or will have
\* it from the socket that is read; the drained predecessor has nothing more that
\* its successor has not.
Calm == SupportsOverlap /\ faults = 0 /\ mishap = {}
Phases ==
    /\ ~down /\ pc # "recycle"
    /\ IF pc \in {"down", "connect"} THEN ws = NoSocket /\ last = [s \in Streams |-> 0]
       ELSE ws.open
    /\ pc = "drain" => succ.open
WholeInv ==
    Calm =>
      /\ Phases
      /\ Filled(ws.queue, sent) /\ Filled(succ.queue, sent)
      /\ pc = "drain" /\ caughtUp =>
           \A i \in 1..Len(ws.queue) : Queued(succ.queue, ws.queue[i][1], ws.queue[i][2])
      /\ \A s \in Streams : /\ floor[s] <= last[s]
                            /\ Whole(tape, ws.queue, last, sent, s)

IInv == /\ TypeOK /\ PhaseInv /\ OutageInv /\ SessionInv
        /\ RowsInv /\ QueueInv /\ HolesInv /\ WholeInv

-----------------------------------------------------------------------------
(* What a step that handles no message does to the tape.                   *)

Fresh(s) == (Len(tape[s]) + 1)..Len(tape'[s])

\* The entries it had are where the buffers in W reached disk and those in L were
\* lost.
Settles(W, L) ==
    \A s \in Streams : \A i \in 1..Len(tape[s]) :
        tape'[s][i].at = Place(s, tape[s][i], W, L)

\* Records are added: a marker when the process starts, an outage where a position
\* is forgotten, the record of an overlap.
Adding ==
    /\ Settles({}, {})
    /\ \A s \in Streams : \A i \in Fresh(s) : tape'[s][i].at = "buffer"
    /\ \A s \in Streams :
         \/ last'[s] = last[s]
         \/ /\ last'[s] = 0 /\ Len(tape'[s]) = Len(tape[s]) + 1
            /\ tape'[s][Len(tape[s]) + 1].what = "reconnect"
    /\ pc = "down" /\ pc' # "down" =>
         \A s \in Streams : /\ Len(tape'[s]) = Len(tape[s]) + 1
                            /\ tape'[s][Len(tape[s]) + 1].what = "session"

\* Everything is written.
Flushing ==
    /\ Settles(Keys, {}) /\ pc # "down"
    /\ \A s \in Streams : \A i \in Fresh(s) :
         tape'[s][i].what # "session" /\ tape'[s][i].at = "disk"
    /\ pc' = "down" \/ last' = last

\* The process is killed.
Killing ==
    /\ pc' = "down"
    /\ \E W \in PartialFlush :
         Settles(W, Keys \ W) /\ (W # {} => "killed mid-flush" \in mishap')
    /\ \A s \in Streams : Len(tape'[s]) = Len(tape[s])

Failing == "write failed" \in mishap'

\* Every entry belongs to a buffer.
LEMMA KeyIs == ASSUME NEW s \in Streams, NEW e PROVE KeyOf(s, e) \in Keys
<1>1. e.what = "row" => e.what \notin {"session", "stop"}
  OBVIOUS
<1> QED
  BY <1>1 DEF KeyOf, Keys

\* An entry that nothing is written or lost of stays; one that everything is
\* written of is on disk.
LEMMA PlaceIs ==
  ASSUME NEW s \in Streams, NEW e
  PROVE  /\ Place(s, e, {}, {}) = e.at
         /\ Place(s, e, Keys, {}) = IF e.at = "buffer" THEN "disk" ELSE e.at
         /\ Place(s, e, {}, Keys) = IF e.at = "buffer" THEN "lost" ELSE e.at
<1>1. KeyOf(s, e) \in Keys
  BY KeyIs
<1> QED
  BY <1>1 DEF Place

\* A step that leaves the tape and the positions adds nothing.
LEMMA AddsNothing ==
  ASSUME TypeOK, tape' = tape, last' = last, pc = "down" => pc' = "down"
  PROVE  Adding
<1>1. \A s \in Streams : Fresh(s) = {}
  BY Typed DEF Fresh
<1>2. Settles({}, {})
  BY PlaceIs DEF Settles
<1> QED
  BY <1>1, <1>2 DEF Adding

\* Appending is adding.
LEMMA Appends ==
  ASSUME NEW t \in Seq(Entries), NEW e
  PROVE  /\ Len(Append(t, e)) = Len(t) + 1 /\ Append(t, e)[Len(t) + 1] = e
         /\ \A i \in 1..Len(t) : Append(t, e)[i] = t[i]
         /\ (Len(t) + 1)..Len(Append(t, e)) = {Len(t) + 1}
         /\ (Len(t) + 1)..Len(t) = {}
<1>1. Len(t) \in Nat
  OBVIOUS
<1>2. /\ Len(Append(t, e)) = Len(t) + 1 /\ Append(t, e)[Len(t) + 1] = e
      /\ \A i \in 1..Len(t) : Append(t, e)[i] = t[i]
  OBVIOUS
<1> QED
  BY <1>1, <1>2

\* The cases above are all there are.
LEMMA KindOf ==
  ASSUME TypeOK, [Next]_vars
  PROVE  \/ Read \/ Drain
         \/ Extends(tape, tape') /\ (Adding \/ Flushing \/ Killing \/ Failing)
<1>0. \A s \in Streams : tape[s] \in Seq(Entries) /\ Len(tape[s]) \in Nat
  BY Typed
<1> DEFINE Good == Adding \/ Flushing \/ Killing \/ Failing
<1>1. ASSUME tape' = Settled(tape, Keys, {}), pc # "down", last' = last PROVE Flushing
  <2>1. \A s \in Streams : Len(tape'[s]) = Len(tape[s])
    BY <1>1, Typed, SettledIs
  <2>2. Settles(Keys, {})
    BY <1>1, Typed, SettledIs DEF Settles
  <2>3. \A s \in Streams : Fresh(s) = {}
    BY <1>0, <2>1 DEF Fresh
  <2> QED
    BY <1>1, <2>2, <2>3 DEF Flushing
<1>3. ASSUME UNCHANGED vars PROVE Good
  BY <1>3, AddsNothing DEF vars
<1>4. ASSUME NEW st \in Streams, Emit(st) \/ VenueSkips(st) PROVE Good
  BY <1>4, AddsNothing DEF Emit, VenueSkips
<1>5. ASSUME SocketEnds PROVE Good
  BY <1>5, AddsNothing DEF SocketEnds
<1>6. ASSUME Connect \/ OpenSuccessor \/ SuccessorFails \/ Waits PROVE Good
  BY <1>6, AddsNothing DEF Connect, OpenSuccessor, SuccessorFails, Waits, vars
<1>7. ASSUME ConnectFails \/ ReadEnds \/ CloseThenReopen \/ TimerFlush PROVE Good
  BY <1>1, <1>7 DEF ConnectFails, ReadEnds, CloseThenReopen, TimerFlush, Flushed
<1>8. ASSUME StartProcess PROVE Good
  <2> DEFINE e == SessionRecord("session")
  <2>1. tape' = AddAll(tape, Streams, e) /\ last' = last
    BY <1>8 DEF StartProcess
  <2>2. e \in Entries /\ e.what = "session" /\ e.at = "buffer"
    BY EntryIs
  <2> HIDE DEF e
  <2>3. \A s \in Streams : tape'[s] = Append(tape[s], e)
    <3>1. tape \in Tapes
      BY Typed
    <3>2. \A s \in Streams : AddAll(tape, Streams, e)[s] =
            IF s \in Streams THEN Append(tape[s], e) ELSE tape[s]
      BY <2>2, <3>1, AddAllIs
    <3> QED
      BY <2>1, <3>2
  <2>4. \A s \in Streams :
          /\ Len(tape'[s]) = Len(tape[s]) + 1 /\ tape'[s][Len(tape[s]) + 1] = e
          /\ \A i \in 1..Len(tape[s]) : tape'[s][i] = tape[s][i]
          /\ Fresh(s) = {Len(tape[s]) + 1}
    BY <1>0, <2>3, Appends DEF Fresh
  <2>5. Settles({}, {})
    BY <2>4, PlaceIs DEF Settles
  <2> QED
    BY <2>1, <2>2, <2>4, <2>5 DEF Adding
<1>9. ASSUME Ritual PROVE Good
  <2>1. CASE tape' = tape /\ last' = last
    BY <1>9, <2>1, AddsNothing DEF Ritual
  <2>2. CASE /\ tape' = AddAll(tape, TrackedStreams, ReconnectGap(outage))
             /\ last' = [s \in Streams |-> 0]
    <3> DEFINE e == ReconnectGap(outage)
    <3>1. e \in Entries /\ e.what = "reconnect" /\ e.at = "buffer"
      BY Typed, EntryIs
    <3> HIDE DEF e
    <3>2. \A s \in Streams :
            tape'[s] = IF s \in TrackedStreams THEN Append(tape[s], e) ELSE tape[s]
      BY <2>2, <3>1, Typed, AddAllIs DEF e
    <3>3. \A s \in TrackedStreams :
            /\ Len(tape'[s]) = Len(tape[s]) + 1 /\ tape'[s][Len(tape[s]) + 1] = e
            /\ \A i \in 1..Len(tape[s]) : tape'[s][i] = tape[s][i]
            /\ Fresh(s) = {Len(tape[s]) + 1}
      <4> SUFFICES ASSUME NEW s \in TrackedStreams
                   PROVE  /\ Len(tape'[s]) = Len(tape[s]) + 1
                          /\ tape'[s][Len(tape[s]) + 1] = e
                          /\ \A i \in 1..Len(tape[s]) : tape'[s][i] = tape[s][i]
                          /\ Fresh(s) = {Len(tape[s]) + 1}
        OBVIOUS
      <4>1. s \in Streams
        BY DEF TrackedStreams
      <4>2. tape'[s] = Append(tape[s], e) /\ tape[s] \in Seq(Entries)
        BY <1>0, <3>2, <4>1
      <4> QED
        BY <4>2, Appends DEF Fresh
    <3>4. \A s \in Streams \ TrackedStreams :
            /\ tape'[s] = tape[s] /\ last[s] = 0 /\ Fresh(s) = {}
      BY <1>0, <3>2 DEF Fresh, TrackedStreams
    <3>5. Settles({}, {})
      BY <3>3, <3>4, PlaceIs DEF Settles
    <3>6. pc # "down"
      BY <1>9 DEF Ritual
    <3>7. ASSUME NEW s \in Streams
          PROVE  /\ \A i \in Fresh(s) : tape'[s][i].at = "buffer"
                 /\ \/ last'[s] = last[s]
                    \/ /\ last'[s] = 0 /\ Len(tape'[s]) = Len(tape[s]) + 1
                       /\ tape'[s][Len(tape[s]) + 1].what = "reconnect"
      BY <2>2, <3>1, <3>3, <3>4
    <3> QED
      BY <3>5, <3>6, <3>7 DEF Adding
  <2> QED
    BY <1>9, <2>1, <2>2 DEF Ritual, OnConnected
<1>10. ASSUME ReadEndsUnsaved PROVE Good
  BY <1>10 DEF ReadEndsUnsaved, WriteFails, Failing
<1>13. ASSUME NEW s \in Streams
       PROVE  /\ \A i \in 1..Len(tape[s]) : CloseOut[s][i] = tape[s][i]
              /\ CloseOut[s] \in Seq(Entries) /\ Len(tape[s]) <= Len(CloseOut[s])
              /\ \A i \in (Len(tape[s]) + 1)..Len(CloseOut[s]) :
                   CloseOut[s][i] = HandoverRecord(floor[s])
  <2>1. /\ CloseOut[s] = IF floor[s] # 0 THEN Append(tape[s], HandoverRecord(floor[s]))
                         ELSE tape[s]
        /\ CloseOut[s] \in Seq(Entries)
    BY CloseOutIs DEF Tapes
  <2> QED
    BY <1>0, <2>1, Appends
<1>14. \A s \in Streams : /\ HandoverRecord(floor[s]).at = "buffer"
                          /\ HandoverRecord(floor[s]).what = "handover"
  BY Typed, EntryIs
<1>11. ASSUME FinishHandover PROVE Good
  <2>1. tape' = CloseOut /\ last' = last /\ pc # "down"
    BY <1>11 DEF FinishHandover
  <2>2. Settles({}, {})
    BY <1>13, <2>1, PlaceIs DEF Settles
  <2>3. \A s \in Streams : \A i \in Fresh(s) : tape'[s][i].at = "buffer"
    BY <1>13, <1>14, <2>1 DEF Fresh
  <2> QED
    BY <2>1, <2>2, <2>3 DEF Adding
<1>12. ASSUME TimerFlushFails PROVE Good
  BY <1>12 DEF TimerFlushFails, WriteFails, Failing
<1>15. ASSUME StopProcess PROVE Good
  <2>1. tape' = Settled(Stopped, Keys, {}) /\ pc' = "down" /\ pc # "down"
    BY <1>15 DEF StopProcess, Flushed, Gone
  <2>2. Stopped \in Tapes
    BY StoppedIs
  <2>3. ASSUME NEW s \in Streams
        PROVE  /\ Len(tape'[s]) = Len(Stopped[s]) /\ Len(tape[s]) <= Len(Stopped[s])
               /\ Len(Stopped[s]) \in Nat
               /\ \A i \in 1..Len(tape[s]) : Stopped[s][i] = tape[s][i]
               /\ \A i \in (Len(tape[s]) + 1)..Len(Stopped[s]) :
                    Stopped[s][i].at = "buffer" /\ Stopped[s][i].what # "session"
    <3> DEFINE e == SessionRecord("stop")
    <3>1. e.what = "stop" /\ e.at = "buffer"
      BY EntryIs
    <3>2. Stopped[s] = Append(CloseOut[s], e)
      BY StoppedIs
    <3> HIDE DEF e
    <3>3. Len(tape'[s]) = Len(Stopped[s])
      BY <2>1, <2>2, SettledIs
    <3>4. /\ CloseOut[s] \in Seq(Entries) /\ Len(CloseOut[s]) \in Nat
          /\ Len(Stopped[s]) = Len(CloseOut[s]) + 1
          /\ Stopped[s][Len(CloseOut[s]) + 1] = e
          /\ \A i \in 1..Len(CloseOut[s]) : Stopped[s][i] = CloseOut[s][i]
      BY <1>13, <3>2, Appends
    <3>5. \A i \in (Len(tape[s]) + 1)..Len(Stopped[s]) :
            i = Len(CloseOut[s]) + 1 \/ (/\ i \in 1..Len(CloseOut[s])
                                         /\ i \in (Len(tape[s]) + 1)..Len(CloseOut[s]))
      BY <1>0, <1>13, <3>4
    <3> QED
      BY <1>0, <1>13, <1>14, <3>1, <3>3, <3>4, <3>5
  <2>4. /\ \A s \in Streams : \A i \in 1..Len(Stopped[s]) :
             /\ tape'[s][i].at = Place(s, Stopped[s][i], Keys, {})
             /\ tape'[s][i].what = Stopped[s][i].what
    BY <2>1, <2>2, SettledIs
  <2>5. Settles(Keys, {})
    BY <1>0, <2>3, <2>4 DEF Settles
  <2>6. ASSUME NEW s \in Streams, NEW i \in Fresh(s)
        PROVE  tape'[s][i].what # "session" /\ tape'[s][i].at = "disk"
    <3>1. i \in 1..Len(Stopped[s]) /\ i \in (Len(tape[s]) + 1)..Len(Stopped[s])
      BY <1>0, <2>3, <2>6 DEF Fresh
    <3> QED
      BY <2>3, <2>4, <3>1, PlaceIs
  <2> QED
    BY <2>1, <2>5, <2>6 DEF Flushing
<1>16. ASSUME Dies PROVE Good
  BY <1>16 DEF Dies, WriteFails, Failing
<1>17. ASSUME Kill PROVE Good
  <2>1. PICK W \in PartialFlush : /\ tape' = Settled(tape, W, Keys \ W)
                                  /\ W # {} => "killed mid-flush" \in mishap'
    BY <1>17 DEF Kill
  <2>2. Settles(W, Keys \ W) /\ \A s \in Streams : Len(tape'[s]) = Len(tape[s])
    <3>1. /\ \A s \in Streams :
               /\ Len(Settled(tape, W, Keys \ W)[s]) = Len(tape[s])
               /\ \A i \in 1..Len(tape[s]) :
                    Settled(tape, W, Keys \ W)[s][i].at = Place(s, tape[s][i], W, Keys \ W)
      <4>1. tape \in Tapes
        BY Typed
      <4> QED
        BY <4>1, SettledIs
    <3> QED
      BY <2>1, <3>1 DEF Settles
  <2>3. pc' = "down"
    BY <1>17 DEF Kill, Gone
  <2> QED
    BY <2>1, <2>2, <2>3 DEF Killing
<1> HIDE DEF Good
<1>18. Read \/ Drain \/ Good
  BY <1>3, <1>4, <1>5, <1>6, <1>7, <1>8, <1>9, <1>10, <1>11, <1>12, <1>15, <1>16, <1>17
  DEF Next, Venue, Run, Tasks
<1> QED
  BY <1>18, StepOf DEF Good

-----------------------------------------------------------------------------
(* Phases and outages.                                                     *)

\* Every step keeps to the phases of run().
LEMMA PhaseStep ==
  ASSUME TypeOK, PhaseInv, [Next]_vars
  PROVE  PhaseInv'
<1> USE DEF PhaseInv
<1>3. CASE UNCHANGED vars
  BY <1>3 DEF vars
<1>4. ASSUME NEW s \in Streams, Emit(s) \/ VenueSkips(s) PROVE PhaseInv'
  BY <1>4 DEF Emit, VenueSkips, Receive, NoSocket
<1>5. CASE SocketEnds
  BY <1>5 DEF SocketEnds
<1>6. CASE StartProcess \/ Connect \/ ConnectFails
  BY <1>6 DEF StartProcess, Connect, ConnectFails, MarkDown, sockets
<1>7. CASE Ritual
  BY <1>7 DEF Ritual, OnConnected, sockets
<1>8. CASE Read
  BY <1>8 DEF Read
<1>9. CASE ReadEnds \/ ReadEndsUnsaved \/ CloseThenReopen
  BY <1>9 DEF ReadEnds, ReadEndsUnsaved, CloseThenReopen, MarkDown, sockets
<1>10. CASE OpenSuccessor \/ SuccessorFails \/ Drain \/ FinishHandover
  <2>1. CASE OpenSuccessor
    BY <2>1 DEF OpenSuccessor
  <2>2. CASE SuccessorFails
    BY <2>2 DEF SuccessorFails, sockets
  <2>3. CASE Drain
    BY <2>3, Zenon DEF Drain
  <2>4. CASE FinishHandover
    BY <2>4 DEF FinishHandover
  <2> QED
    BY <1>10, <2>1, <2>2, <2>3, <2>4
<1>11. CASE Waits \/ TimerFlush \/ TimerFlushFails
  BY <1>11 DEF Waits, TimerFlush, TimerFlushFails, sockets, vars
<1>12. CASE StopProcess \/ Dies \/ Kill
  BY <1>12 DEF StopProcess, Dies, Kill, Gone
<1> QED
  BY <1>3, <1>4, <1>5, <1>6, <1>7, <1>8, <1>9, <1>10, <1>11, <1>12
  DEF Next, Venue, Run, Tasks

\* What is recorded stays so.
LEMMA RecordedStays ==
  ASSUME TypeOK, [Next]_vars, NEW s \in Streams, NEW k, Recorded(s, k)
  PROVE  Recorded(s, k)'
<1>1. PICK i \in 1..Len(tape[s]) : tape[s][i].what = "reconnect" /\ tape[s][i].id = k
  BY Typed DEF Recorded
<1>2. tape' \in Tapes /\ DOMAIN tape'[s] = 1..Len(tape'[s]) /\ Len(tape[s]) \in Nat
      /\ Len(tape'[s]) \in Nat
  <2>1. tape' \in Tapes
    BY StepOf
  <2>2. tape'[s] \in Seq(Entries)
    BY <2>1 DEF Tapes
  <2> QED
    BY <2>1, <2>2, Typed
<1>3. /\ Len(tape[s]) <= Len(tape'[s])
      /\ tape'[s][i].what = "reconnect" /\ tape'[s][i].id = k
  <2>1. CASE Extends(tape, tape')
    BY <1>1, <2>1 DEF Extends
  <2>2. CASE ws.queue # <<>> /\ Handle(Head(ws.queue)[1], Head(ws.queue)[2])
    <3> DEFINE r == Head(ws.queue)[1]
               n == Head(ws.queue)[2]
    <3>1. r \in Streams /\ n \in 1..MaxId
      BY <2>2, HeadIs
    <3> HIDE DEF r, n
    <3>2. \/ UNCHANGED tape
          \/ \E q \in Nat : Takes(r, n, q)
      BY <2>2, <3>1, HandleIs DEF r, n
    <3>3. ASSUME NEW q \in Nat, Takes(r, n, q)
          PROVE  tape'[s][i] = tape[s][i] /\ Len(tape[s]) <= Len(tape'[s])
      <4>1. CASE s = r
        <5>1. /\ q \in {Len(tape[s]) + 1, Len(tape[s]) + 2}
              /\ Len(tape'[s]) \in {q, q + 1}
              /\ tape'[s][i] = tape[s][i]
          BY <1>1, <3>3, <4>1 DEF Takes
        <5> QED
          BY <1>2, <5>1
      <4>2. CASE s # r
        BY <1>2, <3>3, <4>2 DEF Takes
      <4> QED
        BY <4>1, <4>2
    <3> QED
      BY <1>1, <1>2, <3>2, <3>3
  <2> QED
    BY <2>1, <2>2, StepOf
<1> QED
  BY <1>1, <1>2, <1>3 DEF Recorded

\* Every step keeps a missed message recorded, or the outage open.
LEMMA OutageStep ==
  ASSUME TypeOK, PhaseInv, OutageInv, [Next]_vars
  PROVE  OutageInv'
<1> DEFINE Holds(s, m) == Recorded(s, m[1]) \/ (down /\ m[1] = outage /\ last[s] # 0)
<1>1. \A s \in Counted \cup Rising : s \in Streams
  BY DEF Streams
<1>2. \A s \in Counted \cup Rising : \A m : Recorded(s, m[1]) => Recorded(s, m[1])'
  BY <1>1, RecordedStays
<1>0. \A s \in Counted \cup Rising : \A m \in missed[s] : m[2] => Holds(s, m)
  BY DEF OutageInv
<1>9. SUFFICES ASSUME NEW s \in Counted \cup Rising, NEW m \in missed'[s], m[2]
               PROVE  Holds(s, m)'
  BY DEF OutageInv
<1>3. ASSUME missed' = missed, UNCHANGED <<down, outage, last>> PROVE Holds(s, m)'
  BY <1>0, <1>2, <1>3, <1>9
<1>30. missed \in [Streams -> SUBSET (Nat \X BOOLEAN)] /\ s \in Streams
  BY <1>1 DEF TypeOK
<1>4. ASSUME missed' = missed, MarkDown, last' = last PROVE Holds(s, m)'
  BY <1>0, <1>2, <1>4, <1>9 DEF MarkDown, Outage
<1>5. ASSUME NEW S, NEW k, Miss(S, k) PROVE m \in missed[s] \/ (m[1] = k /\ last[s] # 0)
  <2>1. missed'[s] = IF s \in S /\ Delivered(s) THEN missed[s] \cup {<<k, last[s] # 0>>}
                     ELSE missed[s]
    BY <1>5, <1>30 DEF Miss
  <2>2. m \in missed[s] \/ m = <<k, last[s] # 0>>
    BY <1>9, <2>1
  <2> QED
    <3>1. CASE m = <<k, last[s] # 0>>
      <4> DEFINE b == last[s] # 0
      <4>1. m = <<k, b>>
        BY <3>1
      <4> HIDE DEF b
      <4>2. m[1] = k /\ m[2] = b
        BY <4>1
      <4>3. b
        BY <1>9, <4>2, Zenon
      <4> QED
        BY <4>2, <4>3 DEF b
    <3> QED
      BY <2>2, <3>1
<1>6. ASSUME NEW r \in Streams, Emit(r) PROVE Holds(s, m)'
  <2>1. UNCHANGED <<down, outage, last>>
    BY <1>6 DEF Emit
  <2>2. CASE missed' = missed
    BY <1>3, <2>1, <2>2
  <2>3. CASE down /\ Miss({r}, outage)
    BY <1>0, <1>2, <1>5, <1>9, <2>1, <2>3
  <2> QED
    BY <1>6, <2>2, <2>3 DEF Emit
<1>7. CASE CloseThenReopen
  <2>1. PICK S : Miss(S, Outage)
    BY <1>7 DEF CloseThenReopen
  <2>2. down' = TRUE /\ outage' = Outage /\ last' = last /\ ~down
    BY <1>7 DEF CloseThenReopen, MarkDown, PhaseInv
  <2>3. m \in missed[s] \/ (m[1] = Outage /\ last[s] # 0)
    BY <1>5, <2>1
  <2> QED
    BY <1>0, <1>2, <1>9, <2>2, <2>3
<1>8. CASE Ritual
  <2>1. missed' = missed /\ outage' = outage
    BY <1>8 DEF Ritual, history
  <2>2. CASE ~down
    BY <1>3, <1>8, <2>1, <2>2 DEF Ritual, OnConnected, history
  <2>3. CASE down /\ last[s] # 0
    <3> DEFINE e == ReconnectGap(outage)
    <3>1. tape' = AddAll(tape, TrackedStreams, e) /\ s \in TrackedStreams
      BY <1>8, <1>30, <2>3 DEF Ritual, OnConnected, TrackedStreams
    <3>2. e \in Entries /\ e.what = "reconnect" /\ e.id = outage
      BY Typed, EntryIs
    <3> HIDE DEF e
    <3>3. tape'[s] = Append(tape[s], e) /\ tape[s] \in Seq(Entries)
      <4>1. \A r \in Streams : AddAll(tape, TrackedStreams, e)[r] =
              IF r \in TrackedStreams THEN Append(tape[r], e) ELSE tape[r]
        BY <3>2, Typed, AddAllIs
      <4> QED
        BY <1>30, <3>1, <4>1, Typed
    <3>4. Recorded(s, outage)'
      <4>1. /\ Len(tape[s]) + 1 \in DOMAIN tape'[s]
            /\ tape'[s][Len(tape[s]) + 1] = e
        BY <3>3
      <4> QED
        BY <2>1, <3>2, <4>1 DEF Recorded
    <3> QED
      BY <1>0, <1>2, <1>9, <2>1, <3>4
  <2>4. CASE last[s] = 0
    BY <1>0, <1>2, <1>9, <2>1, <2>4
  <2> QED
    BY <2>2, <2>3, <2>4
<1>10. ASSUME Gone PROVE Holds(s, m)'
  BY <1>9, <1>10, <1>30 DEF Gone
<1>11. ASSUME ~down, missed' = missed PROVE Holds(s, m)'
  BY <1>0, <1>2, <1>9, <1>11
<1>12. CASE Read \/ Drain
  BY <1>11, <1>12 DEF Read, Drain, PhaseInv, history
<1>13. CASE ConnectFails \/ ReadEnds \/ ReadEndsUnsaved
  BY <1>4, <1>13 DEF ConnectFails, ReadEnds, ReadEndsUnsaved
<1>14. CASE StopProcess \/ Dies \/ Kill
  BY <1>10, <1>14 DEF StopProcess, Dies, Kill
<1>15. CASE \/ UNCHANGED vars \/ (\E r \in Streams : VenueSkips(r)) \/ SocketEnds
            \/ StartProcess \/ Connect \/ OpenSuccessor \/ SuccessorFails
            \/ FinishHandover \/ Waits \/ TimerFlush \/ TimerFlushFails
  BY <1>3, <1>15 DEF vars, VenueSkips, SocketEnds, StartProcess, Connect, OpenSuccessor,
     SuccessorFails, FinishHandover, Waits, TimerFlush, TimerFlushFails, history
<1> HIDE DEF Holds
<1> QED
  BY <1>6, <1>7, <1>8, <1>12, <1>13, <1>14, <1>15 DEF Next, Venue, Run, Tasks

-----------------------------------------------------------------------------
(* Sessions.                                                               *)

\* A write that failed is not forgotten.
LEMMA MishapGrows == ASSUME [Next]_vars PROVE mishap \subseteq mishap'
<1>1. CASE UNCHANGED vars
  BY <1>1 DEF vars
<1>2. CASE Venue
  BY <1>2 DEF Venue, Emit, VenueSkips, SocketEnds, history
<1>3. CASE Run
  BY <1>3 DEF Run, StartProcess, Connect, ConnectFails, Ritual, Read, ReadEnds,
     ReadEndsUnsaved, CloseThenReopen, OpenSuccessor, SuccessorFails, Drain,
     FinishHandover, history, WriteFails
<1>4. CASE Waits \/ Tasks
  BY <1>4 DEF Waits, Tasks, TimerFlush, TimerFlushFails, StopProcess, Dies, Kill, history,
     WriteFails, vars
<1> QED
  BY <1>1, <1>2, <1>3, <1>4 DEF Next

\* What a message that is taken adds.
LEMMA TakesIs ==
  ASSUME TypeOK, NEW s \in Streams, NEW n \in 1..MaxId, NEW k \in Nat, Takes(s, n, k)
  PROVE  /\ Len(tape[s]) < k /\ k <= Len(tape'[s]) /\ Len(tape'[s]) \in Nat
         /\ k \in Fresh(s)
         /\ tape'[s][k].what = "row" /\ tape'[s][k].id = n
         /\ \A i \in 1..Len(tape[s]) : i \in 1..Len(tape'[s]) /\ tape'[s][i] = tape[s][i]
         /\ \A i \in Fresh(s) :
              /\ tape'[s][i].at = "buffer" /\ i > Len(tape[s]) /\ i \in Nat
              /\ i < k => tape'[s][i].what = "handover"
              /\ i > k => i = k + 1 /\ tape'[s][i].what = "jump" /\ Jumps(s, n)
                          /\ tape'[s][i].id = last[s]
         /\ Jumps(s, n) => k + 1 \in Fresh(s)
<1> DEFINE l == Len(tape[s])
           m == Len(tape'[s])
<1>1. l \in Nat /\ k \in {l + 1, l + 2} /\ m \in {k, k + 1} /\ (Jumps(s, n) => m = k + 1)
      /\ (~Jumps(s, n) => m = k)
  BY Typed DEF Takes
<1>2. /\ Row(n).what = "row" /\ Row(n).id = n /\ Row(n).at = "buffer"
      /\ HandoverRecord(floor[s]).what = "handover"
      /\ HandoverRecord(floor[s]).at = "buffer"
      /\ SequenceJump(last[s]).what = "jump" /\ SequenceJump(last[s]).id = last[s]
      /\ SequenceJump(last[s]).at = "buffer"
  BY Typed, EntryIs, Constants
<1>3. /\ tape'[s][k] = Row(n)
      /\ \A i \in 1..l : tape'[s][i] = tape[s][i]
      /\ \A i \in (l + 1)..m :
           /\ i < k => tape'[s][i] = HandoverRecord(floor[s])
           /\ i > k => tape'[s][i] = SequenceJump(last[s])
  BY DEF Takes
<1> HIDE DEF l, m, Jumps
<1>4. l < k /\ k <= m /\ m \in Nat /\ k \in (l + 1)..m
  BY <1>1
<1>5. \A i \in 1..l : i \in 1..m
  BY <1>1
<1>6. \A i \in (l + 1)..m :
        i > l /\ i \in Nat /\ (i > k => i = k + 1 /\ Jumps(s, n)) /\ (i < k \/ i = k \/ i > k)
  BY <1>1
<1>7. Jumps(s, n) => k + 1 \in (l + 1)..m
  BY <1>1
<1> QED
  BY <1>2, <1>3, <1>4, <1>5, <1>6, <1>7 DEF l, m, Fresh

\* What a step that handles a message does.
LEMMA HandledIs ==
  ASSUME TypeOK, Read \/ Drain
  PROVE  /\ pc \in {"read", "drain"} /\ pc' \in {"read", "drain", "handover", "recycle"}
         /\ ws.queue # <<>> /\ ws'.queue = Tail(ws.queue) /\ ws'.open = ws.open
         /\ UNCHANGED <<succ, sent, down, mishap, faults, outage>>
         /\ \E r \in Streams, n \in 1..MaxId :
              /\ Head(ws.queue) = <<r, n>>
              /\ \/ IsOverlapDuplicate(r, n) /\ UNCHANGED <<tape, last, floor>>
                 \/ ~IsOverlapDuplicate(r, n) /\ \E k \in Nat : Takes(r, n, k)
<1>0. ws \in Socket
  BY DEF TypeOK
<1>1. /\ pc \in {"read", "drain"} /\ pc' \in {"read", "drain", "handover", "recycle"}
      /\ ws.queue # <<>> /\ ws' = [ws EXCEPT !.queue = Tail(@)]
      /\ UNCHANGED <<succ, sent, down, mishap, faults, outage>>
      /\ Handle(Head(ws.queue)[1], Head(ws.queue)[2])
  <2>1. CASE Read
    BY <2>1 DEF Read, venue, history
  <2>2. CASE Drain
    BY <2>2 DEF Drain, DrainGoesOn, venue, history
  <2> QED
    BY <2>1, <2>2
<1>2. ws'.queue = Tail(ws.queue) /\ ws'.open = ws.open
  BY <1>0, <1>1 DEF Socket
<1>3. PICK r \in Streams, n \in 1..MaxId : Head(ws.queue) = <<r, n>>
  BY <1>1, HeadIs DEF Msg
<1>4. Handle(r, n)
  BY <1>1, <1>3
<1> QED
  BY <1>1, <1>2, <1>3, <1>4, HandleIs

\* Every step keeps a session marker where its rows are, or on disk.
LEMMA SessionStep ==
  ASSUME TypeOK, SessionInv, [Next]_vars
  PROVE  SessionInv'
<1>w. \A s \in Streams : Len(tape[s]) \in Nat /\ Len(tape'[s]) \in Nat
  <2>1. tape' \in Tapes
    BY StepOf
  <2>2. \A s \in Streams : tape'[s] \in Seq(Entries)
    BY <2>1 DEF Tapes
  <2> QED
    BY <2>2, Typed
<1>s. SUFFICES ASSUME "write failed" \notin mishap', NEW s \in Streams,
                    NEW i, i \in 1..Len(tape'[s]), tape'[s][i].what = "session"
             PROVE  /\ \A j \in (i + 1)..Len(tape'[s]) :
                         IsRow(s, j)' /\ NoSessionIn(s, i + 1, j)' =>
                           tape'[s][i].at = "disk" \/ tape'[s][i].at = tape'[s][j].at
                    /\ pc' # "down" /\ NoSessionIn(s, i + 1, Len(tape[s]))' =>
                         tape'[s][i].at # "lost"
  BY DEF SessionInv
<1>0. "write failed" \notin mishap
  BY <1>s, MishapGrows
<1>1. /\ Len(tape[s]) \in Nat /\ Len(tape'[s]) \in Nat
      /\ i \in Nat /\ 1 <= i /\ i <= Len(tape'[s])
  <2>1. i \in 1..Len(tape'[s])
    BY <1>s
  <2> QED
    BY <1>w, <2>1
<1>2. ASSUME NEW x \in 1..Len(tape[s]), tape[s][x].what = "session"
      PROVE  /\ \A j \in (x + 1)..Len(tape[s]) :
                  IsRow(s, j) /\ NoSessionIn(s, x + 1, j) =>
                    tape[s][x].at = "disk" \/ tape[s][x].at = tape[s][j].at
             /\ pc # "down" /\ NoSessionIn(s, x + 1, Len(tape[s])) => tape[s][x].at # "lost"
  BY <1>0, <1>2 DEF SessionInv
<1>3. CASE UNCHANGED tape /\ (pc' # "down" => pc # "down")
  BY <1>s, <1>2, <1>3 DEF IsRow, NoSessionIn
<1>4. CASE Extends(tape, tape') /\ (Adding \/ Flushing \/ Killing \/ Failing)
  <2>1. /\ Len(tape[s]) <= Len(tape'[s])
        /\ \A x \in 1..Len(tape[s]) : tape'[s][x].what = tape[s][x].what
        /\ \A x \in (Len(tape[s]) + 1)..Len(tape'[s]) : tape'[s][x].what \notin {"row", "jump"}
    BY <1>4 DEF Extends
  <2>2. PICK W, L : /\ \A x \in 1..Len(tape[s]) : tape'[s][x].at = Place(s, tape[s][x], W, L)
                    /\ \/ W = {} /\ L = {} /\ Adding
                       \/ W = Keys /\ L = {} /\ Flushing
                       \/ (W = {} \/ "session" \in W) /\ L = Keys \ W /\ Killing
    <3>1. CASE Adding
      BY <3>1 DEF Adding, Settles
    <3>2. CASE Flushing
      BY <3>2 DEF Flushing, Settles
    <3>3. CASE Killing
      <4>1. PICK W \in PartialFlush : Settles(W, Keys \ W)
        BY <3>3 DEF Killing
      <4>2. W = {} \/ "session" \in W
        BY DEF PartialFlush
      <4> QED
        BY <3>3, <4>1, <4>2 DEF Settles
    <3>4. CASE Failing
      BY <1>s, <3>4 DEF Failing
    <3> QED
      BY <1>4, <3>1, <3>2, <3>3, <3>4
  <2>3. "session" \in Keys
    BY DEF Keys
  <2>4. ASSUME NEW j \in (i + 1)..Len(tape'[s]), IsRow(s, j)', NoSessionIn(s, i + 1, j)'
        PROVE  tape'[s][i].at = "disk" \/ tape'[s][i].at = tape'[s][j].at
    <3>1. i \in 1..Len(tape[s]) /\ j \in (i + 1)..Len(tape[s]) /\ j \in 1..Len(tape[s])
          /\ \A x \in (i + 1)..j : x \in 1..Len(tape[s])
      BY <1>1, <2>1, <2>4 DEF IsRow
    <3>2. tape[s][i].what = "session" /\ IsRow(s, j) /\ NoSessionIn(s, i + 1, j)
      BY <1>s, <2>1, <2>4, <3>1 DEF IsRow, NoSessionIn
    <3>3. tape[s][i].at = "disk" \/ tape[s][i].at = tape[s][j].at
      BY <1>2, <3>1, <3>2
    <3> DEFINE a == tape[s][i]
               b == tape[s][j]
    <3>4. tape'[s][i].at = Place(s, a, W, L) /\ tape'[s][j].at = Place(s, b, W, L)
      BY <2>2, <3>1
    <3>5. KeyOf(s, a) = "session" /\ KeyOf(s, b) \in Keys
      <4>1. KeyOf(s, a) = "session"
        BY <3>2 DEF KeyOf
      <4> QED
        BY <4>1, KeyIs
    <3>6. a.at = "disk" \/ a.at = b.at
      BY <3>3
    <3> HIDE DEF a, b
    <3> QED
      BY <2>2, <2>3, <3>4, <3>5, <3>6, PlaceIs DEF Place
  <2>5. ASSUME pc' # "down", NoSessionIn(s, i + 1, Len(tape[s]))'
        PROVE  tape'[s][i].at # "lost"
    <3>0. ~Killing
      BY <2>5 DEF Killing
    <3>1. CASE i \in 1..Len(tape[s])
      <4>1. tape[s][i].what = "session" /\ NoSessionIn(s, i + 1, Len(tape[s]))
        <5>1. \A x \in (i + 1)..Len(tape[s]) :
                x \in 1..Len(tape[s]) /\ x \in (i + 1)..Len(tape'[s])
          BY <1>1, <2>1, <3>1
        <5> QED
          BY <1>s, <2>1, <2>5, <3>1, <5>1 DEF NoSessionIn
      <4>2. pc # "down"
        <5>1. SUFFICES ASSUME pc = "down" PROVE FALSE
          OBVIOUS
        <5>2. Adding
          BY <2>2, <3>0, <5>1 DEF Flushing
        <5>3. /\ Len(tape'[s]) = Len(tape[s]) + 1
              /\ tape'[s][Len(tape[s]) + 1].what = "session"
          BY <2>5, <5>1, <5>2 DEF Adding
        <5>4. Len(tape[s]) + 1 \in (i + 1)..Len(tape'[s])
          BY <1>1, <3>1, <5>3
        <5> QED
          BY <2>5, <5>3, <5>4 DEF NoSessionIn
      <4>3. tape[s][i].at # "lost"
        BY <1>2, <3>1, <4>1, <4>2
      <4>4. tape'[s][i].at = Place(s, tape[s][i], W, L) /\ L = {}
        BY <2>2, <3>0, <3>1
      <4> QED
        BY <4>3, <4>4 DEF Place
    <3>2. CASE i \in Fresh(s)
      <4>1. CASE Adding
        BY <3>2, <4>1 DEF Adding
      <4>2. CASE Flushing
        BY <3>2, <4>2 DEF Flushing
      <4> QED
        BY <2>2, <3>0, <4>1, <4>2
    <3> QED
      BY <1>1, <2>1, <3>1, <3>2 DEF Fresh
  <2> QED
    BY <2>4, <2>5
<1>5. CASE Read \/ Drain
  <2>0. pc # "down"
    BY <1>5, HandledIs
  <2>1. CASE UNCHANGED tape
    BY <1>3, <2>0, <2>1
  <2>2. ASSUME NEW r \in Streams, NEW n \in 1..MaxId, NEW k \in Nat, Takes(r, n, k)
        PROVE  /\ \A j \in (i + 1)..Len(tape'[s]) :
                    IsRow(s, j)' /\ NoSessionIn(s, i + 1, j)' =>
                      tape'[s][i].at = "disk" \/ tape'[s][i].at = tape'[s][j].at
               /\ pc' # "down" /\ NoSessionIn(s, i + 1, Len(tape[s]))' =>
                    tape'[s][i].at # "lost"
    <3>1. CASE s # r
      <4>1. tape'[s] = tape[s]
        BY <2>2, <3>1 DEF Takes
      <4> QED
        <5>1. /\ i \in 1..Len(tape[s]) /\ tape[s][i].what = "session"
              /\ \A j : IsRow(s, j)' = IsRow(s, j)
              /\ \A j : NoSessionIn(s, i + 1, j)' = NoSessionIn(s, i + 1, j)
              /\ NoSessionIn(s, i + 1, Len(tape[s]))' = NoSessionIn(s, i + 1, Len(tape[s]))
          BY <1>s, <4>1 DEF IsRow, NoSessionIn
        <5> QED
          BY <1>2, <2>0, <4>1, <5>1
    <3>2. CASE s = r
      <4> DEFINE l == Len(tape[s])
      <4>1. /\ l < k /\ k <= Len(tape'[s])
            /\ \A x \in 1..l : x \in 1..Len(tape'[s]) /\ tape'[s][x] = tape[s][x]
            /\ \A x \in Fresh(s) :
                 /\ tape'[s][x].at = "buffer"
                 /\ tape'[s][x].what # "session"
                 /\ IsRow(s, x)' => x = k
        <5>1. /\ l < k /\ k <= Len(tape'[s]) /\ tape'[s][k].what = "row"
              /\ \A x \in 1..l : x \in 1..Len(tape'[s]) /\ tape'[s][x] = tape[s][x]
              /\ \A x \in Fresh(s) :
                   /\ tape'[s][x].at = "buffer" /\ x \in Nat
                   /\ x < k => tape'[s][x].what = "handover"
                   /\ x > k => tape'[s][x].what = "jump"
          BY <2>2, <3>2, TakesIs
        <5> QED
          BY <5>1 DEF IsRow
      <4>2. i \in 1..l /\ tape[s][i].what = "session"
        <5>1. i \in 1..l \/ i \in Fresh(s)
          BY <1>1 DEF Fresh
        <5> QED
          BY <1>s, <4>1, <5>1
      <4>3. ASSUME NEW j \in (i + 1)..Len(tape'[s]), NoSessionIn(s, i + 1, j)', j >= l
            PROVE  tape'[s][i].at # "lost"
        <5>1. \A x \in (i + 1)..l : x \in 1..l /\ x \in (i + 1)..j
          BY <1>1, <4>2, <4>3
        <5>2. NoSessionIn(s, i + 1, l)
          BY <4>1, <4>3, <5>1 DEF NoSessionIn
        <5> QED
          BY <1>2, <2>0, <4>1, <4>2, <5>2
      <4>4. ASSUME NEW j \in (i + 1)..Len(tape'[s]), IsRow(s, j)', NoSessionIn(s, i + 1, j)'
            PROVE  tape'[s][i].at = "disk" \/ tape'[s][i].at = tape'[s][j].at
        <5>1. CASE j <= l
          <6>1. j \in (i + 1)..l /\ j \in 1..l /\ \A x \in (i + 1)..j : x \in 1..l
            BY <1>1, <4>2, <5>1
          <6>2. IsRow(s, j) /\ NoSessionIn(s, i + 1, j)
            BY <4>1, <4>4, <6>1 DEF IsRow, NoSessionIn
          <6> QED
            BY <1>2, <4>1, <4>2, <6>1, <6>2
        <5>2. CASE j > l
          <6>1. j \in Fresh(s) /\ j >= l
            BY <1>1, <5>2 DEF Fresh
          <6>2. tape'[s][j].at = "buffer" /\ tape'[s][i].at # "lost"
            BY <4>1, <4>3, <4>4, <6>1
          <6>3. tape'[s][i].at \in {"buffer", "disk", "lost"}
            <7>1. tape[s][i] \in Entries
              BY <4>2, Typed
            <7> QED
              BY <4>1, <4>2, <7>1 DEF Entries
          <6> QED
            BY <6>2, <6>3
        <5> QED
          BY <1>1, <5>1, <5>2
      <4>5. ASSUME NoSessionIn(s, i + 1, Len(tape[s]))' PROVE tape'[s][i].at # "lost"
        <5>1. Len(tape'[s]) \in (i + 1)..Len(tape'[s]) /\ Len(tape'[s]) >= l
          BY <1>1, <4>1, <4>2
        <5> QED
          BY <4>3, <4>5, <5>1
      <4> QED
        BY <4>4, <4>5
    <3> QED
      BY <3>1, <3>2
  <2> QED
    BY <1>5, <2>1, <2>2, HandledIs
<1> QED
  BY <1>4, <1>5, KindOf

-----------------------------------------------------------------------------
(* Rows and queues.                                                        *)

\* Rows below an id are below a greater one.
LEMMA BelowUp ==
  ASSUME NEW t \in Tapes, NEW s \in Streams, NEW m \in Nat, NEW n \in Nat, m <= n,
         RowsBelow(t, s, m)
  PROVE  RowsBelow(t, s, n)
<1>1. \A i \in 1..Len(t[s]) : t[s][i] \in Entries
  <2>1. t[s] \in Seq(Entries)
    BY DEF Tapes
  <2> QED
    BY <2>1
<1>2. \A e \in Entries : e.id \in Nat
  BY DEF Entries
<1> QED
  BY <1>1, <1>2 DEF RowsBelow

\* A tape extended by records has the same rows.
LEMMA BelowKept ==
  ASSUME NEW t \in Tapes, NEW u \in Tapes, Extends(t, u), NEW s \in Streams
  PROVE  /\ \A n : RowsBelow(t, s, n) => RowsBelow(u, s, n)
         /\ Ascending(t, s) => Ascending(u, s)
<1>1. /\ Len(t[s]) <= Len(u[s])
      /\ \A i \in 1..Len(t[s]) : u[s][i].what = t[s][i].what /\ u[s][i].id = t[s][i].id
      /\ \A i \in (Len(t[s]) + 1)..Len(u[s]) : u[s][i].what \notin {"row", "jump"}
  BY DEF Extends
<1>2. Len(t[s]) \in Nat /\ Len(u[s]) \in Nat
  BY DEF Tapes
<1>3. \A i \in 1..Len(u[s]) : u[s][i].what = "row" =>
        i \in 1..Len(t[s]) /\ t[s][i].what = "row" /\ u[s][i].id = t[s][i].id
  BY <1>1, <1>2
<1> QED
  BY <1>3 DEF RowsBelow, Ascending

\* A row that is taken above the others leaves the rows ascending.
LEMMA RowTaken ==
  ASSUME TypeOK, NEW s \in Streams, NEW n \in 1..MaxId, NEW k \in Nat, Takes(s, n, k),
         RowsBelow(tape, s, n)
  PROVE  /\ Ascending(tape, s) => Ascending(tape', s)
         /\ \A m \in Nat : m > n => RowsBelow(tape', s, m)
<1> DEFINE l == Len(tape[s])
           x == Len(tape'[s])
<1>1. /\ l < k /\ k <= x /\ x \in Nat /\ l \in Nat
      /\ tape'[s][k].id = n
      /\ \A i \in 1..l : tape'[s][i] = tape[s][i]
      /\ \A i \in (l + 1)..x : tape'[s][i].what = "row" => i = k
  <2>1. /\ l < k /\ k <= x /\ x \in Nat
        /\ tape'[s][k].id = n
        /\ \A i \in 1..l : tape'[s][i] = tape[s][i]
        /\ \A i \in (l + 1)..x : /\ i \in Nat
                                 /\ i < k => tape'[s][i].what = "handover"
                                 /\ i > k => tape'[s][i].what = "jump"
    BY TakesIs DEF Fresh
  <2>2. ASSUME NEW i \in (l + 1)..x, tape'[s][i].what = "row" PROVE i = k
    BY <2>1, <2>2
  <2> QED
    BY <2>1, <2>2, Typed
<1>2. \A i \in 1..l : tape[s][i].id \in Nat
  <2>1. \A e \in Entries : e.id \in Nat
    BY DEF Entries
  <2> QED
    BY <2>1, Typed
<1>3. n \in Nat
  BY Constants
<1> HIDE DEF l, x
<1>4. \A i \in 1..x : tape'[s][i].what = "row" =>
        \/ i \in 1..l /\ tape[s][i].what = "row" /\ tape'[s][i].id = tape[s][i].id
           /\ tape'[s][i].id \in Nat
        \/ i = k /\ tape'[s][i].id = n
  BY <1>1, <1>2
<1>5. \A i \in 1..l : tape[s][i].what = "row" => tape[s][i].id < n
  BY DEF RowsBelow, l
<1>6. ASSUME NEW m \in Nat, m > n PROVE RowsBelow(tape', s, m)
  <2>1. \A i \in 1..x : tape'[s][i].what = "row" => tape'[s][i].id < m
    BY <1>2, <1>3, <1>4, <1>5, <1>6
  <2> QED
    BY <2>1 DEF RowsBelow, x
<1>7. ASSUME Ascending(tape, s) PROVE Ascending(tape', s)
  <2>1. \A i, j \in 1..l : i < j /\ tape[s][i].what = "row" /\ tape[s][j].what = "row" =>
          tape[s][i].id < tape[s][j].id
    BY <1>7 DEF Ascending, l
  <2>2. SUFFICES ASSUME NEW i \in 1..x, NEW j \in 1..x, i < j, tape'[s][i].what = "row",
                        tape'[s][j].what = "row"
                 PROVE  tape'[s][i].id < tape'[s][j].id
    BY DEF Ascending, x
  <2>3. i \in 1..l
    BY <1>1, <1>4, <2>2
  <2> QED
    BY <1>1, <1>4, <1>5, <2>1, <2>2, <2>3
<1> QED
  BY <1>6, <1>7

\* Messages sent since do not disturb the order of a queue.
LEMMA OrderKept ==
  ASSUME NEW queue \in Seq(Msg), NEW past \in [Streams -> 0..MaxId],
         NEW later \in [Streams -> 0..MaxId], \A s \in Streams : past[s] <= later[s],
         InOrder(queue, past)
  PROVE  InOrder(queue, later)
<1>1. ASSUME NEW i \in 1..Len(queue) PROVE queue[i][1] \in Streams /\ queue[i][2] \in Nat
  <2>1. queue[i] \in Msg
    BY <1>1
  <2> QED
    BY <2>1, Constants DEF Msg
<1>2. \A s \in Streams : past[s] \in Nat /\ later[s] \in Nat
  BY Constants
<1>3. \A i \in 1..Len(queue) : queue[i][2] <= later[queue[i][1]]
  <2>1. \A i \in 1..Len(queue) : queue[i][2] <= past[queue[i][1]]
    BY DEF InOrder
  <2>2. \A m, x, y \in Nat : m <= x /\ x <= y => m <= y
    OBVIOUS
  <2>3. ASSUME NEW i \in 1..Len(queue) PROVE queue[i][2] <= later[queue[i][1]]
    <3>1. /\ queue[i][2] \in Nat /\ past[queue[i][1]] \in Nat
          /\ later[queue[i][1]] \in Nat /\ past[queue[i][1]] <= later[queue[i][1]]
          /\ queue[i][2] <= past[queue[i][1]]
      BY <1>1, <1>2, <2>1, <2>3
    <3> QED
      BY <2>2, <3>1
  <2> QED
    BY <2>3
<1> QED
  BY <1>3 DEF InOrder

\* What the venue sends next comes last.
LEMMA OrderGrows ==
  ASSUME NEW sock \in Socket, NEW past \in [Streams -> 0..MaxId], NEW s \in Streams,
         past[s] < MaxId, InOrder(sock.queue, past)
  PROVE  LET q == Receive(sock, s, past[s] + 1).queue IN
         /\ InOrder(q, [past EXCEPT ![s] = @ + 1])
         /\ \A i \in 1..Len(q) : \/ i \in 1..Len(sock.queue) /\ q[i] = sock.queue[i]
                                 \/ q[i] = <<s, past[s] + 1>>
<1> DEFINE n == past[s] + 1
           later == [past EXCEPT ![s] = @ + 1]
           old == sock.queue
           q == Receive(sock, s, n).queue
<1>1. n \in 1..MaxId /\ past[s] \in Nat /\ n \in Nat /\ n = past[s] + 1
  <2>1. past[s] \in Nat /\ MaxId \in Nat
    BY Constants
  <2> QED
    BY <2>1
<1>2. later \in [Streams -> 0..MaxId] /\ \A r \in Streams : past[r] <= later[r]
      /\ later[s] = n
  <2>1. n \in 0..MaxId
    BY <1>1, Constants
  <2>2. \A r \in Streams : past[r] \in Nat
    BY Constants
  <2> QED
    BY <1>1, <2>1, <2>2
<1>3. old \in Seq(Msg) /\ Len(old) \in Nat
  BY DEF Socket
<1>4. InOrder(old, later)
  BY <1>2, <1>3, OrderKept
<1>5. q = IF sock.open THEN Append(old, <<s, n>>) ELSE old
  BY <1>1, ReceiveIs
<1>6. CASE q = old
  BY <1>4, <1>6
<1>7. CASE q = Append(old, <<s, n>>)
  <2>1. /\ Len(q) = Len(old) + 1 /\ q[Len(old) + 1] = <<s, n>>
        /\ \A i \in 1..Len(old) : q[i] = old[i]
    BY <1>3, <1>7
  <2>2. ASSUME NEW i \in 1..Len(old) PROVE old[i][1] \in Streams /\ old[i][2] \in Nat
    <3>1. old[i] \in Msg
      BY <1>3, <2>2
    <3> QED
      BY <3>1, Constants DEF Msg
  <2> DEFINE l == Len(old)
  <2> HIDE DEF later, n, old, q, l
  <2>3. /\ \A i, j \in 1..l : i < j /\ old[i][1] = old[j][1] => old[i][2] < old[j][2]
        /\ \A i \in 1..l : old[i][2] <= past[old[i][1]] /\ old[i][2] <= later[old[i][1]]
    BY <1>4 DEF InOrder, old, l
  <2>4. \A i \in 1..Len(q) : \/ i \in 1..l /\ q[i] = old[i]
                             \/ i = l + 1 /\ q[i] = <<s, n>> /\ q[i][1] = s /\ q[i][2] = n
    BY <1>3, <2>1 DEF l
  <2>5. \A i \in 1..l : old[i][1] = s => old[i][2] < n
    BY <1>1, <2>2, <2>3 DEF l
  <2>6. \A i \in 1..Len(q) : q[i][2] <= later[q[i][1]]
    BY <1>1, <1>2, <2>3, <2>4
  <2>7. ASSUME NEW i \in 1..Len(q), NEW j \in 1..Len(q), i < j, q[i][1] = q[j][1]
        PROVE  q[i][2] < q[j][2]
    <3>1. i \in 1..l
      BY <1>3, <2>1, <2>7 DEF l
    <3> QED
      BY <1>3, <2>3, <2>4, <2>5, <2>7, <3>1 DEF l
  <2>8. \A i \in 1..Len(q) : \/ i \in 1..Len(old) /\ q[i] = old[i]
                             \/ q[i] = <<s, n>>
    BY <2>4 DEF l
  <2> QED
    BY <2>6, <2>7, <2>8 DEF InOrder, old, q, later, n
<1> QED
  BY <1>5, <1>6, <1>7

\* Reading a message leaves the others in order, all after it.
LEMMA OrderShrinks ==
  ASSUME TypeOK, ws.queue # <<>>, InOrder(ws.queue, sent)
  PROVE  /\ InOrder(Tail(ws.queue), sent)
         /\ \A i \in 1..Len(Tail(ws.queue)) :
              Tail(ws.queue)[i][1] = Head(ws.queue)[1] =>
                Head(ws.queue)[2] < Tail(ws.queue)[i][2]
         /\ Head(ws.queue)[2] <= sent[Head(ws.queue)[1]]
<1> DEFINE q == ws.queue
           u == Tail(ws.queue)
<1>1. /\ Len(q) \in Nat \ {0} /\ Len(u) = Len(q) - 1
      /\ Head(q) = q[1] /\ \A i \in 1..Len(u) : u[i] = q[i + 1]
  BY HeadIs
<1>2. /\ \A i, j \in 1..Len(q) : i < j /\ q[i][1] = q[j][1] => q[i][2] < q[j][2]
      /\ \A i \in 1..Len(q) : q[i][2] <= sent[q[i][1]]
  BY DEF InOrder
<1> HIDE DEF q, u
<1>3. \A i \in 1..Len(u) : i + 1 \in 1..Len(q) /\ 1 < i + 1
  BY <1>1
<1>4. \A i, j \in 1..Len(u) : i < j => i + 1 < j + 1
  BY <1>1
<1>5. 1 \in 1..Len(q)
  BY <1>1
<1>6. InOrder(u, sent)
  <2>1. \A i \in 1..Len(u) : u[i][2] <= sent[u[i][1]]
    BY <1>1, <1>2, <1>3
  <2>2. ASSUME NEW i \in 1..Len(u), NEW j \in 1..Len(u), i < j, u[i][1] = u[j][1]
        PROVE  u[i][2] < u[j][2]
    BY <1>1, <1>2, <1>3, <1>4, <2>2
  <2> QED
    BY <2>1, <2>2 DEF InOrder
<1> QED
  BY <1>1, <1>2, <1>3, <1>5, <1>6 DEF q, u

\* Where the positions go in a step that handles no message.
LEMMA PositionsOf ==
  ASSUME TypeOK, [Next]_vars, ~Read, ~Drain, NEW s \in Streams
  PROVE  /\ sent'[s] \in {sent[s], sent[s] + 1}
         /\ last'[s] \in {last[s], 0}
         /\ floor'[s] \in {floor[s], 0, last[s]}
<1> DEFINE Good == /\ sent'[s] \in {sent[s], sent[s] + 1}
                   /\ last'[s] \in {last[s], 0}
                   /\ floor'[s] \in {floor[s], 0, last[s]}
<1>1. ASSUME UNCHANGED vars PROVE Good
  BY <1>1 DEF vars
<1>2. ASSUME NEW r \in Streams, Emit(r) \/ VenueSkips(r) PROVE Good
  BY <1>2, Typed DEF Emit, VenueSkips
<1>3. ASSUME \/ SocketEnds \/ StartProcess \/ Connect \/ ConnectFails \/ ReadEnds
             \/ ReadEndsUnsaved \/ CloseThenReopen \/ OpenSuccessor \/ SuccessorFails
             \/ Waits \/ TimerFlush \/ TimerFlushFails
      PROVE  Good
  BY <1>3 DEF SocketEnds, StartProcess, Connect, ConnectFails, ReadEnds, ReadEndsUnsaved,
     CloseThenReopen, OpenSuccessor, SuccessorFails, Waits, TimerFlush, TimerFlushFails,
     venue, vars
<1>4. ASSUME Ritual PROVE Good
  BY <1>4 DEF Ritual, OnConnected, venue
<1>5. ASSUME FinishHandover PROVE Good
  BY <1>5 DEF FinishHandover, OverlapFloor, venue
<1>6. ASSUME StopProcess \/ Dies \/ Kill PROVE Good
  BY <1>6 DEF StopProcess, Dies, Kill, Gone, venue
<1> HIDE DEF Good
<1>7. Good
  BY <1>1, <1>2, <1>3, <1>4, <1>5, <1>6 DEF Next, Venue, Run, Tasks
<1> QED
  BY <1>7 DEF Good

\* A tracked position is that of the message at least.
LEMMA PositionAtLeast ==
  ASSUME TypeOK, NEW s \in Counted \cup Rising, NEW n \in 1..MaxId
  PROVE  Position(s, n) \in Nat /\ Position(s, n) >= n /\ Position(s, n) # 0
<1>1. s \in Streams /\ last[s] \in Nat /\ n \in Nat /\ n # 0 /\ n >= 1
  BY Typed, Constants DEF Streams
<1> QED
  BY <1>1, PositionIs

\* Every step keeps the rows of a stream ascending.
LEMMA RowsStep ==
  ASSUME TypeOK, RowsInv, QueueInv, [Next]_vars
  PROVE  RowsInv'
<1>s. SUFFICES ASSUME NEW s \in Counted \cup Rising
               PROVE  /\ Ascending(tape', s)
                      /\ RowsBelow(tape', s, sent'[s] + 1)
                      /\ last'[s] <= sent'[s]
                      /\ last'[s] # 0 => RowsBelow(tape', s, last'[s] + 1)
                      /\ floor'[s] # 0 => RowsBelow(tape', s, floor'[s] + 1)
  BY DEF RowsInv
<1>1. /\ Ascending(tape, s)
      /\ RowsBelow(tape, s, sent[s] + 1)
      /\ last[s] <= sent[s]
      /\ last[s] # 0 => RowsBelow(tape, s, last[s] + 1)
      /\ floor[s] # 0 => RowsBelow(tape, s, floor[s] + 1)
  BY <1>s DEF RowsInv
<1>2. /\ s \in Streams /\ tape \in Tapes /\ tape' \in Tapes
      /\ sent[s] \in Nat /\ last[s] \in Nat /\ floor[s] \in Nat
  <2>1. s \in Streams
    BY <1>s DEF Streams
  <2> QED
    BY <2>1, Typed, StepOf
<1>3. CASE Extends(tape, tape') /\ ~Read /\ ~Drain
  <2>1. /\ \A n : RowsBelow(tape, s, n) => RowsBelow(tape', s, n)
        /\ Ascending(tape', s)
    BY <1>1, <1>2, <1>3, BelowKept
  <2>2. /\ sent'[s] \in {sent[s], sent[s] + 1}
        /\ last'[s] \in {last[s], 0}
        /\ floor'[s] \in {floor[s], 0, last[s]}
    BY <1>2, <1>3, PositionsOf
  <2>3. RowsBelow(tape, s, sent[s] + 2)
    <3>1. sent[s] + 1 \in Nat /\ sent[s] + 2 \in Nat /\ sent[s] + 1 <= sent[s] + 2
      BY <1>2
    <3> QED
      BY <1>1, <1>2, <3>1, BelowUp
  <2>4. sent'[s] + 1 = sent[s] + 1 \/ sent'[s] + 1 = sent[s] + 2
    BY <1>2, <2>2
  <2>5. last'[s] <= sent'[s]
    BY <1>1, <1>2, <2>2
  <2> QED
    BY <1>1, <2>1, <2>2, <2>3, <2>4, <2>5
<1>4. CASE Read \/ Drain
  <2>1. PICK r \in Streams, n \in 1..MaxId :
              /\ Head(ws.queue) = <<r, n>> /\ ws.queue # <<>> /\ sent' = sent
              /\ \/ IsOverlapDuplicate(r, n) /\ UNCHANGED <<tape, last, floor>>
                 \/ ~IsOverlapDuplicate(r, n) /\ \E k \in Nat : Takes(r, n, k)
    BY <1>4, HandledIs
  <2>2. CASE UNCHANGED <<tape, last, floor>>
    BY <1>1, <2>1, <2>2
  <2>3. ASSUME NEW k \in Nat, Takes(r, n, k), ~IsOverlapDuplicate(r, n)
        PROVE  /\ Ascending(tape', s)
               /\ RowsBelow(tape', s, sent[s] + 1)
               /\ last'[s] <= sent[s]
               /\ last'[s] # 0 => RowsBelow(tape', s, last'[s] + 1)
               /\ floor'[s] # 0 => RowsBelow(tape', s, floor'[s] + 1)
    <3>0. /\ last' = [last EXCEPT ![r] = Position(r, n)]
          /\ floor' = [floor EXCEPT ![r] = 0]
          /\ \A q \in Streams \ {r} : tape'[q] = tape[q]
      BY <2>3 DEF Takes
    <3>1. CASE s # r
      <4>1. tape'[s] = tape[s] /\ last'[s] = last[s] /\ floor'[s] = floor[s]
        BY <1>2, <3>0, <3>1, Typed
      <4> QED
        BY <1>1, <4>1 DEF Ascending, RowsBelow
    <3>2. CASE s = r
      <4>1. RowsBelow(tape, s, n) /\ n <= sent[s]
        <5>1. Head(ws.queue)[1] = r /\ Head(ws.queue)[2] = n
          BY <2>1
        <5>2. n <= sent[s]
          BY <2>1, <3>2, <5>1, OrderShrinks DEF QueueInv
        <5>3. Fits(tape, floor, r, n)
          <6>1. Head(ws.queue) = ws.queue[1] /\ 1 \in 1..Len(ws.queue)
            BY <2>1, HeadIs
          <6> QED
            BY <5>1, <6>1 DEF QueueInv
        <5> QED
          BY <1>s, <2>3, <3>2, <5>2, <5>3 DEF Fits, IsOverlapDuplicate
      <4>2. /\ Ascending(tape', s)
            /\ \A m \in Nat : m > n => RowsBelow(tape', s, m)
        BY <1>1, <2>3, <3>2, <4>1, RowTaken
      <4>3. last'[s] = Position(s, n) /\ floor'[s] = 0
        BY <1>2, <3>0, <3>2, Typed
      <4>4. Position(s, n) \in Nat /\ Position(s, n) >= n
        BY <1>s, PositionAtLeast
      <4>5. n \in Nat
        BY Constants
      <4>6. sent[s] + 1 \in Nat /\ sent[s] + 1 > n
        BY <1>2, <4>1, <4>5
      <4>7. last'[s] + 1 \in Nat /\ last'[s] + 1 > n
        BY <4>3, <4>4, <4>5
      <4>8. Position(s, n) = n \/ Position(s, n) = last[s]
        BY <1>s, <1>2, PositionIs
      <4> QED
        BY <1>1, <4>1, <4>2, <4>3, <4>6, <4>7, <4>8
    <3> QED
      BY <3>1, <3>2
  <2> QED
    BY <2>1, <2>2, <2>3
<1> QED
  BY <1>3, <1>4, StepOf

\* Every step keeps what is to be read new, or discarded by the overlap.
LEMMA QueueStep ==
  ASSUME TypeOK, PhaseInv, RowsInv, QueueInv, [Next]_vars
  PROVE  QueueInv'
<1> DEFINE Fine(q) == \A i \in 1..Len(q) : Fits(tape', floor', q[i][1], q[i][2])
           FineLater(q) == \A i \in 1..Len(q) : FitsLater(tape', last', q[i][1], q[i][2])
           Good == /\ InOrder(ws'.queue, sent') /\ InOrder(succ'.queue, sent')
                   /\ Fine(ws'.queue) /\ FineLater(succ'.queue)
<1>s. SUFFICES Good
  BY DEF QueueInv
<1>0. /\ ws \in Socket /\ succ \in Socket /\ ws.queue \in Seq(Msg) /\ succ.queue \in Seq(Msg)
      /\ InOrder(ws.queue, sent) /\ InOrder(succ.queue, sent)
      /\ \A i \in 1..Len(ws.queue) : Fits(tape, floor, ws.queue[i][1], ws.queue[i][2])
      /\ \A i \in 1..Len(succ.queue) :
           FitsLater(tape, last, succ.queue[i][1], succ.queue[i][2])
      /\ tape \in Tapes /\ tape' \in Tapes
  <2>1. ws \in Socket /\ succ \in Socket
    BY DEF TypeOK
  <2>2. ws.queue \in Seq(Msg) /\ succ.queue \in Seq(Msg)
    BY <2>1 DEF Socket
  <2> QED
    BY <2>1, <2>2, Typed, StepOf DEF QueueInv
<1>1. ASSUME NEW q \in Seq(Msg), NEW i \in 1..Len(q)
      PROVE  q[i][1] \in Streams /\ q[i][2] \in 1..MaxId /\ q[i][2] \in Nat
  <2>1. q[i] \in Msg
    BY <1>1
  <2> QED
    BY <2>1, Constants DEF Msg
<1>2. NoSocket.queue = <<>> /\ InOrder(<<>>, sent') /\ Fine(<<>>) /\ FineLater(<<>>)
  <2>1. 1..Len(<<>>) = {}
    OBVIOUS
  <2> QED
    BY <2>1 DEF NoSocket, InOrder
<1>3. ASSUME Extends(tape, tape'), floor' = floor, sent' = sent,
             ws'.queue \in {ws.queue, <<>>},
             \/ succ'.queue = succ.queue /\ last' = last
             \/ succ'.queue = <<>>
      PROVE  Good
  <2>1. \A s \in Streams : \A n : RowsBelow(tape, s, n) => RowsBelow(tape', s, n)
    BY <1>0, <1>3, BelowKept
  <2>2. Fine(ws.queue)
    BY <1>0, <1>1, <1>3, <2>1 DEF Fits
  <2>3. last' = last => FineLater(succ.queue)
    BY <1>0, <1>1, <2>1 DEF FitsLater
  <2> HIDE DEF Fine, FineLater
  <2> QED
    BY <1>0, <1>2, <1>3, <2>2, <2>3
<1>4. CASE UNCHANGED vars
  BY <1>0, <1>3, <1>4, ExtendsItself DEF vars
<1>5. CASE SocketEnds
  <2>1. ws'.queue = ws.queue
    BY <1>0, <1>5 DEF SocketEnds, Socket
  <2> QED
    BY <1>0, <1>3, <1>5, <2>1, ExtendsItself DEF SocketEnds, venue
<1>6. CASE Extends(tape, tape') /\ (\/ StartProcess \/ Connect \/ ConnectFails \/ ReadEnds
             \/ ReadEndsUnsaved \/ CloseThenReopen \/ OpenSuccessor \/ SuccessorFails
             \/ Waits \/ TimerFlush \/ TimerFlushFails)
  BY <1>2, <1>3, <1>6 DEF StartProcess, Connect, ConnectFails, ReadEnds, ReadEndsUnsaved,
     CloseThenReopen, OpenSuccessor, SuccessorFails, Waits, TimerFlush, TimerFlushFails,
     venue, sockets, vars
<1>7. CASE Extends(tape, tape') /\ Ritual
  <2>1. succ'.queue = <<>>
    BY <1>2, <1>7 DEF PhaseInv, Ritual, sockets
  <2> QED
    BY <1>3, <1>7, <2>1 DEF Ritual, venue, sockets
<1>8. CASE StopProcess \/ Dies \/ Kill
  <2>1. ws' = NoSocket /\ succ' = NoSocket
    BY <1>8 DEF StopProcess, Dies, Kill, Gone
  <2> HIDE DEF Fine, FineLater
  <2> QED
    BY <1>2, <2>1
<1>9. ASSUME NEW r \in Streams, Emit(r) \/ VenueSkips(r) PROVE Good
  <2> DEFINE n == sent[r] + 1
             q == Receive(ws, r, n).queue
             u == Receive(succ, r, n).queue
  <2>1. /\ sent' = [sent EXCEPT ![r] = @ + 1] /\ sent[r] < MaxId
        /\ ws'.queue = q \/ ws'.queue = ws.queue
        /\ succ'.queue = u
        /\ UNCHANGED <<tape, last, floor>>
    BY <1>9 DEF Emit, VenueSkips
  <2>2. sent \in [Streams -> 0..MaxId] /\ \A s \in Streams : sent[s] \in Nat
    BY Typed
  <2>3. /\ InOrder(q, sent')
        /\ \A i \in 1..Len(q) : \/ i \in 1..Len(ws.queue) /\ q[i] = ws.queue[i]
                                \/ q[i] = <<r, n>>
    BY <1>0, <2>1, <2>2, OrderGrows
  <2>4. /\ InOrder(u, sent')
        /\ \A i \in 1..Len(u) : \/ i \in 1..Len(succ.queue) /\ u[i] = succ.queue[i]
                                \/ u[i] = <<r, n>>
    BY <1>0, <2>1, <2>2, OrderGrows
  <2>5. InOrder(ws.queue, sent')
    <3>1. sent' \in [Streams -> 0..MaxId] /\ \A s \in Streams : sent[s] <= sent'[s]
      <4>1. sent' \in [Streams -> 0..MaxId]
        <5>1. TypeOK'
          BY TypeStep
        <5> QED
          BY <5>1 DEF TypeOK
      <4> QED
        BY <2>1, <2>2, <4>1
    <3> QED
      BY <1>0, <2>2, <3>1, OrderKept
  <2>6. r \in Counted \cup Rising => RowsBelow(tape, r, n)
    BY DEF RowsInv
  <2> HIDE DEF n, q, u
  <2>7. Fine(ws.queue) /\ Fine(q)
    <3>1. Fine(ws.queue)
      BY <1>0, <2>1
    <3>2. Fits(tape', floor', r, n)
      BY <2>1, <2>6 DEF Fits
    <3> QED
      BY <2>3, <3>1, <3>2
  <2>8. FineLater(u)
    <3>1. FineLater(succ.queue)
      BY <1>0, <2>1
    <3>2. FitsLater(tape', last', r, n)
      BY <2>1, <2>6 DEF FitsLater
    <3> QED
      BY <2>4, <3>1, <3>2
  <2> HIDE DEF Fine, FineLater
  <2> QED
    BY <2>1, <2>3, <2>4, <2>5, <2>7, <2>8
<1>10. CASE Extends(tape, tape') /\ FinishHandover
  <2>1. ws' = succ /\ succ' = NoSocket /\ floor' = last /\ sent' = sent
    BY <1>10 DEF FinishHandover, OverlapFloor, venue
  <2>2. \A s \in Streams : \A n : RowsBelow(tape, s, n) => RowsBelow(tape', s, n)
    BY <1>0, <1>10, BelowKept
  <2>3. Fine(succ.queue)
    <3>1. SUFFICES ASSUME NEW i \in 1..Len(succ.queue)
                   PROVE  Fits(tape', last, succ.queue[i][1], succ.queue[i][2])
      BY <2>1
    <3> DEFINE s == succ.queue[i][1]
               n == succ.queue[i][2]
    <3>2. s \in Streams /\ n \in Nat /\ FitsLater(tape, last, s, n)
      BY <1>0, <1>1, <3>1
    <3> HIDE DEF s, n
    <3>3. ASSUME s \in Counted \cup Rising, last[s] # 0, ~(n <= last[s])
          PROVE  RowsBelow(tape, s, n)
      <4>1. RowsBelow(tape, s, last[s] + 1) /\ last[s] + 1 \in Nat /\ last[s] + 1 <= n
        BY <3>2, <3>3, Typed DEF RowsInv
      <4> QED
        BY <1>0, <3>2, <4>1, BelowUp
    <3>4. Fits(tape', last, s, n)
      BY <2>2, <3>2, <3>3 DEF Fits, FitsLater
    <3> QED
      BY <3>4 DEF s, n
  <2> HIDE DEF Fine, FineLater
  <2> QED
    BY <1>0, <1>2, <2>1, <2>3
<1>11. CASE Read \/ Drain
  <2>1. /\ succ' = succ /\ ws'.queue = Tail(ws.queue) /\ sent' = sent
        /\ ws.queue # <<>>
    BY <1>11, HandledIs
  <2>2. PICK r \in Streams, n \in 1..MaxId :
              /\ Head(ws.queue) = <<r, n>>
              /\ \/ IsOverlapDuplicate(r, n) /\ UNCHANGED <<tape, last, floor>>
                 \/ ~IsOverlapDuplicate(r, n) /\ \E k \in Nat : Takes(r, n, k)
    BY <1>11, HandledIs
  <2> DEFINE u == Tail(ws.queue)
  <2>3. /\ InOrder(u, sent)
        /\ \A i \in 1..Len(u) : u[i][1] = r => n < u[i][2]
    BY <1>0, <2>1, <2>2, OrderShrinks
  <2>4. \A i \in 1..Len(u) : /\ Fits(tape, floor, u[i][1], u[i][2])
                             /\ u[i][1] \in Streams /\ u[i][2] \in Nat
    <3>1. /\ u \in Seq(Msg)
          /\ \A i \in 1..Len(u) : u[i] = ws.queue[i + 1] /\ i + 1 \in 1..Len(ws.queue)
      <4>1. /\ u \in Seq(Msg) /\ Len(ws.queue) \in Nat \ {0} /\ Len(u) = Len(ws.queue) - 1
            /\ \A i \in 1..Len(u) : u[i] = ws.queue[i + 1]
        BY <2>1, HeadIs
      <4> HIDE DEF u
      <4> QED
        BY <4>1
    <3> HIDE DEF u
    <3> QED
      BY <1>0, <1>1, <3>1
  <2> HIDE DEF u
  <2>5. Fits(tape, floor, r, n)
    <3>1. Head(ws.queue) = ws.queue[1] /\ 1 \in 1..Len(ws.queue)
      BY <2>1, HeadIs
    <3>2. ws.queue[1][1] = r /\ ws.queue[1][2] = n
      BY <2>2, <3>1
    <3> QED
      BY <1>0, <3>1, <3>2
  <2>6. Fine(u) /\ FineLater(succ.queue)
    <3>1. CASE UNCHANGED <<tape, last, floor>>
      BY <1>0, <2>4, <3>1
    <3>2. ASSUME NEW k \in Nat, Takes(r, n, k), ~IsOverlapDuplicate(r, n)
          PROVE  Fine(u) /\ FineLater(succ.queue)
      <4>1. \A s \in Streams : s # r =>
              tape'[s] = tape[s] /\ last'[s] = last[s] /\ floor'[s] = floor[s]
        BY <3>2, Typed DEF Takes
      <4>2. last'[r] = Position(r, n)
        BY <3>2, Typed DEF Takes
      <4>3. r \in Counted \cup Rising => last'[r] # 0
        BY <4>2, PositionAtLeast
      <4>4. r \in Counted \cup Rising => \A m \in Nat : m > n => RowsBelow(tape', r, m)
        BY <2>5, <3>2, RowTaken DEF Fits, IsOverlapDuplicate
      <4>5. ASSUME NEW i \in 1..Len(u) PROVE Fits(tape', floor', u[i][1], u[i][2])
        <5> DEFINE s == u[i][1]
                   m == u[i][2]
        <5>1. s \in Streams /\ m \in Nat /\ Fits(tape, floor, s, m) /\ (s = r => n < m)
          BY <2>3, <2>4, <4>5
        <5> HIDE DEF s, m
        <5>2. n \in Nat
          BY Constants
        <5>3. CASE s = r
          <6>1. m > n
            BY <5>1, <5>2, <5>3
          <6> QED
            BY <4>4, <5>1, <5>3, <6>1 DEF Fits, s, m
        <5>4. CASE s # r
          <6>1. tape'[s] = tape[s] /\ floor'[s] = floor[s]
            BY <4>1, <5>1, <5>4
          <6>2. Fits(tape', floor', s, m)
            BY <5>1, <6>1 DEF Fits, RowsBelow
          <6> QED
            BY <6>2 DEF s, m
        <5> QED
          BY <5>3, <5>4
      <4>6. ASSUME NEW i \in 1..Len(succ.queue)
            PROVE  FitsLater(tape', last', succ.queue[i][1], succ.queue[i][2])
        <5> DEFINE s == succ.queue[i][1]
                   m == succ.queue[i][2]
        <5>1. s \in Streams /\ m \in Nat /\ FitsLater(tape, last, s, m)
          BY <1>0, <1>1, <4>6
        <5> HIDE DEF s, m
        <5>3. CASE s = r
          BY <4>3, <5>3 DEF FitsLater, s
        <5>4. CASE s # r
          <6>1. tape'[s] = tape[s] /\ last'[s] = last[s]
            BY <4>1, <5>1, <5>4
          <6>2. FitsLater(tape', last', s, m)
            BY <5>1, <6>1 DEF FitsLater, RowsBelow
          <6> QED
            BY <6>2 DEF s, m
        <5> QED
          BY <5>3, <5>4
      <4> QED
        BY <4>5, <4>6
    <3> HIDE DEF Fine, FineLater
    <3> QED
      BY <2>2, <3>1, <3>2
  <2> HIDE DEF Fine, FineLater
  <2> QED
    BY <1>0, <2>1, <2>3, <2>6 DEF u
<1> HIDE DEF Good
<1>12. CASE Extends(tape, tape') /\ ~Read /\ ~Drain
  BY <1>4, <1>5, <1>6, <1>7, <1>8, <1>9, <1>10, <1>12 DEF Next, Venue, Run, Tasks
<1> QED
  BY <1>11, <1>12, StepOf

-----------------------------------------------------------------------------
(* Holes.                                                                  *)

\* A tape extended by records that are not lost has the same holes, marked.
LEMMA MarkedKept ==
  ASSUME NEW t \in Tapes, NEW u \in Tapes, Extends(t, u), NEW s \in Streams,
         \A i \in 1..Len(t[s]) : Seen(u, s, i) <=> Seen(t, s, i),
         Marked(t, s)
  PROVE  Marked(u, s)
<1> DEFINE l == Len(t[s])
           m == Len(u[s])
<1>1. /\ l \in Nat /\ m \in Nat /\ l <= m
      /\ \A i \in 1..l : u[s][i].what = t[s][i].what /\ u[s][i].id = t[s][i].id
      /\ \A i \in (l + 1)..m : u[s][i].what \notin {"row", "jump"}
  BY DEF Extends, Tapes
<1>2. \A i \in 1..l : SeenRow(u, s, i) <=> SeenRow(t, s, i)
  BY <1>1 DEF SeenRow
<1>3. SUFFICES ASSUME NEW i \in 1..m, NEW j \in 1..m, Follows(u, s, i, j),
                      u[s][j].id # u[s][i].id + 1
               PROVE  Told(u, s, i, j - 1) \/ Jumped(u, s, i, j)
  BY DEF Marked
<1>4. i < j /\ u[s][j].what = "row"
  BY <1>3 DEF Follows, SeenRow
<1>5. i \in 1..l /\ j \in 1..l
  <2> HIDE DEF l, m
  <2>1. j \in 1..l \/ j \in (l + 1)..m
    BY <1>1
  <2>2. j \in 1..l
    BY <1>1, <1>4, <2>1
  <2> QED
    BY <1>1, <1>4, <2>2
<1>6. \A k \in (i + 1)..(j - 1) : k \in 1..l
  <2> HIDE DEF l, m
  <2> QED
    BY <1>1, <1>5
<1>7. Follows(t, s, i, j) /\ t[s][j].id # t[s][i].id + 1
  BY <1>1, <1>2, <1>3, <1>5, <1>6 DEF Follows
<1>8. CASE Told(t, s, i, j - 1)
  BY <1>1, <1>6, <1>8 DEF Told
<1>9. CASE Jumped(t, s, i, j)
  <2>1. j + 1 \in 1..l /\ j < m
    <3>1. j < l
      BY <1>9 DEF Jumped
    <3> HIDE DEF l, m
    <3> QED
      BY <1>1, <1>5, <3>1
  <2> QED
    BY <1>1, <1>5, <1>9, <2>1 DEF Jumped
<1> QED
  BY <1>5, <1>7, <1>8, <1>9 DEF Marked

\* Nor does it have a new one at its end, if the position stays, or a record is new
\* that a hole may be there.
LEMMA EndsKept ==
  ASSUME NEW t \in Tapes, NEW u \in Tapes, Extends(t, u), NEW s \in Streams,
         \A i \in 1..Len(t[s]) : Seen(u, s, i) <=> Seen(t, s, i),
         NEW p, NEW q,
         \/ Ends(t, s, p) /\ q = p
         \/ \E x \in (Len(t[s]) + 1)..Len(u[s]) :
              u[s][x].what \in {"session", "reconnect"} /\ Seen(u, s, x)
  PROVE  Ends(u, s, q)
<1> DEFINE l == Len(t[s])
           m == Len(u[s])
<1>1. /\ l \in Nat /\ m \in Nat /\ l <= m
      /\ \A i \in 1..l : u[s][i].what = t[s][i].what /\ u[s][i].id = t[s][i].id
      /\ \A i \in (l + 1)..m : u[s][i].what \notin {"row", "jump"}
  BY DEF Extends, Tapes
<1>2. \A i \in 1..l : SeenRow(u, s, i) <=> SeenRow(t, s, i)
  BY <1>1 DEF SeenRow
<1>3. SUFFICES ASSUME NEW i \in 1..m, SeenRow(u, s, i)
               PROVE  \/ \E j \in (i + 1)..m : SeenRow(u, s, j)
                      \/ q # 0 /\ u[s][i].id = q
                      \/ Told(u, s, i, m)
  BY DEF Ends
<1>4. i \in 1..l
  <2>1. u[s][i].what = "row"
    BY <1>3 DEF SeenRow
  <2> HIDE DEF l, m
  <2>2. i \in 1..l \/ i \in (l + 1)..m
    BY <1>1
  <2> QED
    BY <1>1, <2>1, <2>2
<1>5. /\ \A j \in (i + 1)..l : j \in 1..l /\ j \in (i + 1)..m
      /\ \A j \in (l + 1)..m : j \in (i + 1)..m
  <2> HIDE DEF l, m
  <2> QED
    BY <1>1, <1>4
<1>6. CASE Ends(t, s, p) /\ q = p
  <2>1. \/ \E j \in (i + 1)..l : SeenRow(t, s, j)
        \/ q # 0 /\ t[s][i].id = q
        \/ Told(t, s, i, l)
    BY <1>2, <1>3, <1>4, <1>6 DEF Ends
  <2>2. Told(t, s, i, l) => Told(u, s, i, m)
    BY <1>1, <1>5 DEF Told
  <2> QED
    BY <1>1, <1>2, <1>4, <1>5, <2>1, <2>2
<1>7. CASE \E x \in (l + 1)..m : u[s][x].what \in {"session", "reconnect"} /\ Seen(u, s, x)
  BY <1>5, <1>7 DEF Told
<1> QED
  BY <1>6, <1>7

\* A message taken is marked if it leaves a hole.
LEMMA HoleTaken ==
  ASSUME TypeOK, NEW s \in Counted, NEW n \in 1..MaxId, NEW k \in Nat, Takes(s, n, k),
         RowsBelow(tape, s, n), BufferedLast(tape, s), JumpsWithRow(tape, s),
         Marked(tape, s), Ends(tape, s, last[s]),
         last[s] # 0 => RowsBelow(tape, s, last[s] + 1) 
  PROVE  /\ BufferedLast(tape', s) /\ JumpsWithRow(tape', s) /\ Marked(tape', s)
         /\ Ends(tape', s, last'[s])
<1> DEFINE l == Len(tape[s])
           m == Len(tape'[s])
           t == tape
           u == tape'
<1>0. s \in Streams /\ last[s] \in Nat /\ n \in Nat /\ n # 0 /\ l \in Nat
  BY Typed, Constants DEF Streams
<1>1. /\ l < k /\ k <= m /\ m \in Nat
      /\ u[s][k].what = "row" /\ u[s][k].id = n
      /\ \A i \in 1..l : i \in 1..m /\ u[s][i] = t[s][i]
      /\ \A i \in (l + 1)..m :
           /\ u[s][i].at = "buffer" /\ i > l /\ i \in Nat
           /\ i < k => u[s][i].what = "handover"
           /\ i > k => i = k + 1 /\ u[s][i].what = "jump"
  BY <1>0, TakesIs DEF Fresh
<1>2. Jumps(s, n) => /\ k + 1 \in (l + 1)..m /\ u[s][k + 1].what = "jump"
                     /\ u[s][k + 1].id = last[s] /\ u[s][k + 1].at = "buffer"
  <2> DEFINE x == k + 1
  <2>1. Jumps(s, n) => x \in Fresh(s)
    BY <1>0, TakesIs
  <2>2. \A i \in Fresh(s) : /\ i > k => u[s][i].what = "jump" /\ u[s][i].id = last[s]
                            /\ u[s][i].at = "buffer"
    BY <1>0, TakesIs
  <2>3. x > k
    OBVIOUS
  <2> HIDE DEF x, t, u, Jumps
  <2>4. Jumps(s, n) => /\ x \in Fresh(s) /\ u[s][x].what = "jump"
                       /\ u[s][x].id = last[s] /\ u[s][x].at = "buffer"
    BY <2>1, <2>2, <2>3
  <2> QED
    BY <2>4 DEF x, u, Fresh
<1>3. last'[s] = n
  <2>1. last'[s] = Position(s, n)
    BY <1>0, Typed DEF Takes
  <2> QED
    BY <1>0, <2>1, PositionIs
<1>4. BufferedLast(t, s) /\ JumpsWithRow(t, s) /\ Marked(t, s) /\ Ends(t, s, last[s])
  OBVIOUS
<1>5. \A i \in 1..l : t[s][i].what = "row" => t[s][i].id < n
  BY DEF RowsBelow
<1>6. \A i \in 1..l : t[s][i].id \in Nat
  <2>1. \A e \in Entries : e.id \in Nat
    BY DEF Entries
  <2> QED
    BY <1>0, <2>1, Typed
<1>7. last[s] # 0 /\ n > last[s] + 1 => Jumps(s, n)
  BY DEF Jumps
<1>70. k \in 1..m /\ k \in (l + 1)..m /\ k \in Nat
  <2> HIDE DEF l, m
  <2> QED
    BY <1>0, <1>1
<1> HIDE DEF t, u, l, m
<1>8. \A i \in 1..m : i \in 1..l \/ i \in (l + 1)..m
  BY <1>0, <1>1
<1>9. \A i, j \in 1..m : i < j /\ j \in 1..l => i \in 1..l
  BY <1>0, <1>1
<1>10. \A i \in 1..m : i \in Nat
  OBVIOUS
<1>11. BufferedLast(u, s)
  <2>1. SUFFICES ASSUME NEW i \in 1..m, NEW j \in 1..m, i < j, u[s][i].at = "buffer"
                 PROVE  u[s][j].at = "buffer"
    BY DEF BufferedLast, m, u
  <2>2. CASE j \in (l + 1)..m
    BY <1>1, <2>2
  <2>3. CASE j \in 1..l
    <3>1. i \in 1..l
      BY <1>9, <2>1, <2>3
    <3> QED
      BY <1>1, <1>4, <2>1, <2>3, <3>1 DEF BufferedLast, l, t
  <2> QED
    BY <1>8, <2>2, <2>3
<1>12. JumpsWithRow(u, s)
  <2>1. SUFFICES ASSUME NEW i \in 1..m, NEW j \in 1..m, j = i + 1, u[s][j].what = "jump"
                 PROVE  u[s][j].at = u[s][i].at
    BY DEF JumpsWithRow, m, u
  <2>0. i < j
    BY <1>10, <2>1
  <2>2. CASE j \in (l + 1)..m
    <3>1. j = k + 1
      <4>1. ~(j < k) /\ j # k
        BY <1>1, <2>1, <2>2
      <4> QED
        BY <1>1, <1>10, <1>70, <2>2, <4>1
    <3>2. i = k
      BY <1>10, <1>70, <2>1, <3>1
    <3> QED
      BY <1>1, <1>70, <2>2, <3>2
  <2>3. CASE j \in 1..l
    <3>1. i \in 1..l
      BY <1>9, <2>0, <2>3
    <3> QED
      BY <1>1, <1>4, <2>1, <2>3, <3>1 DEF JumpsWithRow, l, t
  <2> QED
    BY <1>8, <2>2, <2>3
<1>13. /\ \A i \in 1..l : /\ SeenRow(u, s, i) <=> SeenRow(t, s, i)
                          /\ Seen(u, s, i) <=> Seen(t, s, i)
       /\ \A i \in (l + 1)..m : Seen(u, s, i) /\ (SeenRow(u, s, i) <=> i = k)
  <2>1. ASSUME NEW i \in (l + 1)..m PROVE u[s][i].what = "row" <=> i = k
    <3>1. i < k \/ i = k \/ i > k
      BY <1>10, <1>70, <1>1, <2>1
    <3> QED
      BY <1>1, <2>1, <3>1
  <2>2. \A i \in (l + 1)..m : Seen(u, s, i)
    BY <1>1 DEF Seen
  <2>3. \A i \in (l + 1)..m : SeenRow(u, s, i) <=> i = k
    BY <2>1, <2>2 DEF SeenRow
  <2>4. \A i \in 1..l : /\ SeenRow(u, s, i) <=> SeenRow(t, s, i)
                        /\ Seen(u, s, i) <=> Seen(t, s, i)
    BY <1>1 DEF Seen, SeenRow
  <2> QED
    BY <2>2, <2>3, <2>4
<1>14. Marked(u, s)
  <2>1. SUFFICES ASSUME NEW i \in 1..m, NEW j \in 1..m, Follows(u, s, i, j),
                        u[s][j].id # u[s][i].id + 1
                 PROVE  Told(u, s, i, j - 1) \/ Jumped(u, s, i, j)
    BY DEF Marked, m, u
  <2>2. i < j /\ SeenRow(u, s, i) /\ SeenRow(u, s, j)
        /\ \A x \in (i + 1)..(j - 1) : ~SeenRow(u, s, x)
    BY <2>1 DEF Follows
  <2>3. CASE j \in 1..l
    <3>1. i \in 1..l /\ \A x \in (i + 1)..(j - 1) : x \in 1..l
      <4>1. i \in 1..l
        BY <1>9, <2>2, <2>3
      <4> QED
        BY <1>0, <2>3, <4>1
    <3>2. Follows(t, s, i, j) /\ t[s][j].id # t[s][i].id + 1
      BY <1>1, <1>13, <2>1, <2>2, <2>3, <3>1 DEF Follows
    <3>3. Told(t, s, i, j - 1) \/ Jumped(t, s, i, j)
      BY <1>4, <2>3, <3>1, <3>2 DEF Marked, l, t
    <3>4. CASE Told(t, s, i, j - 1)
      BY <1>1, <1>13, <3>1, <3>4 DEF Told
    <3>5. CASE Jumped(t, s, i, j)
      <4>1. j < l /\ t[s][j + 1].what = "jump" /\ t[s][j + 1].id = t[s][i].id
            /\ Seen(t, s, j + 1)
        BY <3>5 DEF Jumped, l, t
      <4>2. j + 1 \in 1..l /\ j < m
        BY <1>0, <1>1, <2>3, <4>1
      <4>3. /\ u[s][j + 1] = t[s][j + 1] /\ u[s][i] = t[s][i] /\ Seen(u, s, j + 1)
        BY <1>1, <1>13, <3>1, <4>1, <4>2
      <4> QED
        BY <4>1, <4>2, <4>3 DEF Jumped, m, u
    <3> QED
      BY <3>3, <3>4, <3>5
  <2>4. CASE j \in (l + 1)..m
    <3>1. j = k
      BY <1>13, <2>2, <2>4
    <3>2. i \in 1..l
      <4>1. i # k
        BY <1>10, <2>2, <3>1
      <4> QED
        BY <1>8, <1>13, <2>2, <4>1
    <3>3. SeenRow(t, s, i) /\ t[s][i].what = "row" /\ u[s][i] = t[s][i]
      BY <1>1, <1>13, <2>2, <3>2 DEF SeenRow
    <3>4. \A x \in (i + 1)..l : x \in (i + 1)..(j - 1) /\ x \in 1..l
      BY <1>0, <1>1, <1>70, <3>1, <3>2
    <3>5. ~\E x \in (i + 1)..l : SeenRow(t, s, x)
      BY <1>13, <2>2, <3>4
    <3>6. \/ last[s] # 0 /\ t[s][i].id = last[s]
          \/ Told(t, s, i, l)
      BY <1>4, <3>2, <3>3, <3>5 DEF Ends, l, t
    <3>7. CASE Told(t, s, i, l)
      BY <1>1, <1>13, <3>4, <3>7 DEF Told
    <3>8. CASE last[s] # 0 /\ t[s][i].id = last[s]
      <4>1. t[s][i].id < n /\ u[s][k].id = n /\ n # t[s][i].id + 1
        BY <1>1, <1>5, <2>1, <3>1, <3>2, <3>3
      <4>2. n > last[s] + 1
        BY <1>0, <3>8, <4>1
      <4>3. /\ k + 1 \in (l + 1)..m /\ u[s][k + 1].what = "jump"
            /\ u[s][k + 1].id = last[s] /\ u[s][k + 1].at = "buffer"
        BY <1>2, <1>7, <3>8, <4>2
      <4>4. k < m
        BY <1>0, <1>1, <1>70, <4>3
      <4>5. Seen(u, s, k + 1)
        BY <1>13, <4>3
      <4>6. j < m /\ u[s][j + 1].what = "jump" /\ u[s][j + 1].id = u[s][i].id
            /\ Seen(u, s, j + 1)
        BY <3>1, <3>3, <3>8, <4>3, <4>4, <4>5
      <4> QED
        BY <4>6 DEF Jumped, m, u
    <3> QED
      BY <3>6, <3>7, <3>8
  <2> QED
    BY <1>8, <2>3, <2>4
<1>15. Ends(u, s, n)
  <2>1. SUFFICES ASSUME NEW i \in 1..m, SeenRow(u, s, i)
                 PROVE  \/ \E j \in (i + 1)..m : SeenRow(u, s, j)
                        \/ n # 0 /\ u[s][i].id = n
    BY DEF Ends, m, u
  <2>2. SeenRow(u, s, k)
    BY <1>13, <1>70
  <2>3. CASE i \in 1..l
    <3>1. k \in (i + 1)..m
      BY <1>0, <1>1, <1>70, <2>3
    <3> QED
      BY <2>2, <3>1
  <2>4. CASE i \in (l + 1)..m
    BY <1>0, <1>1, <1>13, <2>1, <2>4
  <2> QED
    BY <1>8, <2>3, <2>4
<1> QED
  BY <1>3, <1>11, <1>12, <1>14, <1>15 DEF u

\* Every step keeps the holes marked.
LEMMA HolesStep ==
  ASSUME TypeOK, RowsInv, QueueInv, HolesInv, [Next]_vars
  PROVE  HolesInv'
<1>s. SUFFICES ASSUME mishap' \subseteq {"drain cut"}, NEW s \in Counted
               PROVE  /\ BufferedLast(tape', s) /\ JumpsWithRow(tape', s)
                      /\ Marked(tape', s)
                      /\ pc' # "down" => Ends(tape', s, last'[s])
  BY DEF HolesInv
<1>1. /\ BufferedLast(tape, s) /\ JumpsWithRow(tape, s) /\ Marked(tape, s)
      /\ pc # "down" => Ends(tape, s, last[s])
  BY <1>s, MishapGrows DEF HolesInv
<1>2. /\ s \in Streams /\ tape \in Tapes /\ tape' \in Tapes
      /\ Len(tape[s]) \in Nat /\ Len(tape'[s]) \in Nat
  <2>1. s \in Streams
    BY <1>s DEF Streams
  <2>2. tape \in Tapes /\ tape' \in Tapes
    BY Typed, StepOf
  <2>3. tape[s] \in Seq(Entries) /\ tape'[s] \in Seq(Entries)
    BY <2>1, <2>2 DEF Tapes
  <2> QED
    BY <2>1, <2>2, <2>3
<1>3. ASSUME Extends(tape, tape') PROVE
        /\ Len(tape[s]) <= Len(tape'[s])
        /\ \A i \in 1..Len(tape[s]) :
             /\ tape'[s][i].what = tape[s][i].what /\ tape'[s][i].id = tape[s][i].id
             /\ i \in 1..Len(tape'[s])
        /\ \A i \in Fresh(s) : tape'[s][i].what \notin {"row", "jump"}
        /\ \A i \in 1..Len(tape'[s]) : i \in 1..Len(tape[s]) \/ i \in Fresh(s)
        /\ \A i, j \in 1..Len(tape'[s]) : i < j /\ j \in 1..Len(tape[s]) => i \in 1..Len(tape[s])
  <2>1. /\ Len(tape[s]) <= Len(tape'[s])
        /\ \A i \in 1..Len(tape[s]) :
             tape'[s][i].what = tape[s][i].what /\ tape'[s][i].id = tape[s][i].id
        /\ \A i \in Fresh(s) : tape'[s][i].what \notin {"row", "jump"}
    BY <1>2, <1>3 DEF Extends, Fresh
  <2>2. /\ \A i \in 1..Len(tape[s]) : i \in 1..Len(tape'[s])
        /\ \A i \in 1..Len(tape'[s]) :
             i \in 1..Len(tape[s]) \/ i \in (Len(tape[s]) + 1)..Len(tape'[s])
        /\ \A i, j \in 1..Len(tape'[s]) : i < j /\ j \in 1..Len(tape[s]) => i \in 1..Len(tape[s])
    BY <1>2, <2>1
  <2> QED
    BY <2>1, <2>2 DEF Fresh
<1>4. CASE Extends(tape, tape') /\ Adding
  <2>1. \A i \in 1..Len(tape[s]) : tape'[s][i].at = tape[s][i].at
    BY <1>2, <1>4, PlaceIs DEF Adding, Settles
  <2>2. \A i \in Fresh(s) : tape'[s][i].at = "buffer"
    BY <1>2, <1>4 DEF Adding
  <2>3. BufferedLast(tape', s)
    BY <1>1, <1>3, <1>4, <2>1, <2>2 DEF BufferedLast
  <2>4. JumpsWithRow(tape', s)
    <3>1. SUFFICES ASSUME NEW i \in 1..Len(tape'[s]), NEW j \in 1..Len(tape'[s]), j = i + 1,
                          tape'[s][j].what = "jump"
                   PROVE  tape'[s][j].at = tape'[s][i].at
      BY DEF JumpsWithRow
    <3>2. j \in 1..Len(tape[s]) /\ i < j
      BY <1>3, <1>4, <3>1
    <3>3. i \in 1..Len(tape[s])
      BY <1>3, <1>4, <3>2
    <3> QED
      BY <1>1, <1>3, <1>4, <2>1, <3>1, <3>2, <3>3 DEF JumpsWithRow
  <2>5. \A i \in 1..Len(tape[s]) : Seen(tape', s, i) <=> Seen(tape, s, i)
    BY <2>1 DEF Seen
  <2>6. Marked(tape', s)
    BY <1>1, <1>2, <1>4, <2>5, MarkedKept
  <2>7. ASSUME pc' # "down" PROVE Ends(tape', s, last'[s])
    <3> DEFINE x == Len(tape[s]) + 1
    <3>1. ASSUME Len(tape'[s]) = Len(tape[s]) + 1,
                 tape'[s][x].what \in {"session", "reconnect"}
          PROVE  \E y \in (Len(tape[s]) + 1)..Len(tape'[s]) :
                   tape'[s][y].what \in {"session", "reconnect"} /\ Seen(tape', s, y)
      <4>1. x \in (Len(tape[s]) + 1)..Len(tape'[s])
        BY <1>2, <3>1
      <4>2. Seen(tape', s, x)
        BY <2>2, <4>1 DEF Seen, Fresh
      <4> QED
        BY <3>1, <4>1, <4>2
    <3>2. CASE pc = "down" \/ last'[s] # last[s]
      <4>1. /\ Len(tape'[s]) = Len(tape[s]) + 1
            /\ tape'[s][x].what \in {"session", "reconnect"}
        BY <1>2, <1>4, <2>7, <3>2 DEF Adding
      <4> QED
        BY <1>2, <1>4, <2>5, <3>1, <4>1, EndsKept
    <3>3. CASE pc # "down" /\ last'[s] = last[s]
      BY <1>1, <1>2, <1>4, <2>5, <3>3, EndsKept
    <3> QED
      BY <3>2, <3>3
  <2> QED
    BY <2>3, <2>4, <2>6, <2>7
<1>5. CASE Extends(tape, tape') /\ Flushing
  <2>1. \A i \in 1..Len(tape[s]) :
          /\ tape'[s][i].at = IF tape[s][i].at = "buffer" THEN "disk" ELSE tape[s][i].at
          /\ tape'[s][i].at # "buffer"
    BY <1>2, <1>5, PlaceIs DEF Flushing, Settles
  <2>2. \A i \in Fresh(s) : tape'[s][i].at = "disk"
    BY <1>2, <1>5 DEF Flushing
  <2>3. BufferedLast(tape', s)
    <3>1. \A i \in 1..Len(tape'[s]) : tape'[s][i].at # "buffer"
      BY <1>3, <1>5, <2>1, <2>2
    <3> QED
      BY <3>1 DEF BufferedLast
  <2>4. JumpsWithRow(tape', s)
    <3>1. SUFFICES ASSUME NEW i \in 1..Len(tape'[s]), NEW j \in 1..Len(tape'[s]), j = i + 1,
                          tape'[s][j].what = "jump"
                   PROVE  tape'[s][j].at = tape'[s][i].at
      BY DEF JumpsWithRow
    <3>2. j \in 1..Len(tape[s]) /\ i < j
      BY <1>3, <1>5, <3>1
    <3>3. i \in 1..Len(tape[s])
      BY <1>3, <1>5, <3>2
    <3> QED
      BY <1>1, <1>3, <1>5, <2>1, <3>1, <3>2, <3>3 DEF JumpsWithRow
  <2>5. \A i \in 1..Len(tape[s]) : Seen(tape', s, i) <=> Seen(tape, s, i)
    BY <2>1 DEF Seen
  <2>6. Marked(tape', s)
    BY <1>1, <1>2, <1>5, <2>5, MarkedKept
  <2>7. ASSUME pc' # "down" PROVE Ends(tape', s, last'[s])
    <3>1. pc # "down" /\ last'[s] = last[s]
      BY <1>5, <2>7 DEF Flushing
    <3> QED
      BY <1>1, <1>2, <1>5, <2>5, <3>1, EndsKept
  <2> QED
    BY <2>3, <2>4, <2>6, <2>7
<1>6. CASE Extends(tape, tape') /\ Killing
  <2>1. PICK W \in PartialFlush :
          Settles(W, Keys \ W) /\ (W # {} => "killed mid-flush" \in mishap')
    BY <1>6 DEF Killing
  <2>2. W = {}
    BY <1>s, <2>1
  <2>3. /\ \A i \in 1..Len(tape[s]) :
             /\ tape'[s][i].at = IF tape[s][i].at = "buffer" THEN "lost" ELSE tape[s][i].at
             /\ tape'[s][i].at # "buffer"
        /\ Len(tape'[s]) = Len(tape[s])
    <3>1. Settles({}, Keys)
      BY <2>1, <2>2 DEF Settles
    <3>2. \A i \in 1..Len(tape[s]) : tape'[s][i].at = Place(s, tape[s][i], {}, Keys)
      BY <1>2, <3>1 DEF Settles
    <3>3. Len(tape'[s]) = Len(tape[s])
      BY <1>2, <1>6 DEF Killing
    <3> QED
      BY <1>2, <3>2, <3>3, PlaceIs
  <2>4. BufferedLast(tape', s)
    BY <2>3 DEF BufferedLast
  <2>5. JumpsWithRow(tape', s)
    BY <1>1, <1>3, <1>6, <2>3 DEF JumpsWithRow
  <2>6. Marked(tape', s)
    <3>1. SUFFICES ASSUME NEW i \in 1..Len(tape[s]), NEW j \in 1..Len(tape[s]),
                          Follows(tape', s, i, j), tape'[s][j].id # tape'[s][i].id + 1
                   PROVE  Told(tape', s, i, j - 1) \/ Jumped(tape', s, i, j)
      BY <2>3 DEF Marked
    <3>2. i < j /\ SeenRow(tape', s, i) /\ SeenRow(tape', s, j)
      BY <3>1 DEF Follows
    <3>3. tape[s][j].at \notin {"buffer", "lost"}
      BY <2>3, <3>2 DEF SeenRow, Seen
    <3>4. ASSUME NEW x \in 1..Len(tape[s]), x <= j
          PROVE  /\ tape'[s][x].at = tape[s][x].at
                 /\ Seen(tape', s, x) <=> Seen(tape, s, x)
                 /\ SeenRow(tape', s, x) <=> SeenRow(tape, s, x)
      <4>1. tape[s][x].at # "buffer"
        <5>1. x = j \/ x < j
          BY <3>4
        <5> QED
          BY <1>1, <3>3, <5>1 DEF BufferedLast
      <4> QED
        BY <1>3, <1>6, <2>3, <4>1 DEF Seen, SeenRow
    <3>5. \A x \in (i + 1)..(j - 1) : x \in 1..Len(tape[s]) /\ x <= j
      BY <1>2
    <3>6. i <= j /\ j <= j
      BY <3>2
    <3>7. Follows(tape, s, i, j) /\ tape[s][j].id # tape[s][i].id + 1
      BY <1>3, <1>6, <3>1, <3>4, <3>5, <3>6 DEF Follows
    <3>8. Told(tape, s, i, j - 1) \/ Jumped(tape, s, i, j)
      BY <1>1, <3>7 DEF Marked
    <3>9. CASE Told(tape, s, i, j - 1)
      BY <1>3, <1>6, <3>4, <3>5, <3>9 DEF Told
    <3>10. CASE Jumped(tape, s, i, j)
      <4> DEFINE x == j + 1
      <4>1. /\ j < Len(tape[s]) /\ tape[s][x].what = "jump" /\ tape[s][x].id = tape[s][i].id
        BY <3>10 DEF Jumped
      <4>2. x \in 1..Len(tape[s])
        BY <1>2, <4>1
      <4>3. tape[s][x].at = tape[s][j].at
        BY <1>1, <4>1, <4>2 DEF JumpsWithRow
      <4>4. Seen(tape', s, x)
        BY <2>3, <3>3, <4>2, <4>3 DEF Seen
      <4>5. tape'[s][x].what = "jump" /\ tape'[s][x].id = tape'[s][i].id
        BY <1>3, <1>6, <4>1, <4>2
      <4> QED
        BY <2>3, <4>1, <4>4, <4>5 DEF Jumped
    <3> QED
      BY <3>8, <3>9, <3>10
  <2> QED
    BY <1>6, <2>4, <2>5, <2>6 DEF Killing
<1>7. CASE Read \/ Drain
  <2>1. PICK r \in Streams, n \in 1..MaxId :
              /\ Head(ws.queue) = <<r, n>> /\ ws.queue # <<>> /\ pc # "down"
              /\ \/ IsOverlapDuplicate(r, n) /\ UNCHANGED <<tape, last, floor>>
                 \/ ~IsOverlapDuplicate(r, n) /\ \E k \in Nat : Takes(r, n, k)
    BY <1>7, HandledIs
  <2>2. CASE UNCHANGED <<tape, last, floor>>
    BY <1>1, <2>1, <2>2
  <2>3. ASSUME NEW k \in Nat, Takes(r, n, k), ~IsOverlapDuplicate(r, n)
        PROVE  /\ BufferedLast(tape', s) /\ JumpsWithRow(tape', s)
               /\ Marked(tape', s) /\ Ends(tape', s, last'[s])
    <3>1. CASE s # r
      <4>1. tape'[s] = tape[s] /\ last'[s] = last[s]
        BY <1>2, <2>3, <3>1, Typed DEF Takes
      <4> QED
        BY <1>1, <2>1, <4>1
        DEF BufferedLast, JumpsWithRow, Marked, Ends, Follows, Told, Jumped, Seen, SeenRow
    <3>2. CASE s = r
      <4>1. RowsBelow(tape, s, n)
        <5>1. Head(ws.queue)[1] = r /\ Head(ws.queue)[2] = n
          BY <2>1
        <5>2. Fits(tape, floor, r, n)
          <6>1. Head(ws.queue) = ws.queue[1] /\ 1 \in 1..Len(ws.queue)
            BY <2>1, HeadIs
          <6> QED
            BY <5>1, <6>1 DEF QueueInv
        <5> QED
          BY <1>s, <2>3, <3>2, <5>2 DEF Fits, IsOverlapDuplicate
      <4>2. last[s] # 0 => RowsBelow(tape, s, last[s] + 1)
        BY <1>s DEF RowsInv
      <4> QED
        BY <1>s, <1>1, <2>1, <2>3, <3>2, <4>1, <4>2, HoleTaken
    <3> QED
      BY <3>1, <3>2
  <2> QED
    BY <2>1, <2>2, <2>3
<1> QED
  BY <1>s, <1>4, <1>5, <1>6, <1>7, KindOf DEF Failing

-----------------------------------------------------------------------------
(* Handovers.                                                              *)

\* A step that leaves no fault behind is none of those that leave one.
LEMMA CalmBefore ==
  ASSUME TypeOK, [Next]_vars, Calm'
  PROVE  /\ Calm
         /\ ~(\E r \in Streams : VenueSkips(r)) /\ ~SocketEnds /\ ~ConnectFails
         /\ ~ReadEndsUnsaved /\ ~SuccessorFails /\ ~TimerFlushFails
         /\ ~StopProcess /\ ~Dies /\ ~Kill
<1>1. faults' = 0 /\ SupportsOverlap /\ mishap = {} /\ faults \in Nat
  <2>1. faults' = 0 /\ SupportsOverlap /\ mishap' = {}
    BY DEF Calm, SupportsOverlap
  <2>2. faults \in 0..MaxFaults
    BY DEF TypeOK
  <2>3. faults \in Nat
    BY <2>2, Constants
  <2> QED
    BY <2>1, <2>3, MishapGrows
<1>2. ~Fault
  BY <1>1 DEF Fault
<1>3. faults = 0
  <2>1. CASE UNCHANGED vars
    BY <1>1, <2>1 DEF vars
  <2>2. CASE Venue
    BY <1>1, <1>2, <2>2 DEF Venue, Emit, VenueSkips, SocketEnds
  <2>3. CASE Run
    BY <1>1, <1>2, <2>3 DEF Run, StartProcess, Connect, ConnectFails, Ritual, Read, ReadEnds,
       ReadEndsUnsaved, CloseThenReopen, OpenSuccessor, SuccessorFails, Drain, FinishHandover
  <2>4. CASE Waits \/ Tasks
    BY <1>1, <1>2, <2>4 DEF Waits, Tasks, TimerFlush, TimerFlushFails, StopProcess, Dies,
       Kill, Gone, vars
  <2> QED
    BY <2>1, <2>2, <2>3, <2>4 DEF Next
<1>4. /\ ~(\E r \in Streams : VenueSkips(r)) /\ ~SocketEnds /\ ~ConnectFails
      /\ ~ReadEndsUnsaved /\ ~SuccessorFails /\ ~TimerFlushFails
      /\ ~StopProcess /\ ~Dies /\ ~Kill
  BY <1>2 DEF VenueSkips, SocketEnds, ConnectFails, ReadEndsUnsaved, SuccessorFails,
     TimerFlushFails, StopProcess, Dies, Kill, Gone
<1> QED
  BY <1>1, <1>3, <1>4 DEF Calm

\* A tape extended by records that are not lost is as whole as it was.
LEMMA WholeKept ==
  ASSUME NEW t \in Tapes, NEW u \in Tapes, Extends(t, u), NEW s \in Streams,
         \A i \in 1..Len(t[s]) : Seen(t, s, i) => Seen(u, s, i),
         \A i \in (Len(t[s]) + 1)..Len(u[s]) : Seen(u, s, i),
         NEW queue, NEW tracked, NEW past, Whole(t, queue, tracked, past, s)
  PROVE  Whole(u, queue, tracked, past, s)
<1> DEFINE l == Len(t[s])
           m == Len(u[s])
<1>1. /\ l \in Nat /\ m \in Nat /\ l <= m
      /\ \A i \in 1..l : u[s][i].what = t[s][i].what /\ u[s][i].id = t[s][i].id
      /\ \A i \in (l + 1)..m : u[s][i].what \notin {"row", "jump"}
  BY DEF Extends, Tapes
<1>2. /\ \A i \in 1..m : i \in 1..l \/ i \in (l + 1)..m
      /\ \A i \in 1..l : i \in 1..m
  <2> HIDE DEF l, m
  <2> QED
    BY <1>1
<1>3. \A n : RowOf(u, s, n) <=> RowOf(t, s, n)
  BY <1>1, <1>2 DEF RowOf
<1>4. \A n : AfterRow(u, s, n) <=> AfterRow(t, s, n)
  BY <1>1, <1>2 DEF AfterRow
<1>5. \A i \in 1..m : Seen(u, s, i) /\ (u[s][i].what = "row" => tracked[s] # 0)
  <2>1. \A i \in 1..l : Seen(t, s, i) /\ (t[s][i].what = "row" => tracked[s] # 0)
    BY DEF Whole
  <2> QED
    BY <1>1, <1>2, <2>1
<1> QED
  BY <1>3, <1>4, <1>5 DEF Whole

\* What is in a queue stays in it, but for what is read.
LEMMA QueuedTail ==
  ASSUME TypeOK, ws.queue # <<>>, NEW s, NEW n, Queued(ws.queue, s, n),
         Head(ws.queue) # <<s, n>>
  PROVE  Queued(Tail(ws.queue), s, n)
<1>1. /\ Len(ws.queue) \in Nat \ {0} /\ Len(Tail(ws.queue)) = Len(ws.queue) - 1
      /\ Head(ws.queue) = ws.queue[1]
      /\ \A i \in 1..Len(Tail(ws.queue)) : Tail(ws.queue)[i] = ws.queue[i + 1]
  BY HeadIs
<1>2. PICK i \in 1..Len(ws.queue) : ws.queue[i] = <<s, n>>
  BY DEF Queued
<1>3. i # 1
  BY <1>1, <1>2
<1> DEFINE x == i - 1
           u == Tail(ws.queue)
<1> HIDE DEF u
<1>4. x \in 1..Len(u) /\ x + 1 = i
  BY <1>1, <1>2, <1>3 DEF u
<1>5. u[x] = <<s, n>>
  <2> HIDE DEF x
  <2> QED
    BY <1>1, <1>2, <1>4 DEF u
<1> HIDE DEF x
<1> QED
  BY <1>4, <1>5 DEF Queued, u

\* Reading leaves every message that follows one in the queue.
LEMMA FilledTail ==
  ASSUME TypeOK, ws.queue # <<>>, InOrder(ws.queue, sent), Filled(ws.queue, sent)
  PROVE  Filled(Tail(ws.queue), sent)
<1> DEFINE u == Tail(ws.queue)
<1>1. /\ Len(ws.queue) \in Nat \ {0} /\ Len(u) = Len(ws.queue) - 1
      /\ Head(ws.queue) = ws.queue[1]
      /\ \A i \in 1..Len(u) : u[i] = ws.queue[i + 1]
      /\ Head(ws.queue) \in Msg /\ u \in Seq(Msg)
  BY HeadIs
<1>2. \A i \in 1..Len(u) : u[i][1] = Head(ws.queue)[1] => Head(ws.queue)[2] < u[i][2]
  BY OrderShrinks
<1>3. SUFFICES ASSUME NEW i \in 1..Len(u), NEW n \in (u[i][2] + 1)..sent[u[i][1]]
               PROVE  Queued(u, u[i][1], n)
  BY DEF Filled
<1>4. u[i][1] \in Streams /\ u[i][2] \in Nat /\ Head(ws.queue)[2] \in Nat
  <2>1. u[i] \in Msg
    BY <1>1
  <2> QED
    BY <1>1, <2>1, Constants DEF Msg
<1>5. i + 1 \in 1..Len(ws.queue) /\ ws.queue[i + 1] = u[i]
  <2>1. ws.queue[i + 1] = u[i]
    BY <1>1
  <2> HIDE DEF u
  <2> QED
    BY <1>1, <2>1
<1>6. Queued(ws.queue, u[i][1], n)
  BY <1>3, <1>5 DEF Filled
<1>7. Head(ws.queue) # <<u[i][1], n>>
  <2>1. SUFFICES ASSUME Head(ws.queue) = <<u[i][1], n>> PROVE FALSE
    OBVIOUS
  <2>2. Head(ws.queue)[1] = u[i][1] /\ Head(ws.queue)[2] = n
    BY <2>1
  <2>3. n < u[i][2] /\ n > u[i][2]
    BY <1>2, <1>3, <1>4, <2>2
  <2> QED
    BY <1>4, <2>2, <2>3
<1> QED
  BY <1>6, <1>7, QueuedTail

\* What the venue sends next fills the queue of an open socket.
LEMMA FilledGrows ==
  ASSUME TypeOK, NEW sock \in Socket, NEW r \in Streams, sent[r] < MaxId,
         Filled(sock.queue, sent), sock.open \/ sock.queue = <<>>
  PROVE  LET q == Receive(sock, r, sent[r] + 1).queue IN
         /\ Filled(q, [sent EXCEPT ![r] = @ + 1])
         /\ \A s, m : Queued(sock.queue, s, m) => Queued(q, s, m)
         /\ sock.open => Queued(q, r, sent[r] + 1)
         /\ \A i \in 1..Len(q) : \/ i \in 1..Len(sock.queue) /\ q[i] = sock.queue[i]
                                 \/ sock.open /\ q[i] = <<r, sent[r] + 1>>
<1> DEFINE n == sent[r] + 1
           later == [sent EXCEPT ![r] = @ + 1]
           old == sock.queue
           q == Receive(sock, r, n).queue
           l == Len(old)
<1>1. n \in 1..MaxId /\ n \in Nat /\ n = sent[r] + 1 /\ later[r] = n
      /\ \A s \in Streams : sent[s] \in Nat /\ (s # r => later[s] = sent[s])
  <2>1. /\ sent[r] \in Nat /\ MaxId \in Nat /\ sent \in [Streams -> 0..MaxId]
        /\ \A s \in Streams : sent[s] \in Nat
    BY Typed, Constants
  <2> QED
    BY <2>1
<1>2. old \in Seq(Msg) /\ l \in Nat
  BY DEF Socket
<1>3. q = IF sock.open THEN Append(old, <<r, n>>) ELSE old
  BY <1>1, ReceiveIs
<1>4. ASSUME NEW i \in 1..l PROVE old[i][1] \in Streams /\ old[i][2] \in Nat
  <2>1. old[i] \in Msg
    BY <1>2, <1>4
  <2> QED
    BY <2>1, Constants DEF Msg
<1>5. CASE ~sock.open
  <2>1. q = <<>> /\ old = <<>>
    BY <1>3, <1>5
  <2> HIDE DEF q, old
  <2>2. Filled(q, later)
    BY <2>1 DEF Filled
  <2> QED
    BY <1>5, <2>1, <2>2 DEF q, old
<1>6. CASE sock.open
  <2>1. /\ Len(q) = l + 1 /\ q[l + 1] = <<r, n>>
        /\ \A i \in 1..l : q[i] = old[i]
    BY <1>2, <1>3, <1>6
  <2>2. \A i \in 1..l : \A m \in (old[i][2] + 1)..sent[old[i][1]] : Queued(old, old[i][1], m)
    BY DEF Filled
  <2> HIDE DEF later, n, old, q, l
  <2>3. l + 1 \in 1..Len(q) /\ \A i \in 1..l : i \in 1..Len(q)
    BY <1>2, <2>1
  <2>4. \A s, m : Queued(old, s, m) => Queued(q, s, m)
    BY <2>1, <2>3 DEF Queued, l
  <2>5. Queued(q, r, n)
    BY <2>1, <2>3 DEF Queued
  <2>6. \A i \in 1..Len(q) : i \in 1..l \/ i = l + 1
    BY <1>2, <2>1
  <2>7. Filled(q, later)
    <3>1. SUFFICES ASSUME NEW i \in 1..Len(q), NEW m \in (q[i][2] + 1)..later[q[i][1]]
                   PROVE  Queued(q, q[i][1], m)
      BY DEF Filled
    <3>2. CASE i \in 1..l
      <4> DEFINE s == old[i][1]
                 x == old[i][2]
      <4>1. s \in Streams /\ x \in Nat /\ q[i][1] = s /\ q[i][2] = x
        BY <1>4, <2>1, <3>2
      <4>2. m \in (x + 1)..later[s]
        BY <3>1, <4>1
      <4>3. \A y \in (x + 1)..sent[s] : Queued(old, s, y)
        BY <2>2, <3>2
      <4> HIDE DEF s, x
      <4>4. CASE s = r /\ m = n
        BY <2>5, <4>1, <4>4
      <4>5. CASE ~(s = r /\ m = n)
        <5>1. m \in (x + 1)..sent[s]
          <6>1. CASE s = r
            BY <1>1, <4>1, <4>2, <4>5, <6>1
          <6>2. CASE s # r
            BY <1>1, <4>1, <4>2, <6>2
          <6> QED
            BY <6>1, <6>2
        <5> QED
          BY <2>4, <4>1, <4>3, <5>1
      <4> QED
        BY <4>4, <4>5
    <3>3. CASE i = l + 1
      <4>1. q[i][1] = r /\ q[i][2] = n
        BY <2>1, <3>3
      <4>2. m \in (n + 1)..n
        BY <1>1, <3>1, <4>1
      <4> QED
        BY <1>1, <4>2
    <3> QED
      BY <2>6, <3>2, <3>3
  <2>8. \A i \in 1..Len(q) : (i \in 1..Len(old) /\ q[i] = old[i]) \/ q[i] = <<r, n>>
    BY <2>1, <2>6 DEF l
  <2> QED
    BY <1>6, <2>4, <2>5, <2>7, <2>8 DEF later, n, old, q
<1> QED
  BY <1>5, <1>6

\* A step without a fault that handles no message keeps a stream whole.
LEMMA WholeStays ==
  ASSUME TypeOK, [Next]_vars, Calm', ~Read, ~Drain, pc' # "down", NEW s \in Streams,
         NEW queue, NEW tracked, NEW past, Whole(tape, queue, tracked, past, s)
  PROVE  Whole(tape', queue, tracked, past, s)
<1>1. Extends(tape, tape') /\ (Adding \/ Flushing) /\ tape \in Tapes /\ tape' \in Tapes
  <2>1. ~Killing
    BY DEF Killing
  <2>2. ~Failing
    BY DEF Failing, Calm
  <2> QED
    BY <2>1, <2>2, KindOf, StepOf, Typed
<1>2. \A i \in 1..Len(tape[s]) : Seen(tape, s, i) => Seen(tape', s, i)
  <2>1. CASE Adding
    <3>1. \A i \in 1..Len(tape[s]) : tape'[s][i].at = tape[s][i].at
      BY <2>1, PlaceIs DEF Adding, Settles
    <3> QED
      BY <3>1 DEF Seen
  <2>2. CASE Flushing
    <3>1. \A i \in 1..Len(tape[s]) :
            tape'[s][i].at = IF tape[s][i].at = "buffer" THEN "disk" ELSE tape[s][i].at
      BY <2>2, PlaceIs DEF Flushing, Settles
    <3> QED
      BY <3>1 DEF Seen
  <2> QED
    BY <1>1, <2>1, <2>2
<1>3. \A i \in Fresh(s) : Seen(tape', s, i)
  BY <1>1 DEF Adding, Flushing, Seen
<1> QED
  BY <1>1, <1>2, <1>3, WholeKept DEF Fresh

\* A message taken leaves its stream whole.
LEMMA WholeTaken ==
  ASSUME TypeOK, RowsInv, QueueInv, NEW r \in Counted \cup Rising, NEW n \in 1..MaxId,
         NEW k \in Nat, Takes(r, n, k), ws.queue # <<>>, Head(ws.queue) = <<r, n>>,
         RowsBelow(tape, r, n),
         Filled(ws.queue, sent), Whole(tape, ws.queue, last, sent, r)
  PROVE  Whole(tape', Tail(ws.queue), last', sent, r)
<1> DEFINE l == Len(tape[r])
           m == Len(tape'[r])
           t == tape
           u == tape'
<1>0. r \in Streams /\ last[r] \in Nat /\ sent[r] \in Nat /\ n \in Nat /\ n # 0 /\ l \in Nat
  <2>1. r \in Streams
    BY DEF Streams
  <2> QED
    BY <2>1, Typed, Constants
<1>1. /\ l < k /\ k <= m /\ m \in Nat /\ k \in (l + 1)..m
      /\ u[r][k].what = "row" /\ u[r][k].id = n
      /\ \A i \in 1..l : i \in 1..m /\ u[r][i] = t[r][i]
      /\ \A i \in (l + 1)..m :
           /\ u[r][i].at = "buffer" /\ i > l /\ i \in Nat
           /\ i < k => u[r][i].what = "handover"
           /\ i > k => i = k + 1 /\ u[r][i].what = "jump"
  BY <1>0, TakesIs DEF Fresh
<1>2. last'[r] = Position(r, n) /\ Position(r, n) \in Nat /\ Position(r, n) # 0
      /\ Position(r, n) \in {n, last[r]}
      /\ (Position(r, n) = last[r] => last[r] >= n)
  <2>1. last'[r] = Position(r, n)
    BY <1>0, Typed DEF Takes
  <2>2. Position(r, n) \in {n, last[r]}
    BY <1>0, PositionIs
  <2> QED
    BY <2>1, <2>2, PositionAtLeast
<1>3. /\ last[r] # 0 => RowOf(t, r, last[r])
      /\ \A i \in 1..l : Seen(t, r, i) /\ (t[r][i].what = "row" => last[r] # 0)
      /\ \A x \in 1..sent[r] :
           AfterRow(t, r, x) => RowOf(t, r, x) \/ (x > last[r] /\ Queued(ws.queue, r, x))
  BY DEF Whole
<1>4. \A i \in 1..l : t[r][i].what = "row" => t[r][i].id < n
  BY DEF RowsBelow
<1>5. \A i \in 1..l : t[r][i].id \in Nat
  <2>1. \A e \in Entries : e.id \in Nat
    BY DEF Entries
  <2> QED
    BY <1>0, <2>1, Typed
<1>6. \A x \in (n + 1)..sent[r] : Queued(ws.queue, r, x)
  <2>1. Head(ws.queue) = ws.queue[1] /\ 1 \in 1..Len(ws.queue)
    BY HeadIs
  <2>2. ws.queue[1][1] = r /\ ws.queue[1][2] = n
    BY <2>1
  <2> QED
    BY <2>1, <2>2 DEF Filled
<1>7. \A x \in Nat : x # n /\ Queued(ws.queue, r, x) => Queued(Tail(ws.queue), r, x)
  <2>1. \A x \in Nat : x # n => Head(ws.queue) # <<r, x>>
    OBVIOUS
  <2> QED
    BY <2>1, QueuedTail
<1>8. \A x \in Nat : Queued(Tail(ws.queue), r, x) => x > n
  <2>1. ASSUME NEW x \in Nat, NEW i \in 1..Len(Tail(ws.queue)), Tail(ws.queue)[i] = <<r, x>>
        PROVE  x > n
    <3>1. Tail(ws.queue)[i][1] = r /\ Tail(ws.queue)[i][2] = x
      BY <2>1
    <3>2. Head(ws.queue)[1] = r /\ Head(ws.queue)[2] = n
      OBVIOUS
    <3>3. Head(ws.queue)[2] < Tail(ws.queue)[i][2]
      BY <2>1, <3>1, <3>2, OrderShrinks DEF QueueInv
    <3> QED
      BY <3>1, <3>2, <3>3, <1>0
  <2> QED
    BY <2>1 DEF Queued
<1> HIDE DEF l, m, t, u
<1>9. \A i \in 1..m : i \in 1..l \/ i \in (l + 1)..m
  BY <1>0, <1>1
<1>10. k \in 1..m /\ \A i \in (l + 1)..m : i < k \/ i = k \/ i > k
  BY <1>0, <1>1
<1>11. \A x : RowOf(t, r, x) => RowOf(u, r, x)
  BY <1>1 DEF RowOf, l, m, t, u
<1>12. RowOf(u, r, n)
  BY <1>1, <1>10 DEF RowOf, m, u
<1>13. last'[r] # 0 => RowOf(u, r, last'[r])
  <2>1. CASE Position(r, n) = n
    BY <1>2, <1>12, <2>1
  <2>2. CASE Position(r, n) = last[r]
    BY <1>2, <1>3, <1>11, <2>2
  <2> QED
    BY <1>2, <2>1, <2>2
<1>14. \A i \in 1..m : Seen(u, r, i)
  <2>1. \A i \in (l + 1)..m : Seen(u, r, i)
    BY <1>1 DEF Seen
  <2>2. \A i \in 1..l : Seen(u, r, i)
    BY <1>1, <1>3 DEF Seen
  <2> QED
    BY <1>9, <2>1, <2>2
<1>15. ASSUME NEW x \in 1..sent[r], AfterRow(u, r, x)
       PROVE  RowOf(u, r, x) \/ (x > last'[r] /\ Queued(Tail(ws.queue), r, x))
  <2>0. x \in Nat
    BY <1>0
  <2>1. CASE AfterRow(t, r, x)
    <3>1. RowOf(t, r, x) \/ (x > last[r] /\ Queued(ws.queue, r, x))
      BY <1>3, <2>1
    <3>2. ASSUME x > last[r], Queued(ws.queue, r, x), x # n
          PROVE  x > last'[r] /\ Queued(Tail(ws.queue), r, x)
      <4>1. Queued(Tail(ws.queue), r, x) /\ x > n
        BY <1>7, <1>8, <2>0, <3>2
      <4> QED
        BY <1>0, <1>2, <2>0, <3>2, <4>1
    <3> QED
      BY <1>11, <1>12, <3>1, <3>2
  <2>2. CASE ~AfterRow(t, r, x)
    <3>1. x > n
      <4>1. PICK i \in 1..m : u[r][i].what = "row" /\ u[r][i].id < x
        BY <1>15 DEF AfterRow, m, u
      <4>2. i \notin 1..l
        BY <1>1, <2>2, <4>1 DEF AfterRow, l, t
      <4>3. i = k
        BY <1>1, <1>9, <1>10, <4>1, <4>2
      <4> QED
        BY <1>0, <1>1, <2>0, <4>1, <4>3
    <3>2. \A i \in 1..l : t[r][i].what # "row"
      <4>1. SUFFICES ASSUME NEW i \in 1..l, t[r][i].what = "row" PROVE FALSE
        OBVIOUS
      <4>2. t[r][i].id < n /\ t[r][i].id \in Nat
        BY <1>4, <1>5, <4>1
      <4>3. t[r][i].id < x
        BY <1>0, <2>0, <3>1, <4>2
      <4> QED
        BY <2>2, <4>1, <4>3 DEF AfterRow, l, t
    <3>3. last[r] = 0
      BY <1>3, <3>2 DEF RowOf, l, t
    <3>4. last'[r] = n
      BY <1>0, <1>2, <3>3
    <3>5. x \in (n + 1)..sent[r] /\ x # n
      BY <1>0, <2>0, <3>1, <1>15
    <3> QED
      BY <1>6, <1>7, <2>0, <3>1, <3>4, <3>5
  <2> QED
    BY <2>1, <2>2
<1> QED
  BY <1>2, <1>13, <1>14, <1>15 DEF Whole, m, u

\* Every step without a fault keeps the streams whole.
LEMMA WholeStep ==
  ASSUME TypeOK, PhaseInv, RowsInv, QueueInv, WholeInv, [Next]_vars
  PROVE  WholeInv'
<1> DEFINE Caught == pc = "drain" /\ caughtUp =>
             \A i \in 1..Len(ws.queue) : Queued(succ.queue, ws.queue[i][1], ws.queue[i][2])
           Good == /\ Phases'
                   /\ Filled(ws'.queue, sent') /\ Filled(succ'.queue, sent')
                   /\ Caught'
                   /\ \A s \in Streams : /\ floor'[s] <= last'[s]
                                         /\ Whole(tape', ws'.queue, last', sent', s)
<1>s. SUFFICES ASSUME Calm' PROVE Good
  BY DEF WholeInv
<1>1. /\ Phases /\ Filled(ws.queue, sent) /\ Filled(succ.queue, sent) /\ Caught
      /\ \A s \in Streams : /\ floor[s] <= last[s]
                            /\ Whole(tape, ws.queue, last, sent, s)
  BY <1>s, CalmBefore DEF WholeInv
<1>2. \A s \in Streams : s \in Counted \cup Rising
  BY <1>s DEF Calm, SupportsOverlap, Streams
<1>3. /\ ws \in Socket /\ succ \in Socket
      /\ \A s \in Streams : floor[s] \in Nat /\ last[s] \in Nat /\ sent[s] \in Nat
      /\ NoSocket.queue = <<>> /\ ~NoSocket.open
      /\ \A past : Filled(<<>>, past)
  <2>1. ws \in Socket /\ succ \in Socket
    BY DEF TypeOK
  <2>2. \A past : Filled(<<>>, past)
    <3>1. 1..Len(<<>>) = {}
      OBVIOUS
    <3> QED
      BY <3>1 DEF Filled
  <2> QED
    BY <2>1, <2>2, Typed DEF NoSocket
<1> HIDE DEF Good
<1>4. ASSUME Phases', sent' = sent, ws' = ws, succ' = succ, last' = last, floor' = floor,
             pc' # "drain",
             \A s \in Streams : Whole(tape', ws.queue, last, sent, s)
      PROVE  Good
  BY <1>1, <1>4 DEF Good
<1>40. ASSUME ~Read, ~Drain, pc' # "down"
       PROVE  \A s \in Streams : Whole(tape', ws.queue, last, sent, s)
  BY <1>1, <1>40, <1>s, WholeStays
<1>5. ASSUME UNCHANGED vars PROVE Good
  <2>1. UNCHANGED <<sent, ws, succ, last, floor, pc, caughtUp, tape, down>>
    BY <1>5 DEF vars
  <2> QED
    BY <1>1, <2>1 DEF Good, Phases
<1>6. ASSUME StartProcess PROVE Good
  <2>1. /\ UNCHANGED <<sent, ws, succ, last, floor, down>> /\ pc = "down" /\ pc' = "connect"
    BY <1>6 DEF StartProcess, venue, sockets
  <2>2. ~Read /\ ~Drain
    BY <2>1 DEF Read, Drain
  <2>3. Phases'
    BY <1>1, <2>1 DEF Phases
  <2> QED
    BY <1>4, <1>40, <2>1, <2>2, <2>3
<1>7. ASSUME TimerFlush PROVE Good
  <2>1. /\ UNCHANGED <<sent, ws, succ, last, floor, down, pc, caughtUp>> /\ pc # "down"
    BY <1>7 DEF TimerFlush, venue, sockets, drain
  <2>2. ~Read /\ ~Drain
    <3>1. ~Read
      <4>1. SUFFICES ASSUME Read PROVE FALSE
        OBVIOUS
      <4>2. ws' = ws /\ ws.queue # <<>> /\ ws'.queue = Tail(ws.queue)
        BY <2>1, <4>1, HandledIs
      <4> DEFINE q == ws.queue
                 u == Tail(ws.queue)
      <4>3. u = q /\ Len(u) = Len(q) - 1 /\ Len(q) \in Nat
        BY <4>2, HeadIs
      <4> HIDE DEF q, u
      <4> QED
        BY <4>3
    <3>2. ~Drain
      <4>1. SUFFICES ASSUME Drain PROVE FALSE
        OBVIOUS
      <4>2. ws' = ws /\ ws.queue # <<>> /\ ws'.queue = Tail(ws.queue)
        BY <2>1, <4>1, HandledIs
      <4> DEFINE q == ws.queue
                 u == Tail(ws.queue)
      <4>3. u = q /\ Len(u) = Len(q) - 1 /\ Len(q) \in Nat
        BY <4>2, HeadIs
      <4> HIDE DEF q, u
      <4> QED
        BY <4>3
    <3> QED
      BY <3>1, <3>2
  <2>3. Phases' /\ Caught'
    BY <1>1, <2>1 DEF Phases
  <2>4. \A s \in Streams : Whole(tape', ws.queue, last, sent, s)
    BY <1>40, <2>1, <2>2
  <2> QED
    BY <1>1, <2>1, <2>3, <2>4 DEF Good
<1>8. ASSUME Ritual PROVE Good
  <2>1. /\ UNCHANGED <<sent, ws, succ, last, floor, down, tape>>
        /\ pc = "ritual" /\ pc' = "read"
    BY <1>1, <1>8 DEF Ritual, OnConnected, venue, sockets, Phases
  <2>2. Phases'
    BY <1>1, <2>1 DEF Phases
  <2> QED
    BY <1>1, <1>4, <2>1, <2>2
<1>9. ASSUME Connect PROVE Good
  <2>1. /\ UNCHANGED <<sent, succ, last, floor, down, tape>>
        /\ pc = "connect" /\ pc' = "ritual" /\ ws'.open /\ ws'.queue = <<>>
        /\ last = [s \in Streams |-> 0]
    BY <1>1, <1>9 DEF Connect, venue, Phases
  <2>2. Phases'
    BY <1>1, <2>1 DEF Phases
  <2>3. ASSUME NEW s \in Streams PROVE Whole(tape, <<>>, last, sent, s)
    <3>1. Whole(tape, ws.queue, last, sent, s) /\ last[s] = 0
      BY <1>1, <2>1
    <3>2. \A i \in 1..Len(tape[s]) : tape[s][i].what # "row"
      BY <3>1 DEF Whole
    <3> QED
      BY <3>1, <3>2 DEF Whole, AfterRow
  <2> QED
    BY <1>1, <1>3, <2>1, <2>2, <2>3 DEF Good
<1>10. ASSUME OpenSuccessor PROVE Good
  <2>1. /\ UNCHANGED <<sent, ws, last, floor, down, tape>>
        /\ pc = "handover" /\ pc' = "drain" /\ succ'.open /\ succ'.queue = <<>>
        /\ caughtUp' = (ws.queue = <<>>)
    BY <1>10 DEF OpenSuccessor, venue
  <2>2. Phases'
    BY <1>1, <2>1 DEF Phases
  <2>3. Caught'
    <3>1. SUFFICES ASSUME caughtUp', NEW i \in 1..Len(ws.queue) PROVE FALSE
      BY <2>1
    <3>2. ws.queue = <<>>
      BY <2>1, <3>1, Zenon
    <3> QED
      BY <3>1, <3>2
  <2> QED
    BY <1>1, <1>3, <2>1, <2>2, <2>3 DEF Good
<1>11. ASSUME FinishHandover PROVE Good
  <2>1. /\ UNCHANGED <<sent, last, down>> /\ floor' = last
        /\ pc = "drain" /\ pc' = "ritual" /\ ws' = succ /\ succ' = NoSocket /\ DrainMayStop
        /\ ~(drained = DrainCeiling /\ ~caughtUp)
    <3>1. mishap' = IF drained = DrainCeiling /\ ~caughtUp
                    THEN mishap \cup {"drain cut"} ELSE mishap
      BY <1>11 DEF FinishHandover
    <3>2. mishap' = {}
      BY <1>s DEF Calm
    <3> QED
      BY <1>11, <3>1, <3>2 DEF FinishHandover, OverlapFloor, venue
  <2>2. Phases'
    BY <1>1, <2>1 DEF Phases
  <2>3. caughtUp \/ ws.queue = <<>>
    BY <2>1 DEF DrainMayStop
  <2>4. ASSUME NEW s, NEW n, Queued(ws.queue, s, n) PROVE Queued(succ.queue, s, n)
    <3>1. PICK i \in 1..Len(ws.queue) : ws.queue[i] = <<s, n>>
      BY <2>4 DEF Queued
    <3>2. ws.queue[i][1] = s /\ ws.queue[i][2] = n
      BY <3>1
    <3>3. ws.queue # <<>>
      BY <3>1
    <3> QED
      BY <1>1, <2>1, <2>3, <3>1, <3>2, <3>3
  <2>5. ASSUME NEW s \in Streams PROVE Whole(tape', succ.queue, last, sent, s)
    <3>1. Whole(tape, succ.queue, last, sent, s)
      BY <1>1, <2>4 DEF Whole
    <3>2. ~Read /\ ~Drain
      BY <2>1 DEF Read, Drain
    <3> QED
      BY <1>s, <2>1, <3>1, <3>2, WholeStays
  <2> QED
    BY <1>1, <1>3, <2>1, <2>2, <2>5 DEF Good
<1>12. ASSUME NEW r \in Streams, Emit(r) PROVE Good
  <2> DEFINE n == sent[r] + 1
  <2>1. /\ UNCHANGED <<pc, caughtUp, down, last, floor, tape>>
        /\ sent' = [sent EXCEPT ![r] = @ + 1] /\ sent[r] < MaxId
        /\ ws' = Receive(ws, r, n) /\ succ' = Receive(succ, r, n)
    BY <1>12 DEF Emit, drain
  <2>2. /\ ws.open \/ ws.queue = <<>>
        /\ succ.open \/ succ.queue = <<>>
    BY <1>1, <1>3 DEF Phases, PhaseInv
  <2>3. /\ Filled(ws'.queue, sent')
        /\ \A s, m : Queued(ws.queue, s, m) => Queued(ws'.queue, s, m)
        /\ ws.open => Queued(ws'.queue, r, n)
        /\ \A i \in 1..Len(ws'.queue) : \/ i \in 1..Len(ws.queue) /\ ws'.queue[i] = ws.queue[i]
                                        \/ ws'.queue[i] = <<r, n>>
    BY <1>1, <1>3, <2>1, <2>2, FilledGrows
  <2>4. /\ Filled(succ'.queue, sent')
        /\ \A s, m : Queued(succ.queue, s, m) => Queued(succ'.queue, s, m)
        /\ succ.open => Queued(succ'.queue, r, n)
    BY <1>1, <1>3, <2>1, <2>2, FilledGrows
  <2>5. n \in Nat /\ \A s \in Streams : \A m \in 1..sent'[s] :
          m \in 1..sent[s] \/ (s = r /\ m = n)
    <3>1. sent \in [Streams -> 0..MaxId] /\ sent[r] \in Nat
      BY Typed
    <3>2. \A s \in Streams : sent'[s] = IF s = r THEN n ELSE sent[s]
      BY <2>1, <3>1
    <3>3. \A m \in 1..n : m \in 1..sent[r] \/ m = n
      BY <3>1
    <3> HIDE DEF n
    <3>4. n \in Nat
      BY <3>1 DEF n
    <3> QED
      BY <3>2, <3>3, <3>4
  <2>6. n > last[r]
    <3>1. last[r] <= sent[r]
      BY <1>2 DEF RowsInv
    <3> QED
      BY <1>3, <3>1
  <2> HIDE DEF n
  <2>7. Phases'
    <3>1. ws'.open = ws.open /\ succ'.open = succ.open
      BY <2>1 DEF Receive
    <3>2. ws = NoSocket => ws' = NoSocket
      BY <1>3, <2>1 DEF Receive
    <3> QED
      BY <1>1, <2>1, <3>1, <3>2 DEF Phases
  <2>8. Caught'
    <3>1. SUFFICES ASSUME pc = "drain", caughtUp, NEW i \in 1..Len(ws'.queue)
                   PROVE  Queued(succ'.queue, ws'.queue[i][1], ws'.queue[i][2])
      BY <2>1
    <3>2. CASE i \in 1..Len(ws.queue) /\ ws'.queue[i] = ws.queue[i]
      BY <1>1, <2>4, <3>1, <3>2
    <3>3. CASE ws'.queue[i] = <<r, n>>
      <4>1. ws'.queue[i][1] = r /\ ws'.queue[i][2] = n
        BY <3>3
      <4>2. succ.open
        BY <1>1, <3>1 DEF Phases
      <4> QED
        BY <2>4, <4>1, <4>2
    <3> QED
      BY <2>3, <3>2, <3>3
  <2>9. ASSUME NEW s \in Streams PROVE Whole(tape, ws'.queue, last, sent', s)
    <3>1. Whole(tape, ws.queue, last, sent, s)
      BY <1>1
    <3>2. ASSUME NEW m \in 1..sent'[s], AfterRow(tape, s, m)
          PROVE  RowOf(tape, s, m) \/ (m > last[s] /\ Queued(ws'.queue, s, m))
      <4>1. CASE m \in 1..sent[s]
        BY <2>3, <3>1, <3>2, <4>1 DEF Whole
      <4>2. CASE s = r /\ m = n
        <5>1. last[s] # 0
          BY <3>1, <3>2 DEF AfterRow, Whole
        <5>2. ws.open
          BY <1>1, <5>1 DEF Phases
        <5> QED
          BY <2>3, <2>6, <4>2, <5>2
      <4> QED
        BY <2>5, <4>1, <4>2
    <3> QED
      BY <3>1, <3>2 DEF Whole
  <2> QED
    BY <1>1, <2>1, <2>3, <2>4, <2>7, <2>8, <2>9 DEF Good
<1>13. ASSUME Read \/ Drain PROVE Good
  <2> DEFINE u == Tail(ws.queue)
  <2>1. /\ pc \in {"read", "drain"} /\ ws.queue # <<>> /\ ws'.queue = u /\ ws'.open = ws.open
        /\ UNCHANGED <<succ, sent, down>> /\ pc' \in {"read", "drain", "handover", "recycle"}
    BY <1>13, HandledIs
  <2>2. PICK r \in Streams, n \in 1..MaxId :
              /\ Head(ws.queue) = <<r, n>>
              /\ \/ IsOverlapDuplicate(r, n) /\ UNCHANGED <<tape, last, floor>>
                 \/ ~IsOverlapDuplicate(r, n) /\ \E k \in Nat : Takes(r, n, k)
    BY <1>13, HandledIs
  <2>3. r \in Counted \cup Rising /\ n \in Nat /\ n # 0
    BY <1>2, Constants
  <2>4. Filled(u, sent)
    BY <1>1, <2>1, FilledTail DEF QueueInv
  <2>5. Phases'
    <3>1. pc' # "recycle" /\ (pc' = "drain" => pc = "drain")
      <4>1. SupportsOverlap
        BY <1>s DEF Calm, SupportsOverlap
      <4>2. CASE Read
        BY <4>1, <4>2 DEF Read
      <4>3. CASE Drain
        BY <4>3 DEF Drain
      <4> QED
        BY <1>13, <4>2, <4>3
    <3> QED
      BY <1>1, <2>1, <3>1 DEF Phases
  <2>6. Caught'
    <3>1. SUFFICES ASSUME pc' = "drain", caughtUp', NEW i \in 1..Len(u)
                   PROVE  Queued(succ.queue, u[i][1], u[i][2])
      BY <2>1
    <3>2. Drain
      BY <1>13, <3>1 DEF Read
    <3>3. pc = "drain" /\ caughtUp
      <4>1. pc = "drain" /\ caughtUp' = (caughtUp \/ u = <<>>)
        BY <3>2 DEF Drain
      <4> HIDE DEF u
      <4>2. u # <<>>
        BY <3>1
      <4> QED
        BY <3>1, <4>1, <4>2, Zenon
    <3>4. i + 1 \in 1..Len(ws.queue) /\ u[i] = ws.queue[i + 1]
      <4>1. /\ Len(ws.queue) \in Nat \ {0} /\ Len(u) = Len(ws.queue) - 1
            /\ \A x \in 1..Len(u) : u[x] = ws.queue[x + 1]
        BY <2>1, HeadIs
      <4> HIDE DEF u
      <4> QED
        BY <3>1, <4>1
    <3> HIDE DEF u
    <3> QED
      BY <1>1, <3>3, <3>4
  <2>7. ASSUME NEW s \in Streams, NEW m, Queued(ws.queue, s, m), s # r \/ m # n
        PROVE  Queued(u, s, m)
    <3>1. Head(ws.queue) # <<s, m>>
      BY <2>2, <2>7
    <3> QED
      BY <2>1, <2>7, <3>1, QueuedTail
  <2> HIDE DEF u
  <2>8. ASSUME NEW s \in Streams
        PROVE  floor'[s] <= last'[s] /\ Whole(tape', u, last', sent, s)
    <3>1. Whole(tape, ws.queue, last, sent, s) /\ floor[s] <= last[s]
      BY <1>1
    <3>2. CASE UNCHANGED <<tape, last, floor>> /\ IsOverlapDuplicate(r, n)
      <4>1. n <= floor[r] /\ floor[r] <= last[r]
        BY <1>1, <3>2 DEF IsOverlapDuplicate
      <4>2. \A m \in 1..sent[s] : m > last[s] /\ Queued(ws.queue, s, m) => Queued(u, s, m)
        <5>1. SUFFICES ASSUME NEW m \in 1..sent[s], m > last[s], Queued(ws.queue, s, m)
                       PROVE  Queued(u, s, m)
          OBVIOUS
        <5>2. s = r => m # n
          BY <1>3, <2>3, <4>1, <5>1
        <5> QED
          BY <2>7, <5>1, <5>2
      <4> QED
        BY <3>1, <3>2, <4>2 DEF Whole
    <3>3. ASSUME NEW k \in Nat, Takes(r, n, k), ~IsOverlapDuplicate(r, n)
          PROVE  floor'[s] <= last'[s] /\ Whole(tape', u, last', sent, s)
      <4>1. /\ last' = [last EXCEPT ![r] = Position(r, n)]
            /\ floor' = [floor EXCEPT ![r] = 0]
            /\ \A q \in Streams \ {r} : tape'[q] = tape[q]
            /\ last \in [Streams -> 0..MaxId] /\ floor \in [Streams -> 0..MaxId]
        BY <3>3, Typed DEF Takes
      <4>2. CASE s = r
        <5>1. floor'[s] = 0 /\ last'[s] = Position(r, n)
          BY <4>1, <4>2
        <5>2. Position(r, n) \in Nat
          BY <2>3, PositionAtLeast
        <5>3. RowsBelow(tape, r, n)
          <6>1. Head(ws.queue)[1] = r /\ Head(ws.queue)[2] = n
            BY <2>2
          <6>2. Fits(tape, floor, r, n)
            <7>1. Head(ws.queue) = ws.queue[1] /\ 1 \in 1..Len(ws.queue)
              BY <2>1, HeadIs
            <7> QED
              BY <6>1, <7>1 DEF QueueInv
          <6> QED
            BY <2>3, <3>3, <6>2 DEF Fits, IsOverlapDuplicate
        <5>4. Whole(tape', u, last', sent, s)
          BY <1>1, <2>1, <2>2, <2>3, <3>1, <3>3, <4>2, <5>3, WholeTaken DEF u
        <5> QED
          BY <5>1, <5>2, <5>4
      <4>3. CASE s # r
        <5>1. last'[s] = last[s] /\ floor'[s] = floor[s] /\ tape'[s] = tape[s]
          BY <4>1, <4>3
        <5>2. \A m : Queued(ws.queue, s, m) => Queued(u, s, m)
          BY <2>7, <4>3
        <5>3. Whole(tape', u, last', sent, s)
          BY <3>1, <5>1, <5>2 DEF Whole, RowOf, AfterRow, Seen
        <5> QED
          BY <3>1, <5>1, <5>3
      <4> QED
        BY <4>2, <4>3
    <3> QED
      BY <2>2, <3>2, <3>3
  <2> QED
    BY <1>1, <2>1, <2>4, <2>5, <2>6, <2>8 DEF Good
<1>14. ~ReadEnds /\ ~CloseThenReopen
  BY <1>1 DEF ReadEnds, CloseThenReopen, Phases
<1>15. ASSUME Waits PROVE Good
  BY <1>5, <1>15 DEF Waits
<1> QED
  BY <1>s, <1>5, <1>6, <1>7, <1>8, <1>9, <1>10, <1>11, <1>12, <1>13, <1>14, <1>15, CalmBefore
  DEF Next, Venue, Run, Tasks

-----------------------------------------------------------------------------
(* The theorems.                                                           *)

\* Before the process starts nothing is buffered, sent or missed.
LEMMA InitHolds == Init => IInv
<1> SUFFICES ASSUME Init PROVE IInv
  OBVIOUS
<1>1. /\ \A s \in Streams : /\ tape[s] = <<>> /\ last[s] = 0 /\ floor[s] = 0
                            /\ sent[s] = 0 /\ missed[s] = {}
      /\ pc = "down" /\ ~down /\ ws = NoSocket /\ succ = NoSocket
      /\ ws.queue = <<>> /\ succ.queue = <<>> /\ mishap = {}
      /\ \A s \in Streams : Len(tape[s]) = 0
      /\ Len(ws.queue) = 0 /\ Len(succ.queue) = 0
  BY DEF Init, NoSocket
<1>2. Counted \subseteq Streams /\ Rising \subseteq Streams
  BY DEF Streams
<1>3. TypeOK
  <2>1. NoSocket \in Socket
    BY DEF NoSocket, Socket
  <2>2. 0 \in 0..MaxId /\ 0 \in 0..DrainCeiling /\ 0 \in 0..MaxRecycles /\ 0 \in 0..MaxFaults
    BY CollectorAssumption
  <2>3. /\ sent \in [Streams -> 0..MaxId] /\ last \in [Streams -> 0..MaxId]
        /\ floor \in [Streams -> 0..MaxId]
    BY <2>2 DEF Init
  <2>4. /\ tape \in [Streams -> Seq(Entries)]
        /\ missed \in [Streams -> SUBSET (Nat \X BOOLEAN)]
    <3>1. <<>> \in Seq(Entries)
      OBVIOUS
    <3>2. {} \in SUBSET (Nat \X BOOLEAN)
      OBVIOUS
    <3> QED
      BY <3>1, <3>2 DEF Init
  <2>5. /\ drained \in 0..DrainCeiling /\ recycles \in 0..MaxRecycles /\ faults \in 0..MaxFaults
        /\ outage \in Nat
    BY <2>2 DEF Init
  <2>6. caughtUp \in BOOLEAN /\ down \in BOOLEAN /\ flusher \in BOOLEAN
    BY DEF Init
  <2> QED
    BY <1>1, <2>1, <2>3, <2>4, <2>5, <2>6 DEF TypeOK
<1>4. PhaseInv /\ OutageInv
  BY <1>1, <1>2 DEF PhaseInv, OutageInv
<1>5. SessionInv
  BY <1>1 DEF SessionInv
<1>6. RowsInv
  BY <1>1, <1>2 DEF RowsInv, Ascending, RowsBelow
<1>7. QueueInv
  BY <1>1 DEF QueueInv, InOrder
<1>8. HolesInv
  BY <1>1, <1>2 DEF HolesInv, BufferedLast, JumpsWithRow, Marked
<1>9. WholeInv
  <2>1. Phases
    BY <1>1 DEF Phases, Init
  <2>2. Filled(ws.queue, sent) /\ Filled(succ.queue, sent)
    BY <1>1 DEF Filled
  <2>3. ASSUME NEW s \in Streams PROVE floor[s] <= last[s] /\ Whole(tape, ws.queue, last, sent, s)
    BY <1>1, <2>3 DEF Whole
  <2> QED
    BY <1>1, <2>1, <2>2, <2>3 DEF WholeInv
<1> QED
  BY <1>3, <1>4, <1>5, <1>6, <1>7, <1>8, <1>9 DEF IInv

\* The invariant, in every reachable state.
THEOREM Inductive == Spec => []IInv
<1>1. IInv /\ [Next]_vars => IInv'
  <2> SUFFICES ASSUME IInv, [Next]_vars PROVE IInv'
    OBVIOUS
  <2>1. /\ TypeOK /\ PhaseInv /\ OutageInv /\ SessionInv
        /\ RowsInv /\ QueueInv /\ HolesInv /\ WholeInv
    BY DEF IInv
  <2>2. TypeOK' /\ PhaseInv' /\ OutageInv' /\ SessionInv'
    BY <2>1, TypeStep, PhaseStep, OutageStep, SessionStep
  <2>3. RowsInv' /\ QueueInv' /\ HolesInv' /\ WholeInv'
    BY <2>1, RowsStep, QueueStep, HolesStep, WholeStep
  <2> QED
    BY <2>2, <2>3 DEF IInv
<1> QED
  BY InitHolds, <1>1, PTL DEF Spec

\* Type correctness of the collector: its tapes hold well-formed entries, its
\* positions stay in range, a drain reads no more than its ceiling.
THEOREM TypeCorrect == Spec => []TypeOK
  BY Inductive, PTL DEF IInv

\* Once reading has resumed, every outage that cost a stream with a position a
\* message has its reconnect record (_record_reconnect_gaps, reset).
THEOREM OutageRecordedAlways == Spec => []OutageRecorded
<1>1. IInv => OutageRecorded
  <2> SUFFICES ASSUME OutageInv, ~down,
                      NEW s \in Counted \cup Rising, NEW k \in 1..outage,
                      <<k, TRUE>> \in missed[s]
               PROVE  Recorded(s, k)
    BY DEF IInv, OutageRecorded
  <2> QED
    BY DEF OutageInv
<1> QED
  BY Inductive, <1>1, PTL

\* Every row on disk has its session's start marker on disk, whatever killed the
\* process, unless a write failed (run, flush).
THEOREM SessionBoundedAlways == Spec => []SessionBounded
<1>1. IInv => SessionBounded
  <2>s. SUFFICES ASSUME TypeOK, SessionInv, "write failed" \notin mishap,
                        NEW s \in Streams, NEW i \in DOMAIN tape[s], NEW j \in DOMAIN tape[s],
                        tape[s][i].what = "session", IsRow(s, j), tape[s][j].at = "disk",
                        i < j, \A k \in (i + 1)..j : tape[s][k].what # "session"
                 PROVE  tape[s][i].at = "disk"
    BY DEF IInv, SessionBounded
  <2>1. DOMAIN tape[s] = 1..Len(tape[s]) /\ Len(tape[s]) \in Nat
    BY DEF TypeOK
  <2>2. i \in 1..Len(tape[s]) /\ j \in (i + 1)..Len(tape[s])
    <3>1. i \in 1..Len(tape[s]) /\ j \in 1..Len(tape[s])
      BY <2>1
    <3>2. i < j
      BY <2>s
    <3> QED
      BY <2>1, <3>1, <3>2
  <2>3. NoSessionIn(s, i + 1, j)
    BY <2>s DEF NoSessionIn
  <2> QED
    BY <2>s, <2>2, <2>3 DEF SessionInv
<1> QED
  BY Inductive, <1>1, PTL

\* No message of a stream with an id is captured twice, whatever a handover
\* overlaps (_is_overlap_duplicate).
THEOREM CapturedOnceAlways == Spec => []CapturedOnce
<1>1. IInv => CapturedOnce
  <2>s. SUFFICES ASSUME TypeOK, RowsInv, NEW s \in Counted \cup Rising,
                        NEW i \in DOMAIN tape[s], NEW j \in DOMAIN tape[s], NextRow(s, i, j)
                 PROVE  tape[s][i].id < tape[s][j].id
    BY DEF IInv, CapturedOnce
  <2>1. s \in Streams
    BY DEF Streams
  <2>2. DOMAIN tape[s] = 1..Len(tape[s])
    BY <2>1 DEF TypeOK
  <2>3. i < j /\ tape[s][i].what = "row" /\ tape[s][j].what = "row"
    BY <2>s DEF NextRow, IsRow
  <2> QED
    BY <2>s, <2>2, <2>3 DEF RowsInv, Ascending
<1> QED
  BY Inductive, <1>1, PTL

\* A hole in a stream with contiguous ids is never silent, across handovers,
\* reconnects, kills and restarts, unless a write failed or a kill cut a flush
\* short (SequenceTracker.check, reset).
THEOREM HolesMarkedAlways == Spec => []HolesMarked
<1>1. IInv => HolesMarked
  <2>s. SUFFICES ASSUME TypeOK, HolesInv, mishap \subseteq {"drain cut"}, NEW s \in Counted,
                        NEW i \in DOMAIN tape[s], NEW j \in DOMAIN tape[s], NextRow(s, i, j),
                        tape[s][j].id # tape[s][i].id + 1
                 PROVE  \/ \E k \in (i + 1)..(j - 1) :
                             tape[s][k].what \in {"session", "reconnect"} /\ Shown(s, k)
                        \/ /\ j < Len(tape[s])
                           /\ tape[s][j + 1].what = "jump"
                           /\ tape[s][j + 1].id = tape[s][i].id
                           /\ Shown(s, j + 1)
    BY DEF IInv, HolesMarked
  <2>1. DOMAIN tape[s] = 1..Len(tape[s])
    BY DEF TypeOK, Streams
  <2>2. Follows(tape, s, i, j)
    BY <2>s DEF NextRow, Follows, SeenRow, Seen, IsRow, Shown
  <2>3. Told(tape, s, i, j - 1) \/ Jumped(tape, s, i, j)
    BY <2>s, <2>1, <2>2 DEF HolesInv, Marked
  <2> QED
    BY <2>3 DEF Told, Jumped, Seen, Shown
<1> QED
  BY Inductive, <1>1, PTL

\* Without a fault an overlapped handover loses no message of any stream, where
\* its drain caught up with the predecessor (_handover).
THEOREM HandoverLosesNothingAlways == Spec => []HandoverLosesNothing
<1>1. IInv => HandoverLosesNothing
  <2>s. SUFFICES ASSUME TypeOK, RowsInv, WholeInv, Calm, NEW s \in Streams,
                        NEW i \in DOMAIN tape[s], NEW j \in DOMAIN tape[s], NextRow(s, i, j)
                 PROVE  tape[s][j].id = tape[s][i].id + 1
    BY DEF IInv, HandoverLosesNothing, Calm
  <2>1. s \in Counted \cup Rising
    BY <2>s DEF Calm, SupportsOverlap, Streams
  <2>2. /\ DOMAIN tape[s] = 1..Len(tape[s]) /\ Len(tape[s]) \in Nat
        /\ sent[s] \in Nat /\ last[s] \in Nat
        /\ \A k \in 1..Len(tape[s]) : tape[s][k].id \in Nat
    <3>1. tape[s] \in Seq(Entries) /\ sent[s] \in 0..MaxId /\ last[s] \in 0..MaxId
      BY <2>s DEF TypeOK
    <3>2. /\ DOMAIN tape[s] = 1..Len(tape[s]) /\ Len(tape[s]) \in Nat
          /\ \A k \in 1..Len(tape[s]) : tape[s][k] \in Entries
      BY <3>1
    <3>3. \A e \in Entries : e.id \in Nat
      BY DEF Entries
    <3> QED
      BY <3>1, <3>2, <3>3, CollectorAssumption
  <2>3. /\ i < j /\ tape[s][i].what = "row" /\ tape[s][j].what = "row"
        /\ \A k \in (i + 1)..(j - 1) : ~(tape[s][k].what = "row" /\ Shown(s, k))
    BY <2>s DEF NextRow, IsRow
  <2>4. /\ Ascending(tape, s) /\ RowsBelow(tape, s, sent[s] + 1)
        /\ last[s] # 0 => RowsBelow(tape, s, last[s] + 1)
    BY <2>s, <2>1 DEF RowsInv
  <2>5. Whole(tape, ws.queue, last, sent, s)
    BY <2>s DEF WholeInv
  <2> DEFINE n == tape[s][i].id + 1
  <2>6. n \in Nat \ {0} /\ n <= tape[s][j].id /\ tape[s][j].id <= sent[s]
    BY <2>2, <2>3, <2>4 DEF Ascending, RowsBelow
  <2>7. last[s] # 0
    BY <2>2, <2>3, <2>5 DEF Whole
  <2>8. tape[s][j].id <= last[s]
    BY <2>2, <2>3, <2>4, <2>7 DEF RowsBelow
  <2>9. SUFFICES ASSUME n < tape[s][j].id PROVE FALSE
    BY <2>2, <2>6
  <2>10. AfterRow(tape, s, n)
    BY <2>2, <2>3 DEF AfterRow
  <2>11. ~(n > last[s]) /\ n \in 1..sent[s]
    BY <2>2, <2>6, <2>8, <2>9
  <2> HIDE DEF n
  <2>12. RowOf(tape, s, n)
    BY <2>5, <2>10, <2>11 DEF Whole
  <2>13. PICK x \in 1..Len(tape[s]) : tape[s][x].what = "row" /\ tape[s][x].id = n
    BY <2>12 DEF RowOf
  <2>14. i < x /\ x < j
    <3>1. tape[s][i].id < tape[s][x].id /\ tape[s][x].id < tape[s][j].id
      BY <2>2, <2>9, <2>13 DEF n
    <3>2. i \in Int /\ j \in Int /\ x \in Int
      BY <2>2, <2>13
    <3>3. ~(x < i) /\ x # i
      BY <2>2, <2>3, <2>4, <2>13, <3>1 DEF Ascending
    <3>4. ~(j < x) /\ x # j
      BY <2>2, <2>3, <2>4, <2>13, <3>1 DEF Ascending
    <3> QED
      BY <3>2, <3>3, <3>4
  <2>15. Shown(s, x)
    BY <2>5, <2>13 DEF Whole, Seen, Shown
  <2>16. x \in (i + 1)..(j - 1)
    BY <2>2, <2>13, <2>14
  <2> QED
    BY <2>3, <2>13, <2>15, <2>16
<1> QED
  BY Inductive, <1>1, PTL
=============================================================================
