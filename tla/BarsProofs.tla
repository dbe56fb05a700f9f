----------------------------- MODULE BarsProofs -----------------------------
(***************************************************************************)
(* Proofs about Bars, for every number of days, backfills and faults, as   *)
(* long as writers of the series take turns.                               *)
(*                                                                         *)
(* The first lemmas say what the operators on rows return; TypeStep,       *)
(* TurnsStep, WholeStep, PastStep and FrameStep show that every step       *)
(* preserves one conjunct of IndInv.                                       *)
(***************************************************************************)
EXTENDS Bars, WellFoundedInduction, TLAPS

Marks == {"forming", "settled", "no price"}

-----------------------------------------------------------------------------
(* Rows.                                                                   *)

\* A row set is a function from some days to marks, and the other way round.
LEMMA RowsAre == \A r : r \in Rows <=> DOMAIN r \in SUBSET Days /\ r \in [DOMAIN r -> Marks]
BY DEF Rows, Marks

\* The empty series.
LEMMA NoRowsAre == NoRows \in Rows /\ DOMAIN NoRows = {}
<1>1. DOMAIN NoRows = {} /\ NoRows \in [{} -> Marks]
  BY DEF NoRows, Marks
<1> QED
  BY <1>1, RowsAre

\* Only keeps rows as they are.
LEMMA OnlyKeeps ==
  ASSUME NEW rows \in Rows, NEW D
  PROVE  /\ Only(rows, D) \in Rows
         /\ DOMAIN Only(rows, D) = DOMAIN rows \cap D
         /\ \A d \in DOMAIN rows \cap D : Only(rows, D)[d] = rows[d]
<1>1. DOMAIN rows \in SUBSET Days /\ rows \in [DOMAIN rows -> Marks]
  BY RowsAre
<1>2. /\ DOMAIN Only(rows, D) = DOMAIN rows \cap D
      /\ Only(rows, D) \in [DOMAIN rows \cap D -> Marks]
      /\ \A d \in DOMAIN rows \cap D : Only(rows, D)[d] = rows[d]
  BY <1>1 DEF Only
<1> QED
  BY <1>1, <1>2, RowsAre

\* Merged holds the days of both; the frame's row wins.
LEMMA MergedHolds ==
  ASSUME NEW frame \in Rows, NEW old \in Rows
  PROVE  /\ Merged(frame, old) \in Rows
         /\ DOMAIN Merged(frame, old) = DOMAIN frame \cup DOMAIN old
         /\ \A d \in DOMAIN frame : Merged(frame, old)[d] = frame[d]
         /\ \A d \in DOMAIN old \ DOMAIN frame : Merged(frame, old)[d] = old[d]
<1> DEFINE D == DOMAIN frame \cup DOMAIN old
<1>1. /\ DOMAIN frame \in SUBSET Days /\ frame \in [DOMAIN frame -> Marks]
      /\ DOMAIN old \in SUBSET Days /\ old \in [DOMAIN old -> Marks]
  BY RowsAre
<1>2. /\ DOMAIN Merged(frame, old) = D
      /\ Merged(frame, old) \in [D -> Marks]
      /\ \A d \in D : Merged(frame, old)[d] =
                        IF d \in DOMAIN frame THEN frame[d] ELSE old[d]
  BY <1>1 DEF Merged
<1>3. D \in SUBSET Days
  BY <1>1
<1>4. Merged(frame, old) \in Rows
  BY <1>2, <1>3, RowsAre
<1> QED
  BY <1>2, <1>4

\* A set of days that is not empty has a greatest one, which Max returns.
LEMMA MaxOfDays ==
  ASSUME NEW S \in SUBSET Days, S # {}
  PROVE  Max(S) \in S
<1> DEFINE T == {x \in Nat : MaxDay - x \in S}
           R == {q \in Nat \X Nat : q[1] < q[2]}
<1>0. MaxDay \in Nat /\ S \subseteq 1..MaxDay
  BY BarsAssumption DEF Days
<1>1. \A d \in S : MaxDay - d \in T
  BY <1>0
<1>2. T \subseteq Nat /\ T # {}
  BY <1>1
<1>3. IsWellFoundedOn(R, Nat)
  BY NatLessThanWellFounded, Zenon DEF OpToRel
<1> HIDE DEF R, T
<1>4. PICK t \in T : \A u \in T : ~(<<u, t>> \in R)
  BY <1>2, <1>3, WFMin
<1>5. t \in Nat /\ MaxDay - t \in S /\ \A u \in T : ~(u < t)
  BY <1>2, <1>4 DEF R, T
<1>6. \A d \in S : MaxDay - t >= d
  <2> TAKE d \in S
  <2>1. MaxDay - d \in Nat /\ ~(MaxDay - d < t)
    BY <1>1, <1>2, <1>5
  <2> QED
    BY <2>1, <1>5, <1>0
<1> QED
  BY <1>5, <1>6 DEF Max

-----------------------------------------------------------------------------
(* What a source answers.                                                  *)

\* An answer agrees with the clock about which days are over.
Timely(reply) ==
    /\ PastOnly(reply)
    /\ \A d \in DOMAIN reply : reply[d] = "forming" => today <= d

\* A reply is a range of days, none after h, without placeholders.
LEMMA ReplyIs ==
  ASSUME TypeOK, NEW w \in Writers, NEW h \in Nat, h <= today
  PROVE  /\ Reply(w, h) \in Rows
         /\ \E a, b \in 0..(MaxDay + 1) : DOMAIN Reply(w, h) = a..b
         /\ \A d \in DOMAIN Reply(w, h) :
              d <= h /\ Reply(w, h)[d] = IF d < today THEN "settled" ELSE "forming"
<1> DEFINE D == {x \in Days : job[w].from <= x /\ x <= job[w].to /\ x <= h}
<1>0. /\ MaxDay \in Nat /\ today \in Nat
      /\ job[w].from \in 0..(MaxDay + 1) /\ job[w].to \in 0..(MaxDay + 1)
  BY BarsAssumption DEF TypeOK, Job
<1>1. /\ DOMAIN Reply(w, h) = D
      /\ Reply(w, h) \in [D -> Marks]
      /\ \A d \in D : Reply(w, h)[d] = IF d < today THEN "settled" ELSE "forming"
  BY DEF Reply, Marks
<1>2. D \in SUBSET Days
  OBVIOUS
<1>3. \E a, b \in 0..(MaxDay + 1) : D = a..b
  <2> DEFINE a == IF job[w].from >= 1 THEN job[w].from ELSE 1
             c == IF job[w].to <= h THEN job[w].to ELSE h
             b == IF c <= MaxDay THEN c ELSE MaxDay
  <2>1. a \in 0..(MaxDay + 1) /\ b \in 0..(MaxDay + 1)
    BY <1>0
  <2>2. \A x \in D : x \in a..b
    BY <1>0 DEF Days
  <2>3. \A x \in a..b : x \in D
    BY <1>0, <2>1 DEF Days
  <2> QED
    BY <2>1, <2>2, <2>3
<1>4. Reply(w, h) \in Rows
  BY <1>1, <1>2, RowsAre
<1>5. \A d \in D : d <= h
  OBVIOUS
<1> QED
  BY <1>1, <1>3, <1>4, <1>5

\* Whatever a source answers, late or not, it is a timely range of days.
LEMMA Answers ==
  ASSUME TypeOK, NEW w \in Writers, Fetch(w) \/ FetchLate(w)
  PROVE  \E reply \in Rows : Receive(w, reply) /\ Gapless(reply) /\ Timely(reply)
<1>0. today \in Nat /\ today >= 2
  BY BarsAssumption DEF TypeOK
<1>1. ASSUME NEW h \in Nat, h <= today
      PROVE  /\ Reply(w, h) \in Rows
             /\ Gapless(Reply(w, h)) /\ Timely(Reply(w, h))
  <2>1. /\ Reply(w, h) \in Rows
        /\ \E a, b \in 0..(MaxDay + 1) : DOMAIN Reply(w, h) = a..b
        /\ \A d \in DOMAIN Reply(w, h) :
             Reply(w, h)[d] = IF d < today THEN "settled" ELSE "forming"
    BY <1>1, ReplyIs
  <2>2. DOMAIN Reply(w, h) \in SUBSET Days
    BY <2>1, RowsAre
  <2>3. Gapless(Reply(w, h))
    BY <2>1 DEF Gapless
  <2>4. Timely(Reply(w, h))
    BY <1>0, <2>1, <2>2, BarsAssumption DEF Timely, PastOnly, Days
  <2> QED
    BY <2>1, <2>3, <2>4
<1>2. CASE \E h \in {today - 1, today} : Receive(w, Reply(w, h))
  BY <1>0, <1>1, <1>2
<1>3. CASE Receive(w, Reply(w, today - 2))
  BY <1>0, <1>1, <1>3
<1>4. ASSUME Receive(w, [Reply(w, today - 1) EXCEPT ![today - 1] = "no price"])
      PROVE  \E reply \in Rows :
               Receive(w, reply) /\ Gapless(reply) /\ Timely(reply)
  <2> DEFINE full == Reply(w, today - 1)
             blank == [full EXCEPT ![today - 1] = "no price"]
  <2>1. /\ full \in Rows /\ Timely(full)
        /\ \E a, b \in 0..(MaxDay + 1) : DOMAIN full = a..b
        /\ \A d \in DOMAIN full : d <= today - 1 /\ full[d] # "no price"
    <3>1. today - 1 \in Nat /\ today - 1 <= today
      BY <1>0
    <3>2. Timely(full)
      BY <1>1, <3>1
    <3> QED
      BY <3>1, <3>2, ReplyIs
  <2> HIDE DEF full
  <2>2. DOMAIN full \in SUBSET Days /\ full \in [DOMAIN full -> Marks]
    BY <2>1, RowsAre
  <2>3. /\ DOMAIN blank = DOMAIN full /\ blank \in [DOMAIN full -> Marks]
        /\ \A d \in DOMAIN full :
             blank[d] = IF d = today - 1 THEN "no price" ELSE full[d]
    BY <2>2 DEF Marks
  <2>4. blank \in Rows
    BY <2>2, <2>3, RowsAre
  <2>5. Timely(blank)
    BY <2>1, <2>3 DEF Timely, PastOnly
  <2>6. Gapless(blank)
    <3>1. PICK a, b \in 0..(MaxDay + 1) : DOMAIN full = a..b
      BY <2>1
    <3>2. \A d \in a..b : d <= today - 1
      BY <2>1, <3>1
    <3>3. \A d \in a..b : blank[d] = "no price" => d = b
      <4>0. a \in Nat /\ b \in Nat
        BY BarsAssumption
      <4>1. ASSUME NEW d \in Nat, a <= d, d <= b, d = today - 1 PROVE d = b
        <5>1. b \in a..b
          BY <4>0, <4>1
        <5>2. b <= today - 1
          BY <3>2, <5>1
        <5> QED
          BY <1>0, <4>0, <4>1, <5>2
      <4>2. \A d \in a..b : d \in Nat /\ a <= d /\ d <= b
        BY <4>0
      <4>3. \A d \in a..b : blank[d] = "no price" => d = today - 1
        BY <2>1, <2>3, <3>1
      <4> QED
        BY <4>1, <4>2, <4>3
    <3> QED
      BY <2>3, <3>1, <3>3 DEF Gapless
  <2> QED
    BY <1>4, <2>4, <2>5, <2>6 DEF full
<1> QED
  BY <1>2, <1>3, <1>4 DEF Fetch, FetchLate

\* What the caller keeps of an answer is still a timely range of days; an
\* update keeps none of the day it began on.
LEMMA WantedIs ==
  ASSUME TypeOK, NEW w \in Writers, NEW reply \in Rows,
         Gapless(reply), Timely(reply)
  PROVE  /\ Wanted(w, reply) \in Rows
         /\ Gapless(Wanted(w, reply)) /\ Timely(Wanted(w, reply))
         /\ w = "update" => \A d \in DOMAIN Wanted(w, reply) : d < job[w].asof
<1>0. MaxDay \in Nat /\ job[w].asof \in 0..(MaxDay + 1)
  BY BarsAssumption DEF TypeOK, Job
<1>1. CASE w # "update"
  BY <1>1 DEF Wanted
<1>2. CASE w = "update"
  <2> DEFINE K == 0..(job[w].asof - 1)
             kept == Only(reply, K)
  <2>1. Wanted(w, reply) = kept
    BY <1>2 DEF Wanted
  <2>2. /\ kept \in Rows /\ DOMAIN kept = DOMAIN reply \cap K
        /\ \A d \in DOMAIN reply \cap K : kept[d] = reply[d]
    BY OnlyKeeps
  <2> HIDE DEF kept
  <2>3. Timely(kept)
    BY <2>2 DEF Timely, PastOnly
  <2>4. PICK a, b \in 0..(MaxDay + 1) :
          DOMAIN reply = a..b /\ \A d \in a..b : reply[d] = "no price" => d = b
    BY DEF Gapless
  <2>5. Gapless(kept)
    <3> DEFINE c == IF b <= job[w].asof - 1 THEN b ELSE job[w].asof - 1
    <3>0. /\ a \in Nat /\ b \in Nat /\ c \in Int /\ c <= b /\ b <= MaxDay + 1
          /\ DOMAIN kept = (a..b) \cap K
      <4>1. a \in Nat /\ b \in Nat /\ b <= MaxDay + 1 /\ job[w].asof \in Nat
        BY <1>0
      <4>2. c \in Int /\ c <= b
        BY <4>1
      <4> QED
        BY <2>2, <2>4, <4>1, <4>2
    <3>1. DOMAIN kept = a..c
      <4>1. \A d \in (a..b) \cap K : d \in a..c
        BY <1>0, <3>0
      <4>2. \A d \in a..c : d \in (a..b) \cap K
        BY <1>0, <3>0
      <4> QED
        BY <3>0, <4>1, <4>2
    <3>2. CASE c < a
      <4>1. a..c = {} /\ 1..0 = {}
        BY <3>0, <3>2
      <4>2. 1 \in 0..(MaxDay + 1) /\ 0 \in 0..(MaxDay + 1)
        BY <1>0
      <4>3. DOMAIN kept = 1..0 /\ \A d \in 1..0 : kept[d] = "no price" => d = 0
        BY <3>1, <4>1
      <4> QED
        BY <4>2, <4>3 DEF Gapless
    <3>3. CASE c >= a
      <4>1. c \in 0..(MaxDay + 1) /\ a \in 0..(MaxDay + 1)
        BY <1>0, <3>0, <3>3
      <4>2. \A d \in a..c : kept[d] = "no price" => d = c
        <5> HIDE DEF c
        <5>1. \A d \in a..c : d \in Int /\ d <= c /\ d \in a..b
          BY <3>0
        <5>2. \A d \in a..c : kept[d] = "no price" => d = b
          BY <2>2, <2>4, <3>0, <3>1, <5>1
        <5>3. \A d \in Int : d <= c /\ d = b => d = c
          BY <3>0
        <5> QED
          BY <5>1, <5>2, <5>3
      <4> QED
        BY <3>1, <4>1, <4>2 DEF Gapless
    <3> QED
      BY <3>0, <3>2, <3>3
  <2>6. \A d \in DOMAIN kept : d < job[w].asof
    BY <1>0, <2>2
  <2> QED
    BY <2>1, <2>2, <2>3, <2>5, <2>6
<1> QED
  BY <1>1, <1>2

-----------------------------------------------------------------------------
(* What a writer holds.                                                    *)

PCs == {"idle", "fetch", "upsert", "open", "write", "replace", "clean"}

\* Idle and Holds make jobs.
LEMMA Jobs ==
  /\ Idle \in Job /\ Idle.pc = "idle" /\ Idle.rows = NoRows /\ Idle.asof = 0
  /\ \A p \in PCs : \A r \in Rows :
       /\ Holds(p, r) \in Job
       /\ Holds(p, r).pc = p /\ Holds(p, r).rows = r /\ Holds(p, r).asof = 0
<1>1. 0 \in 0..(MaxDay + 1)
  BY BarsAssumption
<1>2. ASSUME NEW p \in PCs, NEW r \in Rows
      PROVE  /\ Holds(p, r) \in Job
             /\ Holds(p, r).pc = p /\ Holds(p, r).rows = r /\ Holds(p, r).asof = 0
  BY <1>1 DEF Holds, Job, PCs
<1> QED
  BY <1>2, NoRowsAre DEF Idle, PCs

\* NoFile is a file, without rows.
LEMMA NoFileIs ==
  /\ NoFile \in File /\ NoFile.state = "none" /\ NoFile.open = {}
  /\ NoFile.rows = NoRows /\ Priced(NoRows) /\ PastOnly(NoRows)
BY NoRowsAre DEF NoFile, File, Priced, PastOnly

\* A fetch that is answered ends the job or leaves it a timely range of days.
LEMMA Received ==
  ASSUME TypeOK, NEW w \in Writers, Fetch(w) \/ FetchLate(w)
  PROVE  \/ job' = [job EXCEPT ![w] = Idle]
         \/ \E kept \in Rows :
              /\ job' = [job EXCEPT ![w] = Holds("upsert", kept)]
              /\ Gapless(kept) /\ Timely(kept)
              /\ w = "update" => \A d \in DOMAIN kept : d < job[w].asof
<1>1. PICK reply \in Rows : Receive(w, reply) /\ Gapless(reply) /\ Timely(reply)
  BY Answers
<1> DEFINE kept == Wanted(w, reply)
<1>2. /\ kept \in Rows /\ Gapless(kept) /\ Timely(kept)
      /\ w = "update" => \A d \in DOMAIN kept : d < job[w].asof
  BY <1>1, WantedIs
<1>3. job' = [job EXCEPT ![w] = IF DOMAIN kept = {} THEN Idle
                                ELSE Holds("upsert", kept)]
  BY <1>1 DEF Receive
<1> HIDE DEF kept
<1> QED
  BY <1>2, <1>3

\* What may be stored of a range of days is one without its placeholder and
\* its forming bars, with every row as it was fetched.
LEMMA StorableIs ==
  ASSUME NEW rows \in Rows
  PROVE  LET frame == Storable(rows) IN
         /\ frame \in Rows /\ Priced(frame)
         /\ DOMAIN frame =
              {d \in DOMAIN rows : rows[d] # "no price" /\ d < today}
         /\ \A d \in DOMAIN frame : frame[d] = rows[d]
<1> DEFINE D == {d \in DOMAIN rows : rows[d] # "no price" /\ d < today}
<1>1. /\ Only(rows, D) \in Rows
      /\ DOMAIN Only(rows, D) = DOMAIN rows \cap D
      /\ \A d \in DOMAIN rows \cap D : Only(rows, D)[d] = rows[d]
  BY OnlyKeeps
<1>2. Storable(rows) = Only(rows, D)
  BY DEF Storable
<1> QED
  BY <1>1, <1>2 DEF Priced

\* An upsert ends the job or leaves it the merged file to write.
LEMMA Upserted ==
  ASSUME TypeOK, NEW w \in Writers, Upsert(w)
  PROVE  \/ job' = [job EXCEPT ![w] = Idle]
         \/ LET frame == Storable(job[w].rows)
                new == Merged(frame, file.rows)
            IN /\ job' = [job EXCEPT ![w] = Holds("open", new)]
               /\ DOMAIN frame # {} /\ file.state \notin {"torn", "mixed"}
               /\ new \in Rows /\ Priced(new)
<1> DEFINE frame == Storable(job[w].rows)
           new == Merged(frame, file.rows)
<1>0. job[w].rows \in Rows /\ file.rows \in Rows /\ Priced(file.rows)
  BY DEF TypeOK, Job, File
<1>1. frame \in Rows /\ Priced(frame)
  BY <1>0, StorableIs
<1>2. new \in Rows /\ Priced(new)
  <2>1. /\ new \in Rows /\ DOMAIN new = DOMAIN frame \cup DOMAIN file.rows
        /\ \A d \in DOMAIN frame : new[d] = frame[d]
        /\ \A d \in DOMAIN file.rows \ DOMAIN frame : new[d] = file.rows[d]
    BY <1>0, <1>1, MergedHolds
  <2> HIDE DEF new, frame
  <2> QED
    BY <1>0, <1>1, <2>1 DEF Priced
<1> QED
  BY <1>2 DEF Upsert

-----------------------------------------------------------------------------
(* The inductive invariant.                                                *)

\* It holds of a series nobody has stored yet.
LEMMA InitIndInv == Init => IndInv
<1> SUFFICES ASSUME Init PROVE IndInv
  OBVIOUS
<1>1. TypeOK
  BY Jobs, NoFileIs, BarsAssumption DEF Init, TypeOK
<1>2. TakeTurns
  BY DEF Init, TakeTurns
<1>3. WholeInv
  BY Jobs, NoFileIs DEF Init, WholeInv
<1>4. PastInv
  BY Jobs, NoFileIs DEF Init, PastInv, Writers
<1>5. FrameInv
  BY Jobs DEF Init, FrameInv, Fits
<1> QED
  BY <1>1, <1>2, <1>3, <1>4, <1>5 DEF IndInv

\* The types survive every step.
LEMMA TypeStep == IndInv /\ [Next]_vars => TypeOK'
<1> SUFFICES ASSUME IndInv, [Next]_vars PROVE TypeOK'
  OBVIOUS
<1>0. /\ TypeOK /\ WholeInv
      /\ MaxDay \in Nat \ {0} /\ MaxBackfills \in Nat /\ MaxFaults \in Nat
  BY BarsAssumption DEF IndInv
<1>a. ASSUME Fault PROVE faults' \in 0..MaxFaults
  BY <1>0, <1>a DEF Fault, TypeOK
<1>b. ASSUME NEW w \in Writers, job' = [job EXCEPT ![w] = Idle]
      PROVE  /\ job' \in [Writers -> Job]
             /\ \A v \in Writers :
                  job'[v].pc \in {"open", "write"} => Priced(job'[v].rows)
  BY <1>0, <1>b, Jobs DEF TypeOK
<1>1. CASE DayTick
  BY <1>0, <1>1 DEF DayTick, TypeOK
<1>2. CASE BeginUpdate
  <2>1. DOMAIN file.rows \in SUBSET Days /\ DOMAIN file.rows # {}
    BY <1>0, <1>2, RowsAre DEF BeginUpdate, TypeOK, File, WholeInv
  <2>2. FetchFrom \in Days
    BY <2>1, MaxOfDays DEF FetchFrom
  <2>3. Fetches(today, FetchFrom, MaxDay + 1) \in Job
    BY <1>0, <2>2, NoRowsAre DEF Fetches, Job, TypeOK, Days
  <2>4. Fetches(today, FetchFrom, MaxDay + 1).pc = "fetch"
    BY DEF Fetches
  <2> QED
    BY <1>0, <1>2, <2>3, <2>4 DEF BeginUpdate, TypeOK, Writers
<1>3. ASSUME NEW s \in Days, NEW e \in Days \cup {MaxDay + 1}, BeginBackfill(s, e)
      PROVE  TypeOK'
  <2>1. Fetches(0, s, e) \in Job
    BY <1>0, NoRowsAre DEF Fetches, Job, Days
  <2>2. Fetches(0, s, e).pc = "fetch"
    BY DEF Fetches
  <2>3. backfills' \in 0..MaxBackfills
    BY <1>0, <1>3 DEF BeginBackfill, TypeOK
  <2> QED
    BY <1>0, <1>3, <2>1, <2>2, <2>3 DEF BeginBackfill, TypeOK, Writers
<1>4. ASSUME NEW w \in Writers, Fetch(w) \/ FetchLate(w) PROVE TypeOK'
  <2>1. /\ faults' \in 0..MaxFaults
        /\ UNCHANGED <<today, file, temp, backfills, skipped>>
    BY <1>0, <1>4, <1>a DEF Fetch, FetchLate, TypeOK
  <2>2. CASE job' = [job EXCEPT ![w] = Idle]
    BY <1>0, <1>b, <2>1, <2>2 DEF TypeOK
  <2>3. ASSUME NEW kept \in Rows, job' = [job EXCEPT ![w] = Holds("upsert", kept)]
        PROVE  TypeOK'
    <3>1. Holds("upsert", kept) \in Job /\ Holds("upsert", kept).pc = "upsert"
      BY Jobs DEF PCs
    <3> QED
      BY <1>0, <2>1, <2>3, <3>1 DEF TypeOK
  <2> QED
    BY <1>0, <1>4, <2>2, <2>3, Received
<1>5. ASSUME NEW w \in Writers, FetchFails(w) PROVE TypeOK'
  BY <1>0, <1>5, <1>a, <1>b DEF FetchFails, TypeOK
<1>6. ASSUME NEW w \in Writers, Upsert(w) PROVE TypeOK'
  <2>1. UNCHANGED <<today, file, temp, backfills, faults, skipped>>
    BY <1>6 DEF Upsert
  <2>2. CASE job' = [job EXCEPT ![w] = Idle]
    BY <1>0, <1>b, <2>1, <2>2 DEF TypeOK
  <2>3. ASSUME NEW new \in Rows, Priced(new),
               job' = [job EXCEPT ![w] = Holds("open", new)]
        PROVE  TypeOK'
    <3>1. Holds("open", new) \in Job /\ Holds("open", new).rows = new
      BY Jobs DEF PCs
    <3> QED
      BY <1>0, <2>1, <2>3, <3>1 DEF TypeOK
  <2> QED
    BY <1>0, <1>6, <2>2, <2>3, Upserted
<1>7. ASSUME NEW w \in Writers, OpenTemp(w) PROVE TypeOK'
  <2>1. temp' \in File /\ Priced(temp'.rows)
    BY <1>0, <1>7, NoRowsAre, NoFileIs DEF OpenTemp, File, TypeOK
  <2>2. job' \in [Writers -> Job]
    BY <1>0, <1>7 DEF OpenTemp, TypeOK, Job
  <2>3. \A v \in Writers : job'[v].pc \in {"open", "write"} => Priced(job'[v].rows)
    BY <1>0, <1>7 DEF OpenTemp, TypeOK, Job
  <2> QED
    BY <1>0, <1>7, <2>1, <2>2, <2>3 DEF OpenTemp, TypeOK
<1>8. ASSUME NEW w \in Writers, FinishWrite(w) PROVE TypeOK'
  <2>1. ASSUME NEW f \in File, Priced(f.rows), NEW g \in Closing(f, w)
        PROVE  g \in File /\ Priced(g.rows)
    <3>1. job[w].rows \in Rows /\ Priced(job[w].rows)
      BY <1>0, <1>8 DEF FinishWrite, TypeOK, Job
    <3>2. [f EXCEPT !.open = f.open \ {w}] \in File
      BY <2>1 DEF File
    <3>3. [f EXCEPT !.open = f.open \ {w}].rows = f.rows
      BY <2>1 DEF File
    <3>4. [state |-> "whole", rows |-> job[w].rows, open |-> f.open \ {w}] \in File
      BY <2>1, <3>1 DEF File
    <3>5. \/ g = f
          \/ g = [f EXCEPT !.open = f.open \ {w}]
          \/ g = [state |-> "whole", rows |-> job[w].rows, open |-> f.open \ {w}]
      BY DEF Closing
    <3>6. CASE g = f
      BY <2>1, <3>6
    <3>7. CASE g = [f EXCEPT !.open = f.open \ {w}]
      BY <2>1, <3>2, <3>3, <3>7
    <3>8. CASE g = [state |-> "whole", rows |-> job[w].rows, open |-> f.open \ {w}]
      <4>1. g.rows = job[w].rows
        BY <3>8
      <4> QED
        BY <3>1, <3>4, <3>8, <4>1
    <3> QED
      BY <3>5, <3>6, <3>7, <3>8
  <2>2. /\ Holds("replace", NoRows) \in Job
        /\ Holds("replace", NoRows).pc = "replace"
    BY Jobs, NoRowsAre DEF PCs
  <2>3. /\ file' \in File /\ Priced(file'.rows)
        /\ temp' \in File /\ Priced(temp'.rows)
    BY <1>0, <1>8, <2>1 DEF FinishWrite, TypeOK
  <2> QED
    BY <1>0, <1>8, <2>2, <2>3 DEF FinishWrite, TypeOK
<1>9. ASSUME NEW w \in Writers, Replace(w) PROVE TypeOK'
  <2>1. /\ job' \in [Writers -> Job]
        /\ \A v \in Writers :
             job'[v].pc \in {"open", "write"} => Priced(job'[v].rows)
    <3>1. CASE job' = [job EXCEPT ![w] = Idle]
      BY <1>b, <3>1
    <3>2. CASE job' = [job EXCEPT ![w].pc = "clean"]
      BY <1>0, <3>2 DEF TypeOK, Job
    <3> QED
      BY <1>9, <3>1, <3>2 DEF Replace
  <2>2. /\ file' \in File /\ Priced(file'.rows)
        /\ temp' \in File /\ Priced(temp'.rows)
    BY <1>0, <1>9, NoFileIs DEF Replace, TypeOK
  <2>3. skipped' \in SUBSET Days
    BY <1>0, <1>9 DEF Replace, TypeOK, Holes
  <2> QED
    BY <1>0, <1>9, <2>1, <2>2, <2>3 DEF Replace, TypeOK
<1>10. ASSUME NEW w \in Writers, Clean(w) PROVE TypeOK'
  BY <1>0, <1>10, <1>b, NoFileIs DEF Clean, TypeOK
<1>c. ASSUME NEW f \in File, Priced(f.rows), NEW w \in Writers
      PROVE  Abandoned(f, w) \in File /\ Priced(Abandoned(f, w).rows)
  BY <1>c DEF Abandoned, File
<1>11. ASSUME NEW w \in Writers, WriteRaises(w) PROVE TypeOK'
  <2>1. file' \in File /\ Priced(file'.rows)
    BY <1>0, <1>11, <1>c DEF WriteRaises, TypeOK
  <2> QED
    BY <1>0, <1>11, <1>a, <1>b, <2>1, NoFileIs DEF WriteRaises, TypeOK
<1>12. ASSUME NEW w \in Writers, Killed(w) PROVE TypeOK'
  <2>1. /\ file' \in File /\ Priced(file'.rows)
        /\ temp' \in File /\ Priced(temp'.rows)
    BY <1>0, <1>12, <1>c DEF Killed, TypeOK
  <2> QED
    BY <1>0, <1>12, <1>a, <1>b, <2>1 DEF Killed, TypeOK
<1>13. CASE UNCHANGED vars
  BY <1>0, <1>13 DEF vars, TypeOK
<1> QED
  BY <1>1, <1>2, <1>3, <1>4, <1>5, <1>6, <1>7, <1>8, <1>9, <1>10, <1>11,
     <1>12, <1>13 DEF Next, Work, Fails

\* Where a job stands after each step, as far as the other lemmas need it.
LEMMA JobOf ==
  ASSUME TypeOK, NEW w \in Writers, NEW j, job' = [job EXCEPT ![w] = j]
  PROVE  job'[w] = j /\ \A v \in Writers : v # w => job'[v] = job[v]
BY DEF TypeOK

\* A job that is somewhere is not idle.
LEMMA Busy == \A w \in Writers : job[w].pc # "idle" => job[w] # Idle
BY Jobs

\* Writers take turns, when nobody starts beside another.
LEMMA TurnsStep == ~Overlap /\ IndInv /\ [Next]_vars => TakeTurns'
<1> SUFFICES ASSUME ~Overlap, IndInv, [Next]_vars PROVE TakeTurns'
  OBVIOUS
<1>0. TypeOK /\ TakeTurns
  BY DEF IndInv
<1>1. ASSUME NEW w \in Writers, job[w] # Idle,
             \A v \in Writers : v # w => job'[v] = job[v]
      PROVE  TakeTurns'
  BY <1>0, <1>1 DEF TakeTurns
<1>2. ASSUME NEW w \in Writers, \A v \in Writers : job[v] = Idle,
             \A v \in Writers : v # w => job'[v] = job[v]
      PROVE  TakeTurns'
  BY <1>2 DEF TakeTurns
<1>3. CASE DayTick \/ UNCHANGED vars
  BY <1>0, <1>3 DEF DayTick, vars, TakeTurns
<1>4. CASE BeginUpdate
  BY <1>0, <1>2, <1>4 DEF BeginUpdate, MayBegin, Writers, TypeOK
<1>5. ASSUME NEW s \in Days, NEW e \in Days \cup {MaxDay + 1}, BeginBackfill(s, e)
      PROVE  TakeTurns'
  BY <1>0, <1>2, <1>5 DEF BeginBackfill, MayBegin, Writers, TypeOK
<1>6. ASSUME NEW w \in Writers, Work(w) \/ Fails(w) PROVE TakeTurns'
  <2>1. job[w] # Idle
    BY <1>6, Busy DEF Work, Fails, Fetch, FetchLate, FetchFails, Upsert,
         OpenTemp, FinishWrite, Replace, Clean, WriteRaises, Killed
  <2>2. \A v \in Writers : v # w => job'[v] = job[v]
    BY <1>0, <1>6 DEF Work, Fails, Fetch, FetchLate, FetchFails, Receive,
         Upsert, OpenTemp, FinishWrite, Replace, Clean, WriteRaises, Killed,
         TypeOK
  <2> QED
    BY <1>1, <2>1, <2>2
<1> QED
  BY <1>3, <1>4, <1>5, <1>6 DEF Next

\* While a writer is at work, nobody else is anywhere.
LEMMA Alone ==
  ASSUME TakeTurns, NEW w \in Writers, job[w].pc # "idle"
  PROVE  \A v \in Writers : v # w => job[v] = Idle /\ job[v].pc = "idle"
BY Busy, Jobs DEF TakeTurns

\* The series file stays whole.
LEMMA WholeStep == IndInv /\ [Next]_vars => WholeInv'
<1> SUFFICES ASSUME IndInv, [Next]_vars PROVE WholeInv'
  OBVIOUS
<1>0. TypeOK /\ TakeTurns /\ WholeInv /\ FrameInv
  BY DEF IndInv
<1>a. ASSUME NEW w \in Writers, job[w].pc # "write",
             NEW j, job' = [job EXCEPT ![w] = j],
             j.pc \notin {"write", "replace"}, UNCHANGED <<file, temp>>
      PROVE  WholeInv'
  BY <1>0, <1>a, JobOf DEF WholeInv
<1>b. ASSUME NEW p \in PCs, NEW rows \in Rows PROVE Holds(p, rows).pc = p
  BY <1>b, Jobs
<1>1. CASE DayTick \/ UNCHANGED vars
  BY <1>0, <1>1 DEF DayTick, vars, WholeInv
<1>2. CASE BeginUpdate
  BY <1>2, <1>a, Jobs DEF BeginUpdate, MayBegin, Writers, Fetches
<1>3. ASSUME NEW s \in Days, NEW e \in Days \cup {MaxDay + 1}, BeginBackfill(s, e)
      PROVE  WholeInv'
  BY <1>3, <1>a, Jobs DEF BeginBackfill, MayBegin, Writers, Fetches
<1>4. ASSUME NEW w \in Writers, Fetch(w) \/ FetchLate(w) PROVE WholeInv'
  <2>1. job[w].pc # "write" /\ UNCHANGED <<file, temp>>
    BY <1>4 DEF Fetch, FetchLate
  <2>2. CASE job' = [job EXCEPT ![w] = Idle]
    BY <2>1, <2>2, <1>a, Jobs
  <2>3. ASSUME NEW kept \in Rows, job' = [job EXCEPT ![w] = Holds("upsert", kept)]
        PROVE  WholeInv'
    BY <2>1, <2>3, <1>a, <1>b DEF PCs
  <2> QED
    BY <1>0, <1>4, <2>2, <2>3, Received
<1>5. ASSUME NEW w \in Writers, FetchFails(w) PROVE WholeInv'
  BY <1>5, <1>a, Jobs DEF FetchFails
<1>6. ASSUME NEW w \in Writers, Upsert(w) PROVE WholeInv'
  <2>1. job[w].pc # "write" /\ UNCHANGED <<file, temp>>
    BY <1>6 DEF Upsert
  <2>2. CASE job' = [job EXCEPT ![w] = Idle]
    BY <2>1, <2>2, <1>a, Jobs
  <2>3. ASSUME NEW new \in Rows, job' = [job EXCEPT ![w] = Holds("open", new)]
        PROVE  WholeInv'
    BY <2>1, <2>3, <1>a, <1>b DEF PCs
  <2> QED
    BY <1>0, <1>6, <2>2, <2>3, Upserted
<1>7. ASSUME NEW w \in Writers, OpenTemp(w) PROVE WholeInv'
  <2>1. temp.open = {}
    BY <1>0, <1>7, Alone DEF OpenTemp, WholeInv, TypeOK, File
  <2>2. temp'.state = "torn" /\ temp'.open = {w} /\ file' = file
    BY <1>7, <2>1 DEF OpenTemp
  <2>3. job'[w].pc = "write" /\ \A v \in Writers : v # w => job'[v].pc = "idle"
    BY <1>0, <1>7, Alone DEF OpenTemp, TypeOK, Job
  <2> QED
    BY <1>0, <2>2, <2>3 DEF WholeInv
<1>8. ASSUME NEW w \in Writers, FinishWrite(w) PROVE WholeInv'
  <2>1. job[w].pc = "write"
    BY <1>8 DEF FinishWrite
  <2>2. file' = file
    BY <1>0, <1>8 DEF FinishWrite, Closing, WholeInv
  <2>3. temp.state = "torn" /\ temp.open = {w}
    BY <1>0, <2>1 DEF WholeInv
  <2>4. temp' = [state |-> "whole", rows |-> job[w].rows, open |-> {}]
    BY <1>8, <2>3 DEF FinishWrite, Closing
  <2>5. job'[w].pc = "replace" /\ \A v \in Writers : v # w => job'[v].pc = "idle"
    <3>1. Holds("replace", NoRows).pc = "replace"
      BY <1>b, NoRowsAre DEF PCs
    <3>2. /\ job'[w] = Holds("replace", NoRows)
          /\ \A v \in Writers : v # w => job'[v] = job[v]
      BY <1>0, <1>8 DEF FinishWrite, TypeOK
    <3>3. \A v \in Writers : v # w => job[v].pc = "idle"
      BY <1>0, <2>1, Alone
    <3> QED
      BY <3>1, <3>2, <3>3
  <2> QED
    BY <1>0, <2>2, <2>4, <2>5 DEF WholeInv
<1>9. ASSUME NEW w \in Writers, Replace(w) PROVE WholeInv'
  <2>1. job[w].pc = "replace" /\ temp.state = "whole" /\ temp.open = {}
    BY <1>0, <1>9 DEF Replace, WholeInv
  <2>2. file' = temp /\ temp' = NoFile /\ job' = [job EXCEPT ![w].pc = "clean"]
    BY <1>9, <2>1 DEF Replace
  <2>3. job'[w].pc = "clean" /\ \A v \in Writers : v # w => job'[v].pc = "idle"
    BY <1>0, <2>1, <2>2, Alone DEF TypeOK, Job
  <2>4. DOMAIN temp.rows # {}
    <3>1. PICK a, b \in Days : a <= b /\ a..b \subseteq DOMAIN temp.rows
      BY <1>0, <2>1 DEF FrameInv, Fits, Extends
    <3>2. a \in a..b
      BY <3>1, BarsAssumption DEF Days
    <3> QED
      BY <3>1, <3>2
  <2> QED
    BY <2>1, <2>2, <2>3, <2>4, NoFileIs DEF WholeInv
<1>10. ASSUME NEW w \in Writers, Clean(w) PROVE WholeInv'
  BY <1>0, <1>10, JobOf, Jobs, NoFileIs, Alone DEF Clean, WholeInv
<1>c. Abandoned(file, "update") = file /\ Abandoned(file, "backfill") = file
  BY <1>0 DEF Abandoned, WholeInv, TypeOK, File
<1>11. ASSUME NEW w \in Writers, WriteRaises(w) PROVE WholeInv'
  <2>1. \A v \in Writers : v # w => job'[v].pc = "idle"
    BY <1>0, <1>11, JobOf, Alone DEF WriteRaises
  <2>2. job'[w].pc = "idle"
    BY <1>0, <1>11, JobOf, Jobs DEF WriteRaises
  <2>3. file' = file /\ temp' = NoFile
    BY <1>11, <1>c DEF WriteRaises, Writers
  <2> QED
    BY <1>0, <2>1, <2>2, <2>3, NoFileIs DEF WholeInv
<1>12. ASSUME NEW w \in Writers, Killed(w) PROVE WholeInv'
  <2>1. \A v \in Writers : v # w => job'[v] = Idle
    BY <1>0, <1>12, JobOf DEF Killed, TakeTurns
  <2>2. \A v \in Writers : job'[v].pc = "idle"
    <3>1. job'[w] = Idle
      BY <1>0, <1>12, JobOf DEF Killed
    <3> QED
      BY <2>1, <3>1, Jobs
  <2>3. file' = file
    BY <1>12, <1>c DEF Killed, Writers
  <2>4. temp'.open = temp.open \ {w}
    BY <1>0, <1>12 DEF Killed, Abandoned, TypeOK, File
  <2>5. \A v \in Writers : v # w => v \notin temp.open
    <3> SUFFICES ASSUME NEW v \in Writers, v # w, v \in temp.open PROVE FALSE
      OBVIOUS
    <3>1. job[v].pc = "write"
      BY <1>0 DEF WholeInv
    <3> QED
      BY <1>0, <1>12, <3>1, Busy DEF Killed, TakeTurns
  <2>6. \A v \in Writers : v \notin temp'.open
    BY <2>4, <2>5
  <2> QED
    BY <1>0, <2>2, <2>3, <2>6 DEF WholeInv
<1> QED
  BY <1>1, <1>2, <1>3, <1>4, <1>5, <1>6, <1>7, <1>8, <1>9, <1>10, <1>11,
     <1>12 DEF Next, Work, Fails

\* Bars are called settled only after their day, wherever they are held.
LEMMA PastStep == IndInv /\ [Next]_vars => PastInv'
<1> SUFFICES ASSUME IndInv, [Next]_vars PROVE PastInv'
  OBVIOUS
<1>0. TypeOK /\ WholeInv /\ PastInv
  BY DEF IndInv
<1>1. today \in Nat /\ today' \in Nat /\ today <= today'
  <2>1. today \in Nat
    BY <1>0, BarsAssumption DEF TypeOK
  <2>2. CASE DayTick \/ UNCHANGED vars
    BY <2>1, <2>2 DEF DayTick, vars
  <2>3. CASE BeginUpdate \/ \E s \in Days, e \in Days \cup {MaxDay + 1} :
                              BeginBackfill(s, e)
    BY <2>1, <2>3 DEF BeginUpdate, BeginBackfill
  <2>4. ASSUME NEW w \in Writers, Work(w) \/ Fails(w) PROVE today' = today
    BY <2>4 DEF Work, Fails, Fetch, FetchLate, FetchFails, Upsert, OpenTemp,
         FinishWrite, Replace, Clean, WriteRaises, Killed
  <2> QED
    BY <2>1, <2>2, <2>3, <2>4 DEF Next
<1>2. ASSUME NEW r \in Rows, PastOnly(r)
      PROVE  \A d \in DOMAIN r : r[d] = "settled" => d < today'
  <2>1. DOMAIN r \in SUBSET Nat
    BY RowsAre, BarsAssumption DEF Days
  <2> QED
    BY <1>1, <1>2, <2>1 DEF PastOnly
<1> DEFINE Past(r) == \A d \in DOMAIN r : r[d] = "settled" => d < today'
<1>3. /\ Past(file.rows) /\ Past(temp.rows) /\ Past(NoRows)
      /\ \A w \in Writers : Past(job[w].rows)
  BY <1>0, <1>2, NoRowsAre DEF PastInv, TypeOK, File, Job
<1>4. job["update"].asof \in Nat /\ job["update"].asof <= today'
  BY <1>0, <1>1 DEF PastInv, TypeOK, Job, Writers
<1>5. SUFFICES /\ Past(file'.rows) /\ Past(temp'.rows)
               /\ \A w \in Writers : Past(job'[w].rows)
               /\ job'["update"].asof <= today'
  BY DEF PastInv, PastOnly
<1> HIDE DEF Past
<1>a. ASSUME NEW w \in Writers, NEW j, job' = [job EXCEPT ![w] = j],
             Past(j.rows), j.asof = 0
      PROVE  /\ \A v \in Writers : Past(job'[v].rows)
             /\ job'["update"].asof <= today'
  <2>1. job'[w] = j /\ \A v \in Writers : v # w => job'[v] = job[v]
    BY <1>0, <1>a, JobOf
  <2> QED
    BY <1>1, <1>3, <1>4, <1>a, <2>1 DEF Writers
<1>b. ASSUME NEW w \in Writers, job' = [job EXCEPT ![w] = Idle]
      PROVE  /\ \A v \in Writers : Past(job'[v].rows)
             /\ job'["update"].asof <= today'
  BY <1>b, <1>a, <1>3, Jobs
<1>c. ASSUME NEW w \in Writers, NEW p \in PCs, NEW r \in Rows, Past(r),
             job' = [job EXCEPT ![w] = Holds(p, r)]
      PROVE  /\ \A v \in Writers : Past(job'[v].rows)
             /\ job'["update"].asof <= today'
  <2>1. Holds(p, r).rows = r /\ Holds(p, r).asof = 0
    BY Jobs
  <2>2. Past(Holds(p, r).rows)
    BY <1>c, <2>1
  <2> QED
    BY <1>c, <1>a, <2>1, <2>2
<1>6. CASE DayTick \/ UNCHANGED vars
  BY <1>3, <1>4, <1>6 DEF DayTick, vars
<1>7. CASE BeginUpdate
  <2>1. /\ job'["update"] = Fetches(today, FetchFrom, MaxDay + 1)
        /\ job'["backfill"] = job["backfill"]
        /\ UNCHANGED <<today, file, temp>>
    BY <1>0, <1>7 DEF BeginUpdate, TypeOK, Writers
  <2>2. job'["update"].rows = NoRows /\ job'["update"].asof = today
    BY <2>1 DEF Fetches
  <2> QED
    BY <1>1, <1>3, <2>1, <2>2 DEF Writers
<1>8. ASSUME NEW s \in Days, NEW e \in Days \cup {MaxDay + 1}, BeginBackfill(s, e)
      PROVE  /\ Past(file'.rows) /\ Past(temp'.rows)
             /\ \A w \in Writers : Past(job'[w].rows)
             /\ job'["update"].asof <= today'
  <2>1. /\ job' = [job EXCEPT !["backfill"] = Fetches(0, s, e)]
        /\ UNCHANGED <<file, temp>>
    BY <1>8 DEF BeginBackfill
  <2>2. Fetches(0, s, e).rows = NoRows /\ Fetches(0, s, e).asof = 0
    BY DEF Fetches
  <2> QED
    BY <1>3, <1>a, <2>1, <2>2 DEF Writers
<1>9. ASSUME NEW w \in Writers, Fetch(w) \/ FetchLate(w)
      PROVE  /\ Past(file'.rows) /\ Past(temp'.rows)
             /\ \A v \in Writers : Past(job'[v].rows)
             /\ job'["update"].asof <= today'
  <2>1. UNCHANGED <<file, temp>>
    BY <1>9 DEF Fetch, FetchLate
  <2>2. CASE job' = [job EXCEPT ![w] = Idle]
    BY <1>3, <1>b, <2>1, <2>2
  <2>3. ASSUME NEW kept \in Rows, Timely(kept),
               job' = [job EXCEPT ![w] = Holds("upsert", kept)]
        PROVE  /\ Past(file'.rows) /\ Past(temp'.rows)
               /\ \A v \in Writers : Past(job'[v].rows)
               /\ job'["update"].asof <= today'
    <3>1. Past(kept)
      BY <1>2, <2>3 DEF Past, Timely
    <3> QED
      BY <1>3, <1>c, <2>1, <2>3, <3>1 DEF PCs
  <2> QED
    BY <1>0, <1>9, <2>2, <2>3, Received
<1>10. ASSUME NEW w \in Writers, Upsert(w)
       PROVE  /\ Past(file'.rows) /\ Past(temp'.rows)
              /\ \A v \in Writers : Past(job'[v].rows)
              /\ job'["update"].asof <= today'
  <2>1. UNCHANGED <<file, temp>>
    BY <1>10 DEF Upsert
  <2>2. CASE job' = [job EXCEPT ![w] = Idle]
    BY <1>3, <1>b, <2>1, <2>2
  <2> DEFINE frame == Storable(job[w].rows)
             new == Merged(frame, file.rows)
  <2>3. ASSUME new \in Rows, job' = [job EXCEPT ![w] = Holds("open", new)]
        PROVE  /\ Past(file'.rows) /\ Past(temp'.rows)
               /\ \A v \in Writers : Past(job'[v].rows)
               /\ job'["update"].asof <= today'
    <3>1. /\ frame \in Rows /\ DOMAIN frame \subseteq DOMAIN job[w].rows
          /\ \A d \in DOMAIN frame : frame[d] = job[w].rows[d]
      BY <1>0, StorableIs DEF TypeOK, Job
    <3>2. /\ DOMAIN new = DOMAIN frame \cup DOMAIN file.rows
          /\ \A d \in DOMAIN frame : new[d] = frame[d]
          /\ \A d \in DOMAIN file.rows \ DOMAIN frame : new[d] = file.rows[d]
      BY <1>0, <3>1, MergedHolds DEF TypeOK, File
    <3> HIDE DEF frame, new
    <3>3. Past(new)
      BY <1>3, <3>1, <3>2 DEF Past
    <3> QED
      BY <1>3, <1>c, <2>1, <2>3, <3>3 DEF PCs
  <2> QED
    BY <1>0, <1>10, <2>2, <2>3, Upserted
<1>d. ASSUME NEW w \in Writers, NEW p \in PCs, job' = [job EXCEPT ![w].pc = p]
      PROVE  /\ \A v \in Writers : Past(job'[v].rows)
             /\ job'["update"].asof <= today'
  <2>1. \A v \in Writers : job'[v].rows = job[v].rows /\ job'[v].asof = job[v].asof
    BY <1>0, <1>d DEF TypeOK, Job
  <2> QED
    BY <1>3, <1>4, <2>1 DEF Writers
<1>11. ASSUME NEW w \in Writers,
              FetchFails(w) \/ OpenTemp(w) \/ FinishWrite(w) \/ Replace(w)
                \/ Clean(w) \/ WriteRaises(w) \/ Killed(w)
       PROVE  /\ \A v \in Writers : Past(job'[v].rows)
              /\ job'["update"].asof <= today'
  <2>1. \/ job' = [job EXCEPT ![w] = Idle]
        \/ job' = [job EXCEPT ![w] = Holds("replace", NoRows)]
        \/ \E p \in PCs : job' = [job EXCEPT ![w].pc = p]
    BY <1>11 DEF FetchFails, OpenTemp, FinishWrite, Replace, Clean, WriteRaises,
         Killed, PCs
  <2>2. "replace" \in PCs
    BY DEF PCs
  <2> QED
    BY <2>1, <2>2, <1>b, <1>c, <1>d, <1>3, NoRowsAre
<1>12. ASSUME NEW w \in Writers,
              FetchFails(w) \/ OpenTemp(w) \/ FinishWrite(w) \/ Replace(w)
                \/ Clean(w) \/ WriteRaises(w) \/ Killed(w)
       PROVE  Past(file'.rows) /\ Past(temp'.rows)
  <2>1. ASSUME NEW f \in File, Past(f.rows), NEW g \in Closing(f, w) PROVE Past(g.rows)
    <3>1. \/ g = f
          \/ g = [f EXCEPT !.open = f.open \ {w}]
          \/ g = [state |-> "whole", rows |-> job[w].rows, open |-> f.open \ {w}]
      BY DEF Closing
    <3>2. g.rows = f.rows \/ g.rows = job[w].rows
      BY <2>1, <3>1 DEF File
    <3> QED
      BY <1>3, <2>1, <3>2
  <2>2. Abandoned(file, w).rows = file.rows /\ Abandoned(temp, w).rows = temp.rows
    BY <1>0 DEF Abandoned, TypeOK, File
  <2>3. NoFile.rows = NoRows
    BY NoFileIs
  <2>4. CASE FetchFails(w)
    BY <1>3, <2>4 DEF FetchFails
  <2>5. CASE OpenTemp(w)
    BY <1>3, <2>5 DEF OpenTemp
  <2>6. CASE FinishWrite(w)
    BY <1>0, <1>3, <2>1, <2>6 DEF FinishWrite, TypeOK
  <2>7. CASE Replace(w) \/ Clean(w)
    BY <1>3, <2>3, <2>7 DEF Replace, Clean
  <2>8. CASE WriteRaises(w) \/ Killed(w)
    BY <1>3, <2>2, <2>3, <2>8 DEF WriteRaises, Killed
  <2> QED
    BY <1>12, <2>4, <2>5, <2>6, <2>7, <2>8
<1> QED
  BY <1>6, <1>7, <1>8, <1>9, <1>10, <1>11, <1>12 DEF Next, Work, Fails

\* Storing a timely range of days, none of them forming where the file has a
\* settled bar, is one merge of a range of days.
LEMMA UpsertExtends ==
  ASSUME NEW rows \in Rows, NEW old \in Rows, Priced(old), Gapless(rows),
         today \in Nat, DOMAIN Storable(rows) # {},
         \A d \in DOMAIN rows : rows[d] = "forming" => Unsettled(old, d)
  PROVE  Extends(old, Merged(Storable(rows), old))
<1> DEFINE frame == Storable(rows)
           new == Merged(frame, old)
<1>1. /\ frame \in Rows /\ Priced(frame)
      /\ DOMAIN frame = {d \in DOMAIN rows : rows[d] # "no price" /\ d < today}
      /\ \A d \in DOMAIN frame : frame[d] = rows[d]
  BY StorableIs
<1>2. /\ DOMAIN new = DOMAIN frame \cup DOMAIN old
      /\ \A d \in DOMAIN frame : new[d] = frame[d]
      /\ \A d \in DOMAIN old \ DOMAIN frame : new[d] = old[d]
  BY <1>1, MergedHolds
<1>3. new = [d \in DOMAIN frame \cup DOMAIN old |->
               IF d \in DOMAIN frame THEN frame[d] ELSE old[d]]
  BY DEF Merged
<1>4. DOMAIN frame # {}
  OBVIOUS
<1> HIDE DEF frame, new
<1>5. /\ DOMAIN frame \in SUBSET Days
      /\ frame \in [DOMAIN frame -> {"forming", "settled"}]
  BY <1>1, RowsAre DEF Priced, Marks
<1>6. \E a, b \in Days : a <= b /\ DOMAIN frame = a..b
  <2>1. PICK a, b \in 0..(MaxDay + 1) :
          DOMAIN rows = a..b /\ \A d \in a..b : rows[d] = "no price" => d = b
    BY DEF Gapless
  <2>2. a \in Nat /\ b \in Nat
    BY BarsAssumption
  <2>3. PICK e \in Int : /\ e <= b /\ b - 1 <= e
                         /\ b \in a..b => (rows[b] = "no price" <=> e = b - 1)
    <3>1. b \in Int /\ b - 1 \in Int /\ b <= b /\ b - 1 <= b - 1 /\ b - 1 <= b
          /\ b # b - 1
      BY <2>2
    <3>2. CASE rows[b] = "no price"
      BY <3>1, <3>2
    <3>3. CASE rows[b] # "no price"
      BY <3>1, <3>3
    <3> QED
      BY <3>2, <3>3
  <2>a. PICK c \in Int : c <= e /\ c < today /\ (c = e \/ c = today - 1)
    <3>1. CASE e < today
      BY <3>1
    <3>2. CASE ~(e < today)
      BY <3>2
    <3> QED
      BY <3>1, <3>2
  <2>b. \A d \in a..b : d \in Int /\ a <= d /\ d <= b /\ b \in a..b
    BY <2>2
  <2>c. \A d \in a..c : d \in Int /\ a <= d /\ d <= c
    BY <2>2
  <2>d. e <= b /\ b - 1 <= e
    BY <2>3
  <2>4. \A d \in DOMAIN frame : d \in a..c
    <3> TAKE d \in DOMAIN frame
    <3>1. d \in a..b /\ d < today /\ rows[d] # "no price"
      BY <1>1, <2>1
    <3>2. d \in Int /\ a <= d /\ d <= b /\ b \in a..b
      BY <2>b, <3>1
    <3>3. d = b => e # b - 1
      BY <2>3, <3>1, <3>2
    <3>4. d <= e
      BY <2>2, <2>d, <3>2, <3>3
    <3> QED
      <4>1. d < today
        BY <3>1
      <4>2. d <= c
        BY <2>2, <2>a, <3>2, <3>4, <4>1
      <4> QED
        BY <2>2, <3>2, <4>2
  <2>5. \A d \in a..c : d \in DOMAIN frame
    <3> TAKE d \in a..c
    <3>1. d \in Int /\ a <= d /\ d <= e /\ d < today /\ d <= b
      BY <2>2, <2>a, <2>c, <2>d
    <3>2. d \in a..b /\ b \in a..b
      BY <2>2, <3>1
    <3>3. rows[d] # "no price"
      <4>1. rows[d] = "no price" => d = b
        BY <2>1, <3>2
      <4>2. rows[d] = "no price" => e = b - 1
        BY <2>3, <3>2, <4>1
      <4>3. d = b => e # b - 1
        BY <2>2, <3>1
      <4> QED
        BY <4>1, <4>2, <4>3
    <3> QED
      BY <1>1, <2>1, <3>1, <3>2, <3>3
  <2>6. DOMAIN frame = a..c
    BY <2>4, <2>5
  <2>7. a <= c
    BY <1>4, <2>2, <2>6
  <2>8. a \in a..c /\ c \in a..c
    BY <2>2, <2>7
  <2>9. a \in Days /\ c \in Days
    BY <1>5, <2>6, <2>8
  <2> QED
    BY <2>6, <2>7, <2>9
<1>7. PICK a, b \in Days : a <= b /\ DOMAIN frame = a..b
  BY <1>6
<1>8. frame \in [a..b -> {"forming", "settled"}]
  BY <1>5, <1>7
<1>9. new = [d \in DOMAIN old \cup (a..b) |->
               IF d \in a..b THEN frame[d] ELSE old[d]]
  <2>1. DOMAIN frame \cup DOMAIN old = DOMAIN old \cup (a..b)
    BY <1>7
  <2> QED
    BY <1>3, <1>7, <2>1
<1>10. \A d \in Days : ~Unsettled(old, d) => ~Unsettled(new, d)
  <2> SUFFICES ASSUME NEW d \in Days, ~Unsettled(old, d) PROVE ~Unsettled(new, d)
    OBVIOUS
  <2>1. d \in DOMAIN old /\ old[d] = "settled" /\ d \in DOMAIN new
    BY <1>2 DEF Unsettled
  <2>2. CASE d \in DOMAIN frame
    <3>1. frame[d] = rows[d] /\ d \in DOMAIN rows
      BY <1>1, <2>2
    <3>2. frame[d] # "forming"
      BY <3>1
    <3>3. frame[d] = "settled"
      BY <1>5, <2>2, <3>2
    <3> QED
      BY <1>2, <2>1, <2>2, <3>3 DEF Unsettled
  <2>3. CASE d \notin DOMAIN frame
    BY <1>2, <2>1, <2>3 DEF Unsettled
  <2> QED
    BY <2>2, <2>3
<1>11. Extends(old, new)
  BY <1>7, <1>8, <1>9, <1>10 DEF Extends
<1> QED
  BY <1>11 DEF new, frame

\* While writers take turns, a step of one of them leaves the others idle.
LEMMA OthersIdle ==
  ASSUME TypeOK, TakeTurns, NEW w \in Writers, Work(w) \/ Fails(w)
  PROVE  \A v \in Writers : v # w => job'[v] = Idle /\ job'[v].pc = "idle"
<1>1. job[w].pc # "idle" \/ job[w] # Idle
  BY DEF Work, Fails, Fetch, FetchLate, FetchFails, Upsert, OpenTemp,
     FinishWrite, Replace, Clean, WriteRaises, Killed
<1>2. job[w] # Idle
  BY <1>1, Busy
<1>3. \A v \in Writers : v # w => job'[v] = job[v]
  BY DEF Work, Fails, Fetch, FetchLate, FetchFails, Receive, Upsert, OpenTemp,
     FinishWrite, Replace, Clean, WriteRaises, Killed, TypeOK
<1> QED
  BY <1>2, <1>3, Jobs DEF TakeTurns

\* What a writer carries keeps fitting the file.
LEMMA FrameStep == IndInv /\ [Next]_vars => FrameInv'
<1> SUFFICES ASSUME IndInv, [Next]_vars PROVE FrameInv'
  OBVIOUS
<1>0. TypeOK /\ TakeTurns /\ WholeInv /\ PastInv /\ FrameInv
  BY DEF IndInv
<1>a. ASSUME NEW v \in Writers,
             job'[v].pc \notin {"upsert", "open", "write", "replace"}
      PROVE  Fits(v)'
  BY <1>a DEF Fits
<1>b. ASSUME NEW v \in Writers, job'[v] = job[v],
             file'.rows = file.rows, temp'.rows = temp.rows
      PROVE  Fits(v)'
  <2>1. Fits(v)
    BY <1>0 DEF FrameInv
  <2>2. CASE job[v].pc = "upsert"
    BY <1>b, <2>1, <2>2 DEF Fits
  <2>3. CASE job[v].pc # "upsert"
    BY <1>b, <2>1, <2>3 DEF Fits
  <2> QED
    BY <2>2, <2>3
<1>c. ASSUME NEW w \in Writers, Work(w) \/ Fails(w), Fits(w)' PROVE FrameInv'
  BY <1>0, <1>a, <1>c, OthersIdle DEF FrameInv
<1>1. CASE DayTick \/ UNCHANGED vars
  BY <1>0, <1>1, <1>b DEF DayTick, vars, FrameInv
<1>2. CASE BeginUpdate
  <2>1. /\ job'["update"].pc = "fetch" /\ job'["backfill"] = job["backfill"]
        /\ UNCHANGED <<file, temp>>
    BY <1>0, <1>2 DEF BeginUpdate, TypeOK, Writers, Fetches
  <2> QED
    BY <1>a, <1>b, <2>1 DEF FrameInv, Writers
<1>3. ASSUME NEW s \in Days, NEW e \in Days \cup {MaxDay + 1}, BeginBackfill(s, e)
      PROVE  FrameInv'
  <2>1. /\ job'["backfill"].pc = "fetch" /\ job'["update"] = job["update"]
        /\ UNCHANGED <<file, temp>>
    BY <1>0, <1>3 DEF BeginBackfill, TypeOK, Writers, Fetches
  <2> QED
    BY <1>a, <1>b, <2>1 DEF FrameInv, Writers
<1>4. ASSUME NEW w \in Writers, Fetch(w) \/ FetchLate(w) PROVE FrameInv'
  <2>1. UNCHANGED <<file, temp>> /\ (Work(w) \/ Fails(w))
    BY <1>4 DEF Fetch, FetchLate, Work, Fails
  <2>2. CASE job' = [job EXCEPT ![w] = Idle]
    BY <1>0, <1>a, <1>c, <2>1, <2>2, JobOf, Jobs
  <2>3. ASSUME NEW kept \in Rows, Gapless(kept), Timely(kept),
               job' = [job EXCEPT ![w] = Holds("upsert", kept)],
               w = "update" => \A d \in DOMAIN kept : d < job[w].asof
        PROVE  FrameInv'
    <3>1. job'[w].pc = "upsert" /\ job'[w].rows = kept
      <4>1. job'[w] = Holds("upsert", kept)
        BY <1>0, <2>3, JobOf
      <4>2. Holds("upsert", kept).pc = "upsert" /\ Holds("upsert", kept).rows = kept
        BY Jobs DEF PCs
      <4> QED
        BY <4>1, <4>2
    <3>2. ASSUME NEW d \in DOMAIN kept, kept[d] = "forming"
          PROVE  w = "backfill" /\ Unsettled(file.rows, d)
      <4>1. d \in Nat /\ today \in Nat /\ today <= d
        BY <1>0, <2>3, <3>2, RowsAre, BarsAssumption DEF Timely, Days, TypeOK
      <4>2. w # "update"
        BY <1>0, <2>3, <4>1, BarsAssumption DEF PastInv, TypeOK, Job
      <4>3. Unsettled(file.rows, d)
        BY <1>0, <4>1 DEF PastInv, PastOnly, Unsettled
      <4> QED
        BY <4>2, <4>3 DEF Writers
    <3>3. Fits(w)'
      BY <2>1, <2>3, <3>1, <3>2 DEF Fits, Gapless, Unsettled
    <3> QED
      BY <1>c, <2>1, <3>3
  <2> QED
    BY <1>0, <1>4, <2>2, <2>3, Received
<1>5. ASSUME NEW w \in Writers, FetchFails(w) \/ Replace(w) \/ Clean(w)
                                  \/ WriteRaises(w) \/ Killed(w)
      PROVE  FrameInv'
  <2>1. Work(w) \/ Fails(w)
    BY <1>5 DEF Work, Fails
  <2>2. job'[w].pc \in {"idle", "clean"}
    BY <1>0, <1>5, Jobs DEF FetchFails, Replace, Clean, WriteRaises, Killed,
         TypeOK, Job
  <2> QED
    BY <1>a, <1>c, <2>1, <2>2
<1>6. ASSUME NEW w \in Writers, Upsert(w) PROVE FrameInv'
  <2>1. UNCHANGED <<file, temp>> /\ Work(w) /\ job[w].pc = "upsert"
    BY <1>6 DEF Upsert, Work
  <2>2. CASE job' = [job EXCEPT ![w] = Idle]
    BY <1>0, <1>a, <1>c, <2>1, <2>2, JobOf, Jobs
  <2> DEFINE frame == Storable(job[w].rows)
             new == Merged(frame, file.rows)
  <2>3. ASSUME job' = [job EXCEPT ![w] = Holds("open", new)],
               DOMAIN frame # {}, new \in Rows
        PROVE  FrameInv'
    <3>1. job'[w].pc = "open" /\ job'[w].rows = new
      <4>1. job'[w] = Holds("open", new)
        BY <1>0, <2>3, JobOf
      <4>2. Holds("open", new).pc = "open" /\ Holds("open", new).rows = new
        BY <2>3, Jobs DEF PCs
      <4> QED
        BY <4>1, <4>2
    <3>2. /\ job[w].rows \in Rows /\ file.rows \in Rows /\ Priced(file.rows)
          /\ today \in Nat
      BY <1>0, BarsAssumption DEF TypeOK, Job, File
    <3>3. /\ Gapless(job[w].rows)
          /\ \A d \in DOMAIN job[w].rows :
               job[w].rows[d] = "forming" =>
                 w = "backfill" /\ Unsettled(file.rows, d)
      BY <1>0, <2>1 DEF FrameInv, Fits
    <3>4. Extends(file.rows, new)
      BY <2>3, <3>2, <3>3, UpsertExtends
    <3>5. w = "update" => NoNewForming(file.rows, new)
      <4>1. /\ frame \in Rows /\ DOMAIN frame \subseteq DOMAIN job[w].rows
            /\ \A d \in DOMAIN frame : frame[d] = job[w].rows[d]
        BY <3>2, StorableIs
      <4>2. /\ DOMAIN new = DOMAIN frame \cup DOMAIN file.rows
            /\ \A d \in DOMAIN frame : new[d] = frame[d]
            /\ \A d \in DOMAIN file.rows \ DOMAIN frame : new[d] = file.rows[d]
        BY <3>2, <4>1, MergedHolds
      <4> HIDE DEF frame, new
      <4> QED
        BY <3>3, <4>1, <4>2 DEF NoNewForming
    <3> HIDE DEF new
    <3>6. /\ Extends(file'.rows, job'[w].rows)
          /\ w = "update" => NoNewForming(file'.rows, job'[w].rows)
      BY <2>1, <3>1, <3>4, <3>5
    <3>7. Fits(w)'
      BY <3>1, <3>6 DEF Fits
    <3> QED
      BY <1>c, <2>1, <3>7
  <2> QED
    BY <1>0, <1>6, <2>2, <2>3, Upserted
<1>7. ASSUME NEW w \in Writers, OpenTemp(w) PROVE FrameInv'
  <2>1. job[w].pc = "open" /\ file' = file /\ Work(w)
    BY <1>7 DEF OpenTemp, Work
  <2>2. job'[w].pc = "write" /\ job'[w].rows = job[w].rows
    BY <1>0, <1>7 DEF OpenTemp, TypeOK, Job
  <2>3. /\ Extends(file'.rows, job'[w].rows)
        /\ w = "update" => NoNewForming(file'.rows, job'[w].rows)
    BY <1>0, <2>1, <2>2 DEF FrameInv, Fits
  <2>4. Fits(w)'
    BY <2>2, <2>3 DEF Fits
  <2> QED
    BY <1>c, <2>1, <2>4
<1>8. ASSUME NEW w \in Writers, FinishWrite(w) PROVE FrameInv'
  <2>1. job[w].pc = "write" /\ Work(w)
    BY <1>8 DEF FinishWrite, Work
  <2>2. file' = file
    BY <1>0, <1>8 DEF FinishWrite, Closing, WholeInv
  <2>3. temp.state = "torn" /\ temp.open = {w}
    BY <1>0, <2>1 DEF WholeInv
  <2>4. temp'.rows = job[w].rows
    BY <1>8, <2>3 DEF FinishWrite, Closing
  <2>5. job'[w].pc = "replace"
    <3>1. job'[w] = Holds("replace", NoRows)
      BY <1>0, <1>8, JobOf DEF FinishWrite
    <3>2. Holds("replace", NoRows).pc = "replace"
      BY Jobs, NoRowsAre DEF PCs
    <3> QED
      BY <3>1, <3>2
  <2>6. /\ Extends(file'.rows, temp'.rows)
        /\ w = "update" => NoNewForming(file'.rows, temp'.rows)
    BY <1>0, <2>1, <2>2, <2>4 DEF FrameInv, Fits
  <2>7. Fits(w)'
    BY <2>5, <2>6 DEF Fits
  <2> QED
    BY <1>c, <2>1, <2>7
<1> QED
  BY <1>1, <1>2, <1>3, <1>4, <1>5, <1>6, <1>7, <1>8 DEF Next, Work, Fails

-----------------------------------------------------------------------------
(* The theorems.                                                           *)

\* While writers take turns, the inductive invariant always holds.
THEOREM Inductive ==
  ASSUME ~Overlap
  PROVE  Spec => []IndInv
<1>1. Init => IndInv
  BY InitIndInv
<1>2. IndInv /\ [Next]_vars => IndInv'
  BY TypeStep, TurnsStep, WholeStep, PastStep, FrameStep DEF IndInv
<1> QED
  BY <1>1, <1>2, PTL DEF Spec

\* Every variable of the series keeps its type.
THEOREM TypeCorrect ==
  ASSUME ~Overlap
  PROVE  Spec => []TypeOK
<1>1. IndInv => TypeOK
  BY DEF IndInv
<1> QED
  BY Inductive, <1>1, PTL

\* The series file is absent or complete at every instant, whatever kills a
\* writer and when.
THEOREM WholeFileAlways ==
  ASSUME ~Overlap
  PROVE  Spec => []WholeFile
<1>1. IndInv => WholeFile
  BY DEF IndInv, WholeInv, WholeFile
<1> QED
  BY Inductive, <1>1, PTL

\* The file changes only by the rename of a temp that extends it.
LEMMA FileChanges ==
  ASSUME IndInv, [Next]_vars, file'.rows # file.rows
  PROVE  \E w \in Writers :
           /\ job[w].pc = "replace" /\ file'.rows = temp.rows
           /\ Fits(w)
<1>0. TypeOK /\ WholeInv /\ FrameInv
  BY DEF IndInv
<1>1. CASE DayTick \/ BeginUpdate \/ UNCHANGED vars
  BY <1>1 DEF DayTick, BeginUpdate, vars
<1>2. ASSUME NEW s \in Days, NEW e \in Days \cup {MaxDay + 1}, BeginBackfill(s, e)
      PROVE  FALSE
  BY <1>2 DEF BeginBackfill
<1>3. ASSUME NEW w \in Writers, Work(w) \/ Fails(w)
      PROVE  Replace(w)
  <2>1. CASE Fetch(w) \/ FetchLate(w) \/ FetchFails(w) \/ Upsert(w)
               \/ OpenTemp(w) \/ Clean(w)
    BY <2>1 DEF Fetch, FetchLate, FetchFails, Upsert, OpenTemp, Clean
  <2>2. CASE FinishWrite(w)
    BY <1>0, <2>2 DEF FinishWrite, Closing, WholeInv
  <2>3. CASE WriteRaises(w) \/ Killed(w)
    <3>1. Abandoned(file, w).rows = file.rows
      BY <1>0 DEF Abandoned, TypeOK, File
    <3> QED
      BY <2>3, <3>1 DEF WriteRaises, Killed
  <2> QED
    BY <1>3, <2>1, <2>2, <2>3 DEF Work, Fails
<1> QED
  BY <1>0, <1>1, <1>2, <1>3 DEF Next, Replace, FrameInv

\* The nightly update never stores a forming bar, even when its fetch and its
\* write lie on different days.
THEOREM UpdateStoresOnlySettledAlways ==
  ASSUME ~Overlap
  PROVE  Spec => UpdateStoresOnlySettled
<1> DEFINE Kept ==
      job["update"].pc = "replace" =>
        \A d \in DOMAIN file'.rows :
          file'.rows[d] = "forming" =>
            d \in DOMAIN file.rows /\ file.rows[d] = "forming"
<1>1. IndInv /\ [Next]_vars => [Kept]_vars
  <2> SUFFICES ASSUME IndInv, [Next]_vars, job["update"].pc = "replace",
                      NEW d \in DOMAIN file'.rows, file'.rows[d] = "forming"
               PROVE  d \in DOMAIN file.rows /\ file.rows[d] = "forming"
    OBVIOUS
  <2>1. CASE file'.rows = file.rows
    BY <2>1
  <2>2. CASE file'.rows # file.rows
    <3>1. PICK w \in Writers : /\ job[w].pc = "replace" /\ file'.rows = temp.rows
                               /\ Fits(w)
      BY <2>2, FileChanges
    <3>2. w = "update"
      <4>1. "update" \in Writers /\ job["update"] # Idle /\ job[w] # Idle
        BY <3>1, Busy DEF Writers
      <4> QED
        BY <4>1 DEF IndInv, TakeTurns
    <3> QED
      BY <3>1, <3>2 DEF Fits, NoNewForming
  <2> QED
    BY <2>1, <2>2
<1> QED
  BY Inductive, <1>1, PTL DEF Spec, UpdateStoresOnlySettled

\* Every change of the file is one atomic merge of a range of days: the series
\* implements Table.
THEOREM Refinement ==
  ASSUME ~Overlap
  PROVE  Spec => ImplementsTable
<1>1. Init => Stored!Init
  BY NoFileIs DEF Init, Stored!Init, NoRows
<1>2. IndInv /\ [Next]_vars => [Stored!Next]_(file.rows)
  <2> SUFFICES ASSUME IndInv, [Next]_vars, file'.rows # file.rows
               PROVE  Stored!Next
    OBVIOUS
  <2>1. PICK w \in Writers : /\ job[w].pc = "replace" /\ file'.rows = temp.rows
                             /\ Fits(w)
    BY FileChanges
  <2>2. Extends(file.rows, file'.rows)
    BY <2>1 DEF Fits
  <2> DEFINE old == file.rows
             new == file'.rows
  <2>3. PICK a, b \in Days :
          /\ a <= b
          /\ \E frame \in [a..b -> {"forming", "settled"}] :
               new = [d \in DOMAIN old \cup (a..b) |->
                        IF d \in a..b THEN frame[d] ELSE old[d]]
    BY <2>2 DEF Extends
  <2>4. \A d \in Days : Stored!Settled(old, d) => Stored!Settled(new, d)
    BY <2>2 DEF Extends, Unsettled, Stored!Settled
  <2>5. Stored!Merge(a, b)
    BY <2>3, <2>4 DEF Stored!Merge, Stored!Quality
  <2> QED
    BY <2>3, <2>5 DEF Stored!Next
<1> QED
  BY Inductive, <1>1, <1>2, PTL DEF Spec, ImplementsTable, Stored!Spec
=============================================================================
