---------------------------- MODULE NightlyProofs ----------------------------
(***************************************************************************)
(* What the passes over series and events keep true, for any number of     *)
(* metrics, days, prints, pages, passes and faults, from SeriesAssumption  *)
(* and NightlyAssumption.                                                  *)
(*                                                                         *)
(* NothingSkipped is about files that were written metric by metric from   *)
(* pages fetched at different moments, while the source went on.  The      *)
(* invariant follows a day from the page to the file: a day is uncovered   *)
(* if the source has it and neither the file nor the walk does, unless it  *)
(* came out of order.  An honest walk leaves nothing uncovered below its   *)
(* cursor (LoadInv), because what it has passed is before today or is the  *)
(* watermark itself, and the source publishes only today in order; when    *)
(* it ends, nothing is uncovered up to the last day of either frame, which *)
(* is where the watermark will be (WriteInv).                              *)
(*                                                                         *)
(* EveryPassRecorded is about files that every later pass reads, merges    *)
(* and rewrites: a merge keeps a row per check of every run (MergeKeeps),  *)
(* so what an ended pass has written stays found (FoundInv).               *)
(***************************************************************************)
EXTENDS Nightly, FiniteSetTheorems, WellFoundedInduction, TLAPS

\* The source has the day, in order, and this metric of the lake will not.
Uncovered(m, d) ==
    served[m][d] # 0 /\ stored[m][d] = 0 /\ walk.rows[m][d] = 0 /\ d \notin late

\* What a writer was killed over does not count, unless the pass is there to
\* repair it.
Trusted == ~torn \/ job = "backfill"

\* The source's metrics share their dates, and it knows nothing of the future;
\* whatever is fetched or stored it has, or had.
SourceInv ==
    /\ \A m \in Metrics, d \in Days :
         /\ served[m][d] # 0 <=> served[1][d] # 0
         /\ served[m][d] # 0 => d <= today
         /\ stored[m][d] # 0 \/ walk.rows[m][d] # 0 =>
              d <= today /\ (served[m][d] # 0 \/ d \in late)

\* Where a walk stands.
WalkInv ==
    /\ pc \notin {"load", "write"} => walk = NoWalk
    /\ pc = "load" =>
         /\ IsFiniteSet(walk.seen) /\ walk.seen \subseteq Nat \ {0}
         /\ Cardinality(walk.seen) <= MAX_PAGES
         /\ walk.cursor \in 0..(MaxDay + 1 + Cardinality(walk.seen))
         /\ walk.source # "honest" => walk.cursor # 0
         /\ walk.source = "honest" /\ walk.cursor # 0 =>
              walk.cursor <= today \/ walk.cursor = Watermark + 1
         /\ job = "weekly" => Cardinality(Settled) >= 2
    /\ pc = "write" => walk.cursor \in Metrics /\ job # "weekly"
    /\ \A m \in Metrics, d \in Days : walk.rows[m][d] # 0 <=> walk.rows[1][d] # 0

\* What an honest walk leaves uncovered: nothing.
LoadInv ==
    pc = "load" /\ walk.source = "honest" /\ job # "weekly" /\ Trusted =>
    \A m \in Metrics, e \in Days :
        IF walk.cursor # 0 THEN e < walk.cursor => ~Uncovered(m, e)
        ELSE \A d \in Dates(stored) \cup Dates(walk.rows) : e <= d => ~Uncovered(m, e)

\* What the writing of its frame leaves.
WriteInv ==
    pc = "write" =>
    /\ Trusted =>
         \A m \in Metrics, e \in Days, d \in Dates(stored) \cup Dates(walk.rows) :
            e <= d => ~Uncovered(m, e)
    /\ \A m \in Metrics, d \in Days :
         m < walk.cursor /\ walk.rows[m][d] # 0 => stored[m][d] # 0
    /\ ~torn => \A m \in Metrics, d \in Dates(stored) :
                   stored[m][d] # 0 \/ walk.rows[m][d] # 0

\* What is true of the files before the first metric is written.
Untouched == pc # "write" \/ walk.cursor = 1
FilesInv ==
    Untouched /\ ~torn =>
    /\ Aligned(stored)
    /\ \A m \in Metrics, d \in 1..Watermark :
         served[m][d] # 0 /\ stored[m][d] = 0 => d \in late

CalendarInv == calendar = {} \/ \E k \in 0..(vintages - 1) : calendar = 0..k

\* A row of the day on which the pass was recorded, or that day's file is lost.
HasRow(ts, day) == (\E r \in runs : r.ts = ts /\ r.day = day) \/ day \in corrupt
RecordInv ==
    /\ pc # "idle" => pass >= 1
    /\ pc = "record rows" => HasRow(pass, date)
    /\ \A e \in ended : e.kept => HasRow(e.ts, e.day)
    /\ \A v \in rows : HasRow(v.ts, v.day)

\* A row of the day for every check that found something.  The places of the
\* findings in their passes are bounded, so of the rows of one key one is last.
Finding == [check : {"self_consistency", "contract", "revision_seq"},
            severity : {"error", "warn"},
            detail : {"dropped history", "back-filled history", "revised",
                      "could not re-fetch", "as it arrived", "not contiguous"}]
HasFound(ts, day, found) ==
    \A i \in DOMAIN found :
        \E v \in rows : v.ts = ts /\ v.day = day /\ v.check = found[i].check
Placed(held) == \E n \in Nat : \A v \in held : v.at \in 1..n
FoundInv ==
    /\ findings \in Seq(Finding) /\ Placed(rows)
    /\ \A e \in ended : e.kept /\ e.day \notin corrupt => HasFound(e.ts, e.day, e.found)

IInv ==
    /\ TypeOK /\ SourceInv /\ WalkInv
    /\ LoadInv /\ WriteInv /\ FilesInv
    /\ CalendarInv /\ RecordInv /\ FoundInv
-----------------------------------------------------------------------------
(* Dates, and the first and last of them.                                  *)

\* The assumptions as they are used.
LEMMA Constants ==
  /\ NMetrics \in Nat \ {0} /\ MaxDay \in Nat \ {0} /\ MaxVintages \in Nat \ {0}
  /\ MAX_PAGES \in Nat \ {0} /\ MaxChanges \in Nat
  /\ MaxPasses \in Nat /\ MaxFaults \in Nat
  /\ 1 \in Metrics /\ 1 \in Days
  /\ Metrics \subseteq Nat \ {0} /\ Days \subseteq Nat \ {0}
<1>1. /\ NMetrics \in Nat \ {0} /\ MaxDay \in Nat \ {0} /\ MaxVintages \in Nat \ {0}
      /\ MAX_PAGES \in Nat \ {0} /\ MaxChanges \in Nat
  BY SeriesAssumption
<1> QED
  BY <1>1, NightlyAssumption DEF Metrics, Days

\* A frame has a date if one of its metrics has a value there.
LEMMA DatesOf ==
  ASSUME NEW frame
  PROVE  \A d : d \in Dates(frame) <=> d \in Days /\ \E m \in Metrics : frame[m][d] # 0
  BY DEF Dates, Held

\* A set of numbers that is not empty has a first one.
LEMMA FirstOf ==
  ASSUME NEW S \in SUBSET Nat, S # {}
  PROVE  \E p \in S : \A q \in S : p <= q
<1> DEFINE R == {q \in Nat \X Nat : q[1] < q[2]}
<1>1. IsWellFoundedOn(R, Nat)
  BY NatLessThanWellFounded, Zenon DEF OpToRel
<1> HIDE DEF R
<1>2. PICK p \in S : \A q \in S : ~(<<q, p>> \in R)
  BY <1>1, WFMin
<1>3. \A q \in S : ~(q < p)
  BY <1>2 DEF R
<1> QED
  BY <1>3

\* Earliest of some days is one of them.
LEMMA EarliestIs ==
  ASSUME NEW S \in SUBSET Days, S # {}
  PROVE  Earliest(S) \in S
<1>1. S \subseteq Nat
  BY Constants
<1>2. \E p \in S : \A q \in S : p <= q
  BY <1>1, FirstOf
<1> QED
  BY <1>2 DEF Earliest

\* Latest of some days is the last of them, or 0.
LEMMA LatestIs ==
  ASSUME NEW S \in SUBSET Days
  PROVE  /\ Latest(S) \in 0..MaxDay
         /\ \A d \in S : d <= Latest(S)
         /\ Latest(S) = 0 \/ Latest(S) \in S
<1>1. CASE S = {}
  BY <1>1, Constants DEF Latest
<1>2. CASE S # {}
  <2> DEFINE left == {MaxDay - d : d \in S}
  <2>1. MaxDay \in Nat /\ \A d \in S : d \in Nat /\ d <= MaxDay
    BY Constants DEF Days
  <2>2. left \subseteq Nat
    <3>1. \A d \in S : MaxDay - d \in Nat
      BY <2>1
    <3> QED
      BY <3>1
  <2>3. left # {}
    BY <1>2
  <2>4. PICK least \in left : \A q \in left : least <= q
    BY <2>2, <2>3, FirstOf
  <2>5. PICK last \in S : least = MaxDay - last
    BY <2>4
  <2>6. \A e \in S : e <= last
    <3> TAKE e \in S
    <3>1. least <= MaxDay - e
      BY <2>4
    <3> HIDE DEF left
    <3> QED
      BY <2>1, <2>5, <3>1
  <2>7. Latest(S) = CHOOSE d \in S : \A e \in S : e <= d
    BY <1>2 DEF Latest
  <2> HIDE DEF left
  <2>8. Latest(S) \in S /\ \A d \in S : d <= Latest(S)
    BY <2>6, <2>7, Zenon
  <2>9. Latest(S) \in 0..MaxDay
    BY <2>1, <2>8
  <2> QED
    BY <2>8, <2>9, Zenon
<1> QED
  BY <1>1, <1>2

\* The watermark is the last day of any metric, or 0.
LEMMA WatermarkIs ==
  /\ Watermark \in 0..MaxDay
  /\ \A d \in Dates(stored) : d <= Watermark
  /\ Watermark = 0 \/ Watermark \in Dates(stored)
<1>1. Dates(stored) \in SUBSET Days
  BY DatesOf
<1> QED
  BY <1>1, LatestIs DEF Watermark

-----------------------------------------------------------------------------
(* What the steps do, by what they do to the walk and the files.           *)

\* A step of a pass that has no walk.
Aside ==
    /\ {pc, pc'} \cap {"load", "write"} = {}
    /\ UNCHANGED <<today, served, late, walk, stored, torn>>

\* A pass begins to load.
StartLoad ==
    /\ pc = "idle" /\ pc' = "load" /\ UNCHANGED <<today, served, late, stored, torn>>
    /\ \E from \in Nat :
         /\ walk' = [NoWalk EXCEPT !.cursor = from]
         /\ \/ job' = "backfill" /\ from = 1
            \/ job' = "nightly" /\ from = NextDay
            \/ /\ job' = "weekly" /\ Cardinality(Settled) >= 2
               /\ from = Earliest(Settled)

\* A walk is dropped, or a whole one compared with the files.
EndWalk ==
    /\ pc = "load" /\ pc' \in {"events", "record", "idle"}
    /\ walk' = NoWalk
    /\ UNCHANGED <<today, served, late, stored, torn, job>>

\* Earliest of the settled days is a day, and where a pass begins a number.
LEMMA Beginnings ==
  /\ NextDay \in 1..(MaxDay + 1)
  /\ Settled # {} => Earliest(Settled) \in Days /\ Earliest(Settled) < today
  /\ Settled \subseteq Days
<1>1. Settled \in SUBSET Days /\ \A d \in Settled : d < today
  BY DatesOf DEF Settled
<1>2. NextDay \in 1..(MaxDay + 1)
  BY WatermarkIs, Constants DEF NextDay
<1> QED
  BY <1>1, <1>2, EarliestIs

\* Two days at least are not none.
LEMMA SomeSettled == Cardinality(Settled) >= 2 => Settled # {}
  BY FS_EmptySet

\* Every step is of one of these kinds.
LEMMA StepKinds ==
  TypeOK /\ [Next]_vars =>
    \/ UNCHANGED vars
    \/ SourceStep /\ UNCHANGED <<walk, files, job, pc, pass, findings, history, faults>>
    \/ Aside \/ StartLoad \/ Load \/ EndWalk \/ Loaded \/ Write \/ Killed
<1> SUFFICES ASSUME TypeOK, [Next]_vars
             PROVE  \/ UNCHANGED vars
                    \/ SourceStep
                       /\ UNCHANGED <<walk, files, job, pc, pass, findings, history, faults>>
                    \/ Aside \/ StartLoad \/ Load \/ EndWalk \/ Loaded \/ Write \/ Killed
  OBVIOUS
<1> USE DEF Goes, Keeps, source, files, history
<1>1. CASE Start
  <2>1. PICK j \in {"nightly", "weekly", "backfill"} :
          /\ job' = j
          /\ \/ j = "backfill" /\ Begin(1) /\ Goes("load")
             \/ /\ j # "backfill" /\ Dates(stored) = {}
                /\ UNCHANGED walk /\ Goes(IF j = "nightly" THEN "events" ELSE "record")
             \/ /\ j = "nightly" /\ Dates(stored) # {}
                /\ Begin(NextDay) /\ Goes("load")
             \/ /\ j = "weekly" /\ Dates(stored) # {}
                /\ IF Cardinality(Settled) < 2 THEN UNCHANGED walk /\ Goes("record")
                   ELSE Begin(Earliest(Settled)) /\ Goes("load")
    BY <1>1, Zenon DEF Start
  <2>2. pc = "idle" /\ UNCHANGED <<today, served, late, stored, torn>>
    BY <1>1 DEF Start
  <2> DEFINE some == Cardinality(Settled) < 2
  <2>3. ~some => Cardinality(Settled) >= 2
    <3>1. IsFiniteSet(Settled)
      <4>1. IsFiniteSet(Days)
        BY FS_Interval, Constants DEF Days
      <4> QED
        BY <4>1, Beginnings, FS_Subset
    <3> QED
      BY <3>1, FS_CardinalityType
  <2>4. NextDay \in Nat /\ (~some => Earliest(Settled) \in Nat)
    <3>1. NextDay \in Nat
      BY Beginnings, Constants
    <3>2. Settled # {} => Earliest(Settled) \in Nat
      BY Beginnings, Constants, Zenon
    <3> QED
      BY <2>3, <3>1, <3>2, SomeSettled, Zenon
  <2> HIDE DEF some
  <2>5. CASE j = "backfill"
    BY <2>1, <2>2, <2>5 DEF StartLoad, Begin
  <2>6. CASE j # "backfill" /\ Dates(stored) = {}
    BY <2>1, <2>2, <2>6 DEF Aside
  <2>7. CASE j = "nightly" /\ Dates(stored) # {}
    BY <2>1, <2>2, <2>4, <2>7 DEF StartLoad, Begin
  <2>8. CASE j = "weekly" /\ Dates(stored) # {} /\ some
    BY <2>1, <2>2, <2>8 DEF Aside, some
  <2>9. CASE j = "weekly" /\ Dates(stored) # {} /\ ~some
    BY <2>1, <2>2, <2>3, <2>4, <2>9 DEF StartLoad, Begin, some
  <2> QED
    BY <2>5, <2>6, <2>7, <2>8, <2>9
<1>2. CASE SeedEvents
  BY <1>2 DEF SeedEvents, Aside
<1>3. CASE LoadFails \/ LoadRefuses \/ LoadEmpty \/ Verify
  <2>1. After \in {"events", "record", "idle"}
    BY DEF After, TypeOK
  <2> QED
    BY <1>3, <2>1 DEF LoadFails, LoadRefuses, LoadEmpty, Verify, Raise, EndWalk
<1>4. CASE Events
  BY <1>4 DEF Events, UpsertEvents, Aside
<1>5. CASE EventsFail
  BY <1>5 DEF EventsFail, Aside
<1>6. CASE Checks \/ RecordRun \/ RecordRows \/ RecordRunFails \/ RecordRowsFail
  BY <1>6 DEF Checks, RecordRun, RecordRows, RecordRunFails, RecordRowsFail, Aside
<1> QED
  BY <1>1, <1>2, <1>3, <1>4, <1>5, <1>6 DEF Next, PassStep

-----------------------------------------------------------------------------
(* The source.                                                             *)

\* The types that the arguments about days use.
LEMMA DayTypes ==
  ASSUME TypeOK
  PROVE  /\ today \in Days /\ served \in Frame /\ stored \in Frame
         /\ walk.rows \in Frame /\ late \subseteq Days /\ torn \in BOOLEAN
         /\ vintages \in 1..MaxVintages /\ changes \in 0..MaxChanges
  BY DEF TypeOK, SeriesTypeOK

\* The source gains a day in order only on that day, or the day is noted as late;
\* and what it loses is noted too.
LEMMA SourceMoves ==
  ASSUME TypeOK, SourceInv, SourceStep
  PROVE  /\ today' \in Days /\ today <= today' /\ served' \in Frame
         /\ late \subseteq late' /\ late' \subseteq Days
         /\ \A m \in Metrics, d \in Days :
              /\ served'[m][d] # 0 <=> served'[1][d] # 0
              /\ served'[m][d] # 0 => d <= today'
              /\ served[m][d] # 0 /\ served'[m][d] = 0 => d \in late'
              /\ served[m][d] = 0 /\ served'[m][d] # 0 =>
                   d \in late' \/ (d = today /\ d \notin late)
<1>0. /\ today \in Days /\ served \in Frame /\ late \subseteq Days /\ Days = 1..MaxDay
      /\ MaxDay \in Nat /\ 1 \in Metrics
      /\ \A m \in Metrics, d \in Days :
           (served[m][d] # 0 <=> served[1][d] # 0) /\ (served[m][d] # 0 => d <= today)
  BY Zenon, DayTypes, Constants DEF SourceInv, Days
<1>1. CASE Tick
  BY <1>0, <1>1 DEF Tick
<1>2. CASE Publish
  <2>1. /\ served[1][today] = 0 /\ today \notin late
        /\ served' = [m \in Metrics |-> [served[m] EXCEPT ![today] = 1]]
        /\ UNCHANGED <<today, late>>
    BY <1>2 DEF Publish
  <2>2. /\ served' \in Frame
        /\ \A k \in Metrics, e \in Days :
             served'[k][e] = IF e = today THEN 1 ELSE served[k][e]
    BY <1>0, <2>1 DEF Frame, Column
  <2> QED
    BY <1>0, <2>1, <2>2
<1>3. CASE PublishLate
  <2>1. PICK d \in 1..(today - 1) :
          /\ served' = [m \in Metrics |-> [served[m] EXCEPT ![d] = 1]]
          /\ late' = late \cup {d} /\ UNCHANGED today
    BY <1>3 DEF PublishLate
  <2>2. d \in Days /\ d <= today
    BY <1>0
  <2>3. /\ served' \in Frame
        /\ \A k \in Metrics, e \in Days :
             served'[k][e] = IF e = d THEN 1 ELSE served[k][e]
    BY <1>0, <2>1, <2>2 DEF Frame, Column
  <2> QED
    BY <1>0, <2>1, <2>2, <2>3
<1>4. CASE Revise
  <2>1. PICK m \in Metrics, d \in Days :
          /\ served[m][d] = 1 /\ served' = [served EXCEPT ![m][d] = 2]
          /\ UNCHANGED <<today, late>>
    BY <1>4 DEF Revise
  <2>2. /\ served' \in Frame
        /\ \A k \in Metrics, e \in Days :
             served'[k][e] = IF k = m /\ e = d THEN 2 ELSE served[k][e]
    BY <1>0, <2>1 DEF Frame, Column
  <2> QED
    BY <1>0, <2>1, <2>2
<1>5. CASE Withdraw
  <2>1. PICK d \in Dates(served) :
          /\ served' = [m \in Metrics |-> [served[m] EXCEPT ![d] = 0]]
          /\ late' = late \cup {d} /\ UNCHANGED today
    BY <1>5 DEF Withdraw
  <2>2. d \in Days
    BY DatesOf
  <2>3. /\ served' \in Frame
        /\ \A k \in Metrics, e \in Days :
             served'[k][e] = IF e = d THEN 0 ELSE served[k][e]
    BY <1>0, <2>1, <2>2 DEF Frame, Column
  <2> QED
    BY <1>0, <2>1, <2>2, <2>3
<1>6. CASE Reprint
  BY <1>0, <1>6 DEF Reprint
<1> QED
  BY <1>1, <1>2, <1>3, <1>4, <1>5, <1>6 DEF SourceStep

\* What the source does to a day that is in no file and not in the walk either.
LEMMA SourceKeeps ==
  ASSUME TypeOK, SourceInv, SourceStep, UNCHANGED <<walk, stored>>
  PROVE  /\ SourceInv'
         /\ \A m \in Metrics, d \in Days :
              /\ Uncovered(m, d)' => Uncovered(m, d) \/
                   (d = today /\ \A k \in Metrics : stored[k][d] = 0 /\ walk.rows[k][d] = 0)
              /\ served'[m][d] # 0 /\ stored[m][d] = 0 /\ d \notin late' =>
                   \/ served[m][d] # 0 /\ d \notin late
                   \/ d = today /\ \A k \in Metrics : stored[k][d] = 0
<1>0. /\ today \in Nat /\ today' \in Nat /\ today <= today' /\ late \subseteq late'
      /\ Days \subseteq Nat /\ 1 \in Metrics
      /\ stored' = stored /\ walk' = walk
  BY SourceMoves, DayTypes, Constants
<1>1. \A m \in Metrics, d \in Days :
        /\ served'[m][d] # 0 <=> served'[1][d] # 0
        /\ served'[m][d] # 0 => d <= today'
        /\ served[m][d] # 0 /\ served'[m][d] = 0 => d \in late'
        /\ served[m][d] = 0 /\ served'[m][d] # 0 =>
             d \in late' \/ (d = today /\ d \notin late)
  BY SourceMoves
<1>2. \A m \in Metrics, d \in Days :
        /\ served[m][d] # 0 <=> served[1][d] # 0
        /\ served[m][d] # 0 => d <= today
        /\ stored[m][d] # 0 \/ walk.rows[m][d] # 0 =>
             d <= today /\ (served[m][d] # 0 \/ d \in late)
  BY DEF SourceInv
<1>3. SourceInv'
  BY <1>0, <1>1, <1>2 DEF SourceInv
<1>4. ASSUME NEW m \in Metrics, NEW d \in Days,
             served[m][d] = 0, served'[m][d] # 0, d \notin late'
      PROVE  d = today /\ \A k \in Metrics : stored[k][d] = 0 /\ walk.rows[k][d] = 0
  <2>1. d = today /\ d \notin late
    BY <1>1, <1>4
  <2>2. \A k \in Metrics : served[k][d] = 0
    BY <1>0, <1>2, <1>4
  <2> QED
    BY <1>2, <2>1, <2>2
<1>5. ASSUME NEW m \in Metrics, NEW d \in Days
      PROVE  /\ Uncovered(m, d)' => Uncovered(m, d) \/
                  (d = today /\ \A k \in Metrics : stored[k][d] = 0 /\ walk.rows[k][d] = 0)
             /\ served'[m][d] # 0 /\ stored[m][d] = 0 /\ d \notin late' =>
                  \/ served[m][d] # 0 /\ d \notin late
                  \/ d = today /\ \A k \in Metrics : stored[k][d] = 0
  BY <1>0, <1>4 DEF Uncovered
<1> QED
  BY <1>3, <1>5

-----------------------------------------------------------------------------
(* The walk and the files, kind by kind.                                   *)

WalkAndFiles == SourceInv /\ WalkInv /\ LoadInv /\ WriteInv /\ FilesInv

\* Aligned, value by value.
LEMMA AlignedIs ==
  ASSUME NEW frame
  PROVE  Aligned(frame) <=>
           \A m \in Metrics, d \in Days : d \in Dates(frame) => frame[m][d] # 0
  BY DatesOf DEF Aligned, Held

\* What reads neither the pass nor the history.
LEMMA SameFiles ==
  ASSUME UNCHANGED <<today, served, late, walk, stored, torn>>
  PROVE  /\ \A m, d : Uncovered(m, d)' <=> Uncovered(m, d)
         /\ Watermark' = Watermark /\ Settled' = Settled
         /\ SourceInv' <=> SourceInv
  BY DEF Uncovered, Watermark, Settled, SourceInv

\* Nothing happens, or nothing of a walk.
LEMMA AsideKeeps ==
  ASSUME WalkAndFiles, UNCHANGED vars \/ Aside
  PROVE  WalkAndFiles'
<1>1. CASE UNCHANGED vars
  BY <1>1, SameFiles DEF vars, WalkAndFiles, WalkInv, LoadInv, WriteInv, FilesInv, Trusted,
     Untouched
<1>2. CASE Aside
  BY <1>2, SameFiles DEF Aside, WalkAndFiles, WalkInv, LoadInv, WriteInv, FilesInv, Untouched
<1> QED
  BY <1>1, <1>2

\* The source moves: what it adds in order is today, which no frame has.
LEMMA SourceStepKeeps ==
  ASSUME TypeOK, WalkAndFiles, SourceStep, UNCHANGED <<walk, stored, torn, pc, job>>
  PROVE  WalkAndFiles'
<1>1. /\ SourceInv'
      /\ \A m \in Metrics, d \in Days :
           /\ Uncovered(m, d)' => Uncovered(m, d) \/
                (d = today /\ \A k \in Metrics : stored[k][d] = 0 /\ walk.rows[k][d] = 0)
           /\ served'[m][d] # 0 /\ stored[m][d] = 0 /\ d \notin late' =>
                \/ served[m][d] # 0 /\ d \notin late
                \/ d = today /\ \A k \in Metrics : stored[k][d] = 0
  BY SourceKeeps DEF WalkAndFiles
<1>2. /\ today \in Nat /\ today' \in Nat /\ today <= today' /\ today' \in Days
      /\ Days = 1..MaxDay /\ MaxDay \in Nat /\ Metrics \subseteq Nat /\ 1 \in Metrics
  BY SourceMoves, DayTypes, Constants, Zenon DEF WalkAndFiles, Days
<1>3. /\ \A d \in Dates(stored) : d \in Days /\ d <= today
      /\ \A d \in Dates(walk.rows) : d \in Days /\ d <= today
  BY DatesOf DEF WalkAndFiles, SourceInv
<1>4. \A d \in Days : (\A k \in Metrics : stored[k][d] = 0 /\ walk.rows[k][d] = 0)
        => d \notin Dates(stored) /\ d \notin Dates(walk.rows)
  BY DatesOf
<1>5. \A d \in Days : (\A k \in Metrics : stored[k][d] = 0) => d \notin Dates(stored)
  BY DatesOf
<1>6. /\ Watermark \in 0..MaxDay /\ (Watermark = 0 \/ Watermark \in Dates(stored))
      /\ Watermark' = Watermark /\ \A d \in Dates(stored) : d <= Watermark
  BY WatermarkIs DEF Watermark
<1>8. WalkInv'
  <2>1. Settled \subseteq Settled' /\ Settled' \subseteq Days
    BY <1>2, <1>3 DEF Settled
  <2>2. IsFiniteSet(Days)
    BY <1>2, FS_Interval
  <2>3. Cardinality(Settled) >= 2 => Cardinality(Settled') >= 2
    BY <2>1, <2>2, FS_Subset, FS_CardinalityType
  <2> QED
    BY <1>2, <1>6, <2>3 DEF WalkAndFiles, WalkInv
<1>9. LoadInv'
  <2> SUFFICES ASSUME pc = "load", walk.source = "honest", job # "weekly", Trusted,
                      NEW m \in Metrics, NEW e \in Days
               PROVE  IF walk.cursor # 0 THEN e < walk.cursor => ~Uncovered(m, e)'
                      ELSE \A d \in Dates(stored) \cup Dates(walk.rows) :
                             e <= d => ~Uncovered(m, e)'
    BY DEF LoadInv, Trusted
  <2>1. IF walk.cursor # 0 THEN e < walk.cursor => ~Uncovered(m, e)
        ELSE \A d \in Dates(stored) \cup Dates(walk.rows) : e <= d => ~Uncovered(m, e)
    BY DEF WalkAndFiles, LoadInv
  <2>2. Uncovered(m, e)' /\ ~Uncovered(m, e) =>
          e = today /\ e \notin Dates(stored) /\ e \notin Dates(walk.rows)
    BY <1>1, <1>4
  <2>3. walk.cursor \in Nat /\ (walk.cursor # 0 =>
          walk.cursor <= today \/ walk.cursor = Watermark + 1)
    <3>1. IsFiniteSet(walk.seen) /\ walk.cursor \in 0..(MaxDay + 1 + Cardinality(walk.seen))
      BY DEF WalkAndFiles, WalkInv
    <3> QED
      BY <3>1 DEF WalkAndFiles, WalkInv
  <2>4. CASE walk.cursor # 0
    <3>1. SUFFICES ASSUME e < walk.cursor, e = today, e \notin Dates(stored) PROVE FALSE
      BY <2>1, <2>2, <2>4
    <3>2. walk.cursor = Watermark + 1
      BY <1>2, <2>3, <2>4, <3>1
    <3>3. e <= Watermark /\ Watermark # 0
      BY <1>2, <1>6, <3>1, <3>2
    <3>4. Watermark \in Dates(stored) /\ Watermark <= today
      BY <1>3, <1>6, <3>3
    <3> QED
      BY <1>2, <1>6, <3>1, <3>3, <3>4
  <2>5. CASE walk.cursor = 0
    <3>1. SUFFICES ASSUME NEW d \in Dates(stored) \cup Dates(walk.rows), e <= d, e = today,
                          e \notin Dates(stored), e \notin Dates(walk.rows)
                   PROVE  FALSE
      BY <2>1, <2>2, <2>5
    <3>2. d \in Days /\ d <= today
      BY <1>3
    <3> QED
      BY <1>2, <3>1, <3>2
  <2> QED
    BY <2>4, <2>5
<1>10. WriteInv'
  <2> SUFFICES ASSUME pc = "write" PROVE WriteInv'
    BY DEF WriteInv
  <2>1. ASSUME Trusted, NEW m \in Metrics, NEW e \in Days,
               NEW d \in Dates(stored) \cup Dates(walk.rows), e <= d
        PROVE  ~Uncovered(m, e)'
    <3>1. ~Uncovered(m, e)
      BY <2>1 DEF WalkAndFiles, WriteInv
    <3>2. SUFFICES ASSUME e = today, e \notin Dates(stored), e \notin Dates(walk.rows)
                   PROVE  FALSE
      BY <1>1, <1>4, <3>1
    <3>3. d \in Days /\ d <= today
      BY <1>3
    <3> QED
      BY <1>2, <2>1, <3>2, <3>3
  <2> QED
    BY <2>1 DEF WalkAndFiles, WriteInv, Trusted
<1>11. FilesInv'
  <2> SUFFICES ASSUME Untouched, ~torn, NEW m \in Metrics, NEW d \in 1..Watermark,
                      served'[m][d] # 0, stored[m][d] = 0, d \notin late'
               PROVE  FALSE
    BY <1>6 DEF WalkAndFiles, FilesInv, Untouched, Aligned
  <2>1. d \in Days /\ Watermark \in Dates(stored)
    BY <1>2, <1>6
  <2>2. ~(served[m][d] # 0 /\ d \notin late)
    BY DEF WalkAndFiles, FilesInv
  <2>3. d = today /\ d \notin Dates(stored)
    BY <1>1, <1>5, <2>1, <2>2
  <2>4. Watermark <= today
    BY <1>3, <2>1
  <2> QED
    BY <1>2, <1>6, <2>1, <2>3, <2>4
<1> QED
  BY <1>1, <1>8, <1>9, <1>10, <1>11 DEF WalkAndFiles

\* A walk begins where nothing is uncovered below: at the first day, or above
\* the watermark.
LEMMA StartLoadKeeps ==
  ASSUME TypeOK, WalkAndFiles, StartLoad
  PROVE  WalkAndFiles'
<1>1. PICK from \in Nat :
        /\ walk' = [NoWalk EXCEPT !.cursor = from]
        /\ \/ job' = "backfill" /\ from = 1
           \/ job' = "nightly" /\ from = NextDay
           \/ /\ job' = "weekly" /\ Cardinality(Settled) >= 2
              /\ from = Earliest(Settled)
  BY DEF StartLoad
<1>2. /\ pc = "idle" /\ pc' = "load"
      /\ UNCHANGED <<today, served, late, stored, torn>>
  BY DEF StartLoad
<1>3. walk = NoWalk
  BY <1>2 DEF WalkAndFiles, WalkInv
<1>4. /\ walk'.cursor = from /\ walk'.seen = {} /\ walk'.rows = Empty
      /\ walk'.source = "honest" /\ walk.rows = Empty
  BY <1>1, <1>3 DEF NoWalk
<1>5. \A m \in Metrics, d \in Days : Empty[m][d] = 0
  BY DEF Empty
<1>6. /\ Watermark' = Watermark /\ Settled' = Settled
      /\ \A m \in Metrics, d \in Days : Uncovered(m, d)' <=> Uncovered(m, d)
  BY <1>2, <1>4 DEF Watermark, Settled, Uncovered
<1>7. /\ Watermark \in 0..MaxDay /\ MaxDay \in Nat /\ MAX_PAGES \in Nat /\ today \in Nat
      /\ Metrics \subseteq Nat \ {0} /\ Days = 1..MaxDay /\ today \in Days
      /\ 1 \in Metrics
  BY WatermarkIs, Constants, DayTypes, Zenon DEF Days
<1>8. /\ from \in 1..(MaxDay + 1)
      /\ from <= today \/ from = Watermark + 1
  <2>1. CASE job' = "backfill"
    BY <1>1, <1>7, <2>1
  <2>2. CASE job' = "nightly"
    BY <1>1, <1>7, <2>2, Beginnings DEF NextDay
  <2>3. CASE job' = "weekly"
    <3>1. from \in Days /\ from < today
      BY <1>1, <2>3, Beginnings, SomeSettled
    <3> QED
      BY <1>7, <3>1
  <2> QED
    BY <1>1, <2>1, <2>2, <2>3
<1>9. SourceInv'
  BY <1>2, <1>4, <1>5 DEF WalkAndFiles, SourceInv
<1>10. WalkInv'
  <2>1. IsFiniteSet({}) /\ Cardinality({}) = 0
    BY FS_EmptySet
  <2>2. /\ IsFiniteSet(walk'.seen) /\ walk'.seen \subseteq Nat \ {0}
        /\ Cardinality(walk'.seen) <= MAX_PAGES
        /\ walk'.cursor \in 0..(MaxDay + 1 + Cardinality(walk'.seen))
    BY <1>4, <1>7, <1>8, <2>1
  <2>3. job' = "weekly" => Cardinality(Settled') >= 2
    BY <1>1, <1>6
  <2> QED
    BY <1>2, <1>4, <1>5, <1>6, <1>7, <1>8, <2>2, <2>3 DEF WalkInv
<1>11. LoadInv'
  <2>1. from # 0
    BY <1>8
  <2> SUFFICES ASSUME job' # "weekly", Trusted', NEW m \in Metrics, NEW e \in Days, e < from
               PROVE  ~Uncovered(m, e)
    BY <1>4, <1>6, <2>1 DEF LoadInv
  <2>2. job' = "nightly" /\ from = Watermark + 1
    BY <1>1, <1>7 DEF NextDay
  <2>3. ~torn /\ Untouched
    BY <1>2, <2>2 DEF Trusted, Untouched
  <2>4. e \in 1..Watermark
    BY <1>7, <2>2
  <2> QED
    BY <2>3, <2>4 DEF WalkAndFiles, FilesInv, Uncovered
<1>12. WriteInv' /\ FilesInv'
  BY <1>2, <1>6 DEF WalkAndFiles, WriteInv, FilesInv, Untouched
<1> QED
  BY <1>9, <1>10, <1>11, <1>12 DEF WalkAndFiles

\* A walk is dropped, or the process dies: the files stay as they are.
LEMMA EndWalkKeeps ==
  ASSUME TypeOK, WalkAndFiles, EndWalk \/ Killed
  PROVE  WalkAndFiles'
<1>1. \A m \in Metrics, d \in Days : NoWalk.rows[m][d] = 0
  BY DEF NoWalk, Empty
<1>2. /\ pc' \notin {"load", "write"} /\ walk' = NoWalk
      /\ UNCHANGED <<today, served, late, stored>>
  BY DEF EndWalk, Killed, Goes, source
<1>3. Watermark' = Watermark
  BY <1>2 DEF Watermark
<1>4. ~torn' => ~torn /\ Untouched
  <2>1. CASE EndWalk
    BY <2>1 DEF EndWalk, Untouched
  <2>2. CASE Killed
    <3>1. pc = "write" => walk.cursor \in Nat \ {0}
      BY Constants DEF WalkAndFiles, WalkInv
    <3>2. torn' = (torn \/ (pc = "write" /\ walk.cursor > 1))
      BY <2>2 DEF Killed
    <3>3. pc = "write" /\ ~(walk.cursor > 1) => walk.cursor = 1
      BY <3>1
    <3> QED
      BY <3>2, <3>3, Zenon DEF Untouched
  <2> QED
    BY <2>1, <2>2
<1>5. 1 \in Metrics
  BY Constants
<1>6. SourceInv' /\ WalkInv' /\ LoadInv' /\ WriteInv'
  BY <1>1, <1>2, <1>5 DEF WalkAndFiles, SourceInv, WalkInv, LoadInv, WriteInv
<1>7. FilesInv'
  BY <1>2, <1>3, <1>4 DEF WalkAndFiles, FilesInv, Aligned
<1> QED
  BY <1>6, <1>7 DEF WalkAndFiles

\* The frame of a whole walk goes to be written; nothing is, yet.
LEMMA LoadedKeeps ==
  ASSUME TypeOK, WalkAndFiles, Loaded
  PROVE  WalkAndFiles'
<1>1. /\ pc = "load" /\ pc' = "write" /\ walk.cursor = 0 /\ job # "weekly"
      /\ walk' = [walk EXCEPT !.cursor = 1]
      /\ UNCHANGED <<today, served, late, stored, torn, job>>
  BY DEF Loaded, Goes, Keeps, source, files, Exhausted
<1>2. /\ walk'.rows = walk.rows /\ walk'.cursor = 1
  BY <1>1 DEF TypeOK, SeriesTypeOK
<1>3. /\ \A m \in Metrics, d \in Days : Uncovered(m, d)' <=> Uncovered(m, d)
      /\ Watermark' = Watermark /\ Trusted' = Trusted
  BY <1>1, <1>2 DEF Uncovered, Watermark, Trusted
<1>4. SourceInv' /\ WalkInv' /\ LoadInv'
  BY <1>1, <1>2, Constants DEF WalkAndFiles, SourceInv, WalkInv, LoadInv
<1>5. FilesInv'
  BY <1>1, <1>3 DEF WalkAndFiles, FilesInv, Untouched, Aligned
<1>6. WriteInv'
  <2>1. walk.source = "honest"
    BY <1>1 DEF WalkAndFiles, WalkInv
  <2>2. ASSUME Trusted, NEW m \in Metrics, NEW e \in Days,
               NEW d \in Dates(stored) \cup Dates(walk.rows), e <= d
        PROVE  ~Uncovered(m, e)
    BY <1>1, <2>1, <2>2 DEF WalkAndFiles, LoadInv
  <2>3. ~torn => \A m \in Metrics, d \in Dates(stored) : stored[m][d] # 0
    <3>1. ~torn => Aligned(stored)
      BY <1>1 DEF WalkAndFiles, FilesInv, Untouched
    <3> QED
      BY <3>1, AlignedIs, DatesOf
  <2>4. \A m \in Metrics : ~(m < 1)
    BY Constants
  <2> QED
    BY <1>1, <1>2, <1>3, <2>2, <2>3, <2>4 DEF WriteInv
<1> QED
  BY <1>4, <1>5, <1>6 DEF WalkAndFiles

\* One metric is written; after the last, the frames have become one.
LEMMA WriteKeeps ==
  ASSUME TypeOK, WalkAndFiles, Write
  PROVE  WalkAndFiles' /\ stored' \in Frame
<1> DEFINE k == walk.cursor
           rest == walk.rows
<1>1. /\ pc = "write" /\ k \in Metrics /\ job # "weekly"
      /\ stored' = [stored EXCEPT ![k] = Merged(stored[k], rest[k])]
      /\ UNCHANGED <<today, served, late, job>>
  BY DEF Write, UpsertSeries, Keeps, source, WalkAndFiles, WalkInv
<1>2. /\ stored \in Frame /\ rest \in Frame /\ torn \in BOOLEAN
      /\ Metrics = 1..NMetrics /\ NMetrics \in Nat \ {0}
      /\ 1 \in Metrics /\ Days \subseteq Nat \ {0} /\ MaxDay \in Nat
  BY Zenon, DayTypes, Constants DEF Metrics
<1>3. /\ stored' \in Frame
      /\ \A m \in Metrics, d \in Days :
           stored'[m][d] = IF m = k /\ rest[m][d] # 0 THEN rest[m][d] ELSE stored[m][d]
  BY <1>1, <1>2 DEF Frame, Column, Merged
<1> HIDE DEF k, rest
<1>4. \A m \in Metrics, d \in Days :
        /\ stored[m][d] # 0 => stored'[m][d] # 0
        /\ stored'[m][d] # 0 => stored[m][d] # 0 \/ rest[m][d] # 0
        /\ m = k /\ rest[m][d] # 0 => stored'[m][d] # 0
  BY <1>3
<1>5. /\ \A m \in Metrics, d \in Days :
           /\ m < k /\ rest[m][d] # 0 => stored[m][d] # 0
           /\ rest[m][d] # 0 <=> rest[1][d] # 0
      /\ ~torn => \A m \in Metrics, d \in Dates(stored) :
                     stored[m][d] # 0 \/ rest[m][d] # 0
  BY <1>1 DEF WalkAndFiles, WriteInv, WalkInv, rest, k
<1>6. /\ \A d \in Dates(rest) : \A m \in Metrics : rest[m][d] # 0
      /\ Dates(stored') \subseteq Dates(stored) \cup Dates(rest)
  <2>1. \A d \in Dates(rest) : d \in Days /\ \E m \in Metrics : rest[m][d] # 0
    BY DatesOf
  <2>2. \A d \in Dates(rest) : \A m \in Metrics : rest[m][d] # 0
    BY <1>2, <1>5, <2>1
  <2>3. \A d \in Dates(stored') : d \in Days /\ \E m \in Metrics : stored'[m][d] # 0
    BY DatesOf
  <2>4. \A d \in Dates(stored') : d \in Days /\
          \E m \in Metrics : stored[m][d] # 0 \/ rest[m][d] # 0
    BY <1>4, <2>3
  <2>5. Dates(stored') \subseteq Dates(stored) \cup Dates(rest)
    BY <2>4, DatesOf
  <2> QED
    BY <2>2, <2>5
<1>7. Trusted => \A m \in Metrics, e \in Days, d \in Dates(stored) \cup Dates(rest) :
        e <= d /\ served[m][e] # 0 /\ stored[m][e] = 0 /\ rest[m][e] = 0 => e \in late
  BY <1>1 DEF WalkAndFiles, WriteInv, Uncovered, rest
<1>8. \A m \in Metrics, d \in Days :
        stored'[m][d] # 0 => d <= today /\ (served[m][d] # 0 \/ d \in late)
  BY <1>4 DEF WalkAndFiles, SourceInv, rest
<1>9. \A m \in Metrics, d \in Dates(stored') :
        ~torn => stored'[m][d] # 0 \/ rest[m][d] # 0
  BY <1>4, <1>5, <1>6, DatesOf
<1>10. CASE k = NMetrics
  <2>1. /\ pc' \notin {"load", "write"} /\ walk' = NoWalk
        /\ torn' = (torn /\ ~(job = "backfill" /\ Aligned(stored')))
    BY <1>10 DEF Write, After, Goes, k, TypeOK
  <2>2. \A m \in Metrics, d \in Days : NoWalk.rows[m][d] = 0
    BY DEF NoWalk, Empty
  <2>3. SourceInv' /\ WalkInv' /\ LoadInv' /\ WriteInv'
    BY <1>1, <1>2, <1>8, <2>1, <2>2 DEF WalkAndFiles, SourceInv, WalkInv, LoadInv, WriteInv
  <2>4. \A m \in Metrics, d \in Days : rest[m][d] # 0 => stored'[m][d] # 0
    <3>1. \A m \in Metrics : m < k \/ m = k
      BY <1>2, <1>10
    <3> QED
      BY <1>4, <1>5, <3>1
  <2>5. ~torn' => Trusted /\ Aligned(stored')
    <3>1. ~torn => Aligned(stored')
      BY <1>9, <2>4, AlignedIs
    <3> QED
      BY <2>1, <3>1, Zenon DEF Trusted
  <2>6. ASSUME Trusted, NEW m \in Metrics, NEW d \in 1..(Watermark'),
               served[m][d] # 0, stored'[m][d] = 0
        PROVE  d \in late
    <3>1. Watermark' \in 0..MaxDay
          /\ (Watermark' = 0 \/ Watermark' \in Dates(stored'))
      <4>1. Dates(stored') \in SUBSET Days
        BY DatesOf
      <4> QED
        BY <4>1, LatestIs DEF Watermark
    <3>2. d \in Days /\ Watermark' \in Dates(stored) \cup Dates(rest) /\ d <= Watermark'
      BY <1>2, <1>6, <3>1, Constants DEF Days
    <3>3. stored[m][d] = 0 /\ rest[m][d] = 0
      BY <1>4, <2>4, <2>6, <3>2
    <3> QED
      BY <1>7, <2>6, <3>2, <3>3
  <2>7. FilesInv'
    BY <1>1, <2>5, <2>6 DEF FilesInv
  <2> QED
    BY <1>3, <2>3, <2>7 DEF WalkAndFiles
<1>11. CASE k # NMetrics
  <2>1. /\ pc' = "write" /\ walk' = [walk EXCEPT !.cursor = @ + 1] /\ torn' = torn
    BY <1>1, <1>11 DEF Write, k
  <2>2. /\ walk'.rows = rest /\ walk'.cursor = k + 1
    BY <2>1 DEF TypeOK, SeriesTypeOK, rest, k
  <2>3. k + 1 \in Metrics /\ k + 1 # 1 /\ k \in Nat
    BY <1>1, <1>2, <1>11
  <2>4. SourceInv'
    BY <1>1, <1>8, <2>2 DEF WalkAndFiles, SourceInv, rest
  <2>5. WalkInv' /\ LoadInv' /\ FilesInv'
    BY <1>1, <1>5, <2>1, <2>2, <2>3 DEF WalkInv, LoadInv, FilesInv, Untouched
  <2>6. \A m \in Metrics, d \in Days :
          m < k + 1 /\ rest[m][d] # 0 => stored'[m][d] # 0
    <3>1. \A m \in Metrics : m < k + 1 => m < k \/ m = k
      BY <1>2, <2>3
    <3> QED
      BY <1>4, <1>5, <3>1
  <2>7. Trusted' => \A m \in Metrics, e \in Days, d \in Dates(stored') \cup Dates(rest) :
          e <= d => ~Uncovered(m, e)'
    BY <1>1, <1>4, <1>6, <1>7, <2>1, <2>2 DEF Trusted, Uncovered
  <2>8. WriteInv'
    BY <1>9, <2>1, <2>2, <2>6, <2>7 DEF WriteInv
  <2> QED
    BY <1>3, <2>4, <2>5, <2>8 DEF WalkAndFiles
<1> QED
  BY <1>10, <1>11

\* One page: what it has of its day is what the source has, and the walk goes on
\* only below today.
LEMMA LoadKeeps ==
  ASSUME TypeOK, WalkAndFiles, Load
  PROVE  /\ WalkAndFiles' /\ faults' \in 0..MaxFaults
         /\ walk' \in [cursor : 0..(MaxDay + 1 + MAX_PAGES) \cup Metrics,
                      seen : SUBSET Nat, rows : Frame, source : Manners]
<1> DEFINE c == walk.cursor
           seen == walk.seen
           rest == walk.rows
<1>1. /\ pc = "load" /\ pc' = "load"
      /\ UNCHANGED <<today, served, late, stored, torn, job>>
  BY DEF Load, Keeps, source, files
<1>2. faults' \in 0..MaxFaults
  <2>1. faults \in 0..MaxFaults /\ MaxFaults \in Nat
    BY Constants DEF TypeOK
  <2> QED
    BY <2>1 DEF Load, Fault
<1>3. PICK manner \in Manners :
        /\ FetchPage(manner)
        /\ manner = walk.source \/ walk.source = "honest"
        /\ manner = "honest" => walk.source = "honest"
  <2>1. walk.source \in Manners
    BY DEF TypeOK, SeriesTypeOK
  <2> QED
    BY <2>1 DEF Load
<1>4. /\ c # 0 /\ c \notin seen /\ ~(Cardinality(seen) >= MAX_PAGES)
      /\ walk' = [cursor |-> NextCursor(manner), seen |-> seen \cup {c},
                  rows |-> [m \in Metrics |->
                              IF c \in Days THEN [rest[m] EXCEPT ![c] = served[m][c]]
                              ELSE rest[m]],
                  source |-> manner]
  BY <1>3 DEF FetchPage, Exhausted, Stalled, TooLong, Turn
<1>5. /\ today \in Days /\ served \in Frame /\ rest \in Frame
      /\ Days = 1..MaxDay /\ MaxDay \in Nat \ {0} /\ MAX_PAGES \in Nat \ {0}
      /\ 1 \in Metrics
  BY Zenon, DayTypes, Constants DEF Days
<1>6. /\ IsFiniteSet(seen) /\ seen \subseteq Nat \ {0}
      /\ Cardinality(seen) \in Nat /\ Cardinality(seen) <= MAX_PAGES
      /\ c \in 0..(MaxDay + 1 + Cardinality(seen))
      /\ walk.source = "honest" => c <= today \/ c = Watermark + 1
  <2>1. IsFiniteSet(seen)
    BY <1>1 DEF WalkAndFiles, WalkInv
  <2> QED
    BY <1>1, <1>4, <2>1, FS_CardinalityType DEF WalkAndFiles, WalkInv
<1>7. \A m \in Metrics, d \in Days :
        /\ rest[m][d] # 0 <=> rest[1][d] # 0
        /\ served[m][d] # 0 <=> served[1][d] # 0
        /\ served[m][d] # 0 => d <= today
        /\ stored[m][d] # 0 \/ rest[m][d] # 0 =>
             d <= today /\ (served[m][d] # 0 \/ d \in late)
  BY DEF WalkAndFiles, WalkInv, SourceInv
<1>8. /\ walk'.cursor = NextCursor(manner) /\ walk'.seen = seen \cup {c}
      /\ walk'.source = manner /\ walk'.rows \in Frame
      /\ \A m \in Metrics, d \in Days :
           walk'.rows[m][d] = IF d = c THEN served[m][d] ELSE rest[m][d]
  <2> DEFINE next == [m \in Metrics |->
                        IF c \in Days THEN [rest[m] EXCEPT ![c] = served[m][c]] ELSE rest[m]]
  <2> HIDE DEF c, seen, rest
  <2>1. /\ next \in Frame
        /\ \A m \in Metrics, d \in Days :
             next[m][d] = IF d = c THEN served[m][d] ELSE rest[m][d]
    BY <1>5 DEF Frame, Column
  <2>2. walk' = [cursor |-> NextCursor(manner), seen |-> seen \cup {c}, rows |-> next,
                 source |-> manner]
    BY <1>4, Zenon
  <2> HIDE DEF next
  <2> QED
    BY <2>1, <2>2
<1>9. /\ manner = "honest" => NextCursor(manner) = IF c < today THEN c + 1 ELSE 0
      /\ manner = "circles" =>
           NextCursor(manner) = IF c - 1 \in seen THEN c - 1 ELSE c + 1
      /\ manner = "endless" => NextCursor(manner) = c + 1
  BY DEF NextCursor
<1> HIDE DEF c, seen, rest
<1>10. manner \in {"honest", "circles", "endless"}
  BY <1>3 DEF Manners
<1>11. /\ IsFiniteSet(seen \cup {c}) /\ Cardinality(seen \cup {c}) = Cardinality(seen) + 1
       /\ seen \cup {c} \subseteq Nat \ {0}
  BY <1>4, <1>6, FS_AddElement
<1>12. /\ NextCursor(manner) \in 0..(MaxDay + 1 + Cardinality(seen) + 1)
       /\ manner # "honest" => NextCursor(manner) # 0
  BY <1>4, <1>5, <1>6, <1>9, <1>10
<1>13. walk' \in [cursor : 0..(MaxDay + 1 + MAX_PAGES) \cup Metrics,
                  seen : SUBSET Nat, rows : Frame, source : Manners]
  <2>1. NextCursor(manner) \in 0..(MaxDay + 1 + MAX_PAGES)
    BY <1>4, <1>5, <1>6, <1>12
  <2>2. walk' = [cursor |-> walk'.cursor, seen |-> walk'.seen, rows |-> walk'.rows,
                 source |-> walk'.source]
    BY <1>4
  <2> QED
    BY <1>3, <1>8, <1>11, <2>1, <2>2
<1>14. SourceInv'
  BY <1>1, <1>7, <1>8 DEF SourceInv
<1>15. WalkInv'
  <2>1. Watermark' = Watermark /\ Settled' = Settled
    BY <1>1 DEF Watermark, Settled
  <2>2. /\ Cardinality(walk'.seen) <= MAX_PAGES
        /\ walk'.cursor \in 0..(MaxDay + 1 + Cardinality(walk'.seen))
    BY <1>4, <1>5, <1>6, <1>8, <1>11, <1>12
  <2>3. walk'.source = "honest" /\ walk'.cursor # 0 => walk'.cursor <= today
    BY <1>4, <1>5, <1>6, <1>8, <1>9
  <2>4. \A m \in Metrics, d \in Days : walk'.rows[m][d] # 0 <=> walk'.rows[1][d] # 0
    BY <1>5, <1>7, <1>8
  <2>5. job = "weekly" => Cardinality(Settled) >= 2
    BY <1>1 DEF WalkAndFiles, WalkInv
  <2> QED
    BY <1>1, <1>8, <1>11, <1>12, <2>1, <2>2, <2>3, <2>4, <2>5 DEF WalkInv
<1>16. LoadInv'
  <2> SUFFICES ASSUME manner = "honest", job # "weekly", Trusted,
                      NEW m \in Metrics, NEW e \in Days
               PROVE  IF NextCursor(manner) # 0
                      THEN e < NextCursor(manner) => ~Uncovered(m, e)'
                      ELSE \A d \in Dates(stored') \cup Dates(walk'.rows) :
                             e <= d => ~Uncovered(m, e)'
    BY <1>1, <1>8 DEF LoadInv, Trusted
  <2>1. e < c => ~Uncovered(m, e)
    BY <1>1, <1>3, <1>4 DEF WalkAndFiles, LoadInv, c
  <2>2. e <= c => ~Uncovered(m, e)'
    BY <1>1, <1>5, <1>6, <1>8, <2>1 DEF Uncovered, rest
  <2>3. \A d \in Dates(stored') \cup Dates(walk'.rows) : d \in Days /\ d <= today
    BY <1>1, <1>7, <1>8, DatesOf
  <2> QED
    BY <1>4, <1>5, <1>6, <1>9, <2>2, <2>3
<1>17. WriteInv' /\ FilesInv'
  BY <1>1 DEF WalkAndFiles, WriteInv, FilesInv, Untouched, Watermark
<1> QED
  BY <1>2, <1>13, <1>14, <1>15, <1>16, <1>17 DEF WalkAndFiles

-----------------------------------------------------------------------------
(* Types.                                                                  *)

\* TypeOK in three parts.
FilesTyped ==
    /\ today \in Days /\ served \in Frame /\ late \subseteq Days
    /\ walk \in [cursor : 0..(MaxDay + 1 + MAX_PAGES) \cup Metrics,
                seen : SUBSET Nat, rows : Frame, source : Manners]
    /\ stored \in Frame /\ torn \in BOOLEAN
CountersTyped ==
    /\ vintages \in 1..MaxVintages /\ changes \in 0..MaxChanges
    /\ job \in {"nightly", "weekly", "backfill"}
    /\ pc \in {"idle", "load", "write", "events", "checks", "record", "record rows"}
    /\ pass \in 0..MaxPasses /\ faults \in 0..MaxFaults
HistoryTyped ==
    /\ \A r \in runs \cup rows : r.ts \in 1..pass /\ r.day \in Days
    /\ date \in Days /\ corrupt \subseteq Days

LEMMA TypeParts ==
  TypeOK <=> FilesTyped /\ CountersTyped /\ HistoryTyped
             /\ calendar \subseteq 0..(MaxVintages - 1)
  BY DEF TypeOK, SeriesTypeOK, FilesTyped, CountersTyped, HistoryTyped

\* A walk that has not begun is a walk.
LEMMA NoWalkTyped ==
  ASSUME NEW from \in 0..(MaxDay + 1)
  PROVE  [NoWalk EXCEPT !.cursor = from]
           \in [cursor : 0..(MaxDay + 1 + MAX_PAGES) \cup Metrics,
               seen : SUBSET Nat, rows : Frame, source : Manners]
<1>1. Empty \in Frame
  BY DEF Empty, Frame, Column
<1>2. from \in 0..(MaxDay + 1 + MAX_PAGES)
  BY Constants
<1> QED
  BY <1>1, <1>2 DEF NoWalk, Manners

\* Every step keeps the walk and the files typed, and what is known of them.
LEMMA FilesStep ==
  TypeOK /\ WalkAndFiles /\ [Next]_vars => FilesTyped' /\ WalkAndFiles'
<1> SUFFICES ASSUME TypeOK, WalkAndFiles, [Next]_vars PROVE FilesTyped' /\ WalkAndFiles'
  OBVIOUS
<1>0. FilesTyped
  BY TypeParts
<1>1. CASE UNCHANGED vars \/ Aside
  BY <1>0, <1>1, AsideKeeps DEF vars, Aside, FilesTyped
<1>2. CASE SourceStep /\ UNCHANGED
             <<walk, files, job, pc, pass, findings, history, faults>>
  <2>1. UNCHANGED <<walk, stored, torn, pc, job>>
    BY <1>2 DEF files
  <2>2. WalkAndFiles' /\ SourceInv
    BY <1>2, <2>1, SourceStepKeeps DEF WalkAndFiles
  <2> QED
    BY <1>0, <1>2, <2>1, <2>2, SourceMoves DEF FilesTyped
<1>3. CASE StartLoad
  <2>1. PICK from \in Nat :
          /\ walk' = [NoWalk EXCEPT !.cursor = from]
          /\ \/ from = 1
             \/ from = NextDay
             \/ Cardinality(Settled) >= 2 /\ from = Earliest(Settled)
    BY <1>3 DEF StartLoad
  <2>2. from \in 0..(MaxDay + 1)
    <3>1. CASE from = NextDay
      BY <3>1, Beginnings, Constants
    <3>2. CASE from = 1
      BY <3>2, Constants
    <3>3. CASE Cardinality(Settled) >= 2 /\ from = Earliest(Settled)
      <4>1. from \in Days
        BY <3>3, Beginnings, SomeSettled
      <4> QED
        BY <4>1, Constants DEF Days
    <3> QED
      BY <2>1, <3>1, <3>2, <3>3
  <2>3. UNCHANGED <<today, served, late, stored, torn>>
    BY <1>3 DEF StartLoad
  <2> QED
    BY <1>0, <1>3, <2>1, <2>2, <2>3, NoWalkTyped, StartLoadKeeps DEF FilesTyped
<1>4. CASE Load
  <2>1. UNCHANGED <<today, served, late, stored, torn>>
    BY <1>4 DEF Load, source, files
  <2> QED
    BY <1>0, <1>4, <2>1, LoadKeeps DEF FilesTyped
<1>5. CASE EndWalk \/ Killed
  <2>1. /\ UNCHANGED <<today, served, late, stored>> /\ torn' \in BOOLEAN
        /\ walk' = NoWalk
    BY <1>0, <1>5 DEF EndWalk, Killed, source, FilesTyped
  <2>2. NoWalk = [NoWalk EXCEPT !.cursor = 0] /\ 0 \in 0..(MaxDay + 1)
    BY Constants DEF NoWalk
  <2>3. NoWalk \in [cursor : 0..(MaxDay + 1 + MAX_PAGES) \cup Metrics,
                   seen : SUBSET Nat, rows : Frame, source : Manners]
    BY <2>2, NoWalkTyped
  <2> QED
    BY <1>0, <1>5, <2>1, <2>3, EndWalkKeeps DEF FilesTyped
<1>6. CASE Loaded
  <2>1. /\ UNCHANGED <<today, served, late, stored, torn>>
        /\ walk' = [walk EXCEPT !.cursor = 1]
    BY <1>6 DEF Loaded, source, files
  <2> QED
    BY <1>0, <1>6, <2>1, LoadedKeeps, Constants DEF FilesTyped
<1>7. CASE Write
  <2>1. /\ UNCHANGED <<today, served, late>> /\ torn' \in BOOLEAN
        /\ \/ walk' = NoWalk
           \/ walk.cursor # NMetrics /\ walk' = [walk EXCEPT !.cursor = @ + 1]
    <3>1. \/ torn' = torn
          \/ torn' = (torn /\ ~(job = "backfill" /\ Aligned(stored')))
      BY <1>7, Zenon DEF Write
    <3>2. torn' \in BOOLEAN
      BY <1>0, <3>1, Zenon DEF FilesTyped
    <3>3. \/ walk' = NoWalk
          \/ walk.cursor # NMetrics /\ walk' = [walk EXCEPT !.cursor = @ + 1]
      BY <1>7, Zenon DEF Write
    <3>4. UNCHANGED <<today, served, late>>
      BY <1>7, Zenon DEF Write, source
    <3> QED
      BY <3>2, <3>3, <3>4, Zenon
  <2>2. walk.cursor \in Metrics
    BY <1>7 DEF Write, WalkAndFiles, WalkInv
  <2>3. walk.cursor # NMetrics => walk.cursor + 1 \in Metrics
    BY <2>2, Constants DEF Metrics
  <2>4. NoWalk = [NoWalk EXCEPT !.cursor = 0] /\ 0 \in 0..(MaxDay + 1)
    BY Constants DEF NoWalk
  <2>5. NoWalk \in [cursor : 0..(MaxDay + 1 + MAX_PAGES) \cup Metrics,
                   seen : SUBSET Nat, rows : Frame, source : Manners]
    BY <2>4, NoWalkTyped
  <2> QED
    BY <1>0, <1>7, <2>1, <2>3, <2>5, WriteKeeps DEF FilesTyped
<1> QED
  BY <1>1, <1>2, <1>3, <1>4, <1>5, <1>6, <1>7, StepKinds

\* Every step keeps the counters typed.
LEMMA CountersStep == CountersTyped /\ [Next]_vars => CountersTyped'
<1> SUFFICES ASSUME CountersTyped, [Next]_vars PROVE CountersTyped'
  OBVIOUS
<1>0. /\ Fault => faults' \in 0..MaxFaults
      /\ pass < MaxPasses => pass + 1 \in 0..MaxPasses
      /\ changes < MaxChanges => changes + 1 \in 0..MaxChanges
      /\ vintages < MaxVintages => vintages + 1 \in 1..MaxVintages
      /\ After \in {"idle", "events", "record"}
  <2>1. /\ faults \in 0..MaxFaults /\ pass \in 0..MaxPasses
        /\ changes \in 0..MaxChanges /\ vintages \in 1..MaxVintages
        /\ {MaxFaults, MaxPasses, MaxChanges, MaxVintages} \subseteq Nat
    BY Zenon, Constants DEF CountersTyped
  <2>2. After \in {"idle", "events", "record"}
    BY DEF After, CountersTyped
  <2> QED
    BY <2>1, <2>2 DEF Fault
<1> USE DEF CountersTyped, Goes, Keeps, source, files, history
<1>1. CASE UNCHANGED vars
  BY <1>1, <1>0 DEF vars
<1>2. CASE SourceStep /\ UNCHANGED
                 <<walk, files, job, pc, pass, findings, history, faults>>
  BY <1>2, <1>0 DEF SourceStep, Tick, Publish, PublishLate, Revise, Withdraw, Reprint,
     Change
<1>3. CASE Start
  <2>1. /\ UNCHANGED <<vintages, changes, faults>> /\ pass' \in 0..MaxPasses
        /\ job' \in {"nightly", "weekly", "backfill"}
        /\ pc' \in {"load", "events", "record"}
    BY <1>3, <1>0 DEF Start
  <2> QED
    BY <2>1
<1>4. CASE SeedEvents
  BY <1>4, <1>0 DEF SeedEvents
<1>5. CASE Load
  BY <1>5, <1>0 DEF Load
<1>6. CASE LoadFails
  BY <1>6, <1>0 DEF LoadFails, Raise
<1>7. CASE LoadRefuses
  BY <1>7, <1>0 DEF LoadRefuses, Raise
<1>8. CASE LoadEmpty
  BY <1>8, <1>0 DEF LoadEmpty, Raise
<1>9. CASE Loaded
  BY <1>9, <1>0 DEF Loaded
<1>10. CASE Verify
  BY <1>10, <1>0 DEF Verify
<1>11. CASE Write
  BY <1>11, <1>0 DEF Write
<1>12. CASE Events
  BY <1>12, <1>0 DEF Events
<1>13. CASE EventsFail
  BY <1>13, <1>0 DEF EventsFail
<1>14. CASE Checks
  BY <1>14, <1>0 DEF Checks
<1>15. CASE RecordRun
  BY <1>15, <1>0 DEF RecordRun
<1>16. CASE RecordRows
  BY <1>16, <1>0 DEF RecordRows
<1>17. CASE Killed
  BY <1>17, <1>0 DEF Killed
<1>18. CASE RecordRunFails
  BY <1>18, <1>0 DEF RecordRunFails
<1>19. CASE RecordRowsFail
  BY <1>19, <1>0 DEF RecordRowsFail
<1> QED
  BY <1>1, <1>2, <1>3, <1>4, <1>5, <1>6, <1>7, <1>8, <1>9, <1>10, <1>11,
     <1>12, <1>13, <1>14, <1>15, <1>16, <1>17, <1>18, <1>19 DEF Next, PassStep

-----------------------------------------------------------------------------
(* The calendar and the records.                                           *)

\* Every step leaves the calendar alone or brings it to the newest print.
LEMMA CalendarMoves ==
  TypeOK /\ [Next]_vars =>
    \/ calendar' = calendar /\ vintages' \in vintages..MaxVintages
    \/ calendar' = calendar \cup 0..(vintages - 1) /\ vintages' = vintages
<1> SUFFICES ASSUME TypeOK, [Next]_vars
             PROVE  \/ calendar' = calendar /\ vintages' \in vintages..MaxVintages
                    \/ calendar' = calendar \cup 0..(vintages - 1) /\ vintages' = vintages
  OBVIOUS
<1>0. vintages \in 1..MaxVintages /\ MaxVintages \in Nat
  BY DayTypes, Constants
<1> USE DEF source, files, history
<1>1. CASE UNCHANGED vars
  BY <1>1, <1>0 DEF vars
<1>2. CASE SourceStep /\ UNCHANGED
                 <<walk, files, job, pc, pass, findings, history, faults>>
  BY <1>2, <1>0 DEF SourceStep, Tick, Publish, PublishLate, Revise, Withdraw, Reprint
<1>3. CASE Start
  BY <1>3, <1>0 DEF Start
<1>4. CASE SeedEvents
  BY <1>4, <1>0 DEF SeedEvents, UpsertEvents
<1>5. CASE Load
  BY <1>5, <1>0 DEF Load
<1>6. CASE LoadFails
  BY <1>6, <1>0 DEF LoadFails, Raise
<1>7. CASE LoadRefuses
  BY <1>7, <1>0 DEF LoadRefuses, Raise
<1>8. CASE LoadEmpty
  BY <1>8, <1>0 DEF LoadEmpty, Raise
<1>9. CASE Loaded
  BY <1>9, <1>0 DEF Loaded
<1>10. CASE Verify
  BY <1>10, <1>0 DEF Verify
<1>11. CASE Write
  BY <1>11, <1>0 DEF Write, UpsertSeries
<1>12. CASE Events
  BY <1>12, <1>0 DEF Events, UpsertEvents
<1>13. CASE EventsFail
  BY <1>13, <1>0 DEF EventsFail
<1>14. CASE Checks
  BY <1>14, <1>0 DEF Checks
<1>15. CASE RecordRun
  <2>1. UNCHANGED <<calendar, vintages>>
    BY <1>15, Zenon DEF RecordRun
  <2> QED
    BY <1>0, <2>1
<1>16. CASE RecordRows
  <2>1. UNCHANGED <<calendar, vintages>>
    BY <1>16, Zenon DEF RecordRows
  <2> QED
    BY <1>0, <2>1
<1>17. CASE Killed
  <2>1. UNCHANGED <<calendar, vintages>>
    BY <1>17, Zenon DEF Killed
  <2> QED
    BY <1>0, <2>1
<1>18. CASE RecordRunFails \/ RecordRowsFail
  <2>1. UNCHANGED <<calendar, vintages>>
    BY <1>18, Zenon DEF RecordRunFails, RecordRowsFail
  <2> QED
    BY <1>0, <2>1
<1> QED
  BY <1>1, <1>2, <1>3, <1>4, <1>5, <1>6, <1>7, <1>8, <1>9, <1>10, <1>11,
     <1>12, <1>13, <1>14, <1>15, <1>16, <1>17, <1>18 DEF Next, PassStep

\* Every step keeps the prints of the calendar without a hole.
LEMMA CalendarStep ==
  TypeOK /\ CalendarInv /\ [Next]_vars =>
    CalendarInv' /\ calendar' \subseteq 0..(MaxVintages - 1)
<1> SUFFICES ASSUME TypeOK, CalendarInv, [Next]_vars
             PROVE  CalendarInv' /\ calendar' \subseteq 0..(MaxVintages - 1)
  OBVIOUS
<1>1. /\ vintages \in 1..MaxVintages /\ MaxVintages \in Nat
      /\ calendar \subseteq 0..(MaxVintages - 1)
  BY Constants DEF TypeOK, SeriesTypeOK
<1>2. CASE calendar' = calendar /\ vintages' \in vintages..MaxVintages
  <2>1. SUFFICES ASSUME calendar # {} PROVE CalendarInv'
    BY <1>1, <1>2 DEF CalendarInv
  <2>2. PICK k \in 0..(vintages - 1) : calendar = 0..k
    BY <2>1 DEF CalendarInv
  <2>3. k \in 0..(vintages' - 1)
    <3>1. \A n \in vintages..MaxVintages : k \in 0..(n - 1)
      <4>1. vintages \in Nat /\ k \in 0..(vintages - 1)
        BY <1>1, <2>2
      <4> QED
        BY <4>1
    <3> QED
      BY <1>2, <3>1
  <2> QED
    BY <1>2, <2>2, <2>3 DEF CalendarInv
<1>3. CASE calendar' = calendar \cup 0..(vintages - 1) /\ vintages' = vintages
  <2>1. calendar' = 0..(vintages - 1)
    <3>1. CASE calendar = {}
      BY <1>3, <3>1
    <3>2. CASE calendar # {}
      <4>1. PICK k \in 0..(vintages - 1) : calendar = 0..k
        BY <3>2 DEF CalendarInv
      <4>2. calendar \subseteq 0..(vintages - 1)
        BY <1>1, <4>1
      <4> QED
        BY <1>3, <4>2
    <3> QED
      BY <3>1, <3>2
  <2> QED
    BY <1>1, <1>3, <2>1 DEF CalendarInv
<1> QED
  BY <1>2, <1>3, CalendarMoves

\* What is merged was held, or is of this run; nothing else of the day remains.
LEMMA RowsMerge ==
  ASSUME RecordRows
  PROVE  \A v \in rows' : v \in rows \/ (v.ts = pass /\ v.day = date)
<1> DEFINE fresh == {Row(i) : i \in DOMAIN findings}
           held == OfDay(rows, date)
<1>1. rows' = IF fresh = {} THEN rows ELSE (rows \ held) \cup Merge(held, fresh)
  BY Zenon DEF RecordRows
<1>2. \A v \in fresh : v.ts = pass /\ v.day = date
  BY DEF Row
<1>3. held \subseteq rows
  BY DEF OfDay
<1> HIDE DEF fresh, held
<1>4. Merge(held, fresh) \subseteq held \cup fresh
  BY DEF Merge
<1> QED
  BY <1>1, <1>2, <1>3, <1>4

\* Every step keeps a run row for what has ended, or the day is known to be lost.
LEMMA RecordStep ==
  TypeOK /\ RecordInv /\ [Next]_vars => HistoryTyped' /\ RecordInv'
<1> SUFFICES ASSUME TypeOK, RecordInv, [Next]_vars PROVE HistoryTyped' /\ RecordInv'
  OBVIOUS
<1>0. /\ \A r \in runs \cup rows : r.ts \in 1..pass /\ r.day \in Days
      /\ date \in Days /\ corrupt \subseteq Days /\ today \in Days /\ pass \in Nat
      /\ pc # "idle" => pass >= 1
      /\ pc = "record rows" => HasRow(pass, date)
      /\ \A e \in ended : e.kept => HasRow(e.ts, e.day)
      /\ \A v \in rows : HasRow(v.ts, v.day)
  <2>1. pass \in Nat
    <3>1. pass \in 0..MaxPasses /\ MaxPasses \in Nat
      BY TypeParts, Constants, Zenon DEF CountersTyped
    <3> QED
      BY <3>1
  <2> QED
    BY <2>1, TypeParts, Zenon DEF HistoryTyped, RecordInv, FilesTyped
<1>p. pass \in Nat /\ (pc # "idle" => pass >= 1 /\ pass \in 1..pass)
  <2>1. pass \in Nat /\ (pc # "idle" => pass >= 1)
    BY <1>0, Zenon
  <2> QED
    BY <2>1
\* A step that records nothing.
<1>1. ASSUME UNCHANGED history, pc' # "record rows", pass' \in {pass, pass + 1},
             pc' = "idle" \/ pc # "idle" \/ pass' = pass + 1
      PROVE  HistoryTyped' /\ RecordInv'
  <2>1. /\ UNCHANGED <<date, runs, rows, ended, corrupt>>
        /\ \A ts, day : HasRow(ts, day)' <=> HasRow(ts, day)
    BY <1>1 DEF history, HasRow
  <2>2. pass' \in Nat /\ pass <= pass' /\ (pc' # "idle" => pass' >= 1)
    <3>1. pass' = pass \/ pass' = pass + 1
      BY <1>1
    <3>2. pc' # "idle" => pass >= 1 \/ pass' = pass + 1
      BY <1>p, <1>1, Zenon
    <3>3. pass \in Nat
      BY <1>p
    <3> QED
      BY <3>1, <3>2, <3>3
  <2>3. \A r \in runs \cup rows : r.ts \in 1..pass'
    <3>1. \A n \in 1..pass : n \in 1..pass'
      BY <1>p, <2>2
    <3> QED
      BY <1>0, <3>1, Zenon
  <2> QED
    BY <1>0, <1>1, <2>1, <2>2, <2>3 DEF HistoryTyped, RecordInv
<1>2. CASE UNCHANGED vars
  BY <1>0, <1>2 DEF vars, HistoryTyped, RecordInv, HasRow
<1>3. CASE SourceStep /\ UNCHANGED
             <<walk, files, job, pc, pass, findings, history, faults>>
  BY <1>0, <1>3 DEF history, HistoryTyped, RecordInv, HasRow
<1>4. CASE Start
  <2>1. /\ UNCHANGED history /\ pass' = pass + 1
        /\ pc' \in {"load", "events", "record"}
    BY <1>4 DEF Start, Goes
  <2> QED
    BY <1>1, <2>1
<1>5. CASE SeedEvents
  BY <1>1, <1>5 DEF SeedEvents
<1>6. CASE Load
  BY <1>1, <1>6 DEF Load, Keeps
<1>7. CASE LoadFails \/ LoadRefuses \/ LoadEmpty \/ Verify
  <2>1. After \in {"events", "record", "idle"}
    BY DEF After, TypeOK
  <2> QED
    BY <1>1, <1>7, <2>1
    DEF LoadFails, LoadRefuses, LoadEmpty, Verify, Raise, Keeps, Goes
<1>8. CASE Loaded
  BY <1>1, <1>8 DEF Loaded, Keeps, Goes
<1>9. CASE Write
  <2>1. After \in {"events", "record", "idle"}
    BY DEF After, TypeOK
  <2>2. pc' \in {"write", "events", "record", "idle"} /\ pc = "write"
    BY <1>9, <2>1, Zenon DEF Write, Goes
  <2>3. UNCHANGED <<history, pass>>
    BY <1>9, Zenon DEF Write, Keeps
  <2> QED
    BY <1>1, <2>2, <2>3
<1>10. CASE Events \/ EventsFail \/ Checks
  BY <1>1, <1>10 DEF Events, EventsFail, Checks, Keeps, Goes
<1>11. CASE RecordRun
  <2>1. /\ pass >= 1 /\ pass' = pass /\ date' = today /\ runs' = runs \cup {RunRow}
        /\ pc' = "record rows" /\ UNCHANGED <<rows, ended, corrupt>>
    BY <1>0, <1>11 DEF RecordRun, Goes, Keeps
  <2>2. RunRow.ts = pass /\ RunRow.day = today
    BY DEF RunRow
  <2>3. \A ts, day : HasRow(ts, day) => HasRow(ts, day)'
    BY <2>1 DEF HasRow
  <2>4. HasRow(pass, date)'
    BY <2>1, <2>2 DEF HasRow
  <2>5. \A r \in runs' \cup rows' : r.ts \in 1..pass /\ r.day \in Days
    <3>1. pass \in 1..pass
      BY <1>p, <1>11 DEF RecordRun
    <3> QED
      BY <1>0, <2>1, <2>2, <3>1
  <2> QED
    BY <1>0, <2>1, <2>3, <2>4, <2>5 DEF HistoryTyped, RecordInv
<1>12. CASE RecordRows
  <2>1. /\ pass >= 1 /\ pass' = pass /\ pc' = "idle" /\ pc = "record rows"
        /\ ended' = ended \cup {Ended(date, TRUE)}
        /\ UNCHANGED <<date, runs, corrupt>>
    BY <1>0, <1>12 DEF RecordRows, Goes, Keeps
  <2>2. \A v \in rows' : v \in rows \/ (v.ts = pass /\ v.day = date)
    BY <1>12, RowsMerge
  <2>3. HasRow(pass, date)
    BY <1>0, <2>1
  <2>4. \A ts, day : HasRow(ts, day)' <=> HasRow(ts, day)
    BY <2>1 DEF HasRow
  <2>5. HistoryTyped'
    <3>1. pass \in 1..pass
      BY <1>p, <2>1
    <3> QED
      BY <1>0, <2>1, <2>2, <3>1 DEF HistoryTyped
  <2>6. \A e \in ended' : e.kept => HasRow(e.ts, e.day)
    <3>1. Ended(date, TRUE).ts = pass /\ Ended(date, TRUE).day = date
      BY DEF Ended
    <3> QED
      BY <1>0, <2>1, <2>3, <3>1
  <2>7. \A v \in rows' : HasRow(v.ts, v.day)
    BY <1>0, <2>2, <2>3
  <2> QED
    BY <2>1, <2>4, <2>5, <2>6, <2>7 DEF RecordInv
<1>13. CASE Killed \/ RecordRunFails \/ RecordRowsFail
  <2>1. /\ pc' = "idle" /\ pass' = pass /\ date' \in {date, today}
        /\ ended' = ended \/ \E day : ended' = ended \cup {Ended(day, FALSE)}
    BY <1>13 DEF Killed, RecordRunFails, RecordRowsFail, Goes, Keeps
  <2>2. \/ UNCHANGED <<runs, rows, corrupt>>
        \/ HalfRuns /\ UNCHANGED rows
        \/ HalfRows /\ UNCHANGED runs
    BY <1>13 DEF Killed, RecordRunFails, RecordRowsFail
  <2>3. \A ts, day : HasRow(ts, day) => HasRow(ts, day)'
    BY <2>2 DEF HasRow, HalfRuns, HalfRows, OfDay
  <2>4. runs' \subseteq runs /\ rows' \subseteq rows /\ corrupt' \subseteq Days
    BY <1>0, <2>2 DEF HalfRuns, HalfRows
  <2>5. \A e \in ended' : e \in ended \/ ~e.kept
    <3>1. ASSUME NEW e \in ended', NEW day, ended' = ended \cup {Ended(day, FALSE)}
          PROVE  e \in ended \/ ~e.kept
      <4>1. CASE e \in ended
        BY <4>1
      <4>2. CASE e = Ended(day, FALSE)
        BY <4>2 DEF Ended
      <4> QED
        BY <3>1, <4>1, <4>2
    <3> QED
      BY <2>1, <3>1
  <2> QED
    BY <1>0, <2>1, <2>3, <2>4, <2>5 DEF HistoryTyped, RecordInv
<1> QED
  BY <1>2, <1>3, <1>4, <1>5, <1>6, <1>7, <1>8, <1>9, <1>10, <1>11, <1>12, <1>13
  DEF Next, PassStep

\* A bounded set of numbers that is not empty has a last one.
LEMMA LastOf ==
  ASSUME NEW S \in SUBSET Nat, S # {}, NEW n \in Nat, \A d \in S : d <= n
  PROVE  \E p \in S : \A q \in S : q <= p
<1> DEFINE left == {n - d : d \in S}
<1>1. left \subseteq Nat
  <2>1. \A d \in S : n - d \in Nat
    OBVIOUS
  <2> QED
    BY <2>1
<1>2. left # {}
  OBVIOUS
<1>3. PICK least \in left : \A q \in left : least <= q
  BY <1>1, <1>2, FirstOf
<1>4. PICK p \in S : least = n - p
  BY <1>3
<1>5. \A q \in S : q <= p
  <2> TAKE q \in S
  <2>1. least <= n - q
    BY <1>3
  <2> HIDE DEF left
  <2> QED
    BY <1>4, <2>1
<1> QED
  BY <1>5

\* _merge keeps a row of every key.
LEMMA MergeKeeps ==
  ASSUME NEW held, NEW fresh, Placed(held \cup fresh), NEW r \in held \cup fresh
  PROVE  \E v \in Merge(held, fresh) : v.ts = r.ts /\ v.check = r.check
<1> DEFINE all == held \cup fresh
           same == {q \in all : Key(q) = Key(r)}
           places == {q.at : q \in same}
<1>1. PICK n \in Nat : \A v \in all : v.at \in 1..n
  BY DEF Placed
<1>2. places \in SUBSET Nat /\ places # {} /\ \A p \in places : p <= n
  BY <1>1
<1>3. PICK last \in places : \A p \in places : p <= last
  <2> HIDE DEF places
  <2> QED
    BY <1>2, LastOf
<1>4. PICK v \in same : v.at = last
  BY <1>3
<1>5. v \in all /\ \A q \in all : Key(q) = Key(v) => q.at <= v.at
  BY <1>3, <1>4
<1>6. v.ts = r.ts /\ v.check = r.check
  BY <1>4 DEF Key
<1> QED
  BY <1>5, <1>6 DEF Merge

\* What is recorded has its rows, and what was recorded keeps them.
LEMMA RowsKeep ==
  ASSUME RecordRows, findings \in Seq(Finding), Placed(rows)
  PROVE  /\ Placed(rows') /\ HasFound(pass, date, findings)'
         /\ \A ts, day, found : HasFound(ts, day, found) => HasFound(ts, day, found)'
<1> DEFINE fresh == {Row(i) : i \in DOMAIN findings}
           held == OfDay(rows, date)
<1>1. rows' = IF fresh = {} THEN rows ELSE (rows \ held) \cup Merge(held, fresh)
  BY Zenon DEF RecordRows
<1>2. /\ pass' = pass /\ date' = date /\ findings' = findings
  BY DEF RecordRows, Keeps
<1>3. /\ \A v \in fresh : v.ts = pass /\ v.day = date
      /\ \A i \in DOMAIN findings : Row(i) \in fresh /\ Row(i).check = findings[i].check
  BY DEF Row
<1>4. \A v \in rows : v \in held <=> v.day = date
  BY DEF OfDay
<1>5. held \subseteq rows
  BY DEF OfDay
<1>6. PICK n \in Nat : \A v \in rows \cup fresh : v.at \in 1..n
  <2>1. PICK k \in Nat : \A v \in rows : v.at \in 1..k
    BY DEF Placed
  <2>2. Len(findings) \in Nat /\ DOMAIN findings = 1..Len(findings)
    OBVIOUS
  <2>3. \A v \in fresh : v.at \in 1..Len(findings)
    BY <2>2 DEF Row
  <2> HIDE DEF fresh
  <2>4. CASE k <= Len(findings)
    BY <2>1, <2>2, <2>3, <2>4
  <2>5. CASE ~(k <= Len(findings))
    BY <2>1, <2>2, <2>3, <2>5
  <2> QED
    BY <2>4, <2>5
<1> HIDE DEF fresh, held
<1>7. Merge(held, fresh) \subseteq held \cup fresh
  BY DEF Merge
<1>8. Placed(rows')
  BY <1>1, <1>5, <1>6, <1>7 DEF Placed
<1>9. \A r \in held \cup fresh :
        fresh # {} => \E v \in rows' : v.ts = r.ts /\ v.check = r.check /\ v.day = date
  <2> SUFFICES ASSUME NEW r \in held \cup fresh, fresh # {}
               PROVE  \E v \in rows' : v.ts = r.ts /\ v.check = r.check /\ v.day = date
    OBVIOUS
  <2>1. Placed(held \cup fresh)
    BY <1>5, <1>6 DEF Placed
  <2>2. PICK v \in Merge(held, fresh) : v.ts = r.ts /\ v.check = r.check
    BY <2>1, MergeKeeps
  <2>3. v \in rows' /\ v.day = date
    BY <1>1, <1>3, <1>4, <1>5, <1>7, <2>2
  <2> QED
    BY <2>2, <2>3
<1>10. HasFound(pass, date, findings)'
  <2> SUFFICES ASSUME NEW i \in DOMAIN findings
               PROVE  \E v \in rows' : v.ts = pass /\ v.day = date
                                       /\ v.check = findings[i].check
    BY <1>2 DEF HasFound
  <2> QED
    BY <1>3, <1>9
<1>11. ASSUME NEW ts, NEW day, NEW found, HasFound(ts, day, found)
       PROVE  HasFound(ts, day, found)'
  <2> SUFFICES ASSUME NEW i \in DOMAIN found
               PROVE  \E v \in rows' : v.ts = ts /\ v.day = day
                                       /\ v.check = found[i].check
    BY DEF HasFound
  <2>1. PICK v \in rows : v.ts = ts /\ v.day = day /\ v.check = found[i].check
    BY <1>11 DEF HasFound
  <2>2. CASE v \in rows'
    BY <2>1, <2>2
  <2>3. CASE v \notin rows'
    <3>1. v \in held /\ fresh # {} /\ day = date
      BY <1>1, <1>4, <2>1, <2>3
    <3> QED
      BY <1>9, <2>1, <3>1
  <2> QED
    BY <2>2, <2>3
<1> QED
  BY <1>8, <1>10, <1>11

\* What is said when, or not said.
LEMMA WhenIs == ASSUME NEW S, NEW f \in S, NEW c PROVE When(c, f) \in Seq(S)
<1>1. <<f>> \in Seq(S) /\ <<>> \in Seq(S)
  OBVIOUS
<1> QED
  BY <1>1, Zenon DEF When

\* The checks find findings.
LEMMA FindingsTyped ==
  /\ <<>> \in Seq(Finding) /\ Unverified \in Seq(Finding)
  /\ EventsChecks \in Seq(Finding)
  /\ \A defects : Intake(defects) \in Seq(Finding)
  /\ \A again : SelfConsistency(again) \in Seq(Finding)
<1>1. /\ Said("error", "dropped history") \in Finding
      /\ Said("warn", "back-filled history") \in Finding
      /\ Said("warn", "revised") \in Finding
      /\ Said("warn", "could not re-fetch") \in Finding
  BY DEF Said, Found, Finding
<1>2. <<>> \in Seq(Finding) /\ Unverified \in Seq(Finding)
  <2> DEFINE said == Said("warn", "could not re-fetch")
  <2>1. Unverified = <<said>> /\ said \in Finding
    BY <1>1 DEF Unverified
  <2> HIDE DEF said
  <2> QED
    BY <2>1
<1>3. EventsChecks \in Seq(Finding)
  <2> DEFINE said == Found("revision_seq", "error", "not contiguous")
             broken == calendar # {} /\ calendar # 0..Latest(calendar)
  <2>1. EventsChecks = When(broken, said)
    BY DEF EventsChecks
  <2>2. said \in Finding
    BY DEF Found, Finding
  <2> HIDE DEF said, broken
  <2> QED
    BY <2>1, <2>2, WhenIs
<1>4. ASSUME NEW defects PROVE Intake(defects) \in Seq(Finding)
  <2> DEFINE found == V!VerifyFrame(defects, "series")
             said == Found("contract",
                           IF V!Errors(found) # {} THEN "error" ELSE "warn", "as it arrived")
  <2>1. said \in Finding
    BY DEF Found, Finding
  <2>2. Intake(defects) = When(found # {}, said)
    BY DEF Intake
  <2> HIDE DEF found, said
  <2> QED
    BY <2>1, <2>2, WhenIs
<1>5. ASSUME NEW again PROVE SelfConsistency(again) \in Seq(Finding)
  <2> DEFINE inside == {d \in Dates(again) :
                          Earliest(Settled) <= d /\ d <= Latest(Settled)}
             few == Cardinality(Settled) < 2
             dropped == When(Settled \ Dates(again) # {}, Said("error", "dropped history"))
             filled == When(inside \ Settled # {}, Said("warn", "back-filled history"))
             revised == When(Revised(again) # {}, Said("warn", "revised"))
  <2>1. SelfConsistency(again) = IF few THEN <<>> ELSE dropped \o filled \o revised
    BY Zenon DEF SelfConsistency
  <2>2. dropped \in Seq(Finding) /\ filled \in Seq(Finding) /\ revised \in Seq(Finding)
    BY <1>1, WhenIs, Zenon
  <2> HIDE DEF few, dropped, filled, revised
  <2>3. dropped \o filled \o revised \in Seq(Finding)
    BY <2>2
  <2> QED
    BY <1>2, <2>1, <2>3
<1> QED
  BY <1>2, <1>3, <1>4, <1>5

\* Every step keeps what was found of the passes that were kept.
LEMMA FoundStep == TypeOK /\ FoundInv /\ [Next]_vars => FoundInv'
<1> SUFFICES ASSUME TypeOK, FoundInv, [Next]_vars PROVE FoundInv'
  OBVIOUS
<1>0. /\ findings \in Seq(Finding) /\ Placed(rows)
      /\ \A e \in ended : e.kept /\ e.day \notin corrupt
                          => HasFound(e.ts, e.day, e.found)
  BY Zenon DEF FoundInv
\* A step that records nothing.
<1>1. ASSUME UNCHANGED <<rows, ended, corrupt>>, findings' \in Seq(Finding)
      PROVE  FoundInv'
  BY <1>0, <1>1 DEF FoundInv, HasFound, Placed
\* Failures: no pass is kept by them, and the days that lose rows are known.
<1>2. ASSUME findings' = findings, HalfRows \/ (rows' = rows /\ corrupt \subseteq corrupt'),
             ended' = ended \/ \E day : ended' = ended \cup {Ended(day, FALSE)}
      PROVE  FoundInv'
  <2>1. \A e \in ended' : e \in ended \/ ~e.kept
    <3>1. ASSUME NEW e \in ended', NEW day, ended' = ended \cup {Ended(day, FALSE)}
          PROVE  e \in ended \/ ~e.kept
      <4>1. CASE e \in ended
        BY <4>1
      <4>2. CASE e = Ended(day, FALSE)
        BY <4>2 DEF Ended
      <4> QED
        BY <3>1, <4>1, <4>2
    <3> QED
      BY <1>2, <3>1
  <2>2. rows' \subseteq rows /\ corrupt \subseteq corrupt'
    BY <1>2 DEF HalfRows
  <2>3. \A v \in rows : v.day \notin corrupt' => v \in rows'
    BY <1>2 DEF HalfRows, OfDay
  <2>4. Placed(rows')
    BY <1>0, <2>2 DEF Placed
  <2>5. ASSUME NEW e \in ended', e.kept, e.day \notin corrupt'
        PROVE  HasFound(e.ts, e.day, e.found)'
    <3>1. HasFound(e.ts, e.day, e.found)
      BY <1>0, <2>1, <2>2, <2>5
    <3> QED
      BY <2>3, <2>5, <3>1 DEF HasFound
  <2> QED
    BY <1>0, <1>2, <2>4, <2>5 DEF FoundInv
<1> USE DEF source, files, history
<1>3. CASE UNCHANGED vars \/ (SourceStep /\ UNCHANGED
             <<walk, files, job, pc, pass, findings, history, faults>>)
  BY <1>0, <1>1, <1>3 DEF vars
<1>4. CASE Start
  BY <1>1, <1>4, FindingsTyped DEF Start
<1>5. CASE SeedEvents \/ Load \/ Write \/ Events \/ EventsFail \/ RecordRun
  <2>1. UNCHANGED <<rows, ended, corrupt, findings>>
    BY <1>5, Zenon DEF SeedEvents, Load, Write, Events, EventsFail, RecordRun
  <2> QED
    BY <1>0, <1>1, <2>1
<1>6. CASE LoadFails \/ LoadRefuses \/ LoadEmpty
  <2>1. UNCHANGED <<rows, ended, corrupt>> /\ findings' \in {findings, Unverified}
    BY <1>6 DEF LoadFails, LoadRefuses, LoadEmpty, Raise
  <2> QED
    BY <1>0, <1>1, <2>1, FindingsTyped
<1>7. CASE Loaded
  <2>1. /\ UNCHANGED <<rows, ended, corrupt>>
        /\ findings' = findings \/ findings' = Intake({"unparseable"})
    BY <1>7, Zenon DEF Loaded
  <2> QED
    BY <1>0, <1>1, <2>1, FindingsTyped
<1>8. CASE Verify
  <2>1. UNCHANGED <<rows, ended, corrupt>> /\ findings' = SelfConsistency(walk.rows)
    BY <1>8, Zenon DEF Verify
  <2> QED
    BY <1>1, <2>1, FindingsTyped
<1>9. CASE Checks
  <2>1. UNCHANGED <<rows, ended, corrupt>> /\ findings' = findings \o EventsChecks
    BY <1>9, Zenon DEF Checks
  <2>2. findings \o EventsChecks \in Seq(Finding)
    BY <1>0, FindingsTyped
  <2> QED
    BY <1>1, <2>1, <2>2
<1>10. CASE RecordRows
  <2>1. /\ ended' = ended \cup {Ended(date, TRUE)}
        /\ UNCHANGED <<findings, corrupt, pass, date>>
    BY <1>10 DEF RecordRows, Keeps
  <2>2. /\ Ended(date, TRUE).ts = pass /\ Ended(date, TRUE).day = date
        /\ Ended(date, TRUE).found = findings
    BY DEF Ended
  <2>3. /\ Placed(rows') /\ HasFound(pass, date, findings)'
        /\ \A ts, day, found : HasFound(ts, day, found) => HasFound(ts, day, found)'
    BY <1>0, <1>10, RowsKeep
  <2>4. ASSUME NEW e \in ended', e.kept, e.day \notin corrupt'
        PROVE  HasFound(e.ts, e.day, e.found)'
    <3>1. CASE e \in ended
      BY <1>0, <2>1, <2>3, <2>4, <3>1
    <3>2. CASE e = Ended(date, TRUE)
      <4>1. e.ts = pass' /\ e.day = date' /\ e.found = findings'
        BY <2>1, <2>2, <3>2
      <4> QED
        BY <2>3, <4>1 DEF HasFound
    <3> QED
      BY <2>1, <3>1, <3>2
  <2> QED
    BY <1>0, <2>1, <2>3, <2>4 DEF FoundInv
<1>11. CASE Killed \/ RecordRunFails \/ RecordRowsFail
  <2>1. /\ findings' = findings
        /\ ended' = ended \/ \E day : ended' = ended \cup {Ended(day, FALSE)}
    BY <1>11 DEF Killed, RecordRunFails, RecordRowsFail
  <2>2. HalfRows \/ (rows' = rows /\ corrupt \subseteq corrupt')
    BY <1>11 DEF Killed, RecordRunFails, RecordRowsFail, HalfRuns
  <2> QED
    BY <1>2, <2>1, <2>2
<1> QED
  BY <1>3, <1>4, <1>5, <1>6, <1>7, <1>8, <1>9, <1>10, <1>11 DEF Next, PassStep

-----------------------------------------------------------------------------
(* The invariant and what follows from it.                                 *)

\* The lake and its history begin empty.
LEMMA InitHolds == InitNightly => IInv
<1>0. NoWalk = [NoWalk EXCEPT !.cursor = 0] /\ 0 \in 0..(MaxDay + 1)
  BY Constants DEF NoWalk
<1> SUFFICES ASSUME InitNightly PROVE IInv
  OBVIOUS
<1> USE DEF InitNightly, InitSeries
<1>1. Empty \in Frame /\ \A m \in Metrics, d \in Days : Empty[m][d] = 0
  BY DEF Empty, Frame, Column
<1>2. NoWalk.rows = Empty /\ \A d : d \notin Dates(Empty)
  BY <1>1, DatesOf DEF NoWalk
<1>3. Watermark = 0
  BY <1>2, WatermarkIs
<1>5. FilesTyped
  BY <1>0, <1>1, NoWalkTyped, Constants DEF FilesTyped
<1>6. CountersTyped /\ HistoryTyped
  BY Constants DEF CountersTyped, HistoryTyped
<1>7. TypeOK
  BY <1>5, <1>6, TypeParts
<1>8. SourceInv /\ WalkInv /\ LoadInv /\ WriteInv
  <2>1. /\ served = Empty /\ stored = Empty /\ walk.rows = Empty
        /\ pc = "idle" /\ walk = NoWalk /\ 1 \in Metrics
    BY <1>2, Constants
  <2> QED
    BY <1>1, <2>1, Zenon DEF SourceInv, WalkInv, LoadInv, WriteInv
<1>9. FilesInv
  BY <1>1, <1>2, <1>3, AlignedIs DEF FilesInv
<1>10. CalendarInv /\ RecordInv
  BY DEF CalendarInv, RecordInv
<1>11. FoundInv
  BY FindingsTyped DEF FoundInv, Placed
<1> QED
  BY <1>7, <1>8, <1>9, <1>10, <1>11 DEF IInv

\* The inductive invariant of the passes.
THEOREM Inductive == Spec => []IInv
<1>1. IInv /\ [Next]_vars => IInv'
  <2> SUFFICES ASSUME IInv, [Next]_vars PROVE IInv'
    OBVIOUS
  <2>1. TypeOK /\ WalkAndFiles /\ CalendarInv /\ RecordInv /\ FoundInv
    BY DEF IInv, WalkAndFiles
  <2>2. /\ FilesTyped' /\ CountersTyped' /\ HistoryTyped'
        /\ calendar' \subseteq 0..(MaxVintages - 1)
        /\ WalkAndFiles' /\ CalendarInv' /\ RecordInv' /\ FoundInv'
    BY <2>1, TypeParts, FilesStep, CountersStep, CalendarStep, RecordStep, FoundStep
  <2>3. TypeOK'
    BY <2>2 DEF TypeOK, SeriesTypeOK, FilesTyped, CountersTyped, HistoryTyped
  <2> QED
    BY <2>2, <2>3 DEF IInv, WalkAndFiles
<1> QED
  BY InitHolds, <1>1, PTL DEF Spec

\* Type correctness of the passes: no cursor, count or row leaves its range.
THEOREM TypeCorrect == Spec => []TypeOK
  BY Inductive, PTL DEF IInv

\* No day below the watermark is skipped, in any metric, unless it came out of
\* order or a writer was killed (update_series, upsert_series_frame).
THEOREM NothingSkippedAlways == Spec => []NothingSkipped
<1>1. IInv => NothingSkipped
  BY DEF IInv, FilesInv, Untouched, NothingSkipped
<1> QED
  BY Inductive, <1>1, PTL

\* The calendar has no hole in its prints, whatever refresh failed (update_events).
THEOREM PrintsContiguousAlways == Spec => []PrintsContiguous
<1>1. ASSUME NEW k \in Nat PROVE Latest(0..k) = k
  <2>1. k \in 0..k /\ \A e \in 0..k : e <= k
    OBVIOUS
  <2>2. \A d \in 0..k : (\A e \in 0..k : e <= d) => d = k
    BY <2>1
  <2>3. 0..k # {}
    BY <2>1
  <2> QED
    BY <2>1, <2>2, <2>3 DEF Latest
<1>2. IInv => PrintsContiguous
  <2> SUFFICES ASSUME IInv, calendar # {} PROVE calendar = 0..Latest(calendar)
    BY DEF PrintsContiguous
  <2>1. PICK k \in 0..(vintages - 1) : calendar = 0..k
    BY DEF IInv, CalendarInv
  <2>2. k \in Nat
    BY <2>1
  <2> QED
    BY <1>1, <2>1, <2>2
<1> QED
  BY Inductive, <1>2, PTL

\* A pass that ended and whose record_run did not raise has its run row and a row
\* for every check that found something, and no violation row is without its run,
\* unless a history file of the day was half written.
THEOREM EveryPassRecordedAlways == Spec => []EveryPassRecorded
<1>1. IInv => EveryPassRecorded
  BY DEF IInv, RecordInv, FoundInv, HasRow, HasFound, EveryPassRecorded
<1> QED
  BY Inductive, <1>1, PTL

\* A weekly pass that found nothing saw every settled value as its source had it
\* (series_self_consistency).
THEOREM CleanWeekIsTrueAlways == Spec => CleanWeekIsTrue
<1>1. ASSUME IInv, Verify, findings' = <<>>, ~torn
      PROVE  \A m \in Metrics, d \in Settled : stored[m][d] = walk.rows[m][d]
  <2> DEFINE again == walk.rows
             inside == {d \in Dates(again) :
                          Earliest(Settled) <= d /\ d <= Latest(Settled)}
             dropped == When(Settled \ Dates(again) # {}, Said("error", "dropped history"))
             filled == When(inside \ Settled # {}, Said("warn", "back-filled history"))
             revised == When(Revised(again) # {}, Said("warn", "revised"))
             few == Cardinality(Settled) < 2
  <2>1. SelfConsistency(again) = IF few THEN <<>> ELSE dropped \o filled \o revised
    BY Zenon DEF SelfConsistency
  <2>2. SelfConsistency(again) = <<>> /\ pc = "load" /\ job = "weekly"
    BY <1>1 DEF Verify
  <2>3. IsFiniteSet(Settled) /\ Settled \subseteq Days /\ \A d \in Settled : d \in Dates(stored)
    <3>1. IsFiniteSet(Days)
      BY FS_Interval, Constants DEF Days
    <3> QED
      BY <3>1, FS_Subset, Beginnings DEF Settled
  <2>4. ~few
    BY <1>1, <2>2, <2>3, FS_CardinalityType DEF IInv, WalkInv
  <2>6. /\ Settled \ Dates(again) = {}
        /\ Revised(again) = {}
    <3>1. dropped \o filled \o revised = <<>>
      BY <2>1, <2>2, <2>4
    <3>2. PICK found : /\ dropped \in Seq(found) /\ filled \in Seq(found)
                       /\ revised \in Seq(found)
      <4> DEFINE found == {Said("error", "dropped history"),
                           Said("warn", "back-filled history"), Said("warn", "revised")}
      <4>1. ASSUME NEW c, NEW f \in found PROVE When(c, f) \in Seq(found)
        BY WhenIs, Zenon
      <4>2. dropped \in Seq(found) /\ filled \in Seq(found) /\ revised \in Seq(found)
        BY <4>1, Zenon
      <4> QED
        BY <4>2, Zenon
    <3> HIDE DEF dropped, filled, revised
    <3>3. Len(dropped \o filled \o revised) = Len(dropped) + Len(filled) + Len(revised)
      BY <3>2
    <3>4. Len(dropped) = 0 /\ Len(revised) = 0
      BY <3>1, <3>2, <3>3
    <3> QED
      BY <3>4 DEF When, dropped, revised
  <2>7. Aligned(stored)
    BY <1>1, <2>2 DEF IInv, FilesInv, Untouched
  <2> SUFFICES ASSUME NEW m \in Metrics, NEW d \in Settled PROVE stored[m][d] = again[m][d]
    OBVIOUS
  <2>8. stored[m][d] # 0
    BY <2>3, <2>7, AlignedIs
  <2>9. again[m][d] # 0
    <3>1. d \in Dates(again)
      BY <2>6
    <3>2. PICK k \in Metrics : again[k][d] # 0
      BY <3>1, DatesOf
    <3> QED
      BY <1>1, <2>3, <3>2, Constants DEF IInv, WalkInv
  <2> QED
    BY <2>6, <2>8, <2>9 DEF Revised
<1> QED
  BY Inductive, <1>1, PTL DEF CleanWeekIsTrue, Spec
=============================================================================
