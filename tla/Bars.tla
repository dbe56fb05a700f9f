-------------------------------- MODULE Bars ---------------------------------
(***************************************************************************)
(* One daily bar series of the batch lake (qde/storage.py): a single       *)
(* Parquet file that two kinds of process rewrite,                         *)
(*                                                                         *)
(*   - "update": update_ohlcv, run by the nightly (qde/daily_update.py),   *)
(*     which fetches from the stored watermark on;                         *)
(*   - "backfill": backfill_series (qde/backfill.py), run by an operator   *)
(*     for a range of days.                                                *)
(*                                                                         *)
(* Both fetch, drop what must not be stored, read the file, merge, and     *)
(* write the result through one temp-and-rename path.  A bar is abstracted *)
(* to its quality: "forming" (read before its day was over) or "settled".  *)
(* A reply may also hold a "no price" row, the placeholder of a session    *)
(* the source has no data for yet.                                         *)
(***************************************************************************)
EXTENDS Integers, FiniteSetsExt

CONSTANTS
    MaxDay,        \* the days bars exist for are 1..MaxDay
    MaxBackfills,  \* bound: backfills an operator starts
    MaxFaults,     \* bound: failed or late fetches, failed writes, kills
    Overlap        \* may a backfill and an update run at the same time?

ASSUME BarsAssumption ==
    /\ MaxDay \in Nat \ {0}
    /\ MaxBackfills \in Nat /\ MaxFaults \in Nat
    /\ Overlap \in BOOLEAN

Days == 1..MaxDay
Writers == {"update", "backfill"}

VARIABLES
    today,     \* the UTC date
    file,      \* bars.parquet
    temp,      \* .bars.parquet.tmp, one path for every writer
    job,       \* writer -> where it stands and what it holds
    backfills, faults,
    skipped    \* history: days a backfill left unsettled below the watermark

vars == <<today, file, temp, job, backfills, faults, skipped>>

NoRows == [d \in {} |-> "settled"]

\* A file and the writers that have it open: a torn body is still being
\* written, or was abandoned; a mixed one was opened by two writers.
NoFile == [state |-> "none", rows |-> NoRows, open |-> {}]

Holds(pc, rows) ==
    [pc |-> pc, asof |-> 0, from |-> 0, to |-> 0, rows |-> rows]
Fetches(asof, from, to) ==
    [pc |-> "fetch", asof |-> asof, from |-> from, to |-> to, rows |-> NoRows]
Idle == Holds("idle", NoRows)

-----------------------------------------------------------------------------
Fault == faults < MaxFaults /\ faults' = faults + 1

Only(rows, D) == [d \in DOMAIN rows \cap D |-> rows[d]]

\* Mutant of Merged: the stored rows are not read.
FrameOnly(frame, old) == frame

\* concat, then drop_duplicates(keep="last"): the incoming row wins.
Merged(frame, old) ==
    [d \in DOMAIN frame \cup DOMAIN old |->
       IF d \in DOMAIN frame THEN frame[d] ELSE old[d]]

Unsettled(rows, d) == d \notin DOMAIN rows \/ rows[d] # "settled"
Holes(rows) == {d \in Days : d < Max(DOMAIN rows) /\ Unsettled(rows, d)}

Init ==
    /\ today = 2
    /\ file = NoFile
    /\ temp = NoFile
    /\ job = [w \in Writers |-> Idle]
    /\ backfills = 0
    /\ faults = 0
    /\ skipped = {}

DayTick ==
    /\ today <= MaxDay
    /\ today' = today + 1
    /\ UNCHANGED <<file, temp, job, backfills, faults, skipped>>

(***************************************************************************)
(* Choosing what to fetch.                                                 *)
(***************************************************************************)
MayBegin(w) ==
    /\ job[w] = Idle
    /\ Overlap \/ \A v \in Writers : job[v] = Idle

\* Mutant of FetchFrom: the day after the watermark.
FetchFromNextDay == Max(DOMAIN file.rows) + 1

\* update_ohlcv starts at the watermark itself, read from the stored rows.
FetchFrom == Max(DOMAIN file.rows)

\* Without a file, or with one that cannot be read, the update fails; with a
\* watermark of today or later there is nothing to get.
BeginUpdate ==
    /\ MayBegin("update")
    /\ file.state = "whole"
    /\ Max(DOMAIN file.rows) < today
    /\ job' = [job EXCEPT !["update"] = Fetches(today, FetchFrom, MaxDay + 1)]
    /\ UNCHANGED <<today, file, temp, backfills, faults, skipped>>

BeginBackfill(s, e) ==
    /\ MayBegin("backfill")
    /\ backfills < MaxBackfills
    /\ s <= today /\ s <= e
    /\ backfills' = backfills + 1
    /\ job' = [job EXCEPT !["backfill"] = Fetches(0, s, e)]
    /\ UNCHANGED <<today, file, temp, faults, skipped>>

(***************************************************************************)
(* The source's answer, and what the caller keeps of it.                   *)
(***************************************************************************)
Reply(w, h) ==
    [d \in {x \in Days : job[w].from <= x /\ x <= job[w].to /\ x <= h} |->
       IF d < today THEN "settled" ELSE "forming"]

\* Mutant of Wanted: an update leaves it to the store to drop forming bars.
Everything(w, reply) == reply

\* update_ohlcv drops the bars of the day it began on, and later ones.
Wanted(w, reply) ==
    IF w = "update" THEN Only(reply, 0..(job[w].asof - 1)) ELSE reply

Receive(w, reply) ==
    job' = [job EXCEPT ![w] =
              IF DOMAIN Wanted(w, reply) = {} THEN Idle
              ELSE Holds("upsert", Wanted(w, reply))]

\* Up to yesterday, or with today's bar as it stands.
Fetch(w) ==
    /\ job[w].pc = "fetch"
    /\ \E h \in {today - 1, today} : Receive(w, Reply(w, h))
    /\ UNCHANGED <<today, file, temp, backfills, faults, skipped>>

\* Yesterday is not published yet: absent, or a placeholder without prices.
FetchLate(w) ==
    /\ job[w].pc = "fetch"
    /\ Fault
    /\ LET reply == Reply(w, today - 2)
           blank == [Reply(w, today - 1) EXCEPT ![today - 1] = "no price"]
       IN \/ Receive(w, reply)
          \/ DOMAIN blank # DOMAIN reply /\ Receive(w, blank)
    /\ UNCHANGED <<today, file, temp, backfills, skipped>>

FetchFails(w) ==
    /\ job[w].pc = "fetch"
    /\ Fault
    /\ job' = [job EXCEPT ![w] = Idle]
    /\ UNCHANGED <<today, file, temp, backfills, skipped>>

(***************************************************************************)
(* upsert_bars.                                                            *)
(***************************************************************************)
\* Mutant of Storable: placeholders are stored.
StorableKeepsBlank(rows) == Only(rows, 0..(today - 1))

\* _drop_priceless and _drop_forming, by the clock at the moment of storing.
Storable(rows) ==
    Only(rows, {d \in DOMAIN rows : rows[d] # "no price" /\ d < today})

\* Nothing left to store, or a stored file that cannot be read, ends the job.
Upsert(w) ==
    /\ job[w].pc = "upsert"
    /\ LET frame == Storable(job[w].rows) IN
       job' = [job EXCEPT ![w] =
                 IF DOMAIN frame = {} \/ file.state \in {"torn", "mixed"}
                 THEN Idle ELSE Holds("open", Merged(frame, file.rows))]
    /\ UNCHANGED <<today, file, temp, backfills, faults, skipped>>

(***************************************************************************)
(* _write_frame_atomic.                                                    *)
(***************************************************************************)
\* Mutant of OpenTemp: the series file itself is written.
OpenInPlace(w) ==
    /\ job[w].pc = "open"
    /\ file' = [state |-> "torn", rows |-> NoRows, open |-> {w}]
    /\ temp' = NoFile
    /\ job' = [job EXCEPT ![w].pc = "write"]
    /\ UNCHANGED <<today, backfills, faults, skipped>>

\* Opening truncates; an existing temp keeps whoever else has it open.
OpenTemp(w) ==
    /\ job[w].pc = "open"
    /\ temp' = [state |-> IF temp.open = {} THEN "torn" ELSE "mixed",
                rows |-> NoRows, open |-> temp.open \cup {w}]
    /\ job' = [job EXCEPT ![w].pc = "write"]
    /\ UNCHANGED <<today, file, backfills, faults, skipped>>

\* What f may hold once w has written its rows, flushed them and closed.  The
\* last of several writers may or may not have overwritten all of the others.
Closing(f, w) ==
    LET rest == f.open \ {w} IN
    IF w \notin f.open THEN {f}
    ELSE (IF f.state = "mixed" THEN {[f EXCEPT !.open = rest]} ELSE {}) \cup
         (IF f.state = "torn" \/ rest = {}
          THEN {[state |-> "whole", rows |-> job[w].rows, open |-> rest]}
          ELSE {})

FinishWrite(w) ==
    /\ job[w].pc = "write"
    /\ file' \in Closing(file, w)
    /\ temp' \in Closing(temp, w)
    /\ job' = [job EXCEPT ![w] = Holds("replace", NoRows)]
    /\ UNCHANGED <<today, backfills, faults, skipped>>

\* The rename takes whatever is at the temp path.  Another writer's clean-up
\* may have removed it, which raises.
Replace(w) ==
    /\ job[w].pc = "replace"
    /\ IF temp.state = "none"
       THEN job' = [job EXCEPT ![w] = Idle] /\ UNCHANGED <<file, temp, skipped>>
       ELSE /\ file' = temp
            /\ temp' = NoFile
            /\ job' = [job EXCEPT ![w].pc = "clean"]
            /\ skipped' = IF w = "backfill" /\ DOMAIN temp.rows # {}
                          THEN Holes(temp.rows) ELSE skipped
    /\ UNCHANGED <<today, backfills, faults>>

\* The `finally`: whatever is at the temp path now is unlinked.
Clean(w) ==
    /\ job[w].pc = "clean"
    /\ temp' = NoFile
    /\ job' = [job EXCEPT ![w] = Idle]
    /\ UNCHANGED <<today, file, backfills, faults, skipped>>

Abandoned(f, w) == [f EXCEPT !.open = @ \ {w}]

WriteRaises(w) ==
    /\ job[w].pc \in {"write", "replace"}
    /\ Fault
    /\ temp' = NoFile
    /\ file' = Abandoned(file, w)
    /\ job' = [job EXCEPT ![w] = Idle]
    /\ UNCHANGED <<today, backfills, skipped>>

\* Killed anywhere: the temp stays behind.
Killed(w) ==
    /\ job[w] # Idle
    /\ Fault
    /\ temp' = Abandoned(temp, w)
    /\ file' = Abandoned(file, w)
    /\ job' = [job EXCEPT ![w] = Idle]
    /\ UNCHANGED <<today, backfills, skipped>>

-----------------------------------------------------------------------------
Work(w) == \/ Fetch(w) \/ Upsert(w)
           \/ OpenTemp(w) \/ FinishWrite(w) \/ Replace(w) \/ Clean(w)

Fails(w) == FetchLate(w) \/ FetchFails(w) \/ WriteRaises(w) \/ Killed(w)

Next == \/ DayTick
        \/ BeginUpdate
        \/ \E s \in Days, e \in Days \cup {MaxDay + 1} : BeginBackfill(s, e)
        \/ \E w \in Writers : Work(w) \/ Fails(w)

Spec == Init /\ [][Next]_vars

\* Days pass, cron starts the update every night, and a process that runs
\* takes its next step.  No operator has to backfill anything.
Fairness ==
    /\ WF_vars(DayTick)
    /\ WF_vars(BeginUpdate \/ Work("update"))
    /\ WF_vars(Work("backfill"))

FairSpec == Spec /\ Fairness

-----------------------------------------------------------------------------
Rows == UNION {[D -> {"forming", "settled", "no price"}] : D \in SUBSET Days}
File == [state : {"none", "torn", "mixed", "whole"}, rows : Rows,
         open : SUBSET Writers]
Job == [pc : {"idle", "fetch", "upsert", "open", "write", "replace", "clean"},
        asof : 0..(MaxDay + 1), from : 0..(MaxDay + 1), to : 0..(MaxDay + 1),
        rows : Rows]
Priced(rows) == \A d \in DOMAIN rows : rows[d] # "no price"

\* Every variable is of its type, and past the store's filters every row has a
\* price (storage.py:201-243).
TypeOK ==
    /\ today \in 2..(MaxDay + 1)
    /\ file \in File /\ Priced(file.rows)
    /\ temp \in File /\ Priced(temp.rows)
    /\ job \in [Writers -> Job]
    /\ \A w \in Writers : job[w].pc \in {"open", "write"} => Priced(job[w].rows)
    /\ backfills \in 0..MaxBackfills /\ faults \in 0..MaxFaults
    /\ skipped \subseteq Days

\* "The destination only ever holds a complete file", whatever kills a writer
\* and when (storage.py:51-54).  It takes one writer at a time.
WholeFile == file.state \in {"none", "whole"}

\* Every change of the file is one atomic merge of a range of days
\* (storage.py:120-128): nothing stored is lost, and no settled bar is replaced
\* by one that was still forming.
Stored == INSTANCE Table WITH rows <- file.rows
ImplementsTable == Stored!Spec

\* The incremental update never stores a forming bar, even when its fetch and
\* its write lie on different days (storage.py:416-440).
UpdateStoresOnlySettled ==
    [][job["update"].pc = "replace" =>
         \A d \in DOMAIN file'.rows :
           file'.rows[d] = "forming" =>
             d \in DOMAIN file.rows /\ file.rows[d] = "forming"]_vars

\* Once a series is seeded, every later day that passes is stored settled, the
\* forming bar of a backfill and the placeholder of a late source included,
\* unless a backfill has put a later day above it (storage.py:403-415).
DayArrives ==
    \A d \in Days :
        (\E e \in DOMAIN file.rows : e <= d) ~>
            (~Unsettled(file.rows, d) \/ d \in skipped)

-----------------------------------------------------------------------------
(***************************************************************************)
(* The inductive invariant behind WholeFile, ImplementsTable and           *)
(* UpdateStoresOnlySettled while writers take turns (BarsProofs).          *)
(***************************************************************************)
TakeTurns == \A v, w \in Writers : job[v] # Idle /\ job[w] # Idle => v = w

\* The series file is never open; the temp is open exactly while its one
\* writer writes it, and complete when it is renamed.
WholeInv ==
    /\ file.state \in {"none", "whole"} /\ file.open = {}
    /\ file.state = "whole" => DOMAIN file.rows # {}
    /\ \A w \in Writers :
         /\ w \in temp.open => job[w].pc = "write"
         /\ job[w].pc = "write" => temp.state = "torn" /\ temp.open = {w}
         /\ job[w].pc = "replace" => temp.state = "whole" /\ temp.open = {}

\* A bar is called settled only when its day is over.
PastOnly(rows) == \A d \in DOMAIN rows : rows[d] = "settled" => d < today

PastInv ==
    /\ PastOnly(file.rows) /\ PastOnly(temp.rows)
    /\ \A w \in Writers : PastOnly(job[w].rows)
    /\ job["update"].asof <= today

\* What was fetched is a range of days with at most its last one unpriced.
Gapless(rows) ==
    \E a, b \in 0..(MaxDay + 1) :
      /\ DOMAIN rows = a..b
      /\ \A d \in a..b : rows[d] = "no price" => d = b

\* new is what merging a range of days into old makes of it.
Extends(old, new) ==
    /\ \E a, b \in Days :
         /\ a <= b
         /\ \E frame \in [a..b -> {"forming", "settled"}] :
              new = [d \in DOMAIN old \cup (a..b) |->
                       IF d \in a..b THEN frame[d] ELSE old[d]]
    /\ \A d \in Days : ~Unsettled(old, d) => ~Unsettled(new, d)

NoNewForming(old, new) ==
    \A d \in DOMAIN new :
      new[d] = "forming" => d \in DOMAIN old /\ old[d] = "forming"

\* What w carries still fits the file it will replace.
Fits(w) ==
    /\ job[w].pc = "upsert" =>
         /\ Gapless(job[w].rows)
         /\ \A d \in DOMAIN job[w].rows :
              job[w].rows[d] = "forming" =>
                w = "backfill" /\ Unsettled(file.rows, d)
    /\ job[w].pc \in {"open", "write"} =>
         /\ Extends(file.rows, job[w].rows)
         /\ w = "update" => NoNewForming(file.rows, job[w].rows)
    /\ job[w].pc = "replace" =>
         /\ Extends(file.rows, temp.rows)
         /\ w = "update" => NoNewForming(file.rows, temp.rows)

FrameInv == \A w \in Writers : Fits(w)

IndInv == TypeOK /\ TakeTurns /\ WholeInv /\ PastInv /\ FrameInv
=============================================================================
