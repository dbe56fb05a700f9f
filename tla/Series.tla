------------------------------- MODULE Series --------------------------------
(***************************************************************************)
(* A scalar series of several metrics and an events calendar: the source,  *)
(* the page walk of qde/ingest/base.py, and the files that the series and  *)
(* events halves of qde/storage.py keep.  The steps are parameterised by   *)
(* where a job stands; Nightly says who takes them.                        *)
(*                                                                         *)
(* Days are 1..MaxDay.  An observation is 0 (none), 1 (first print) or 2   *)
(* (revised).  All metrics of a market share their report dates, and each  *)
(* has a file of its own.  A page holds one day.                           *)
(***************************************************************************)
EXTENDS Integers, FiniteSets

CONSTANTS
    NMetrics,    \* columns of the frame, written in this order
    MaxDay,      \* bound: the last day of the run
    MaxVintages, \* bound: prints of the one calendar event
    MaxChanges,  \* bound: revisions, withdrawals and late observations
    MAX_PAGES    \* of load_native

ASSUME SeriesAssumption ==
    /\ {NMetrics, MaxDay, MaxVintages, MAX_PAGES} \subseteq Nat \ {0}
    /\ MaxChanges \in Nat

Metrics == 1..NMetrics
Days == 1..MaxDay
Column == [Days -> 0..2]
Frame == [Metrics -> Column]
Empty == [m \in Metrics |-> [d \in Days |-> 0]]

VARIABLES
    today,
    served,    \* source: what it answers with now
    vintages,  \* source: prints of the event so far
    changes,
    late,      \* history: days it published out of order
    walk,      \* load_native: where it is and what it has
    stored,    \* series.parquet of each metric
    calendar,  \* events.parquet: the revision_seq numbers held
    torn       \* history: a writer was killed between two metrics, not repaired

source == <<today, served, vintages, changes, late>>
files == <<stored, calendar, torn>>

Held(column) == {d \in Days : column[d] # 0}
Latest(days) == IF days = {} THEN 0 ELSE CHOOSE d \in days : \A e \in days : e <= d
Earliest(days) == CHOOSE d \in days : \A e \in days : d <= e

\* load_series_local joins the metrics: a date is there if any metric has it.
Dates(frame) == UNION {Held(frame[m]) : m \in Metrics}

\* Every metric has the same dates.
Aligned(frame) == \A m \in Metrics : Held(frame[m]) = Dates(frame)

\* series_watermark, for a series with metric partitions.
Watermark == Latest(Dates(stored))

-----------------------------------------------------------------------------
(***************************************************************************)
(* The source, which nobody waits for.                                     *)
(***************************************************************************)
Tick == /\ today < MaxDay /\ today' = today + 1
        /\ UNCHANGED <<served, vintages, changes, late>>

\* The day's observation, on the day.
Publish ==
    /\ served[1][today] = 0 /\ today \notin late
    /\ served' = [m \in Metrics |-> [served[m] EXCEPT ![today] = 1]]
    /\ UNCHANGED <<today, vintages, changes, late>>

Change == changes < MaxChanges /\ changes' = changes + 1

PublishLate ==
    /\ Change
    /\ \E d \in 1..(today - 1) :
         /\ served[1][d] = 0
         /\ served' = [m \in Metrics |-> [served[m] EXCEPT ![d] = 1]]
         /\ late' = late \cup {d}
    /\ UNCHANGED <<today, vintages>>

Revise ==
    /\ Change
    /\ \E m \in Metrics, d \in Days :
         served[m][d] = 1 /\ served' = [served EXCEPT ![m][d] = 2]
    /\ UNCHANGED <<today, vintages, late>>

Withdraw ==
    /\ Change
    /\ \E d \in Dates(served) :
         /\ served' = [m \in Metrics |-> [served[m] EXCEPT ![d] = 0]]
         /\ late' = late \cup {d}
    /\ UNCHANGED <<today, vintages>>

\* (Prints before the calendar is seeded are one print to it.)
Reprint ==
    /\ calendar # {} /\ vintages < MaxVintages /\ vintages' = vintages + 1
    /\ UNCHANGED <<today, served, changes, late>>

SourceStep == Tick \/ Publish \/ PublishLate \/ Revise \/ Withdraw \/ Reprint

-----------------------------------------------------------------------------
(***************************************************************************)
(* load_native: pages until the cursor is None, here 0.                    *)
(***************************************************************************)
NoWalk == [cursor |-> 0, seen |-> {}, rows |-> Empty, source |-> "honest"]

Begin(from) == walk' = [NoWalk EXCEPT !.cursor = from]

\* A source may lose its way: it walks in a circle, or hands out new cursors for ever.
Manners == {"honest", "circles", "endless"}

NextCursor(manner) ==
    CASE manner = "honest"  -> IF walk.cursor < today THEN walk.cursor + 1 ELSE 0
      [] manner = "circles" -> IF walk.cursor - 1 \in walk.seen THEN walk.cursor - 1
                               ELSE walk.cursor + 1
      [] manner = "endless" -> walk.cursor + 1

Exhausted == walk.cursor = 0
Stalled == walk.cursor \in walk.seen
TooLong == Cardinality(walk.seen) >= MAX_PAGES

Turn(manner) ==
    walk' = [cursor |-> NextCursor(manner),
             seen |-> walk.seen \cup {walk.cursor},
             rows |-> [m \in Metrics |->
                         IF walk.cursor \in Days
                         THEN [walk.rows[m] EXCEPT ![walk.cursor] =
                                 served[m][walk.cursor]]
                         ELSE walk.rows[m]],
             source |-> manner]

\* One turn of the loop.  (Mutants: a cursor it had is not looked for; the pages
\* are not counted.)
FetchPageAgain(manner) == ~Exhausted /\ ~TooLong /\ Turn(manner)
FetchPageUncounted(manner) == ~Exhausted /\ ~Stalled /\ Turn(manner)
FetchPage(manner) == ~Exhausted /\ ~Stalled /\ ~TooLong /\ Turn(manner)

-----------------------------------------------------------------------------
(***************************************************************************)
(* The files.                                                              *)
(***************************************************************************)
\* update_series: the day after the watermark.  (Mutant: the day after that.)
NextDayLater == Watermark + 2
NextDay == Watermark + 1

Merged(old, new) == [d \in Days |-> IF new[d] # 0 THEN new[d] ELSE old[d]]

\* upsert_series, for one metric of upsert_series_frame.
UpsertSeries(m) ==
    /\ stored' = [stored EXCEPT ![m] = Merged(stored[m], walk.rows[m])]
    /\ UNCHANGED calendar

\* upsert_events: the whole history of the event, on top of what is held.
\* (Mutant: the newest print only.)
UpsertNewest == calendar' = calendar \cup {vintages - 1}
UpsertEvents == calendar' = calendar \cup 0..(vintages - 1)

InitSeries ==
    /\ today = 1 /\ served = Empty /\ vintages = 1 /\ changes = 0 /\ late = {}
    /\ walk = NoWalk
    /\ stored = Empty /\ calendar = {} /\ torn = FALSE

SeriesTypeOK ==
    /\ today \in Days /\ served \in Frame /\ vintages \in 1..MaxVintages
    /\ changes \in 0..MaxChanges /\ late \subseteq Days
    /\ walk \in [cursor : 0..(MaxDay + 1 + MAX_PAGES) \cup Metrics,
                seen : SUBSET Nat, rows : Frame, source : Manners]
    /\ stored \in Frame /\ calendar \subseteq 0..(MaxVintages - 1)
    /\ torn \in BOOLEAN
=============================================================================
