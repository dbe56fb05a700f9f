------------------------------- MODULE Nightly -------------------------------
(***************************************************************************)
(* The passes over the series and events of a lake: the nightly update     *)
(* (qde/daily_update.py), the weekly verification (qde/weekly_verify.py),  *)
(* a backfill by hand (qde/backfill.py), and the history that the first    *)
(* two keep of what they found (qde/dq_history.py).  One pass runs at a    *)
(* time; the source changes under it, and it may be killed anywhere.       *)
(*                                                                         *)
(* A finding is the pair of its check and its severity and detail.         *)
(***************************************************************************)
EXTENDS Series, Sequences

CONSTANTS
    MaxPasses,   \* bound: nightlies, weeklies and backfills
    MaxFaults    \* bound: kills, failed fetches and writes, lost sources

ASSUME NightlyAssumption == MaxPasses \in Nat /\ MaxFaults \in Nat

VARIABLES
    job, pc,   \* the pass, and where it stands
    pass,      \* the number of passes begun; a pass's run_ts
    findings,  \* its violations, in order
    date,      \* run_date, taken once
    runs,      \* dq_runs: a row per pass, with its day
    rows,      \* dq_violations: a row per finding, with its day
    ended,     \* history: what the passes that came to an end had found, and
               \* whether record_run kept it
    corrupt,   \* history: days of which a history file was half written
    faults

history == <<date, runs, rows, ended, corrupt>>
V == INSTANCE Verify

vars == <<today, served, vintages, changes, late, walk, stored, calendar, torn,
          job, pc, pass, findings, date, runs, rows, ended, corrupt, faults>>

Found(check, severity, detail) ==
    [check |-> check, severity |-> severity, detail |-> detail]

-----------------------------------------------------------------------------
(***************************************************************************)
(* The checks.                                                             *)
(***************************************************************************)
\* _settled: the days before today, if there are two.
Settled == {d \in Dates(stored) : d < today}

\* series_self_consistency.  A value that is missing on either side is not
\* compared.  (Mutant: the first metric stands for all.)
RevisedFirst(again) ==
    {d \in Settled : stored[1][d] # 0 /\ again[1][d] # 0 /\ stored[1][d] # again[1][d]}
Revised(again) ==
    {d \in Settled : \E m \in Metrics :
        stored[m][d] # 0 /\ again[m][d] # 0 /\ stored[m][d] # again[m][d]}

When(condition, finding) == IF condition THEN <<finding>> ELSE <<>>
Said(severity, detail) == Found("self_consistency", severity, detail)

\* Too little to compare passes in silence.
SelfConsistency(again) ==
    LET inside == {d \in Dates(again) :
                     Earliest(Settled) <= d /\ d <= Latest(Settled)}
    IN IF Cardinality(Settled) < 2 THEN <<>>
       ELSE When(Settled \ Dates(again) # {}, Said("error", "dropped history"))
            \o When(inside \ Settled # {}, Said("warn", "back-filled history"))
            \o When(Revised(again) # {}, Said("warn", "revised"))

Unverified == <<Said("warn", "could not re-fetch")>>

\* verify_frame on the frame of an update.
Intake(defects) ==
    LET found == V!VerifyFrame(defects, "series")
    IN When(found # {}, Found("contract", IF V!Errors(found) # {} THEN "error" ELSE "warn",
                              "as it arrived"))

\* run_events_checks: revision_seq is contiguous from 0.
EventsChecks ==
    When(calendar # {} /\ calendar # 0..Latest(calendar),
         Found("revision_seq", "error", "not contiguous"))

-----------------------------------------------------------------------------
(***************************************************************************)
(* A pass.                                                                 *)
(***************************************************************************)
InitNightly ==
    /\ InitSeries
    /\ job = "nightly" /\ pc = "idle" /\ pass = 0
    /\ findings = <<>> /\ date = 1
    /\ runs = {} /\ rows = {} /\ ended = {} /\ corrupt = {}
    /\ faults = 0

Goes(to) == pc' = to
Fault == faults < MaxFaults /\ faults' = faults + 1
Keeps == UNCHANGED <<job, pass>>

\* run() of either pass lists the stored series; an empty lake has none.
Start ==
    /\ pc = "idle" /\ pass < MaxPasses /\ pass' = pass + 1
    /\ findings' = <<>>
    /\ \E j \in {"nightly", "weekly", "backfill"} :
         /\ job' = j
         /\ \/ j = "backfill" /\ Begin(1) /\ Goes("load")
            \/ /\ j # "backfill" /\ Dates(stored) = {}
               /\ UNCHANGED walk /\ Goes(IF j = "nightly" THEN "events" ELSE "record")
            \/ /\ j = "nightly" /\ Dates(stored) # {}
               /\ Begin(NextDay) /\ Goes("load")
            \/ /\ j = "weekly" /\ Dates(stored) # {}
               /\ IF Cardinality(Settled) < 2 THEN UNCHANGED walk /\ Goes("record")
                  ELSE Begin(Earliest(Settled)) /\ Goes("load")
    /\ UNCHANGED <<source, files, history, faults>>

\* A turn of load_native; the source may lose its way, and stays lost.
Load ==
    /\ pc = "load"
    /\ \/ FetchPage(walk.source) /\ UNCHANGED faults
       \/ \E manner \in Manners \ {"honest"} :
            walk.source = "honest" /\ Fault /\ FetchPage(manner)
    /\ Keeps /\ UNCHANGED <<source, files, history, pc, findings>>

After == CASE job = "nightly" -> "events" [] job = "weekly" -> "record"
           [] job = "backfill" -> "idle"

\* The load raised.  The nightly and the backfill go on to the next thing; the
\* weekly says that it does not know.
Raise ==
    /\ Goes(After)
    /\ findings' = IF job = "weekly" THEN Unverified ELSE findings
    /\ walk' = NoWalk
    /\ Keeps /\ UNCHANGED <<source, files, history>>

LoadFails == pc = "load" /\ ~Exhausted /\ Fault /\ Raise
LoadRefuses ==
    pc = "load" /\ ~Exhausted /\ (Stalled \/ TooLong) /\ UNCHANGED faults /\ Raise

\* NoNewData: benign to the nightly, a failure to the others.
LoadEmpty ==
    /\ pc = "load" /\ Exhausted /\ Dates(walk.rows) = {}
    /\ IF job # "nightly" THEN Raise
       ELSE /\ Goes(After) /\ walk' = NoWalk
            /\ Keeps /\ UNCHANGED <<source, files, history, findings>>
    /\ UNCHANGED faults

Loaded ==
    /\ pc = "load" /\ Exhausted /\ Dates(walk.rows) # {} /\ job # "weekly"
    /\ Goes("write") /\ walk' = [walk EXCEPT !.cursor = 1]
    /\ \/ UNCHANGED <<findings, faults>>
       \/ job = "nightly" /\ Fault /\ findings' = Intake({"unparseable"})
    /\ Keeps /\ UNCHANGED <<source, files, history>>

Verify ==
    /\ pc = "load" /\ Exhausted /\ Dates(walk.rows) # {} /\ job = "weekly"
    /\ findings' = SelfConsistency(walk.rows)
    /\ Goes(After) /\ walk' = NoWalk
    /\ Keeps /\ UNCHANGED <<source, files, history, faults>>

\* upsert_series_frame writes its metrics one by one; the cursor counts them.
\* A backfill repairs what a killed writer left, unless the source has withdrawn
\* a day since that some metrics have.
Write ==
    /\ pc = "write" /\ UpsertSeries(walk.cursor)
    /\ IF walk.cursor = NMetrics
       THEN /\ Goes(After) /\ walk' = NoWalk
            /\ torn' = (torn /\ ~(job = "backfill" /\ Aligned(stored')))
       ELSE walk' = [walk EXCEPT !.cursor = @ + 1] /\ UNCHANGED <<torn, pc>>
    /\ Keeps /\ UNCHANGED <<source, history, findings, faults>>

\* update_events, which fetches and merges in one go.
Events ==
    /\ pc = "events" /\ Goes("checks")
    /\ IF calendar = {} THEN UNCHANGED calendar ELSE UpsertEvents
    /\ Keeps
    /\ UNCHANGED <<source, walk, stored, torn, history, findings, faults>>

EventsFail ==
    /\ pc = "events" /\ calendar # {} /\ Fault /\ Goes("checks")
    /\ Keeps /\ UNCHANGED <<source, walk, files, history, findings>>

\* backfill_events_group seeds the calendar.
SeedEvents ==
    /\ pc = "idle" /\ pass < MaxPasses /\ pass' = pass + 1
    /\ UpsertEvents
    /\ UNCHANGED <<source, walk, stored, torn, job, pc, findings, history, faults>>

Checks ==
    /\ pc = "checks" /\ Goes("record")
    /\ findings' = findings \o EventsChecks
    /\ Keeps /\ UNCHANGED <<source, walk, files, history, faults>>

-----------------------------------------------------------------------------
(***************************************************************************)
(* record_run.                                                             *)
(***************************************************************************)
OfDay(table, day) == {r \in table : r.day = day}

\* A history file is written in place, and what is half written is not read back.
HalfRuns == corrupt' = corrupt \cup {today} /\ runs' = runs \ OfDay(runs, today)
HalfRows == corrupt' = corrupt \cup {date} /\ rows' = rows \ OfDay(rows, date)

Ended(day, kept) == [ts |-> pass, day |-> day, found |-> findings, kept |-> kept]

RunRow ==
    [ts |-> pass, cadence |-> job, n |-> Len(findings), day |-> today]

\* _merge: of the rows of one run with the same check, the last stays, once
\* the day has a file.
Key(row) == <<row.ts, row.check>>
Row(i) == [ts |-> pass, cadence |-> job, day |-> date, at |-> i,
           check |-> findings[i].check, severity |-> findings[i].severity]
Merge(held, fresh) ==
    LET all == held \cup fresh
    IN IF held = {} THEN fresh
       ELSE {r \in all : \A q \in all : Key(q) = Key(r) => q.at <= r.at}

\* The run row first, always; then the findings, if any.  (Mutant: a clean run
\* is not worth a row.)
RecordRunIfFound ==
    /\ pc = "record" /\ Goes("record rows") /\ date' = today
    /\ runs' = IF findings = <<>> THEN runs ELSE runs \cup {RunRow}
    /\ Keeps
    /\ UNCHANGED <<source, walk, files, findings, rows, ended, corrupt, faults>>

RecordRun ==
    /\ pc = "record" /\ Goes("record rows") /\ date' = today
    /\ runs' = runs \cup {RunRow}
    /\ Keeps
    /\ UNCHANGED <<source, walk, files, findings, rows, ended, corrupt, faults>>

RecordRows ==
    /\ pc = "record rows" /\ Goes("idle")
    /\ LET fresh == {Row(i) : i \in DOMAIN findings}
           held == OfDay(rows, date)
       IN rows' = IF fresh = {} THEN rows ELSE (rows \ held) \cup Merge(held, fresh)
    /\ ended' = ended \cup {Ended(date, TRUE)}
    /\ Keeps
    /\ UNCHANGED <<source, walk, files, findings, date, runs, corrupt, faults>>

\* Either file could not be written, or not wholly: both passes log that and
\* go on to their end, and what was found is kept nowhere.
RecordRunFails ==
    /\ pc = "record" /\ Fault /\ Goes("idle") /\ date' = today
    /\ HalfRuns \/ UNCHANGED <<runs, corrupt>>
    /\ ended' = ended \cup {Ended(today, FALSE)}
    /\ Keeps
    /\ UNCHANGED <<source, walk, files, findings, rows>>

RecordRowsFail ==
    /\ pc = "record rows" /\ findings # <<>> /\ Fault /\ Goes("idle")
    /\ HalfRows \/ UNCHANGED <<rows, corrupt>>
    /\ ended' = ended \cup {Ended(date, FALSE)}
    /\ Keeps
    /\ UNCHANGED <<source, walk, files, findings, date, runs>>

-----------------------------------------------------------------------------
\* The process dies.  A frame goes to a file by rename.
Killed ==
    /\ pc # "idle" /\ Fault /\ Goes("idle") /\ walk' = NoWalk
    /\ torn' = (torn \/ (pc = "write" /\ walk.cursor > 1))
    /\ \/ UNCHANGED <<runs, rows, corrupt>>
       \/ pc = "record" /\ HalfRuns /\ UNCHANGED rows
       \/ pc = "record rows" /\ findings # <<>> /\ HalfRows /\ UNCHANGED runs
    /\ Keeps
    /\ UNCHANGED <<source, stored, calendar, findings, date, ended>>

PassStep ==
    \/ Load \/ LoadFails \/ LoadRefuses \/ LoadEmpty \/ Loaded \/ Verify \/ Write
    \/ Events \/ EventsFail \/ Checks
    \/ RecordRun \/ RecordRunFails \/ RecordRows \/ RecordRowsFail

Next ==
    \/ SourceStep /\ UNCHANGED <<walk, files, job, pc, pass, findings, history, faults>>
    \/ Start \/ SeedEvents \/ PassStep \/ Killed

Spec == InitNightly /\ [][Next]_vars

\* Every request has a timeout, so a pass that runs takes its next step.
FairSpec == Spec /\ WF_vars(PassStep)

-----------------------------------------------------------------------------
\* Type invariant.
TypeOK ==
    /\ SeriesTypeOK
    /\ job \in {"nightly", "weekly", "backfill"}
    /\ pc \in {"idle", "load", "write", "events", "checks", "record", "record rows"}
    /\ pass \in 0..MaxPasses /\ faults \in 0..MaxFaults
    /\ \A r \in runs \cup rows : r.ts \in 1..pass /\ r.day \in Days
    /\ date \in Days /\ corrupt \subseteq Days

\* A day below the watermark that a metric does not have, while the source has
\* it, came out of order, or a writer was killed between two metrics: the one
\* watermark and the one fetch of update_series skip nothing themselves.
NothingSkipped ==
    pc # "write" /\ ~torn =>
    \A m \in Metrics, d \in 1..Watermark :
        served[m][d] # 0 /\ stored[m][d] = 0 => d \in late

\* The calendar holds every print of an event up to some print: a refresh that
\* failed, or was late, leaves no hole in revision_seq (update_events).
PrintsContiguous == calendar = {} \/ calendar = 0..Latest(calendar)

\* A weekly pass that found nothing, and had two settled days to look at, saw
\* every settled value as its source has it now, in every metric, if the source
\* has been quiet since and no writer was killed between two metrics.
CleanWeekIsTrue ==
    [][Verify /\ findings' = <<>> /\ ~torn =>
        \A m \in Metrics, d \in Settled : stored[m][d] = walk.rows[m][d]]_vars

\* A pass that came to its end, and whose record_run did not raise, has its run
\* row, so that a clean one and one that never ran differ, and a row for every
\* check that found something, however often the day's files were merged since;
\* and every violation row has the row of its run.  Except on a day of which a
\* history file was half written.
EveryPassRecorded ==
    /\ \A e \in ended : e.kept /\ e.day \notin corrupt =>
         /\ \E r \in runs : r.ts = e.ts
         /\ \A i \in DOMAIN e.found :
              \E v \in rows : v.ts = e.ts /\ v.check = e.found[i].check
    /\ \A v \in rows : v.day \notin corrupt => \E r \in runs : r.ts = v.ts

\* No source keeps a pass from ending, whatever cursors it hands out.
PassEnds == []<>(pc = "idle")
=============================================================================
