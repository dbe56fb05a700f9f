# Verification of quant-data-engine in TLA+

quant-data-engine captures market microstructure over WebSockets, keeps batch
bars, series and events beside it in a Parquet lake, and every night compacts,
updates, ships, publishes and, once a week, verifies that lake; new ingestors are
drafted by a language model and judged before anyone promotes them. The modules in
this directory model the parts in which several processes, crashes, retries and
doubtful sources meet. TLC checks them on small instances, and TLAPS proves every
safety property and every refinement that TLC checks for all instances.

Paths below are relative to the repository root; `qde/` stands for `src/qde/`.

## 1. The system

### Parts, state, operations

| part | state it keeps | operations |
|---|---|---|
| stream collector (`qde/stream/collector.py`, `__main__.py`) | row buffers per (kind, symbol), sequence positions, outage marker, overlap floor, one or two sockets | connect, read, reconnect, overlapped handover, close-then-reopen, timer flush, snapshots, stop |
| sequence tracker (`qde/stream/gaps.py`) | last id per stream | `check`, `reset`, `positions`; builds gap, handover and session records |
| venue adapters, parsers (`qde/stream/venues/`, `parsers.py`) | none | route a frame to (kind, row), name the id used to discard duplicates, declare streams without one |
| compaction (`qde/compact.py`) | part files and a temp per partition | recover a left-over temp, merge parts, unlink originals, rename |
| sync (`qde/sync.py`) | objects in the private bucket | `sync_bronze`: upload, compare sizes, prune; `publish_bars`, `publish_series`, `publish_events`, `publish_gold`: mirror with overwrite |
| maintenance (`scripts/maintain.sh`, `scripts/weekly_verify.sh`, `orchestration/`) | none of its own | compaction, update, dbt, sync, publish in order, some steps allowed to fail |
| request budget (`qde/loaders/budget.py`) and HTTP (`qde/loaders/http.py`) | one ledger file per metered source, shared by every process | reserve, count, prune, admit or refuse; request with retries |
| storage (`qde/storage.py`) | one Parquet file per bar, data or event series | atomic frame write, keyed upsert, watermark, forming and priceless bars dropped, event revisions |
| backfill and nightly update (`qde/backfill.py`, `qde/daily_update.py`) | none | fetch a range or what is newer than the watermark, upsert, go on past a failing series |
| ingestors (`qde/ingest/`, `qde/loaders/`) | pagination cursor, rows so far | the page loop with its stall and page-count guards, per-source fetch and normalise |
| registry (`qde/registry/`) | none (static) | the declared sources, limits, symbols |
| checks and history (`qde/checks.py`, `host.py`, `quality.py`, `dq_history.py`, `alert.py`) | daily run and violation partitions | freshness, nulls, ordering, disk; record a run; alert |
| verification (`qde/verify.py`, `weekly_verify.py`) | none | judge a frame by the contract of its group, by other sources of the symbol, by what the source says now, by the related instruments of the lake |
| publishing (`qde/publish_public.py`, `catalogue.py`, `lake.py`, `analytics.py`) | objects in the public bucket, a staging directory | upload of what is cleared and not current, merged tables, trimmed marts, server-side mirror of the streams, catalogue |
| authoring (`qde/draft.py`, `author.py`, `egress.py`, `env.py`) | candidate files, a docker network, a proxy and a candidate container | have a module written, run it through eleven stages, maybe contained, feed the report into the next attempt |
| transform, site, notebooks | none | SQL marts, static pages |

### How they interact

- Collectors and maintenance share the local disk and nothing else: no lock, no
  message. A collector writes `part-<stamp>.parquet` into the partition of the
  current UTC date; compaction and sync touch partitions of earlier dates only.
- Compaction and sync share it one after the other. `maintain.sh` runs
  compaction, goes on when it fails, runs the update (whose failure ends the
  script under `set -e`), then sync.
- Within a collector, the read loop, the flush loop and the snapshot loop are
  tasks on one event loop: state changes under another task's feet only at an
  `await`. `flush` has none.
- Processes that fetch from one source share its budget ledger by file name.
- Backfill, the nightly update and a manual run share the files of a series. The
  nightly and the weekly append what they found to one run history.
- Publishing reads the local lake, which an update may be rewriting, and for the
  streams the private bucket. What is cleared is read from the registry when a job
  begins; a new image changes it between jobs.
- Verification asks other sources for the same symbol, one after the other, each of
  which may be silent, short or wrong; drafting uses the same comparison as one of
  its stages, and runs it inside the container it judges.

### What is hard, and what makes each part right

- **Collector.** Sockets end at any await; two sockets are open during a
  handover; ids reset on reconnect; a kill takes the buffers. Right when a hole
  is never unmarked, the overlap is captured once, an outage leaves its record,
  a session's rows come with its start marker, what is buffered gets written and
  reading always resumes.
- **Compaction and sync.** A kill between any two file operations, an upload
  that half succeeded, a torn part, a temp found the next night. Right when a
  captured batch is readable somewhere at every instant, rows never show twice,
  a part being written is left alone, nothing is deleted before a copy is
  complete, everything reaches R2 and the disk empties.
- **Budget.** Read, rewrite and rename of a file others append to. Right when
  no more than the allowance is let through, every attempt is charged and no
  request is refused that the allowance still covered.
- **Storage, backfill, update.** Lost updates between writers, bars still
  forming, a watermark that freezes what was stored. Right when the file is the
  newest value per key of everything written and no unsettled bar is in it.
- **Series, events, nightly, weekly.** A frame written in several files, one
  watermark for all, a source that publishes late, revises, withdraws or loses its
  cursors. Right when nothing below the watermark is missing that the source had
  when it was due, prints have no hole, a clean week means the lake agrees with its
  source, every pass ends, and what a pass has written down stays.
- **Publishing.** Clearances that change, three kinds of object with a gate each,
  files rewritten while they are compared. Right when nothing becomes public that
  is not cleared, and a job that reports success has delivered what there was.
- **Drafting.** Peers silent at one poll and not at the next, docker calls that
  fail after they worked. Right when only whole, right frames are accepted, nobody
  is convicted on one bad peer, and nothing that listens is left behind unless docker
  itself failed to remove it.
- **Proxy tier.** Neighbours that leave the market, freeze and come back, a history
  that contains the break it is to reveal. Right when the market's moves are not
  reported and a feed's first break is.

## 2. Modules

| module | what it is |
|---|---|
| `Lake` | part files, temps and bucket objects under collectors, compaction, `sync_bronze` and `maintain.sh` |
| `Archive` | what `Lake` promises: batches are captured, archived for good, and lost only where a partition was put at risk |
| `LakeProofs` | theorems about `Lake` |
| `Collector` | one collector process, its tracker and its sockets |
| `CollectorProofs` | theorems about `Collector` |
| `Budget` | processes spending one source's hourly allowance |
| `BudgetProofs` | theorems about `Budget` |
| `Bars` | one bar series file under the nightly update and backfills |
| `Table` | what a bar series promises: atomic merges of ranges of days |
| `BarsProofs` | theorems about `Bars` |
| `Series` | the page loop, a multi-metric series and an events calendar, and their source |
| `Nightly` | the nightly, weekly and backfill passes over `Series`, their checks and the run history |
| `NightlyProofs` | theorems about `Nightly` and `Series` |
| `Verify` | the comparisons of `verify.py` as operators on abstract frames |
| `Draft` | the drafting loop, the stages of the gauntlet and the docker objects of a run |
| `DraftProofs` | theorems about `Draft` |
| `Proxy` | the proxy tier of the weekly pass over a lake of related feeds |
| `ProxyProofs` | theorems about `Proxy` |
| `Publish` | the mirrors of `sync.py` and the public publish, with the registry changing between them |
| `PublishProofs` | theorems about `Publish` |
| `MCLake`, `MCCollector`, `MCBudget`, `MCBars`, `MCNightly`, `MCDraft`, `MCProxy`, `MCPublish` | instances for TLC |

`Nightly` composes `Series` (which it extends: the steps of a pass are those of the
page loop and of the two stores) with the intake check of `Verify` and the history.
`Draft` extends `Verify`. `Lake` refines `Archive`, `Bars` refines `Table`.

### Lake

| variable | code |
|---|---|
| `parts[p]` | `part-*.parquet` in the directory of partition `p = <<stream, day>>`; a part is `torn` from opening until its writer closes |
| `temp[p]` | `.compact.tmp` of the partition |
| `bucket[p]` | the objects under the partition's keys; `short` is an object whose size differs |
| `writing` | flushes that have opened a part and not closed it |
| `clock` | the millisecond stamps that name parts: fresh, increasing |
| `phase`, `cutoff`, `queue`, `cur`, `originals`, `doomed`, `shipping` | where the nightly job stands and the locals of `compact_bronze`, `compact_partition`, `sync_bronze` |
| `captured`, `interrupted`, `uncompacted` | history: closed batches; partitions whose unlinking was cut short half-way; partitions sync met with a temp or several parts |

Every file operation that another process or a crash can separate is a step:
open and close of a part (`FlushStart`, `FlushEnd`, `FlushTorn`), recovery of a
partition (`Recover`), opening, failing, finishing a merge (`OpenMerge`,
`MergeFails`, `FinishMerge`), each `Unlink`, the `Rename`, each upload
(`UploadConfirmed`, `UploadShort`, `UploadFails`) and each `Prune`. Kills may
come between any two (`CompactionKilled`, `SyncKilled`). Rows are batches, one
per flush, named by the stamp of their part.

`Archive` has four actions, `Capture`, `Ship`, `PutAtRisk` and `Lose`; the
refinement mapping in `Lake` derives its state from files and objects. The step
`Ship` of `Archive` is irrevocable, so the mapping counts a batch as archived
only when the local file of the object's name is gone.

### Collector

Messages of a stream are numbered; the venue sends them to every open socket
(`Emit`), or drops one silently (`VenueSkips`). `ws` and `succ` are the socket
being read and the successor of an overlapped handover, with the frames each
has received. `pc` is where `run()` stands: `down`, `connect`, `ritual`, `read`,
`recycle` and `handover` (a connection found old enough), `drain`. `last` is the
tracker, `floor` the overlap floor, `down` the outage marker, `flusher` whether
the flush task lives. `tape[s]` is the history of everything buffered for a
stream, rows and records in order; each entry is still in the buffer, on disk,
or lost, so one variable shows what a reader will find and what is still at
risk. `missed` remembers which outage cost which stream a message.

Steps end at the code's awaits. `flush` has no await, so other tasks never see
it half done; a kill or a failing write does, and then the buffers are on disk
up to some key (`PartialFlush`, `WriteFails`). Streams are of three kinds, as
the tracker treats them: `Counted` (trades, Binance depth), `Rising`
(`book_ticker`) and `Unsequenced` (Coinbase depth). A capture that includes the
last cannot overlap connections.

### Budget

A ledger is a file with a name; pruning writes another file and moves it to
that name, and a process that opened the ledger before appends to a file no
name leads to. So `ledger` and `tmp` are the files the two names lead to and
`lines` is what each file holds. One process step per file operation: open,
append, read, truncate the temporary file, write it, replace. `reserved`,
`admitted` and `made` count what happened per hour; `lost` is the most reservations
of an hour that a process did not find in the ledger when it counted.

### Bars

`file` is the Parquet file of one daily series and `temp` the one temporary name
all its writers share; both are what the name leads to, so a writer that has a
file open goes on writing to it after a rename, and to nothing a name leads to
after an unlink (`open`). A `torn` file is still being written or was abandoned;
a `mixed` one was opened by two writers. Rows map a day to the quality of its
bar: `forming`, read before the day was over, or `settled`. `job[w]` holds where
a writer stands and the frame it carries, and with it what the code reads early
and uses late: `asof`, the date at the start of an update, and the merged rows
between the read of the file and the rename.

The update (`BeginUpdate`) reads the watermark from the rows and fetches from
that day on; a backfill (`BeginBackfill`) takes any range. `Fetch`, `FetchLate`
and `FetchFails` are the source's answers: up to today's running bar, short of
yesterday's or with a placeholder for it, or none. `Upsert` drops placeholders
and forming bars by the clock of that moment and merges; `OpenTemp`,
`FinishWrite`, `Replace` and `Clean` are `_write_frame_atomic`. Days pass at any
moment. `skipped` remembers the days a backfill left unsettled below the
watermark. `Table` has one action, `Merge`; the refinement maps its `rows` to
the rows of the file.

### Series and Nightly

| variable | code |
|---|---|
| `served`, `vintages`, `late` | the source: what it answers with now, per metric and day; prints of the one calendar event; history: days it published out of order |
| `walk` | the locals of `BaseIngestor.load_native`: cursor, cursors seen, rows so far |
| `stored[m]`, `calendar` | `series.parquet` of each metric, the revisions in `events.parquet` |
| `torn` | history: a writer was killed between two metrics |
| `job`, `pc`, `findings` | the pass that runs, where it stands, its violations |
| `runs`, `rows`, `corrupt` | `dq_runs` and `dq_violations`, and the days whose partition a killed writer left half written |

One turn of the page loop is a step (`Load`), so the source may publish, revise or
withdraw between two pages, and may begin to walk in a circle or never to end.
`Write` writes one metric; a kill between two leaves the others behind the
watermark. The nightly goes on past a load that raised, the weekly records that it
could not verify, the backfill stops. `RecordRun` and `RecordRows` are the two
partitions of `dq_history`, each read, merged by key and rewritten in place. Either
write may raise (`RecordRunFails`, `RecordRowsFail`), before it has touched the file
or half-way; the pass logs that and ends. `ended` remembers of each pass whether its
rows were written (`kept`).

### Verify and Draft

A frame is what its closes quote (the instrument, adjusted, in other units, an
earlier month, another instrument) and how many rows it has. That is what the
comparisons can tell apart: `LevelsAgree` is the median difference, `SameMoves` the
correlation of returns, `Trend` the drift of the ratio. `CrossCheck` asks the peers
in order until one is decisive, `Adjudicate` asks again; `VerifyFrame` is the
contract of a group as a set of rules.

`Draft` has the loop of `author()` and one `run_gauntlet` per attempt: the screen,
the three docker calls that build the contained network, the run of the stages, the
two calls that take it down, the judgement. Each call may fail after it worked, so
`left` is what docker still holds. The two removals are run with `check=False`: one
that fails is not noticed (`RemoveProxyFails`, `RemoveNetworkFails`), one that times
out replaces the report; a proxy that survives its removal is the `orphan`. A run
may meet one trouble: a pull that raises, peers silent at some of the polls, or a
proxy log that has a denial in it or is not printed. A request has a page size
(`cap`, -1 when the source does not page), which decides whether pagination is
proven. A draft is a frame and a set of flaws; which
stage looks for which flaw is the model's table of the gauntlet, and what no stage
looks for is accepted in the model as well. `evidence` remembers what the last two
stages compared the frame with.

### Proxy

Time is in quarters of 90 days; the recent window of 180 days is two of them. In a
quarter a feed follows the market, moves on its own, is flat or silent. Two feeds
correlate at 90 % over the quarters in which both follow the market and at 0 over
the others, and over several quarters at the mean: a stand-in for a correlation of
returns that keeps what the tier compares (baseline against 0.75, window against
the smaller of 0.30 and the lowest window of the past), and undefined when one side
is flat throughout. `Elapse` is a quarter of nightly updates, `Pass` a weekly pass.

### Publish

| variable | code |
|---|---|
| `local[p]`, `newer` | version and size of the file of a (group, source) pair; files whose mtime is after `LastModified` of their public object |
| `pending[p]` | the temp beside the file: whether there is one, and whether a public object of the file has landed since its last write |
| `gold` | rows of the marts dbt built |
| `cleared` | `_publishable_pairs` |
| `private`, `public` | the buckets: key to rows and size; a row is a pair and the version of the file it is from |
| `staged` | `.publish-staging` |
| `job`, `todo`, `hand`, `failed` | the job, the objects it has still to come to, the upload under way, whether a failure was counted |
| `begun`, `raced` | history: the versions when the job began; files whose public object landed while a rewrite was under way, so that it may be older than the file and look younger |

A rewrite is two steps, because the mtime of a file is that of the last write to its
temp: `WriteTemp`, and `Replace`, the rename after the fsync. An upload is four, choose,
stat, open, put, and either step of a rewrite may fall between any two. Work is in the
order of `main()`: group by group, each group's merged table after its files, then the
quality history, marts and catalogue. Streamed objects exist in the private bucket only
and are copied there by key.

## 3. What TLC runs

| run | instance | asks |
|---|---|---|
| `lake` | one stream, two days, three flushes, two faults; 38 000 states | types, `Preserved`, `OneCopyEach`, `DeletedOnlyWithCopy`, `EveryBatchArchived`, `DiskDrains`, refinement of `Archive` |
| `lake_lost` | same | finds a batch lost by an interrupted compaction |
| `collector` | one counted stream, three messages, two handovers, two faults; 383 000 states | types, `HolesMarked`, `CapturedOnce`, `SessionBounded`, `HandoverLosesNothing`, `BufferedIsWritten`, `AlwaysReadsAgain` |
| `recycle` | a rising and an unsequenced stream, three messages each, one recycle, one fault; 671 000 states | `OutageRecorded` when connections cannot overlap |
| `outage` | one counted stream, two faults | finds an outage without a record |
| `budget` | three interchangeable processes, allowance one, two hours, three reservations an hour, two attempts | types, `OverspendIsLost`, `EveryAttemptCharged`, `RefusedOnlyWhenSpent` |
| `bars` | four days, two backfills, two faults, one writer at a time; 23 000 states | types, `WholeFile`, `UpdateStoresOnlySettled`, `DayArrives`, refinement of `Table` |
| `nightly` | two metrics, three days, three prints, one change of the source, three pages, three passes, one fault; 1.51 million states | types, `NothingSkipped`, `PrintsContiguous`, `EveryPassRecorded`, `CleanWeekIsTrue`, `PassEnds` |
| `author` | fifteen drafts, eight requests, two peers of five kinds, two attempts, two faults; 417 000 states | types, `RightPeersAcceptRight`, `WholeUnlessUnwitnessed`, `OneBadPeerConvictsNobody`, `ProxyRemoved` |
| `publish` | one group, two files, one stream, two sizes, three jobs, two changes, two faults; 5.26 million states | `OnlyCleared`, `SuccessMeansCurrent` |
| `proxy` | three feeds, a history of four or eleven quarters and four more, three changes; 99 500 states | `RotationSpared`, `FirstBreakSaid` |
| `proxy_dead` | same | finds a clean bill about a window that ended long ago |

**What the properties of the later modules say.** `NothingSkipped`: below the watermark
no metric lacks a day the source had in order. `CleanWeekIsTrue`: a weekly pass without
findings saw every settled value as its source has it, in every metric.
`EveryPassRecorded`: a pass whose history was written has its run row and a row per
check that found something, after every later merge into the same files, and no finding
stands without its run. `RightPeersAcceptRight`: with peers that hold the instrument,
whoever is silent at whichever poll, nothing else is accepted. `WholeUnlessUnwitnessed`:
a draft with holes is accepted only if no peer that has the days answered.
`OneBadPeerConvictsNobody`: one scaled, hourly or short peer beside a good one does not
fail a good frame. `ProxyRemoved`: however a run ends, the proxy of an attempt is gone
before the next, or docker was told to remove it and did not. `OnlyCleared`: no object
changes in the public bucket into a row that is not cleared then, for its group and
source, by any of the three routes. `SuccessMeansCurrent`: a job that counted no failure
has delivered every object as it was when it began, or later, save a file whose public
object landed while a rewrite was under way: read before its rename, landed after the
last write to its temp. `RotationSpared`: a feed that has followed the market beside
another that has is not reported, whatever the rest of the lake does. `FirstBreakSaid`:
a feed that goes wrong for a whole recent window for the first time is reported, and one
that has gone silent gets no verdict.

**Why the bounds are enough for the cases that matter.** In `lake` a partition can hold
two parts (a merge needs two), or three with a torn one, be merged, interrupted between
its unlinks, recovered the next night, shipped, and meet a second fault on the way; the
second day makes "settled" different from "open" while the job runs. Partitions interact
only through the order in which the job visits them, so a second stream adds little that
a second day does not. In `collector` three messages are a captured row, a hole, and the
row after it; two faults are what a flapping connection, or a kill during recovery,
needs; two handovers because the second may begin before the first overlap is over. In
`budget` the prune condition (more than twice as many lines as live ones) is met with
two stale lines and one live one, and three processes are two that truncate and write
the temporary file in turn and one that counts in between. In `bars` a backfill seeds
the series, a second one can run between two updates and put a later day above a hole,
and a fetch, a write or a process can fail twice; four days let a job that spans
midnight be followed by two nights that repair it. In `nightly` two metrics are what a
frame torn between its files needs, three days give two settled ones (what the weekly
wants to compare), and three passes are a backfill, an update after a fault, and the
weekly that looks at both. In `author` two peers are an accuser and a third opinion, the
second attempt follows a first that left something behind, and two faults are a trouble
in the run and a removal that fails. In `publish` three jobs are a publish whose upload
is overtaken by a rewrite, or overtakes one between its temp and its rename, one that
passes the file over for that, and one whose upload fails after it landed, or publishes
under two registries; two changes are two of a rewrite, a build of the marts and a
withdrawal; files of two sizes let a rewrite keep or change its size. In `proxy` four
quarters are too short a history (under 400 days), eleven are long enough; four more
hold a first break of a whole window, its return, and the floor below 0.30 it leaves
behind; with three feeds a neighbour can leave while another stays.

`MaxFaults`, `FlushBound`, `MaxDay`, `MaxId`, `MaxRecycles`, `MaxHour`,
`MaxCharges`, `MaxBackfills`, `MaxVintages`, `MaxChanges`, `MaxPasses`, `MaxJobs`
and `MaxQuarters` bound the instances and stand for nothing in the code.
`DrainCeiling` is `RECEIVE_QUEUE_FRAMES`, `Limit` is `rate_limit_per_hour`,
`MaxRetries` is `max_retries`, `MAX_PAGES` the constant of `load_native`,
`MaxAttempts` the argument of `author()`.

In `Collector` the loop that waits on a quiet socket is the action `Waits`,
which changes nothing, so that TLC's deadlock test still finds a drain or a
reconnect that hangs. Five runs do not check deadlock, because the system they show
rests: in `bars` a series nobody seeded has no file when the last day is over, in
`nightly`, `publish` and `proxy` the bounded passes, jobs and quarters are used up,
and `author()` returns. That nothing hangs on the way is `DayArrives` and `PassEnds`; a
publish or a weekly pass over proxies waits for nobody, and of the drafting loop nothing
of the kind can be said (part 5).

### Fairness

- `Lake`: days pass; a part that was opened is closed; the nightly job, which is
  one sequential process that cron starts every night, takes its next step
  (`WF` of `Compact \/ Sync`). Nothing is assumed of faults except that the
  bound ends them: a job that fails every night for ever archives nothing.
- `Collector`: the event loop runs a task that is ready. `WF` of `Run` is the
  read loop; the process itself restarts because the compose file says
  `restart: unless-stopped`. `WF` of `TimerFlush` is the flush task's sleep
  ending. The venue and the network owe nothing.
- `Bars`: days pass, cron starts the update every night, and a process that runs
  takes its next step (`WF` of `BeginUpdate \/ Work`). No operator owes a
  backfill.
- `Nightly`: a pass that runs takes its next step (`WF` of `PassStep`), because
  every request has a timeout. Nobody owes the start of a pass, and the source
  nothing: not that it publishes, nor that its cursors end.
- `Budget`, `Draft`, `Publish` and `Proxy` state no liveness. A drafting run in process
  has no timeout, so fairness of the loop would not be the code's.

## 4. What is proved

Eight modules of proofs, one per component. Every invariant, every safety property
and both refinements of part 3 are theorems, for every value of the constants, from
the assumption of the module alone (the bounds are numbers, sets that index
quantities are finite, the kinds of streams are disjoint, files have a group). For
`Bars` there is the further hypothesis `~Overlap`, that writers of a series take
turns. In each module `Inductive` says that the inductive invariant holds, and
`TypeCorrect`, where the module has a `TypeOK`, the types; the other theorems are:

| module | theorem | statement |
|---|---|---|
| `LakeProofs` | `PreservedAlways` | `Spec => []Preserved` |
| | `WriterKeepsItsPartAlways` | `Spec => []WriterKeepsItsPart` |
| | `DeletedOnlyWithCopyAlways` | `Spec => DeletedOnlyWithCopy` |
| | `CopiesInductive` | `Spec => [](IndInv /\ FreshInv /\ CopyInv)` |
| | `OneCopyEachAlways` | `Spec => []OneCopyEach` |
| | `ImplementsArchiveAlways` | `Spec => ImplementsArchive` |
| `CollectorProofs` | `HolesMarkedAlways` | `Spec => []HolesMarked` |
| | `CapturedOnceAlways` | `Spec => []CapturedOnce` |
| | `SessionBoundedAlways` | `Spec => []SessionBounded` |
| | `HandoverLosesNothingAlways` | `Spec => []HandoverLosesNothing` |
| | `OutageRecordedAlways` | `Spec => []OutageRecorded` |
| `BudgetProofs` | `OverspendIsLostAlways` | `Spec => []OverspendIsLost` |
| | `EveryAttemptChargedAlways` | `Spec => []EveryAttemptCharged` |
| | `RefusedOnlyWhenSpentAlways` | `Spec => RefusedOnlyWhenSpent` |
| `BarsProofs` | `WholeFileAlways` | `Spec => []WholeFile`, given `~Overlap` |
| | `UpdateStoresOnlySettledAlways` | `Spec => UpdateStoresOnlySettled`, given `~Overlap` |
| | `Refinement` | `Spec => ImplementsTable`, given `~Overlap` |
| `NightlyProofs` | `NothingSkippedAlways` | `Spec => []NothingSkipped` |
| | `PrintsContiguousAlways` | `Spec => []PrintsContiguous` |
| | `EveryPassRecordedAlways` | `Spec => []EveryPassRecorded` |
| | `CleanWeekIsTrueAlways` | `Spec => CleanWeekIsTrue` |
| `DraftProofs` | `RightPeersAcceptRightAlways` | `Spec => []RightPeersAcceptRight` |
| | `WholeUnlessUnwitnessedAlways` | `Spec => []WholeUnlessUnwitnessed` |
| | `OneBadPeerConvictsNobodyAlways` | `Spec => []OneBadPeerConvictsNobody` |
| | `ProxyRemovedAlways` | `Spec => []ProxyRemoved` |
| `ProxyProofs` | `RotationSparedAlways` | `Spec => RotationSpared` |
| | `FirstBreakSaidAlways` | `Spec => FirstBreakSaid` |
| `PublishProofs` | `OnlyClearedAlways` | `Spec => OnlyCleared` |
| | `DeliveryInductive` | `Spec => []DeliveryInv` |
| | `SuccessMeansCurrentAlways` | `Spec => SuccessMeansCurrent` |

### Along which argument

**Lake.** `Preserved` says a captured batch is readable on disk or archived, unless
its partition was interrupted. It is not inductive: a step may only delete parts if
it is known where else their rows are, and that depends on where the job
stands. `IndInv` is the conjunction that closes it:

- `NamesInv`: stamps are fresh and name one part of a partition, so that an
  upload overwrites only its own object and a rename never lands on a part.
- `OpenInv`: an open part is in place and the job works on earlier days.
- `JobInv`: the queues hold settled partitions, whatever sync still has to
  handle is still on disk, and once sizes agreed the object is in the bucket.
- `MergeInv`: while a merge runs, the parts of the partition are what is left of
  the originals, and from `FinishMerge` on the temp holds all their rows. That
  is what makes `Unlink` safe.
- `BatchInv`: `Preserved` with "in the temp" narrowed to when the next recovery
  would keep the temp (`TempHolds`): no part is left, or the merge is being
  committed.

`OneCopyEach` needs two more. A stamp is used once (`FreshInv`), so a new part
shares no row with what there is. Once something of a partition that sync met
compacted is shipped, or about to be, that partition has one name left, on disk and
in the bucket, and no temp (`CopyInv`): a night later there is nothing to merge it
with. For the refinement, an object beside the part of its name holds the part's rows
and is whole only if the part is (`MirrorInv`), so that pruning the part archives
exactly what was on disk. Each kind of move (a flush that ends, a merge that
commits, a recovery, a prune, a kill) has a lemma that it is a step of `Archive` or
leaves its state alone.

**Collector.** The properties speak of what a reader finds on the tape, while rows,
jumps and markers stand in buffers when they are decided upon and reach the disk or
are lost later. `HolesInv` is `HolesMarked` with a tape whose places are a parameter,
and says beside it that what is in memory comes last, that a jump is where its row
is, and that a hole at the end would be marked too, by the tracker's position or a
record. `QueueInv` and `RowsInv` say of the sockets that a message still to be read
is new, or that the overlap discards it, which gives `CapturedOnce`. `WholeInv`
carries `HandoverLosesNothing`: without a fault every message after a stream's first
row is on the tape or in the queue that is read next, and a drained predecessor that
was caught up with has nothing its successor has not. `SessionInv` and `OutageInv`
say for every place in the run what the two remaining properties say of some.

**Budget.** A process decides on lines it counted in a file that others append to,
truncate and replace meanwhile. `LinesInv`: no file has more lines of an hour than
were reserved in it, and none will have when a prune under way writes it; so a
refusal is never for lines that were not reserved. `SpendInv`: of an hour, what was
let through and the processes that still hold a reservation are no more than was
reserved; and what was let through and those that have counted no more than the
allowance are no more than the allowance and `lost`. The last is a counting
argument: each of them reserved before it counted.

**Bars.** Without `~Overlap`, `WholeFile` is false (part 5). What makes it inductive
is that a temp is open exactly while its one writer writes it and complete when it
is renamed (`WholeInv`). The refinement needs, of a frame that was fetched before the
file is replaced, that it still fits the file (`Fits`): it is a range of days, it has
no forming bar where the file has a settled one, and once merged it extends the file.
The second part holds because a bar is called settled only when its day is over
(`PastInv`), a forming bar only while it is not, and the file does not change while a
job runs (`TakeTurns`). The lemma `UpsertExtends` carries the argument through the two
filters and the merge; `MaxOfDays`, that a set of days that is not empty has a
greatest one, is what makes the watermark a day.

**Nightly.** `NothingSkipped` is about files that were written metric by metric from
pages fetched at different moments, while the source went on. The invariant follows a
day from the page to the file: an honest walk leaves nothing uncovered below its
cursor (`LoadInv`), because what it has passed is before today or is the watermark
itself and the source publishes only today in order; when it ends, nothing is
uncovered up to the last day of either frame, which is where the watermark will be
(`WriteInv`). `RecordInv` says of every row of the history on which day it was
recorded, since what a killed or failed writer loses is a day. That a merge keeps, of
every run, a row per check (`MergeKeeps`) gives `FoundInv`: what an ended pass has
written is found after any number of later passes of the day.

**Drafting.** The loop judges a report after the containers are taken down, so
`ReportInv` carries what a complete report means from the run to the judgement; that
a run establishes it is `CleanIsRight` (a right peer agrees, on more than a few
dates, with right frames only, and a verdict without an error or a warning is an
agreement) together with `CompleteRun` (on fewer dates the report is not complete).
`WholeInv` carries in the same way what completeness compared with, and
`AcquittalInv` what the cross-check said of one bad peer: a good one was decisive
first, or is asked by `Adjudicate`. `ProxyInv` says at which places a proxy may
exist, and that the loop is only there when `_contained_egress` is there to tell
docker to remove it.

**Proxy.** Both properties are about one pass over a lake that is what the quarters
made it, so the invariant is only that it has every feed for every quarter. The work
is in the windows: the recent one is the last two quarters (`Windows`), feeds in step
correlate at 90 there and everywhere (`InStep`), and the floor of a pair that was
never apart is 0.30 (`ThresholdIs`). For `RotationSpared` the witness is a healthy
pair above the floor whatever the others are; for `FirstBreakSaid` every pair is
below it.

**Publishing.** What an upload carries is decided when its object is taken from the
list and lands later. So the invariant follows the rows in between: they are cleared
while the job's hands hold them (`HandInv`), because the registry does not change
under a job, a merged table and a mart are filtered as they are built, and a streamed
object of the private bucket holds only rows of its own pair (`StreamInv`), which
`sync` cannot overwrite. What a killed job left in the staging directory is never
uploaded, since each build writes its file anew. That a job delivers is said of all
objects at its end, so `DoneInv` says of each object from the moment the job comes to
it: what is in hand suits, what is behind is delivered. An object passed over for
being current is delivered because a file that is not newer than its object, nor was
being rewritten when that landed, is what the object holds (`ReadInv`): a rename makes
its file newer, or, when the object has landed since the temp's last write, `raced`; a
landing that has missed a rename makes it `raced` as well. A stream is delivered,
because its object can only be whole (`StreamedInv`); and neither gets too old,
because versions only grow (`VersionInv`).

### What the attempts changed

Some properties and definitions did not survive the attempt to prove them, although
TLC had found no counterexample on the instances of the time.

- `OverspendIsLost` counted the lines a rename dropped. With three processes that is
  not a bound: a second truncate of the temporary file can drop them before the
  rename. It is now bounded by what was missing when a process counted, and the run
  has three processes.
- `SuccessMeansCurrent` excused a file only while the very upload that missed a
  rewrite was the last; the next upload of the file, if it died before it landed,
  took the excuse away and left the stale object. `raced` now lasts until an object
  lands that is the file. The run has three jobs and two faults, which shows the
  difference. It also excused rewrites during a sync, which nothing makes necessary.
- `HolesMarked` took a recorded jump for a mark although it might be lost with its
  buffer; the jump must now be where a reader finds it.
- In `Nightly` a backfill over a torn frame cleared `torn` although the metrics did
  not share their dates again, the cursor of a walk that does not end had no bound of
  its own, and the cases of `Start` overlapped. In `Draft` the fullest of no peers
  was any number. In `Collector` the kinds of streams have to be disjoint, as they
  are where the tracker asks for them (`gaps.py`, `check`).

### What is only model-checked

The liveness properties: `EveryBatchArchived`, `DiskDrains`, `BufferedIsWritten`,
`AlwaysReadsAgain`, `DayArrives` and `PassEnds`. Their proofs need
`ENABLED` and the fairness rules, which are beyond the proof system. The three runs
that find a violation are counterexamples, and TLC's.

## 5. Where code and text disagree

Shown by a run:

1. `qde/compact.py:57`. Killed between two unlinks, compaction loses the batches
   of the originals already deleted: recovery sees a surviving part and discards
   the complete temp. README and the comments call this crash-safe. (`lake_lost`)
2. `qde/stream/collector.py:535`. An outage that follows a connection on which a
   stream delivered nothing has no record for that stream. (`outage`)
3. `qde/verify.py:756`. The proxy tier issues no verdict "for a window the data does
   not cover", and looks at the age of the series under check only. A candidate that
   has gone silent still vouches: the join ends when it did. (`proxy_dead`)

Met while modelling, without a run of their own; the properties that hold are stated
with the exceptions these leave:

- Lake. A temp with no part beside it is not always a finished merge: the parts may
  have been shipped and pruned, and a partial merge is then given a part's name
  (`compact.py:62`). `Preserved` exempts interrupted partitions, `OneCopyEach`
  partitions that sync met uncompacted.
- Collector. A drain cut at its ceiling leaves a hole that the sequence check
  reports only on counted streams (`collector.py:390-392`, `gaps.py:216-231`).
- Budget. A reservation made while another process prunes is lost and its allowance
  granted again (`budget.py:146`), and so are the reservations a second truncate of
  the temporary file takes out of the ledger; `OverspendIsLost` bounds the excess by
  the most that were missing when a process counted.
- Bars. Writers of one series share one temp name, so temp and rename keep the file
  whole only while one of them runs (`storage.py:62`). The test for forming bars
  reads the clock when storing, so a backfill across midnight stores one
  (`storage.py:195`). `DayArrives` exempts days a backfill left behind.
- Series. A writer killed between two metrics leaves the later ones without days
  that lie below the common watermark, for good (`storage.py:663-670`, `618-644`);
  `NothingSkipped` and `CleanWeekIsTrue` exempt that state.
- History. Rows are merged by run and check without the detail, and the stamp of a
  run is the moment it is recorded, so a second finding of a check replaces the first
  and a run recorded twice is two runs (`dq_history.py:60-83`, `153-157`).
- History. `dq_history.py:10-12` and `weekly_verify.py:173-176` say that a pass is
  recorded whether or not anything failed. A `record_run` that raises is logged and
  swallowed by both passes (`daily_update.py:223-226`, `weekly_verify.py:177-180`), so
  a pass can end without its run row, and then it looks like one that never ran;
  `EveryPassRecorded` exempts it, and the days whose file was half written.
- Cross-source. A stale verdict needs one peer only (`verify.py:462-496`), and
  "two independent sources agree against this frame" compares the frame with each,
  never the two with each other (`verify.py:1226-1230`). `verify_frame` ends after a
  structural warning, so an unsorted frame is not looked at further.
- Drafting. The egress stage counts what the stages themselves ask of the peers as
  the draft's, although its docstring reads a denial as the draft's own
  (`draft.py:816-835`); with the vendor's host alone allowed, as in the example of
  `docs/auditing.md:138-140`, a bars draft with a peer that needs no key cannot pass
  it. Completeness runs with the draft's key only, so a peer that wants
  another cannot be its witness. Series and events drafts are never complete,
  because the cross-source stage is skipped for them, and neither is a draft made
  from the command line, which sets no page size (`author.py:418-479`). A run
  that hangs leaves its container and the network behind.
- Drafting. "Everything is removed in `finally`", and "a leaked proxy container is not"
  harmless (`draft.py:777-778`); but `docker rm -f` is run with `check=False`
  (`draft.py:812`), so one that fails leaves the proxy listening, the report as it was,
  and the draft may be accepted. `ProxyRemoved` exempts it. The log of the proxy is read
  with `check=False` too (`draft.py:921`): when docker prints none, a draft that was
  denied a host passes the egress stage, in a function that otherwise fails closed.
  A run in process (`draft.py:999-1002`) has no timeout, so the loop need not end,
  although `draft.py:725` knows of requests that hang for ever.
- Proxy. A lone neighbour that freezes convicts the healthy series, in its name
  (`verify.py:827-831`). A candidate that once left the market for a window puts the
  floor near 0 and vouches for a broken feed afterwards. A break that has become part
  of the past excuses itself. `FirstBreakSaid` exempts such neighbours and speaks of
  first breaks.
- Publishing. The catalogue counts sources by name, the publish clears by group and
  source (`catalogue.py:273-282`). `_already_current` relies on mtime to catch "what
  size misses" (`publish_public.py:246-252`). A file rewritten while it is uploaded, to
  the same size, passes for current afterwards; and so does one whose object landed
  between the last write to the temp and the rename, because the mtime precedes the
  rename (`storage.py:64-73`). `SuccessMeansCurrent` exempts both. `sync` logs failures
  and exits with 0. What was published stays when its clearance is withdrawn, as
  documented.

## 6. Assumptions and omissions

- `FlushesSettled`: when the nightly job starts a pass (00:30 UTC,
  `docs/deploy.md`), no flush that took its date before midnight is still open.
  The code relies on it and does nothing to ensure it.
- One maintenance run at a time; there is no lock in the code.
- One writer of a bar series at a time (`Overlap = FALSE`): cron's update, the
  Dagster assets and an operator's backfill are kept apart by nothing but their
  schedule. One pass at a time in `Nightly`, one job at a time in `Publish`, with
  rewrites of the files at any moment and one writer of a file at a time.
- The answer of a bar source has no holes and its settled bars do not change; that a
  source revises and withdraws is modelled for series.
- Disk operations are durable once done; compaction does not fsync.
- The collector model sends each message once per socket. Coinbase's replay of
  the last trade on subscription is not modelled, nor are REST snapshots, backoff
  times and the clock thresholds of the drain, whose early stop is modelled only
  through the ceiling.
- A kill in the middle of a flush, or a failing write, can separate a hole from
  its record; `HolesMarked` excludes those behaviours and says so.
- A frame under judgement is a kind, a number of rows and a set of defects; the
  arithmetic of medians and correlations is represented by what it tells apart.
  Correlations of several quarters in `Proxy` are means of the quarters'.
- In `Publish` LastModified of an object that lands is after every mtime before it:
  the clocks of the host and of R2 agree.
- Parsing, column data, schemas, logging and configuration are left out.

Not modelled: the freshness, null and disk checks and the alert (`checks.py`,
`host.py`, `alert.py`), which are queries over one moment's files; the
self-consistency of bars and `verification_status`, which repeat what is modelled
for series; `lake.py`, `analytics.py`, `quality.py`, for readers; the static registry
but for what it clears; the prompt and the command line of `author.py`; the wire
protocol of `egress.py`; SQL models, site and notebooks.

## 7. Plan

Done: every module of part 2.

Left, in order of what it would add:

1. A second maintenance run in `Lake`; a venue that replays in `Collector`; the
   failing-write promise of `docs/PROGRESS.md:133-134`.
2. Composition: collectors' flushes feeding `Lake`, so that a message captured
   by `Collector` is followed into R2.
3. Freshness and disk checks and the alert in `Nightly`; the self-consistency of
   bars.
4. Proofs: what the new properties of 1 to 3 state; for the operators of `Verify`,
   lemmas of their own on which peer decides a comparison; for `Bars` with
   overlapping writers, what still holds of the file.
