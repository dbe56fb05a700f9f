-------------------------------- MODULE Lake --------------------------------
(***************************************************************************)
(* The streamed half of the bronze lake and the nightly job that moves it  *)
(* off the box:                                                            *)
(*                                                                         *)
(*   - the collectors write one Parquet part per flush, straight at its    *)
(*     final path (qde/stream/collector.py, qde/stream/paths.py);          *)
(*   - compaction merges the parts of every settled day through a          *)
(*     temp-then-rename protocol (qde/compact.py);                         *)
(*   - sync uploads settled parts and deletes each one whose remote size   *)
(*     matches (qde/sync.py, sync_bronze);                                 *)
(*   - scripts/maintain.sh runs the two in that order, and goes on to sync *)
(*     when compaction fails.                                              *)
(*                                                                         *)
(* Rows are abstracted to batches: a batch is the rows of one flush and is *)
(* named by the stamp of the part it was written to.  Column data, schemas *)
(* and sizes are left out except for what the code tells apart: a part is  *)
(* "whole" or "torn" (its write never finished), and a remote object may   *)
(* be "short" (a length other than the local one).                         *)
(***************************************************************************)
EXTENDS Naturals, FiniteSets

CONSTANTS
    Streams,     \* the (source, kind, symbol) streams, numbered in path order
    MaxDay,      \* the collectors write on days 1..MaxDay
    FlushBound,  \* bound: no flush starts once this many stamps are used
    MaxFaults    \* bound: kills, failed merges and failed uploads, together

ASSUME LakeAssumption ==
    /\ Streams \subseteq Nat
    /\ MaxDay \in Nat
    /\ FlushBound \in Nat
    /\ MaxFaults \in Nat

Partition == Streams \X (1..MaxDay)

\* A part file, or its remote copy.  `rows` are the batches it holds.
LocalFile == [name : Nat, rows : SUBSET Nat, bytes : {"whole", "torn"}]
Object    == [name : Nat, rows : SUBSET Nat, bytes : {"whole", "torn", "short"}]

\* The dot-prefixed merge target of a partition.
NoTemp == [rows |-> {}, bytes |-> "none"]
Temp   == {NoTemp} \cup [rows : SUBSET Nat, bytes : {"whole", "torn"}]

Phase == {"idle", "compact", "recovered", "merging", "unlinking",
          "between", "sync", "confirmed"}

VARIABLES
    today,      \* the UTC date
    clock,      \* the next unused stamp
    writing,    \* flushes that have opened their part and not yet closed it
    parts,      \* partition -> part files on local disk
    temp,       \* partition -> its .compact.tmp
    bucket,     \* partition -> objects in R2
    phase,      \* where the nightly job stands
    cutoff,     \* the `today` the running pass read when it started
    queue,      \* partitions compaction still has to visit
    cur,        \* the partition compaction is in
    originals,  \* the parts compact_partition listed
    doomed,     \* the originals it has still to unlink
    shipping,   \* the <<partition, part>> pairs sync still has to handle
    faults,     \* faults so far (bounds the model)
    captured,   \* history: partition -> batches whose part was closed
    interrupted,\* history: partitions whose unlinking was cut short half-way
    uncompacted \* history: partitions sync met with a temp or several parts

collector == <<writing, captured>>
disk      == <<parts, temp>>
compactor == <<queue, cur, originals, doomed>>
history   == <<interrupted, uncompacted>>
vars == <<today, clock, writing, parts, temp, bucket, phase, cutoff, queue,
          cur, originals, doomed, shipping, faults, captured, interrupted,
          uncompacted>>

-----------------------------------------------------------------------------
Names(files) == {f.name : f \in files}
RowsOf(files) == UNION {f.rows : f \in files}
Readable(files, b) == \E f \in files : f.bytes = "whole" /\ b \in f.rows

\* A partition no collector adds to any more, as the running pass judges it.
Settled(p, now) == p[2] < now

\* `sorted(...)` over partition directories and over part paths.
Before(p, q) == p[1] < q[1] \/ (p[1] = q[1] /\ p[2] < q[2])
FirstOf(p, ps) == p \in ps /\ \A q \in ps : p = q \/ Before(p, q)
Oldest(f, files) == f \in files /\ \A g \in files : f.name <= g.name
NextToShip(p, f) ==
    /\ <<p, f>> \in shipping
    /\ \A e \in shipping : \/ Before(p, e[1])
                           \/ p = e[1] /\ f.name <= e[2].name

Fault == faults < MaxFaults /\ faults' = faults + 1

\* The nightly job runs at 00:30 UTC, long after a flush that took its date
\* before midnight has closed its part.  It is what `date < today` relies on.
FlushesSettled == \A w \in writing : w.part[2] >= today

-----------------------------------------------------------------------------
Init ==
    /\ today = 1
    /\ clock = 1
    /\ writing = {}
    /\ parts = [p \in Partition |-> {}]
    /\ temp = [p \in Partition |-> NoTemp]
    /\ bucket = [p \in Partition |-> {}]
    /\ phase = "idle"
    /\ cutoff = 1
    /\ queue = {}
    /\ cur = <<>>
    /\ originals = {}
    /\ doomed = {}
    /\ shipping = {}
    /\ faults = 0
    /\ captured = [p \in Partition |-> {}]
    /\ interrupted = {}
    /\ uncompacted = {}

DayTick ==
    /\ today <= MaxDay
    /\ today' = today + 1
    /\ UNCHANGED <<clock, collector, disk, bucket, phase, cutoff, compactor,
                   shipping, faults, history>>

(***************************************************************************)
(* The collectors.  A flush takes its date once, detaches the buffer and   *)
(* writes the part in place; until the writer closes, the file is there    *)
(* under its final name with a torn body.                                  *)
(***************************************************************************)
PartFile(n, bytes) == [name |-> n, rows |-> {n}, bytes |-> bytes]

FlushStart(s) ==
    LET p == <<s, today>> IN
    /\ today <= MaxDay
    /\ clock < FlushBound
    /\ \A w \in writing : w.part[1] # s
    /\ parts' = [parts EXCEPT ![p] = @ \cup {PartFile(clock, "torn")}]
    /\ writing' = writing \cup {[part |-> p, name |-> clock]}
    /\ clock' = clock + 1
    /\ UNCHANGED <<today, temp, bucket, phase, cutoff, compactor, shipping,
                   faults, captured, history>>

FlushEnd(w) ==
    /\ w \in writing
    /\ parts' = [parts EXCEPT ![w.part] =
                   (@ \ {PartFile(w.name, "torn")})
                      \cup {PartFile(w.name, "whole")}]
    /\ captured' = [captured EXCEPT ![w.part] = @ \cup {w.name}]
    /\ writing' = writing \ {w}
    /\ UNCHANGED <<today, clock, temp, bucket, phase, cutoff, compactor,
                   shipping, faults, history>>

\* The process is killed, or to_parquet raises: the torn part stays.
FlushTorn(w) ==
    /\ w \in writing
    /\ Fault
    /\ writing' = writing \ {w}
    /\ UNCHANGED <<today, clock, disk, bucket, phase, cutoff, compactor,
                   shipping, captured, history>>

(***************************************************************************)
(* Compaction.                                                             *)
(***************************************************************************)
\* Mutant of Visitable: directories left with only a temp are not listed.
VisitablePartsOnly(p) == parts[p] # {}

Visitable(p) == parts[p] # {} \/ temp[p] # NoTemp

StartRun ==
    /\ phase = "idle"
    /\ FlushesSettled
    /\ phase' = "compact"
    /\ cutoff' = today
    /\ queue' = {p \in Partition : Settled(p, today) /\ Visitable(p)}
    /\ UNCHANGED <<today, clock, collector, disk, bucket, cur, originals,
                   doomed, shipping, faults, history>>

\* Finalising a temp, by the merge that wrote it or by a later recovery.
RenameTemp(p) ==
    /\ parts' = [parts EXCEPT ![p] = @ \cup
                   {[name |-> clock, rows |-> temp[p].rows,
                     bytes |-> temp[p].bytes]}]
    /\ temp' = [temp EXCEPT ![p] = NoTemp]
    /\ clock' = clock + 1

\* Mutants of RecoverTemp: a lone temp is discarded too; a temp is finalised
\* even beside surviving parts.
RecoverDiscards(p) ==
    /\ temp' = [temp EXCEPT ![p] = NoTemp]
    /\ UNCHANGED <<parts, clock>>
RecoverFinalises(p) ==
    IF temp[p] = NoTemp THEN UNCHANGED <<disk, clock>> ELSE RenameTemp(p)

\* _recover_partition: with any part present the temp is taken for an
\* uncommitted merge; with none it is taken for a merge that missed its rename.
RecoverTemp(p) ==
    \/ /\ temp[p] = NoTemp
       /\ UNCHANGED <<disk, clock>>
    \/ /\ temp[p] # NoTemp
       /\ parts[p] # {}
       /\ temp' = [temp EXCEPT ![p] = NoTemp]
       /\ UNCHANGED <<parts, clock>>
    \/ /\ temp[p] # NoTemp
       /\ parts[p] = {}
       /\ RenameTemp(p)

Recover(p) ==
    /\ phase = "compact"
    /\ FirstOf(p, queue)
    /\ RecoverTemp(p)
    /\ phase' = "recovered"
    /\ cur' = p
    /\ queue' = queue \ {p}
    /\ UNCHANGED <<today, collector, bucket, cutoff, originals, doomed,
                   shipping, faults, history>>

\* Fewer than two parts: nothing to merge.
SkipPartition ==
    /\ phase = "recovered"
    /\ \A f, g \in parts[cur] : f = g
    /\ phase' = "compact"
    /\ UNCHANGED <<today, clock, collector, disk, bucket, cutoff, compactor,
                   shipping, faults, history>>

\* Mutant of AbortOnTorn: maintain.sh without `|| echo` after compaction.
AbortOnTornEndsRun ==
    /\ phase = "recovered"
    /\ \E f, g \in parts[cur] : f # g
    /\ \E f \in parts[cur] : f.bytes = "torn"
    /\ phase' = "idle"
    /\ queue' = {}
    /\ UNCHANGED <<today, clock, collector, disk, bucket, cutoff, cur,
                   originals, doomed, shipping, faults, history>>

\* A part without a readable footer raises before the temp is created, and
\* nothing catches it: the partitions still queued are not visited.
AbortOnTorn ==
    /\ phase = "recovered"
    /\ \E f, g \in parts[cur] : f # g
    /\ \E f \in parts[cur] : f.bytes = "torn"
    /\ phase' = "between"
    /\ queue' = {}
    /\ UNCHANGED <<today, clock, collector, disk, bucket, cutoff, cur,
                   originals, doomed, shipping, faults, history>>

\* All footers read; the writer opens the temp.
OpenMerge ==
    /\ phase = "recovered"
    /\ \E f, g \in parts[cur] : f # g
    /\ \A f \in parts[cur] : f.bytes = "whole"
    /\ originals' = parts[cur]
    /\ temp' = [temp EXCEPT ![cur] = [rows |-> {}, bytes |-> "torn"]]
    /\ phase' = "merging"
    /\ UNCHANGED <<today, clock, collector, parts, bucket, cutoff, queue, cur,
                   doomed, shipping, faults, history>>

\* Mutant of MergeFails: the temp is cleaned up, but the exception swallowed.
MergeFailsGoesOn ==
    /\ phase = "merging"
    /\ Fault
    /\ temp' = [temp EXCEPT ![cur] = NoTemp]
    /\ doomed' = originals
    /\ phase' = "unlinking"
    /\ UNCHANGED <<today, clock, collector, parts, bucket, cutoff, queue, cur,
                   originals, shipping, history>>

\* An exception half-way: `finally: writer.close()` still closes the temp,
\* so it is a readable file holding the originals merged up to some stamp n.
MergeFails ==
    /\ phase = "merging"
    /\ Fault
    /\ \E n \in Names(originals) :
         temp' = [temp EXCEPT ![cur] =
                    [rows  |-> RowsOf({f \in originals : f.name < n}),
                     bytes |-> "whole"]]
    /\ phase' = "between"
    /\ queue' = {}
    /\ UNCHANGED <<today, clock, collector, parts, bucket, cutoff, cur,
                   originals, doomed, shipping, history>>

FinishMerge ==
    /\ phase = "merging"
    /\ temp' = [temp EXCEPT ![cur] =
                  [rows |-> RowsOf(originals), bytes |-> "whole"]]
    /\ doomed' = originals
    /\ phase' = "unlinking"
    /\ UNCHANGED <<today, clock, collector, parts, bucket, cutoff, queue, cur,
                   originals, shipping, faults, history>>

Unlink(f) ==
    /\ phase = "unlinking"
    /\ Oldest(f, doomed)
    /\ parts' = [parts EXCEPT ![cur] = @ \ {f}]
    /\ doomed' = doomed \ {f}
    /\ UNCHANGED <<today, clock, collector, temp, bucket, phase, cutoff, queue,
                   cur, originals, shipping, faults, history>>

Rename ==
    /\ phase = "unlinking"
    /\ doomed = {}
    /\ RenameTemp(cur)
    /\ phase' = "compact"
    /\ UNCHANGED <<today, collector, bucket, cutoff, compactor, shipping,
                   faults, history>>

CompactionDone ==
    /\ phase = "compact"
    /\ queue = {}
    /\ phase' = "between"
    /\ UNCHANGED <<today, clock, collector, disk, bucket, cutoff, compactor,
                   shipping, faults, history>>

Compacting == phase \in {"compact", "recovered", "merging", "unlinking"}

\* The compaction process dies (out of memory, an unlink that raises):
\* maintain.sh reports it and goes on; or the whole run dies with it.
CompactionKilled ==
    /\ Compacting
    /\ Fault
    /\ phase' \in {"between", "idle"}
    /\ queue' = {}
    /\ interrupted' =
         IF phase = "unlinking" /\ doomed # {} /\ doomed # originals
         THEN interrupted \cup {cur} ELSE interrupted
    /\ UNCHANGED <<today, clock, collector, disk, bucket, cutoff, cur,
                   originals, doomed, shipping, uncompacted>>

(***************************************************************************)
(* Sync.  `daily_update` runs between the two passes and is not guarded by *)
(* `|| echo`, so its failure ends the run under `set -e`.                  *)
(***************************************************************************)
UpdateAborts ==
    /\ phase = "between"
    /\ Fault
    /\ phase' = "idle"
    /\ UNCHANGED <<today, clock, collector, disk, bucket, cutoff, compactor,
                   shipping, history>>

SyncStart ==
    /\ phase = "between"
    /\ FlushesSettled
    /\ phase' = "sync"
    /\ cutoff' = today
    /\ shipping' = UNION {{p} \X parts[p] :
                            p \in {q \in Partition : Settled(q, today)}}
    /\ uncompacted' = uncompacted \cup
         {p \in Partition : /\ Settled(p, today)
                            /\ \/ temp[p] # NoTemp
                               \/ \E f, g \in parts[p] : f # g}
    /\ UNCHANGED <<today, clock, collector, disk, bucket, compactor, faults,
                   interrupted>>

\* upload_file: the object under the file's key is replaced.
Put(p, o) == bucket' = [bucket EXCEPT ![p] =
                          {x \in @ : x.name # o.name} \cup {o}]

\* upload_file or head_object raises: the object may or may not be there;
\* the local file is kept and the loop goes on.
UploadFails(p, f) ==
    /\ phase = "sync"
    /\ NextToShip(p, f)
    /\ Fault
    /\ \/ UNCHANGED bucket
       \/ Put(p, f)
    /\ shipping' = shipping \ {<<p, f>>}
    /\ UNCHANGED <<today, clock, collector, disk, phase, cutoff, compactor,
                   history>>

ShortCopy(f) == [name |-> f.name, rows |-> f.rows, bytes |-> "short"]

\* Mutant of UploadShort: the sizes are not compared.
UploadShortTrusted(p, f) ==
    /\ phase = "sync"
    /\ NextToShip(p, f)
    /\ Fault
    /\ Put(p, ShortCopy(f))
    /\ phase' = "confirmed"
    /\ UNCHANGED <<today, clock, collector, disk, cutoff, compactor, shipping,
                   history>>

\* The sizes differ: kept for a retry.
UploadShort(p, f) ==
    /\ phase = "sync"
    /\ NextToShip(p, f)
    /\ Fault
    /\ Put(p, ShortCopy(f))
    /\ shipping' = shipping \ {<<p, f>>}
    /\ UNCHANGED <<today, clock, collector, disk, phase, cutoff, compactor,
                   history>>

UploadConfirmed(p, f) ==
    /\ phase = "sync"
    /\ NextToShip(p, f)
    /\ Put(p, f)
    /\ phase' = "confirmed"
    /\ UNCHANGED <<today, clock, collector, disk, cutoff, compactor, shipping,
                   faults, history>>

Prune(p, f) ==
    /\ phase = "confirmed"
    /\ NextToShip(p, f)
    /\ parts' = [parts EXCEPT ![p] = @ \ {f}]
    /\ shipping' = shipping \ {<<p, f>>}
    /\ phase' = "sync"
    /\ UNCHANGED <<today, clock, collector, temp, bucket, cutoff, compactor,
                   faults, history>>

SyncDone ==
    /\ phase = "sync"
    /\ shipping = {}
    /\ phase' = "idle"
    /\ UNCHANGED <<today, clock, collector, disk, bucket, cutoff, compactor,
                   shipping, faults, history>>

SyncKilled ==
    /\ phase \in {"sync", "confirmed"}
    /\ Fault
    /\ phase' = "idle"
    /\ shipping' = {}
    /\ UNCHANGED <<today, clock, collector, disk, bucket, cutoff, compactor,
                   history>>

-----------------------------------------------------------------------------
Ship(p, f) == \/ UploadFails(p, f)
              \/ UploadShort(p, f)
              \/ UploadConfirmed(p, f)
              \/ Prune(p, f)

Collect == \/ \E s \in Streams : FlushStart(s)
           \/ \E w \in writing : FlushEnd(w) \/ FlushTorn(w)

Compact == \/ StartRun
           \/ \E p \in queue : Recover(p)
           \/ SkipPartition
           \/ AbortOnTorn
           \/ OpenMerge
           \/ MergeFails
           \/ FinishMerge
           \/ \E f \in doomed : Unlink(f)
           \/ Rename
           \/ CompactionDone
           \/ CompactionKilled

Sync == \/ UpdateAborts
        \/ SyncStart
        \/ \E e \in shipping : Ship(e[1], e[2])
        \/ SyncDone
        \/ SyncKilled

Next == DayTick \/ Collect \/ Compact \/ Sync

Spec == Init /\ [][Next]_vars

\* What scheduling gives: days pass, an open part is closed or torn, cron
\* starts the job every night and the job, being sequential, takes its next
\* step.  Faults are bounded, so they cannot be forced for ever.
Fairness ==
    /\ WF_vars(DayTick)
    /\ WF_vars(\E w \in writing : FlushEnd(w))
    /\ WF_vars(Compact \/ Sync)

FairSpec == Spec /\ Fairness

-----------------------------------------------------------------------------
(***************************************************************************)
(* Properties.                                                             *)
(***************************************************************************)
TypeOK ==
    /\ today \in 1..(MaxDay + 1)
    /\ clock \in Nat \ {0}
    /\ writing \subseteq [part : Partition, name : Nat]
    /\ parts \in [Partition -> SUBSET LocalFile]
    /\ temp \in [Partition -> Temp]
    /\ bucket \in [Partition -> SUBSET Object]
    /\ phase \in Phase
    /\ cutoff \in 1..(MaxDay + 1)
    /\ queue \subseteq Partition
    /\ cur \in Partition \cup {<<>>}
    /\ originals \subseteq LocalFile
    /\ doomed \subseteq LocalFile
    /\ shipping \subseteq Partition \X LocalFile
    /\ faults \in 0..MaxFaults
    /\ captured \in [Partition -> SUBSET Nat]
    /\ interrupted \subseteq Partition
    /\ uncompacted \subseteq Partition

\* The batch is on disk: in a readable part, or in a finished merge.
OnDisk(p, b) ==
    \/ Readable(parts[p], b)
    \/ temp[p].bytes = "whole" /\ b \in temp[p].rows

\* The batch is in an object no later upload will replace: its local
\* counterpart is gone.
Archived(p, b) ==
    \E o \in bucket[p] : /\ o.bytes = "whole"
                         /\ b \in o.rows
                         /\ o.name \notin Names(parts[p])

\* Every batch whose part was closed is still readable on disk or archived,
\* whatever compaction, sync and their crashes did, unless the unlinking of
\* that partition's originals was cut short half-way (compact.py:98-102,
\* sync.py:93-99).
Preserved ==
    \A p \in Partition : \A b \in captured[p] :
        OnDisk(p, b) \/ Archived(p, b) \/ p \in interrupted

(***************************************************************************)
(* The inductive invariant behind Preserved.                               *)
(***************************************************************************)

\* Stamps are fresh and name one part of a partition.
NamesInv ==
    \A p \in Partition :
        /\ \A f \in parts[p] : f.name < clock
        /\ \A f, g \in parts[p] : f.name = g.name => f = g
        /\ \A o \in bucket[p] : o.name < clock

\* An open part is in place, and a running job works on earlier days only.
OpenInv ==
    \A w \in writing :
        /\ PartFile(w.name, "torn") \in parts[w.part]
        /\ w.part[2] <= today
        /\ phase # "idle" => w.part[2] >= cutoff

\* The pass works below its cutoff, where no part is open.
JobInv ==
    /\ cutoff <= today
    /\ queue # {} => Compacting
    /\ \A p \in queue : p[2] < cutoff
    /\ shipping # {} => phase \in {"sync", "confirmed"}
    /\ \A e \in shipping : e[1][2] < cutoff /\ e[2] \in parts[e[1]]
    /\ phase = "confirmed" =>
         \A e \in shipping : NextToShip(e[1], e[2]) => e[2] \in bucket[e[1]]

\* A temp belongs to a past day.  Between OpenMerge and Rename the parts of
\* `cur` are what is left of `originals`, all readable, and from FinishMerge on
\* the temp holds all of their rows.
MergeInv ==
    /\ \A p \in Partition : temp[p] # NoTemp => p[2] < today
    /\ phase \in {"recovered", "merging", "unlinking"} =>
         cur \in Partition /\ cur[2] < cutoff
    /\ phase = "merging" =>
         /\ parts[cur] = originals
         /\ originals # {}
         /\ \A f \in originals : f.bytes = "whole"
    /\ phase = "unlinking" =>
         /\ parts[cur] = doomed
         /\ doomed \subseteq originals
         /\ \A f \in originals : f.bytes = "whole"
         /\ temp[cur] = [rows |-> RowsOf(originals), bytes |-> "whole"]

\* A batch may rest in a temp alone only while the next recovery would keep
\* it: the partition has no part, or the merge is still being committed.
TempHolds(p, b) ==
    /\ temp[p].bytes = "whole"
    /\ b \in temp[p].rows
    /\ parts[p] = {} \/ (phase = "unlinking" /\ cur = p)

BatchInv ==
    \A p \in Partition : \A b \in captured[p] :
        \/ Readable(parts[p], b)
        \/ TempHolds(p, b)
        \/ Archived(p, b)
        \/ p \in interrupted

\* Captured data survives every step from every state of this shape: the
\* strengthening of Preserved that is inductive (compact.py:66-104,
\* sync.py:69-99).
IndInv ==
    /\ TypeOK /\ NamesInv /\ OpenInv
    /\ JobInv /\ MergeInv /\ BatchInv

\* A reader that globs part files on local disk never counts a batch twice, at
\* any instant of a merge or a recovery (compact.py:27-33); and rows in a settled
\* partition exist once across the bucket and the disk under different names,
\* unless sync met the partition uncompacted.
OneCopyEach ==
    /\ \A p \in Partition : \A f, g \in parts[p] :
         f # g => f.rows \cap g.rows = {}
    /\ \A p \in Partition \ uncompacted :
         /\ \A o, x \in bucket[p] : o.name # x.name => o.rows \cap x.rows = {}
         /\ \A o \in bucket[p], f \in parts[p] :
               o.name # f.name => o.rows \cap f.rows = {}

\* The nightly job never merges, uploads or deletes the part a collector has
\* open (compact.py:8-10, 142-143; sync.py:79-80).
WriterKeepsItsPart ==
    \A w \in writing :
        /\ PartFile(w.name, "torn") \in parts[w.part]
        /\ ~ \E e \in shipping : e[1] = w.part

\* A readable part leaves the disk only while a complete copy of its rows
\* exists elsewhere: in a finished merge of its partition or in R2
\* (compact.py:98-99, sync.py:4-6).
CopyKept ==
    \A p \in Partition : \A f \in parts[p] \ parts'[p] :
        f.bytes = "whole" =>
          \/ temp'[p].bytes = "whole" /\ f.rows \subseteq temp'[p].rows
          \/ \E o \in bucket'[p] : o.bytes = "whole" /\ f.rows \subseteq o.rows

DeletedOnlyWithCopy == [][CopyKept]_vars

\* Every captured batch of a day that has passed reaches R2, unless its
\* partition was cut short while unlinking (maintain.sh, "what makes the
\* capture durable").
EveryBatchArchived ==
    \A p \in Partition : \A b \in 1..FlushBound :
        (b \in captured[p]) ~> (Archived(p, b) \/ p \in interrupted)

\* The disk stays flat: every settled partition is eventually empty, a torn
\* part and a left-over temp included, and stays so (sync.py:3-5).
DiskDrains ==
    <>[](\A p \in Partition : parts[p] = {} /\ temp[p] = NoTemp)

\* Lake implements the abstract archive: batches are captured, then archived
\* for good, and lost only in a partition whose unlinking was cut short
\* (compact.py:12-16, sync.py:4-6).
ArchivedIn(p) == {b \in captured[p] : Archived(p, b)}
LostIn(p) == {b \in captured[p] : ~OnDisk(p, b) /\ ~Archived(p, b)}

Abstract == INSTANCE Archive WITH
    archived <- [p \in Partition |-> ArchivedIn(p)],
    lost     <- [p \in Partition |-> LostIn(p)],
    atRisk   <- interrupted

ImplementsArchive == Abstract!Spec

\* README.md:159-160 calls compaction and sync crash-safe: no crash loses a
\* captured batch.
NeverLost ==
    \A p \in Partition : \A b \in captured[p] : OnDisk(p, b) \/ Archived(p, b)
=============================================================================
