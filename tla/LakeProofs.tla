----------------------------- MODULE LakeProofs -----------------------------
(***************************************************************************)
(* Proofs about Lake, for every set of streams, number of days and         *)
(* bound.                                                                  *)
(*                                                                         *)
(* IndInv is inductive: InitIndInv establishes it and one lemma for each   *)
(* of its five conjuncts shows that every step preserves that conjunct.    *)
(*                                                                         *)
(* Two invariants rest on it. FreshInv says that a stamp is used once,     *)
(* so that different parts hold different rows; CopyInv, that a            *)
(* partition has one name left, and no temp, once something of it is       *)
(* shipped; with them no row is read twice (OneCopyEach). MirrorInv says   *)
(* that an object beside the part of its name holds the part's rows;       *)
(* with it every step of Lake is a step of Archive or leaves its           *)
(* variables alone: one lemma for each kind of move, and ArchiveStep.      *)
(***************************************************************************)
EXTENDS Lake, TLAPS

-----------------------------------------------------------------------------
\* A partition is a stream and a day.
LEMMA PartitionDay == \A p \in Partition : p[1] \in Nat /\ p[2] \in 1..MaxDay
BY LakeAssumption DEF Partition

\* The empty lake satisfies the inductive invariant.
LEMMA InitIndInv == Init => IndInv
<1> SUFFICES ASSUME Init PROVE IndInv
  OBVIOUS
<1>1. TypeOK
  BY LakeAssumption DEF Init, TypeOK, LocalFile, Object, Temp, NoTemp, Phase
<1>2. NamesInv /\ OpenInv /\ JobInv
  BY LakeAssumption DEF Init, NamesInv, OpenInv, JobInv, Compacting
<1>3. MergeInv /\ BatchInv
  BY DEF Init, MergeInv, BatchInv
<1> QED
  BY <1>1, <1>2, <1>3 DEF IndInv

\* The types survive every step of the collectors, compaction and sync.
LEMMA TypeStep == IndInv /\ [Next]_vars => TypeOK'
<1> SUFFICES ASSUME IndInv, [Next]_vars PROVE TypeOK'
  OBVIOUS
<1>0. TypeOK /\ MergeInv
  BY DEF IndInv
<1> USE LakeAssumption DEF TypeOK
<1>1. CASE DayTick
  BY <1>0, <1>1 DEF DayTick, collector, disk, compactor, history
<1>2. ASSUME NEW s \in Streams, FlushStart(s) PROVE TypeOK'
  <2>1. <<s, today>> \in Partition
    BY <1>0, <1>2 DEF FlushStart, Partition
  <2>2. PartFile(clock, "torn") \in LocalFile
    BY <1>0 DEF PartFile, LocalFile
  <2> QED
    BY <1>0, <1>2, <2>1, <2>2 DEF FlushStart, compactor, history
<1>3. ASSUME NEW w \in writing, FlushEnd(w) PROVE TypeOK'
  <2>1. PartFile(w.name, "whole") \in LocalFile
    BY <1>0 DEF PartFile, LocalFile
  <2> QED
    BY <1>0, <1>3, <2>1 DEF FlushEnd, compactor, history
<1>4. ASSUME NEW w \in writing, FlushTorn(w) PROVE TypeOK'
  BY <1>0, <1>4 DEF FlushTorn, Fault, disk, compactor, history
<1>5. CASE StartRun
  BY <1>0, <1>5 DEF StartRun, collector, disk, history, Phase
<1>6. ASSUME NEW p \in queue, Recover(p) PROVE TypeOK'
  <2>1. p \in Partition /\ queue' \subseteq Partition
    BY <1>0, <1>6 DEF Recover
  <2>2. CASE UNCHANGED <<disk, clock>>
    BY <1>0, <1>6, <2>1, <2>2 DEF Recover, Phase, collector, disk, history
  <2>3. CASE temp' = [temp EXCEPT ![p] = NoTemp] /\ UNCHANGED <<parts, clock>>
    BY <1>0, <1>6, <2>1, <2>3 DEF Recover, Phase, Temp, collector, history
  <2>4. CASE temp[p] # NoTemp /\ RenameTemp(p)
    BY <1>0, <1>6, <2>1, <2>4 DEF Recover, RenameTemp, Phase, Temp, LocalFile,
                                 collector, history
  <2> QED
    BY <1>6, <2>2, <2>3, <2>4 DEF Recover, RecoverTemp
<1>7. CASE SkipPartition
  BY <1>0, <1>7 DEF SkipPartition, collector, disk, compactor, history, Phase
<1>8. CASE AbortOnTorn
  BY <1>0, <1>8 DEF AbortOnTorn, collector, disk, history, Phase
<1>9. CASE OpenMerge
  BY <1>0, <1>9 DEF OpenMerge, collector, history, Phase, Temp, MergeInv
<1>10. CASE MergeFails
  BY <1>0, <1>10 DEF MergeFails, Fault, collector, history, Phase, Temp,
     RowsOf, LocalFile, Names, MergeInv
<1>11. CASE FinishMerge
  BY <1>0, <1>11 DEF FinishMerge, collector, history, Phase, Temp, RowsOf,
     LocalFile, MergeInv
<1>12. ASSUME NEW f \in doomed, Unlink(f) PROVE TypeOK'
  BY <1>0, <1>12 DEF Unlink, collector, history
<1>13. CASE Rename
  BY <1>0, <1>13 DEF Rename, RenameTemp, collector, compactor, history,
     Phase, NoTemp, Temp, LocalFile, MergeInv
<1>14. CASE CompactionDone
  BY <1>0, <1>14 DEF CompactionDone, collector, disk, compactor, history,
     Phase
<1>15. CASE CompactionKilled
  BY <1>0, <1>15 DEF CompactionKilled, Fault, collector, disk, Phase,
     MergeInv
<1>16. CASE UpdateAborts
  BY <1>0, <1>16 DEF UpdateAborts, Fault, collector, disk, compactor,
     history, Phase
<1>17. CASE SyncStart
  BY <1>0, <1>17 DEF SyncStart, collector, disk, compactor, Phase
<1>18. ASSUME NEW e \in shipping, UploadFails(e[1], e[2]) PROVE TypeOK'
  BY <1>0, <1>18 DEF UploadFails, Fault, Put, collector, disk, compactor,
     history, Phase, LocalFile, Object
<1>19. ASSUME NEW e \in shipping, UploadShort(e[1], e[2]) PROVE TypeOK'
  BY <1>0, <1>19 DEF UploadShort, Fault, Put, ShortCopy, collector, disk,
     compactor, history, LocalFile, Object
<1>20. ASSUME NEW e \in shipping, UploadConfirmed(e[1], e[2]) PROVE TypeOK'
  BY <1>0, <1>20 DEF UploadConfirmed, Put, collector, disk, compactor,
     history, Phase, LocalFile, Object
<1>21. ASSUME NEW e \in shipping, Prune(e[1], e[2]) PROVE TypeOK'
  BY <1>0, <1>21 DEF Prune, collector, compactor, history, Phase
<1>22. CASE SyncDone
  BY <1>0, <1>22 DEF SyncDone, collector, disk, compactor, history, Phase
<1>23. CASE SyncKilled
  BY <1>0, <1>23 DEF SyncKilled, Fault, collector, disk, compactor, history,
     Phase
<1>24. CASE UNCHANGED vars
  BY <1>0, <1>24 DEF vars
<1> QED
  BY <1>1, <1>2, <1>3, <1>4, <1>5, <1>6, <1>7, <1>8, <1>9, <1>10, <1>11,
     <1>12, <1>13, <1>14, <1>15, <1>16, <1>17, <1>18, <1>19, <1>20, <1>21,
     <1>22, <1>23, <1>24 DEF Next, Collect, Compact, Sync, Ship

\* Stamps stay fresh and unique under every flush, merge and upload.
LEMMA NamesStep == IndInv /\ [Next]_vars => NamesInv'
<1> SUFFICES ASSUME IndInv, [Next]_vars PROVE NamesInv'
  OBVIOUS
<1>0. TypeOK /\ NamesInv /\ OpenInv /\ JobInv /\ MergeInv /\ BatchInv
  BY DEF IndInv
<1> USE LakeAssumption DEF TypeOK, NamesInv
<1>1. CASE DayTick
  BY <1>0, <1>1 DEF DayTick, collector, disk, compactor, history
<1>2. ASSUME NEW s \in Streams, FlushStart(s) PROVE NamesInv'
  <2> DEFINE q == <<s, today>>
  <2>1. q \in Partition
    BY <1>0, <1>2 DEF FlushStart, Partition
  <2>2. \A p \in Partition : parts'[p] =
          IF p = q THEN parts[p] \cup {PartFile(clock, "torn")} ELSE parts[p]
    BY <1>0, <1>2, <2>1 DEF FlushStart
  <2>3. bucket' = bucket /\ clock' = clock + 1 /\ PartFile(clock, "torn").name = clock
    BY <1>2 DEF FlushStart, PartFile
  <2>4. \A p \in Partition : \A f \in parts'[p] :
          f \in parts[p] \/ f = PartFile(clock, "torn")
    BY <2>2
  <2>5. \A p \in Partition : \A f \in parts[p] : f.name < clock /\ f.name \in Nat
    BY <1>0 DEF LocalFile
  <2>6. \A p \in Partition : \A o \in bucket'[p] : o.name < clock'
    BY <1>0, <2>3 DEF Object
  <2>7. \A p \in Partition : \A f \in parts'[p] : f.name < clock'
    BY <1>0, <2>3, <2>4, <2>5
  <2>8. \A p \in Partition : \A f, g \in parts'[p] : f.name = g.name => f = g
    BY <1>0, <2>3, <2>4, <2>5
  <2> QED
    BY <2>6, <2>7, <2>8
<1>3. ASSUME NEW w \in writing, FlushEnd(w) PROVE NamesInv'
  <2>1. w.part \in Partition
    BY <1>0
  <2>2. \A p \in Partition : \A f \in parts'[p] :
          f \in parts[p] \/ (p = w.part /\ f = PartFile(w.name, "whole"))
    BY <1>0, <1>3, <2>1 DEF FlushEnd
  <2>3. /\ bucket' = bucket /\ clock' = clock
        /\ PartFile(w.name, "torn") \in parts[w.part]
        /\ PartFile(w.name, "torn") \notin parts'[w.part]
    BY <1>0, <1>3, <2>1 DEF FlushEnd, OpenInv, PartFile
  <2>4. /\ PartFile(w.name, "torn").name = w.name
        /\ PartFile(w.name, "whole").name = w.name
    BY DEF PartFile
  <2> QED
    BY <1>0, <2>1, <2>2, <2>3, <2>4
<1>4. ASSUME NEW w \in writing, FlushTorn(w) PROVE NamesInv'
  BY <1>0, <1>4 DEF FlushTorn, Fault, disk, compactor, history
<1>5. CASE StartRun
  BY <1>0, <1>5 DEF StartRun, collector, disk, history
<1>6. ASSUME NEW p \in queue, Recover(p) PROVE NamesInv'
  <2>1. p \in Partition /\ bucket' = bucket
    BY <1>0, <1>6 DEF Recover
  <2>2. CASE parts' = parts /\ clock' = clock
    BY <1>0, <2>1, <2>2
  <2>3. CASE RenameTemp(p) /\ parts[p] = {}
    <3>1. \A q \in Partition \ {p} : parts'[q] = parts[q]
      BY <1>0, <2>1, <2>3 DEF RenameTemp
    <3>2. \A f \in parts'[p] : f.name = clock /\ f.rows = temp[p].rows
                                  /\ f.bytes = temp[p].bytes
      BY <1>0, <2>1, <2>3 DEF RenameTemp
    <3>3. \A f, g \in parts'[p] : f = g
      BY <1>0, <2>1, <2>3 DEF RenameTemp
    <3> QED
      BY <1>0, <2>1, <2>3, <3>1, <3>2, <3>3 DEF RenameTemp, LocalFile, Object
  <2> QED
    BY <1>6, <2>2, <2>3 DEF Recover, RecoverTemp, disk
<1>7. CASE SkipPartition
  BY <1>0, <1>7 DEF SkipPartition, collector, disk, compactor, history
<1>8. CASE AbortOnTorn
  BY <1>0, <1>8 DEF AbortOnTorn, collector, disk, history
<1>9. CASE OpenMerge
  BY <1>0, <1>9 DEF OpenMerge, collector, history
<1>10. CASE MergeFails
  BY <1>0, <1>10 DEF MergeFails, Fault, collector, history
<1>11. CASE FinishMerge
  BY <1>0, <1>11 DEF FinishMerge, collector, history
<1>12. ASSUME NEW f \in doomed, Unlink(f) PROVE NamesInv'
  <2>1. \A p \in Partition : parts'[p] \subseteq parts[p]
    BY <1>0, <1>12 DEF Unlink
  <2> QED
    BY <1>0, <1>12, <2>1 DEF Unlink
<1>13. CASE Rename
  <2>1. cur \in Partition /\ bucket' = bucket /\ parts[cur] = {}
    BY <1>0, <1>13 DEF Rename, MergeInv
  <2>2. \A q \in Partition \ {cur} : parts'[q] = parts[q]
    BY <1>0, <1>13, <2>1 DEF Rename, RenameTemp
  <2>3. \A f \in parts'[cur] : f.name = clock
    BY <1>0, <1>13, <2>1 DEF Rename, RenameTemp
  <2>4. \A f, g \in parts'[cur] : f = g
    BY <1>0, <1>13, <2>1 DEF Rename, RenameTemp
  <2> QED
    BY <1>0, <1>13, <2>1, <2>2, <2>3, <2>4 DEF Rename, RenameTemp, LocalFile, Object
<1>14. CASE CompactionDone
  BY <1>0, <1>14 DEF CompactionDone, collector, disk, compactor, history
<1>15. CASE CompactionKilled
  BY <1>0, <1>15 DEF CompactionKilled, Fault, collector, disk
<1>16. CASE UpdateAborts
  BY <1>0, <1>16 DEF UpdateAborts, Fault, collector, disk, compactor, history
<1>17. CASE SyncStart
  BY <1>0, <1>17 DEF SyncStart, collector, disk, compactor
<1>18. ASSUME NEW e \in shipping, UploadFails(e[1], e[2]) PROVE NamesInv'
  <2>1. e[1] \in Partition /\ e[2] \in parts[e[1]]
    BY <1>0 DEF JobInv
  <2>2. \A p \in Partition : \A o \in bucket'[p] :
          o \in bucket[p] \/ (p = e[1] /\ o.name = e[2].name)
    BY <1>0, <1>18, <2>1 DEF UploadFails, Put
  <2> QED
    BY <1>0, <1>18, <2>1, <2>2 DEF UploadFails, disk
<1>19. ASSUME NEW e \in shipping, UploadShort(e[1], e[2]) PROVE NamesInv'
  <2>1. e[1] \in Partition /\ e[2] \in parts[e[1]]
    BY <1>0 DEF JobInv
  <2>2. \A p \in Partition : \A o \in bucket'[p] :
          o \in bucket[p] \/ (p = e[1] /\ o.name = e[2].name)
    BY <1>0, <1>19, <2>1 DEF UploadShort, Put, ShortCopy
  <2> QED
    BY <1>0, <1>19, <2>1, <2>2 DEF UploadShort, disk
<1>20. ASSUME NEW e \in shipping, UploadConfirmed(e[1], e[2]) PROVE NamesInv'
  <2>1. e[1] \in Partition /\ e[2] \in parts[e[1]]
    BY <1>0 DEF JobInv
  <2>2. \A p \in Partition : \A o \in bucket'[p] :
          o \in bucket[p] \/ (p = e[1] /\ o.name = e[2].name)
    BY <1>0, <1>20, <2>1 DEF UploadConfirmed, Put
  <2> QED
    BY <1>0, <1>20, <2>1, <2>2 DEF UploadConfirmed, disk
<1>21. ASSUME NEW e \in shipping, Prune(e[1], e[2]) PROVE NamesInv'
  <2>1. \A p \in Partition : parts'[p] \subseteq parts[p]
    BY <1>0, <1>21 DEF Prune
  <2> QED
    BY <1>0, <1>21, <2>1 DEF Prune
<1>22. CASE SyncDone
  BY <1>0, <1>22 DEF SyncDone, collector, disk, compactor, history
<1>23. CASE SyncKilled
  BY <1>0, <1>23 DEF SyncKilled, Fault, collector, disk, compactor, history
<1>24. CASE UNCHANGED vars
  BY <1>0, <1>24 DEF vars
<1> QED
  BY <1>1, <1>2, <1>3, <1>4, <1>5, <1>6, <1>7, <1>8, <1>9, <1>10, <1>11,
     <1>12, <1>13, <1>14, <1>15, <1>16, <1>17, <1>18, <1>19, <1>20, <1>21,
     <1>22, <1>23, <1>24 DEF Next, Collect, Compact, Sync, Ship

\* An open part stays in place, on a day no running pass works on: the
\* collectors and the nightly job never meet on a file.
LEMMA OpenStep == IndInv /\ [Next]_vars => OpenInv'
<1> SUFFICES ASSUME IndInv, [Next]_vars PROVE OpenInv'
  OBVIOUS
<1>0. TypeOK /\ NamesInv /\ OpenInv /\ JobInv /\ MergeInv /\ BatchInv
  BY DEF IndInv
<1> USE LakeAssumption, PartitionDay DEF TypeOK, OpenInv
<1>1. CASE DayTick
  BY <1>0, <1>1 DEF DayTick, collector, disk, compactor, history
<1>2. ASSUME NEW s \in Streams, FlushStart(s) PROVE OpenInv'
  <2>1. <<s, today>> \in Partition
    BY <1>0, <1>2 DEF FlushStart, Partition
  <2>2. \A p \in Partition : parts[p] \subseteq parts'[p]
    BY <1>0, <1>2, <2>1 DEF FlushStart
  <2>3. PartFile(clock, "torn") \in parts'[<<s, today>>]
    BY <1>0, <1>2, <2>1 DEF FlushStart
  <2>4. \A w \in writing' : w \in writing
                            \/ w = [part |-> <<s, today>>, name |-> clock]
    BY <1>2 DEF FlushStart
  <2>5. cutoff \in Nat /\ today \in Nat /\ cutoff <= today
    BY <1>0 DEF JobInv
  <2>6. today' = today /\ cutoff' = cutoff /\ phase' = phase
    BY <1>2 DEF FlushStart
  <2>7. ASSUME NEW w \in writing PROVE
          /\ PartFile(w.name, "torn") \in parts'[w.part]
          /\ w.part[2] <= today'
          /\ phase' # "idle" => w.part[2] >= cutoff'
    BY <1>0, <2>2, <2>6
  <2> QED
    BY <2>3, <2>4, <2>5, <2>6, <2>7
<1>3. ASSUME NEW w \in writing, FlushEnd(w) PROVE OpenInv'
  <2>1. \A v \in writing' : v \in writing /\ v # w
    BY <1>0, <1>3 DEF FlushEnd
  <2>2. \A v \in writing' : PartFile(v.name, "torn") # PartFile(w.name, "torn")
                            \/ v.part # w.part
    <3> SUFFICES ASSUME NEW v \in writing', v.name = w.name, v.part = w.part
                 PROVE FALSE
      BY DEF PartFile
    <3>1. /\ v \in [part : Partition, name : Nat]
          /\ w \in [part : Partition, name : Nat]
      BY <1>0, <2>1
    <3> QED
      BY <2>1, <3>1
  <2>3. \A v \in writing' : PartFile(v.name, "torn") \in parts'[v.part]
    BY <1>0, <1>3, <2>1, <2>2 DEF FlushEnd
  <2> QED
    BY <1>0, <1>3, <2>1, <2>3 DEF FlushEnd
<1>4. ASSUME NEW w \in writing, FlushTorn(w) PROVE OpenInv'
  BY <1>0, <1>4 DEF FlushTorn, Fault, disk, compactor, history
<1>5. CASE StartRun
  BY <1>0, <1>5 DEF StartRun, collector, disk, history, FlushesSettled
<1>6. ASSUME NEW p \in queue, Recover(p) PROVE OpenInv'
  <2>1. p \in Partition
    BY <1>0
  <2>2. \A q \in Partition : parts[q] \subseteq parts'[q]
    BY <1>0, <1>6, <2>1 DEF Recover, RecoverTemp, RenameTemp, disk
  <2> QED
    BY <1>0, <1>6, <2>2 DEF Recover, collector
<1>7. CASE SkipPartition
  BY <1>0, <1>7 DEF SkipPartition, collector, disk, compactor, history
<1>8. CASE AbortOnTorn
  BY <1>0, <1>8 DEF AbortOnTorn, collector, disk, history
<1>9. CASE OpenMerge
  BY <1>0, <1>9 DEF OpenMerge, collector, history
<1>10. CASE MergeFails
  BY <1>0, <1>10 DEF MergeFails, Fault, collector, history
<1>11. CASE FinishMerge
  BY <1>0, <1>11 DEF FinishMerge, collector, history
<1>12. ASSUME NEW f \in doomed, Unlink(f) PROVE OpenInv'
  <2>1. cur \in Partition /\ cur[2] < cutoff /\ phase # "idle"
    BY <1>0, <1>12 DEF Unlink, MergeInv
  <2>2. \A w \in writing : w.part # cur /\ w.part \in Partition
    BY <1>0, <2>1
  <2>3. \A w \in writing : parts'[w.part] = parts[w.part]
    BY <1>0, <1>12, <2>2 DEF Unlink
  <2> QED
    BY <1>0, <1>12, <2>3 DEF Unlink, collector
<1>13. CASE Rename
  <2>1. \A q \in Partition : parts[q] \subseteq parts'[q]
    BY <1>0, <1>13 DEF Rename, RenameTemp
  <2> QED
    BY <1>0, <1>13, <2>1 DEF Rename, collector
<1>14. CASE CompactionDone
  BY <1>0, <1>14 DEF CompactionDone, collector, disk, compactor, history
<1>15. CASE CompactionKilled
  BY <1>0, <1>15 DEF CompactionKilled, Fault, collector, disk, Compacting
<1>16. CASE UpdateAborts
  BY <1>0, <1>16 DEF UpdateAborts, Fault, collector, disk, compactor, history
<1>17. CASE SyncStart
  BY <1>0, <1>17 DEF SyncStart, collector, disk, compactor, FlushesSettled
<1>18. ASSUME NEW e \in shipping, UploadFails(e[1], e[2]) PROVE OpenInv'
  BY <1>0, <1>18 DEF UploadFails, Fault, Put, collector, disk, compactor,
     history
<1>19. ASSUME NEW e \in shipping, UploadShort(e[1], e[2]) PROVE OpenInv'
  BY <1>0, <1>19 DEF UploadShort, Fault, Put, ShortCopy, collector, disk,
     compactor, history
<1>20. ASSUME NEW e \in shipping, UploadConfirmed(e[1], e[2]) PROVE OpenInv'
  BY <1>0, <1>20 DEF UploadConfirmed, Put, collector, disk, compactor,
     history
<1>21. ASSUME NEW e \in shipping, Prune(e[1], e[2]) PROVE OpenInv'
  <2>1. e[1] \in Partition /\ e[1][2] < cutoff /\ phase # "idle"
    BY <1>0, <1>21 DEF Prune, JobInv
  <2>2. \A w \in writing : w.part # e[1] /\ w.part \in Partition
    BY <1>0, <2>1
  <2>3. \A w \in writing : parts'[w.part] = parts[w.part]
    BY <1>0, <1>21, <2>2 DEF Prune
  <2> QED
    BY <1>0, <1>21, <2>3 DEF Prune, collector
<1>22. CASE SyncDone
  BY <1>0, <1>22 DEF SyncDone, collector, disk, compactor, history
<1>23. CASE SyncKilled
  BY <1>0, <1>23 DEF SyncKilled, Fault, collector, disk, compactor, history
<1>24. CASE UNCHANGED vars
  BY <1>0, <1>24 DEF vars
<1> QED
  BY <1>1, <1>2, <1>3, <1>4, <1>5, <1>6, <1>7, <1>8, <1>9, <1>10, <1>11,
     <1>12, <1>13, <1>14, <1>15, <1>16, <1>17, <1>18, <1>19, <1>20, <1>21,
     <1>22, <1>23, <1>24 DEF Next, Collect, Compact, Sync, Ship

\* The pass stays below its cutoff, and what sync confirmed is in the bucket.
LEMMA JobStep == IndInv /\ [Next]_vars => JobInv'
<1> SUFFICES ASSUME IndInv, [Next]_vars PROVE JobInv'
  OBVIOUS
<1>0. TypeOK /\ NamesInv /\ OpenInv /\ JobInv /\ MergeInv /\ BatchInv
  BY DEF IndInv
<1> USE LakeAssumption DEF TypeOK, JobInv, Compacting
<1>1. CASE DayTick
  <2>1. /\ cutoff \in Nat /\ today \in Nat /\ today' = today + 1
        /\ \A e : NextToShip(e[1], e[2])' <=> NextToShip(e[1], e[2])
    BY <1>0, <1>1 DEF DayTick, NextToShip
  <2> QED
    BY <1>0, <1>1, <2>1 DEF DayTick, disk, compactor
<1>2. ASSUME NEW s \in Streams, FlushStart(s) PROVE JobInv'
  <2>1. \A p \in Partition : parts[p] \subseteq parts'[p]
    BY <1>0, <1>2 DEF FlushStart
  <2>2. \A e : NextToShip(e[1], e[2])' <=> NextToShip(e[1], e[2])
    BY <1>0, <1>2 DEF FlushStart, NextToShip
  <2> QED
    BY <1>0, <1>2, <2>1, <2>2 DEF FlushStart, compactor
<1>3. ASSUME NEW w \in writing, FlushEnd(w) PROVE JobInv'
  <2>1. \A e \in shipping : e[1] # w.part /\ e[1] \in Partition
    BY <1>0, PartitionDay DEF OpenInv
  <2>2. \A e \in shipping : parts'[e[1]] = parts[e[1]]
    BY <1>0, <1>3, <2>1 DEF FlushEnd
  <2>3. \A e : NextToShip(e[1], e[2])' <=> NextToShip(e[1], e[2])
    BY <1>0, <1>3 DEF FlushEnd, NextToShip
  <2> QED
    BY <1>0, <1>3, <2>2, <2>3 DEF FlushEnd, compactor
<1>4. ASSUME NEW w \in writing, FlushTorn(w) PROVE JobInv'
  <2>1. \A e : NextToShip(e[1], e[2])' <=> NextToShip(e[1], e[2])
    BY <1>0, <1>4 DEF FlushTorn, NextToShip
  <2> QED
    BY <1>0, <1>4, <2>1 DEF FlushTorn, disk, compactor
<1>5. CASE StartRun
  BY <1>0, <1>5 DEF StartRun, collector, disk, history, Settled
<1>6. ASSUME NEW p \in queue, Recover(p) PROVE JobInv'
  BY <1>0, <1>6 DEF Recover, RecoverTemp, RenameTemp, collector, disk,
     history
<1>7. CASE SkipPartition
  BY <1>0, <1>7 DEF SkipPartition, collector, disk, compactor, history
<1>8. CASE AbortOnTorn
  BY <1>0, <1>8 DEF AbortOnTorn, collector, disk, history
<1>9. CASE OpenMerge
  BY <1>0, <1>9 DEF OpenMerge, collector, history
<1>10. CASE MergeFails
  BY <1>0, <1>10 DEF MergeFails, Fault, collector, history
<1>11. CASE FinishMerge
  BY <1>0, <1>11 DEF FinishMerge, collector, history
<1>12. ASSUME NEW f \in doomed, Unlink(f) PROVE JobInv'
  BY <1>0, <1>12 DEF Unlink, collector, history
<1>13. CASE Rename
  BY <1>0, <1>13 DEF Rename, RenameTemp, collector, compactor, history
<1>14. CASE CompactionDone
  BY <1>0, <1>14 DEF CompactionDone, collector, disk, compactor, history
<1>15. CASE CompactionKilled
  BY <1>0, <1>15 DEF CompactionKilled, Fault, collector, disk
<1>16. CASE UpdateAborts
  BY <1>0, <1>16 DEF UpdateAborts, Fault, collector, disk, compactor, history
<1>17. CASE SyncStart
  BY <1>0, <1>17 DEF SyncStart, collector, disk, compactor, Settled
<1>18. ASSUME NEW e \in shipping, UploadFails(e[1], e[2]) PROVE JobInv'
  BY <1>0, <1>18 DEF UploadFails, Fault, Put, collector, disk, compactor,
     history
<1>19. ASSUME NEW e \in shipping, UploadShort(e[1], e[2]) PROVE JobInv'
  BY <1>0, <1>19 DEF UploadShort, Fault, Put, ShortCopy, collector, disk,
     compactor, history
<1>20. ASSUME NEW e \in shipping, UploadConfirmed(e[1], e[2]) PROVE JobInv'
  <2>1. \A d \in shipping : NextToShip(d[1], d[2])' => NextToShip(d[1], d[2])
    BY <1>20 DEF UploadConfirmed, NextToShip, compactor
  <2>2. ASSUME NEW d \in shipping, NextToShip(d[1], d[2]) PROVE d = e
    <3>1. /\ e[1] \in Partition /\ e[2] \in parts[e[1]]
          /\ d[1] \in Partition /\ d[2] \in parts[d[1]]
          /\ e = <<e[1], e[2]>> /\ d = <<d[1], d[2]>>
      BY <1>0
    <3>2. /\ Before(e[1], d[1]) \/ (e[1] = d[1] /\ e[2].name <= d[2].name)
          /\ Before(d[1], e[1]) \/ (d[1] = e[1] /\ d[2].name <= e[2].name)
      BY <2>2, <1>20 DEF UploadConfirmed, NextToShip
    <3>3. d[1] = e[1]
      BY <3>1, <3>2, PartitionDay DEF Before
    <3>4. d[2].name = e[2].name
      BY <1>0, <3>1, <3>2, <3>3, PartitionDay DEF Before, LocalFile
    <3> QED
      BY <1>0, <3>1, <3>3, <3>4 DEF NamesInv
  <2>3. e[2] \in bucket'[e[1]]
    BY <1>0, <1>20 DEF UploadConfirmed, Put
  <2> QED
    BY <1>0, <1>20, <2>1, <2>2, <2>3 DEF UploadConfirmed, disk, compactor
<1>21. ASSUME NEW e \in shipping, Prune(e[1], e[2]) PROVE JobInv'
  <2>1. \A d \in shipping' : d \in shipping /\ d # e /\ d = <<d[1], d[2]>>
                            /\ e = <<e[1], e[2]>>
    BY <1>0, <1>21 DEF Prune
  <2>2. \A d \in shipping' : d[2] \in parts'[d[1]]
    BY <1>0, <1>21, <2>1 DEF Prune
  <2> QED
    BY <1>0, <1>21, <2>1, <2>2 DEF Prune, compactor
<1>22. CASE SyncDone
  BY <1>0, <1>22 DEF SyncDone, collector, disk, compactor, history
<1>23. CASE SyncKilled
  BY <1>0, <1>23 DEF SyncKilled, Fault, collector, disk, compactor, history
<1>24. CASE UNCHANGED vars
  <2>1. \A e : NextToShip(e[1], e[2])' <=> NextToShip(e[1], e[2])
    BY <1>0, <1>24 DEF vars, NextToShip
  <2> QED
    BY <1>0, <1>24, <2>1 DEF vars
<1> QED
  BY <1>1, <1>2, <1>3, <1>4, <1>5, <1>6, <1>7, <1>8, <1>9, <1>10, <1>11,
     <1>12, <1>13, <1>14, <1>15, <1>16, <1>17, <1>18, <1>19, <1>20, <1>21,
     <1>22, <1>23, <1>24 DEF Next, Collect, Compact, Sync, Ship

\* While a merge is committed, the originals still listed are on disk and the
\* temp holds all their rows.
LEMMA MergeStep == IndInv /\ [Next]_vars => MergeInv'
<1> SUFFICES ASSUME IndInv, [Next]_vars PROVE MergeInv'
  OBVIOUS
<1>0. TypeOK /\ NamesInv /\ OpenInv /\ JobInv /\ MergeInv /\ BatchInv
  BY DEF IndInv
<1> USE LakeAssumption DEF TypeOK, MergeInv
<1>1. CASE DayTick
  <2>1. \A p \in Partition : temp'[p] # NoTemp => p[2] < today'
    BY <1>0, <1>1, PartitionDay DEF DayTick, disk, JobInv
  <2> QED
    BY <1>0, <1>1, <2>1 DEF DayTick, collector, disk, compactor, history
<1>2. ASSUME NEW s \in Streams, FlushStart(s) PROVE MergeInv'
  <2>1. CASE phase \notin {"recovered", "merging", "unlinking"}
    BY <1>0, <1>2, <2>1 DEF FlushStart, compactor
  <2>2. CASE phase \in {"recovered", "merging", "unlinking"}
    <3>1. cur \in Partition /\ cur # <<s, today>>
      BY <1>0, <1>2, <2>2, PartitionDay DEF FlushStart, OpenInv, JobInv
    <3>2. parts'[cur] = parts[cur]
      BY <1>0, <1>2, <3>1 DEF FlushStart
    <3> QED
      BY <1>0, <1>2, <2>2, <3>1, <3>2 DEF FlushStart, compactor
  <2> QED
    BY <2>1, <2>2
<1>3. ASSUME NEW w \in writing, FlushEnd(w) PROVE MergeInv'
  <2>1. CASE phase \notin {"recovered", "merging", "unlinking"}
    BY <1>0, <1>3, <2>1 DEF FlushEnd, compactor
  <2>2. CASE phase \in {"recovered", "merging", "unlinking"}
    <3>1. cur \in Partition /\ cur # w.part
      BY <1>0, <1>3, <2>2, PartitionDay DEF FlushEnd, OpenInv, JobInv
    <3>2. parts'[cur] = parts[cur]
      BY <1>0, <1>3, <3>1 DEF FlushEnd
    <3> QED
      BY <1>0, <1>3, <2>2, <3>1, <3>2 DEF FlushEnd, compactor
  <2> QED
    BY <2>1, <2>2
<1>4. ASSUME NEW w \in writing, FlushTorn(w) PROVE MergeInv'
  BY <1>0, <1>4 DEF FlushTorn, Fault, disk, compactor, history
<1>5. CASE StartRun
  BY <1>0, <1>5 DEF StartRun, collector, disk, history
<1>6. ASSUME NEW p \in queue, Recover(p) PROVE MergeInv'
  BY <1>0, <1>6 DEF Recover, RecoverTemp, RenameTemp, collector, disk,
     history, JobInv
<1>7. CASE SkipPartition
  BY <1>0, <1>7 DEF SkipPartition, collector, disk, compactor, history
<1>8. CASE AbortOnTorn
  BY <1>0, <1>8 DEF AbortOnTorn, collector, disk, history
<1>9. CASE OpenMerge
  <2>1. \A p \in Partition : temp'[p] # NoTemp => p[2] < today'
    BY <1>0, <1>9, PartitionDay DEF OpenMerge, disk, JobInv
  <2> QED
    BY <1>0, <1>9, <2>1 DEF OpenMerge, collector, history, JobInv
<1>10. CASE MergeFails
  <2>1. \A p \in Partition : temp'[p] # NoTemp => p[2] < today'
    BY <1>0, <1>10, PartitionDay DEF MergeFails, disk, JobInv
  <2> QED
    BY <1>0, <1>10, <2>1 DEF MergeFails, collector, history, Fault, JobInv
<1>11. CASE FinishMerge
  <2>1. \A p \in Partition : temp'[p] # NoTemp => p[2] < today'
    BY <1>0, <1>11, PartitionDay DEF FinishMerge, disk, JobInv
  <2> QED
    BY <1>0, <1>11, <2>1 DEF FinishMerge, collector, history, JobInv
<1>12. ASSUME NEW f \in doomed, Unlink(f) PROVE MergeInv'
  BY <1>0, <1>12 DEF Unlink, collector, history
<1>13. CASE Rename
  BY <1>0, <1>13 DEF Rename, RenameTemp, collector, compactor, history
<1>14. CASE CompactionDone
  BY <1>0, <1>14 DEF CompactionDone, collector, disk, compactor, history
<1>15. CASE CompactionKilled
  BY <1>0, <1>15 DEF CompactionKilled, Fault, collector, disk
<1>16. CASE UpdateAborts
  BY <1>0, <1>16 DEF UpdateAborts, Fault, collector, disk, compactor, history
<1>17. CASE SyncStart
  BY <1>0, <1>17 DEF SyncStart, collector, disk, compactor
<1>18. ASSUME NEW e \in shipping, UploadFails(e[1], e[2]) PROVE MergeInv'
  BY <1>0, <1>18 DEF UploadFails, Fault, Put, collector, disk, compactor,
     history
<1>19. ASSUME NEW e \in shipping, UploadShort(e[1], e[2]) PROVE MergeInv'
  BY <1>0, <1>19 DEF UploadShort, Fault, Put, ShortCopy, collector, disk,
     compactor, history
<1>20. ASSUME NEW e \in shipping, UploadConfirmed(e[1], e[2]) PROVE MergeInv'
  BY <1>0, <1>20 DEF UploadConfirmed, Put, collector, disk, compactor,
     history
<1>21. ASSUME NEW e \in shipping, Prune(e[1], e[2]) PROVE MergeInv'
  BY <1>0, <1>21 DEF Prune, collector, compactor, history
<1>22. CASE SyncDone
  BY <1>0, <1>22 DEF SyncDone, collector, disk, compactor, history
<1>23. CASE SyncKilled
  BY <1>0, <1>23 DEF SyncKilled, Fault, collector, disk, compactor, history
<1>24. CASE UNCHANGED vars
  BY <1>0, <1>24 DEF vars
<1> QED
  BY <1>1, <1>2, <1>3, <1>4, <1>5, <1>6, <1>7, <1>8, <1>9, <1>10, <1>11,
     <1>12, <1>13, <1>14, <1>15, <1>16, <1>17, <1>18, <1>19, <1>20, <1>21,
     <1>22, <1>23, <1>24 DEF Next, Collect, Compact, Sync, Ship

\* What finalising a temp keeps: every readable batch, every batch of the
\* temp, and every archived one.
RenameKeeps(p) ==
    \A q \in Partition : \A b :
        /\ Readable(parts[q], b) => Readable(parts'[q], b)
        /\ Archived(q, b) => Archived(q, b)'
        /\ TempHolds(q, b) =>
             IF q = p THEN Readable(parts'[q], b)
             ELSE parts'[q] = parts[q] /\ temp'[q] = temp[q]

\* A rename gives the temp a fresh name and hides no batch.
LEMMA RenameLemma ==
    ASSUME TypeOK, NamesInv, NEW p \in Partition, RenameTemp(p), bucket' = bucket
    PROVE  RenameKeeps(p)
<1>1. \A q \in Partition \ {p} : parts'[q] = parts[q] /\ temp'[q] = temp[q]
  BY DEF TypeOK, RenameTemp
<1>2. parts'[p] = parts[p] \cup {[name |-> clock, rows |-> temp[p].rows,
                                bytes |-> temp[p].bytes]}
  BY DEF TypeOK, RenameTemp
<1>3. \A o \in bucket[p] : o.name # clock
  BY DEF TypeOK, NamesInv, Object
<1>4. \A q \in Partition : \A b : Readable(parts[q], b) => Readable(parts'[q], b)
  BY <1>1, <1>2 DEF Readable
<1>5. \A q \in Partition : \A b : Archived(q, b) => Archived(q, b)'
  BY <1>1, <1>2, <1>3 DEF Archived, Names
<1>6. \A b : TempHolds(p, b) => Readable(parts'[p], b)
  BY <1>2 DEF TempHolds, Readable
<1> QED
  BY <1>1, <1>4, <1>5, <1>6 DEF RenameKeeps

\* No step takes a captured batch out of its last safe place.
LEMMA BatchStep == IndInv /\ [Next]_vars => BatchInv'
<1> SUFFICES ASSUME IndInv, [Next]_vars PROVE BatchInv'
  OBVIOUS
<1>0. TypeOK /\ NamesInv /\ OpenInv /\ JobInv /\ MergeInv /\ BatchInv
  BY DEF IndInv
<1> USE LakeAssumption DEF TypeOK
<1>1. CASE DayTick
  <2>1. \A p, b : /\ Readable(parts'[p], b) <=> Readable(parts[p], b)
                 /\ Archived(p, b)' <=> Archived(p, b)
    BY <1>1 DEF DayTick, collector, disk, compactor, history, Archived
  <2>2. \A p, b : TempHolds(p, b) => TempHolds(p, b)'
    BY <1>1 DEF DayTick, collector, disk, compactor, history, TempHolds
  <2> QED
    BY <1>0, <1>1, <2>1, <2>2 DEF DayTick, collector, disk, compactor, history, BatchInv
<1>2. ASSUME NEW s \in Streams, FlushStart(s) PROVE BatchInv'
  <2> DEFINE q == <<s, today>>
  <2>1. q \in Partition
    BY <1>0, <1>2 DEF FlushStart, Partition
  <2>2. \A p \in Partition : parts[p] \subseteq parts'[p]
    BY <1>0, <1>2, <2>1 DEF FlushStart
  <2>3. \A p \in Partition : \A f \in parts'[p] :
          f \in parts[p] \/ (p = q /\ f.name = clock)
    BY <1>0, <1>2, <2>1 DEF FlushStart, PartFile
  <2>4. \A p \in Partition : \A o \in bucket[p] : o.name # clock
    BY <1>0 DEF NamesInv, Object
  <2>5. bucket' = bucket /\ temp' = temp /\ captured' = captured
        /\ interrupted' = interrupted /\ phase' = phase /\ cur' = cur
    BY <1>2 DEF FlushStart, history, compactor
  <2>6. phase = "unlinking" => cur # q
    BY <1>0, <1>2, <2>1, PartitionDay DEF FlushStart, MergeInv, JobInv
  <2>7. temp[q] = NoTemp
    BY <1>0, <1>2, <2>1, PartitionDay DEF FlushStart, MergeInv
  <2> HIDE DEF q
  <2>8. \A p \in Partition : \A b : Archived(p, b) => Archived(p, b)'
    BY <2>3, <2>4, <2>5 DEF Archived, Names
  <2>9. \A p \in Partition : \A b : Readable(parts[p], b) => Readable(parts'[p], b)
    BY <2>2 DEF Readable
  <2>10. \A p \in Partition \ {q} : \A b : TempHolds(p, b) => TempHolds(p, b)'
    BY <2>3, <2>5 DEF TempHolds
  <2>11. \A b : TempHolds(q, b) => FALSE
    BY <2>6, <2>7 DEF TempHolds, NoTemp
  <2> QED
    BY <1>0, <2>5, <2>8, <2>9, <2>10, <2>11 DEF BatchInv
<1>3. ASSUME NEW w \in writing, FlushEnd(w) PROVE BatchInv'
  <2> DEFINE q == w.part
  <2>1. q \in Partition /\ PartFile(w.name, "torn") \in parts[q]
    BY <1>0 DEF OpenInv
  <2>a. parts'[q] = (parts[q] \ {PartFile(w.name, "torn")})
                      \cup {PartFile(w.name, "whole")}
    BY <1>0, <1>3, <2>1 DEF FlushEnd
  <2>b. \A p \in Partition \ {q} : parts'[p] = parts[p]
    BY <1>0, <1>3, <2>1 DEF FlushEnd
  <2>c. /\ PartFile(w.name, "torn").name = w.name
        /\ PartFile(w.name, "whole").name = w.name
        /\ PartFile(w.name, "torn").bytes = "torn"
        /\ PartFile(w.name, "whole").bytes = "whole"
        /\ w.name \in PartFile(w.name, "whole").rows
    BY DEF PartFile
  <2>2. \A p \in Partition : Names(parts'[p]) = Names(parts[p])
    <3>1. \A n : n \in Names(parts'[q]) <=> n \in Names(parts[q])
      BY <2>1, <2>a, <2>c DEF Names
    <3>2. Names(parts'[q]) = Names(parts[q])
      BY <3>1 DEF Names
    <3> QED
      BY <2>b, <3>2
  <2>3. \A p \in Partition : \A b : Readable(parts[p], b) => Readable(parts'[p], b)
    BY <2>a, <2>b, <2>c DEF Readable
  <2>4. Readable(parts'[q], w.name)
    BY <2>a, <2>c DEF Readable
  <2>5. bucket' = bucket /\ temp' = temp /\ interrupted' = interrupted
        /\ phase' = phase /\ cur' = cur
    BY <1>3 DEF FlushEnd, history, compactor
  <2>6. \A p \in Partition : captured'[p] \subseteq
          captured[p] \cup (IF p = q THEN {w.name} ELSE {})
    BY <1>0, <1>3, <2>1 DEF FlushEnd
  <2>7. ~(phase = "unlinking" /\ cur = q)
    BY <1>0, <2>1, PartitionDay DEF OpenInv, MergeInv
  <2>8. \A p \in Partition : \A b : Archived(p, b) => Archived(p, b)'
    BY <2>2, <2>5 DEF Archived
  <2>10. \A p \in Partition : \A b : TempHolds(p, b) => TempHolds(p, b)'
    BY <2>1, <2>5, <2>7, <2>b DEF TempHolds
  <2> QED
    BY <1>0, <2>3, <2>4, <2>5, <2>6, <2>8, <2>10 DEF BatchInv
<1>4. ASSUME NEW w \in writing, FlushTorn(w) PROVE BatchInv'
  <2>1. \A p, b : /\ Readable(parts'[p], b) <=> Readable(parts[p], b)
                 /\ Archived(p, b)' <=> Archived(p, b)
    BY <1>4 DEF FlushTorn, Fault, disk, compactor, history, Archived
  <2>2. \A p, b : TempHolds(p, b) => TempHolds(p, b)'
    BY <1>4 DEF FlushTorn, Fault, disk, compactor, history, TempHolds
  <2> QED
    BY <1>0, <1>4, <2>1, <2>2 DEF FlushTorn, Fault, disk, compactor, history, BatchInv
<1>5. CASE StartRun
  <2>1. \A p, b : /\ Readable(parts'[p], b) <=> Readable(parts[p], b)
                 /\ Archived(p, b)' <=> Archived(p, b)
    BY <1>5 DEF StartRun, collector, disk, history, Archived
  <2>2. \A p, b : TempHolds(p, b) => TempHolds(p, b)'
    BY <1>5 DEF StartRun, collector, disk, history, TempHolds
  <2> QED
    BY <1>0, <1>5, <2>1, <2>2 DEF StartRun, collector, disk, history, BatchInv
<1>6. ASSUME NEW p \in queue, Recover(p) PROVE BatchInv'
  <2>1. p \in Partition /\ phase # "unlinking"
    BY <1>0, <1>6 DEF Recover
  <2>2. bucket' = bucket /\ captured' = captured /\ interrupted' = interrupted
    BY <1>6 DEF Recover, collector, history
  <2>3. CASE UNCHANGED <<disk, clock>>
    BY <1>0, <2>1, <2>2, <2>3 DEF BatchInv, TempHolds, Archived, disk
  <2>4. CASE parts[p] # {} /\ temp' = [temp EXCEPT ![p] = NoTemp] /\ parts' = parts
    BY <1>0, <2>1, <2>2, <2>4 DEF BatchInv, TempHolds, Archived
  <2>5. CASE temp[p] # NoTemp /\ parts[p] = {} /\ RenameTemp(p)
    <3>1. RenameKeeps(p)
      BY <1>0, <2>1, <2>2, <2>5, RenameLemma
    <3> QED
      BY <1>0, <2>1, <2>2, <3>1 DEF BatchInv, TempHolds, RenameKeeps
  <2> QED
    BY <1>6, <2>3, <2>4, <2>5 DEF Recover, RecoverTemp
<1>7. CASE SkipPartition
  <2>1. \A p, b : /\ Readable(parts'[p], b) <=> Readable(parts[p], b)
                 /\ Archived(p, b)' <=> Archived(p, b)
    BY <1>7 DEF SkipPartition, collector, disk, compactor, history, Archived
  <2>2. \A p, b : TempHolds(p, b) => TempHolds(p, b)'
    BY <1>7 DEF SkipPartition, collector, disk, compactor, history, TempHolds
  <2> QED
    BY <1>0, <1>7, <2>1, <2>2 DEF SkipPartition, collector, disk, compactor, history, BatchInv
<1>8. CASE AbortOnTorn
  <2>1. \A p, b : /\ Readable(parts'[p], b) <=> Readable(parts[p], b)
                 /\ Archived(p, b)' <=> Archived(p, b)
    BY <1>8 DEF AbortOnTorn, collector, disk, history, Archived
  <2>2. \A p, b : TempHolds(p, b) => TempHolds(p, b)'
    BY <1>8 DEF AbortOnTorn, collector, disk, history, TempHolds
  <2> QED
    BY <1>0, <1>8, <2>1, <2>2 DEF AbortOnTorn, collector, disk, history, BatchInv
<1>9. CASE OpenMerge
  <2>1. /\ cur \in Partition /\ parts[cur] # {}
        /\ parts' = parts /\ bucket' = bucket /\ captured' = captured
        /\ interrupted' = interrupted /\ phase # "unlinking"
    BY <1>0, <1>9 DEF OpenMerge, MergeInv, collector, history
  <2>2. \A p \in Partition \ {cur} : temp'[p] = temp[p]
    BY <1>0, <1>9 DEF OpenMerge
  <2> QED
    BY <1>0, <2>1, <2>2 DEF BatchInv, TempHolds, Archived
<1>10. CASE MergeFails
  <2>1. /\ cur \in Partition /\ parts[cur] # {}
        /\ parts' = parts /\ bucket' = bucket /\ captured' = captured
        /\ interrupted' = interrupted /\ phase # "unlinking"
    BY <1>0, <1>10 DEF MergeFails, MergeInv, collector, history
  <2>2. \A p \in Partition \ {cur} : temp'[p] = temp[p]
    BY <1>0, <1>10 DEF MergeFails
  <2> QED
    BY <1>0, <2>1, <2>2 DEF BatchInv, TempHolds, Archived
<1>11. CASE FinishMerge
  <2>1. /\ cur \in Partition /\ parts[cur] # {}
        /\ parts' = parts /\ bucket' = bucket /\ captured' = captured
        /\ interrupted' = interrupted /\ phase # "unlinking"
    BY <1>0, <1>11 DEF FinishMerge, MergeInv, collector, history
  <2>2. \A p \in Partition \ {cur} : temp'[p] = temp[p]
    BY <1>0, <1>11 DEF FinishMerge
  <2> QED
    BY <1>0, <2>1, <2>2 DEF BatchInv, TempHolds, Archived
<1>12. ASSUME NEW f \in doomed, Unlink(f) PROVE BatchInv'
  <2>1. /\ cur \in Partition /\ phase = "unlinking" /\ phase' = phase
        /\ f \in originals /\ temp[cur] = [rows |-> RowsOf(originals), bytes |-> "whole"]
        /\ temp' = temp /\ bucket' = bucket /\ captured' = captured /\ cur' = cur
        /\ interrupted' = interrupted
    BY <1>0, <1>12 DEF Unlink, MergeInv, collector, history
  <2>2. /\ parts'[cur] = parts[cur] \ {f}
        /\ \A p \in Partition \ {cur} : parts'[p] = parts[p]
    BY <1>0, <1>12, <2>1 DEF Unlink
  <2>3. \A b \in f.rows : TempHolds(cur, b)'
    BY <2>1 DEF TempHolds, RowsOf
  <2>4. \A p \in Partition : \A b : Readable(parts[p], b) =>
          Readable(parts'[p], b) \/ (p = cur /\ b \in f.rows)
    BY <2>2 DEF Readable
  <2>5. \A p \in Partition : \A b : Archived(p, b) => Archived(p, b)'
    BY <2>1, <2>2 DEF Archived, Names
  <2>6. \A p \in Partition : \A b : TempHolds(p, b) => TempHolds(p, b)'
    BY <2>1, <2>2 DEF TempHolds
  <2> QED
    BY <1>0, <2>1, <2>3, <2>4, <2>5, <2>6 DEF BatchInv
<1>13. CASE Rename
  <2>1. /\ cur \in Partition /\ parts[cur] = {} /\ bucket' = bucket
        /\ captured' = captured /\ interrupted' = interrupted
    BY <1>0, <1>13 DEF Rename, MergeInv, collector, history
  <2>2. RenameKeeps(cur)
    BY <1>0, <1>13, <2>1, RenameLemma DEF Rename
  <2> QED
    BY <1>0, <1>13, <2>1, <2>2 DEF BatchInv, TempHolds, RenameKeeps
<1>14. CASE CompactionDone
  <2>1. \A p, b : /\ Readable(parts'[p], b) <=> Readable(parts[p], b)
                 /\ Archived(p, b)' <=> Archived(p, b)
    BY <1>14 DEF CompactionDone, collector, disk, compactor, history, Archived
  <2>2. \A p, b : TempHolds(p, b) => TempHolds(p, b)'
    BY <1>14 DEF CompactionDone, collector, disk, compactor, history, TempHolds
  <2> QED
    BY <1>0, <1>14, <2>1, <2>2 DEF CompactionDone, collector, disk, compactor, history, BatchInv
<1>15. CASE CompactionKilled
  <2>1. /\ parts' = parts /\ temp' = temp /\ bucket' = bucket
        /\ captured' = captured /\ interrupted \subseteq interrupted'
    BY <1>15 DEF CompactionKilled, disk, collector
  <2>2. \A p \in Partition : \A b : Archived(p, b) => Archived(p, b)'
    BY <2>1 DEF Archived
  <2>3. CASE phase # "unlinking"
    BY <1>0, <2>1, <2>2, <2>3 DEF BatchInv, TempHolds
  <2>4. CASE phase = "unlinking" /\ doomed # {} /\ doomed # originals
    <3>1. cur \in interrupted'
      BY <1>15, <2>4 DEF CompactionKilled
    <3> QED
      BY <1>0, <2>1, <2>2, <2>4, <3>1 DEF BatchInv, TempHolds
  <2>5. CASE phase = "unlinking" /\ doomed = {}
    <3>1. parts[cur] = {}
      BY <1>0, <2>5 DEF MergeInv
    <3> QED
      BY <1>0, <2>1, <2>2, <2>5, <3>1 DEF BatchInv, TempHolds
  <2>6. CASE phase = "unlinking" /\ doomed = originals
    <3>1. /\ parts[cur] = originals
          /\ \A f \in originals : f.bytes = "whole"
          /\ temp[cur] = [rows |-> RowsOf(originals), bytes |-> "whole"]
      BY <1>0, <2>6 DEF MergeInv
    <3>2. \A b : TempHolds(cur, b) => Readable(parts[cur], b)
      BY <3>1 DEF TempHolds, RowsOf, Readable
    <3> QED
      BY <1>0, <2>1, <2>2, <2>6, <3>2 DEF BatchInv, TempHolds
  <2> QED
    BY <2>3, <2>4, <2>5, <2>6
<1>16. CASE UpdateAborts
  <2>1. \A p, b : /\ Readable(parts'[p], b) <=> Readable(parts[p], b)
                 /\ Archived(p, b)' <=> Archived(p, b)
    BY <1>16 DEF UpdateAborts, Fault, collector, disk, compactor, history, Archived
  <2>2. \A p, b : TempHolds(p, b) => TempHolds(p, b)'
    BY <1>16 DEF UpdateAborts, Fault, collector, disk, compactor, history, TempHolds
  <2> QED
    BY <1>0, <1>16, <2>1, <2>2 DEF UpdateAborts, Fault, collector, disk, compactor, history, BatchInv
<1>17. CASE SyncStart
  <2>1. \A p, b : /\ Readable(parts'[p], b) <=> Readable(parts[p], b)
                 /\ Archived(p, b)' <=> Archived(p, b)
    BY <1>17 DEF SyncStart, collector, disk, compactor, Archived
  <2>2. \A p, b : TempHolds(p, b) => TempHolds(p, b)'
    BY <1>17 DEF SyncStart, collector, disk, compactor, TempHolds
  <2> QED
    BY <1>0, <1>17, <2>1, <2>2 DEF SyncStart, collector, disk, compactor, BatchInv
<1>18. ASSUME NEW e \in shipping, UploadFails(e[1], e[2]) PROVE BatchInv'
  <2>1. e[1] \in Partition /\ e[2] \in parts[e[1]]
    BY <1>0 DEF JobInv
  <2>2. \A p \in Partition : \A o \in bucket[p] :
          o.name \notin Names(parts[p]) => o \in bucket'[p]
    BY <1>0, <1>18, <2>1 DEF UploadFails, Put, Names
  <2>3. parts' = parts /\ temp' = temp /\ captured' = captured
        /\ interrupted' = interrupted /\ phase # "unlinking"
    BY <1>18 DEF UploadFails, disk, collector, history
  <2>4. \A p \in Partition : \A b : Archived(p, b) => Archived(p, b)'
    BY <2>2, <2>3 DEF Archived
  <2> QED
    BY <1>0, <2>3, <2>4 DEF BatchInv, TempHolds
<1>19. ASSUME NEW e \in shipping, UploadShort(e[1], e[2]) PROVE BatchInv'
  <2>1. e[1] \in Partition /\ e[2] \in parts[e[1]]
    BY <1>0 DEF JobInv
  <2>2. \A p \in Partition : \A o \in bucket[p] :
          o.name \notin Names(parts[p]) => o \in bucket'[p]
    BY <1>0, <1>19, <2>1 DEF UploadShort, Put, ShortCopy, Names
  <2>3. parts' = parts /\ temp' = temp /\ captured' = captured
        /\ interrupted' = interrupted /\ phase # "unlinking"
    BY <1>19 DEF UploadShort, disk, collector, history
  <2>4. \A p \in Partition : \A b : Archived(p, b) => Archived(p, b)'
    BY <2>2, <2>3 DEF Archived
  <2> QED
    BY <1>0, <2>3, <2>4 DEF BatchInv, TempHolds
<1>20. ASSUME NEW e \in shipping, UploadConfirmed(e[1], e[2]) PROVE BatchInv'
  <2>1. e[1] \in Partition /\ e[2] \in parts[e[1]]
    BY <1>0 DEF JobInv
  <2>2. \A p \in Partition : \A o \in bucket[p] :
          o.name \notin Names(parts[p]) => o \in bucket'[p]
    BY <1>0, <1>20, <2>1 DEF UploadConfirmed, Put, Names
  <2>3. parts' = parts /\ temp' = temp /\ captured' = captured
        /\ interrupted' = interrupted /\ phase # "unlinking"
    BY <1>20 DEF UploadConfirmed, disk, collector, history
  <2>4. \A p \in Partition : \A b : Archived(p, b) => Archived(p, b)'
    BY <2>2, <2>3 DEF Archived
  <2> QED
    BY <1>0, <2>3, <2>4 DEF BatchInv, TempHolds
<1>21. ASSUME NEW e \in shipping, Prune(e[1], e[2]) PROVE BatchInv'
  <2>1. /\ e[1] \in Partition /\ e[2] \in parts[e[1]] /\ e[2] \in bucket[e[1]]
        /\ phase # "unlinking" /\ temp' = temp /\ bucket' = bucket
        /\ captured' = captured /\ interrupted' = interrupted
    BY <1>0, <1>21 DEF Prune, JobInv, collector, history
  <2>2. /\ parts'[e[1]] = parts[e[1]] \ {e[2]}
        /\ \A p \in Partition \ {e[1]} : parts'[p] = parts[p]
    BY <1>0, <1>21, <2>1 DEF Prune
  <2>3. e[2].name \notin Names(parts'[e[1]])
    BY <1>0, <2>1, <2>2 DEF NamesInv, Names
  <2>4. \A p \in Partition : \A b : Readable(parts[p], b) =>
          Readable(parts'[p], b) \/ Archived(p, b)'
    BY <2>1, <2>2, <2>3 DEF Readable, Archived
  <2>5. \A p \in Partition : \A b : Archived(p, b) => Archived(p, b)'
    BY <2>1, <2>2 DEF Archived, Names
  <2>6. \A p \in Partition : \A b : TempHolds(p, b) => TempHolds(p, b)'
    BY <2>1, <2>2 DEF TempHolds
  <2> QED
    BY <1>0, <2>1, <2>4, <2>5, <2>6 DEF BatchInv
<1>22. CASE SyncDone
  <2>1. \A p, b : /\ Readable(parts'[p], b) <=> Readable(parts[p], b)
                 /\ Archived(p, b)' <=> Archived(p, b)
    BY <1>22 DEF SyncDone, collector, disk, compactor, history, Archived
  <2>2. \A p, b : TempHolds(p, b) => TempHolds(p, b)'
    BY <1>22 DEF SyncDone, collector, disk, compactor, history, TempHolds
  <2> QED
    BY <1>0, <1>22, <2>1, <2>2 DEF SyncDone, collector, disk, compactor, history, BatchInv
<1>23. CASE SyncKilled
  <2>1. \A p, b : /\ Readable(parts'[p], b) <=> Readable(parts[p], b)
                 /\ Archived(p, b)' <=> Archived(p, b)
    BY <1>23 DEF SyncKilled, Fault, collector, disk, compactor, history, Archived
  <2>2. \A p, b : TempHolds(p, b) => TempHolds(p, b)'
    BY <1>23 DEF SyncKilled, Fault, collector, disk, compactor, history, TempHolds
  <2> QED
    BY <1>0, <1>23, <2>1, <2>2 DEF SyncKilled, Fault, collector, disk, compactor, history, BatchInv
<1>24. CASE UNCHANGED vars
  <2>1. \A p, b : /\ Readable(parts'[p], b) <=> Readable(parts[p], b)
                 /\ Archived(p, b)' <=> Archived(p, b)
    BY <1>24 DEF vars, Archived
  <2>2. \A p, b : TempHolds(p, b) => TempHolds(p, b)'
    BY <1>24 DEF vars, TempHolds
  <2> QED
    BY <1>0, <1>24, <2>1, <2>2 DEF vars, BatchInv
<1> QED
  BY <1>1, <1>2, <1>3, <1>4, <1>5, <1>6, <1>7, <1>8, <1>9, <1>10, <1>11,
     <1>12, <1>13, <1>14, <1>15, <1>16, <1>17, <1>18, <1>19, <1>20, <1>21,
     <1>22, <1>23, <1>24 DEF Next, Collect, Compact, Sync, Ship

-----------------------------------------------------------------------------
\* IndInv holds in every reachable state, for any number of streams, days,
\* flushes and faults.
THEOREM Inductive == Spec => []IndInv
<1>1. IndInv /\ [Next]_vars => IndInv'
  BY TypeStep, NamesStep, OpenStep, JobStep, MergeStep, BatchStep DEF IndInv
<1> QED
  BY InitIndInv, <1>1, PTL DEF Spec

\* Every variable keeps its type: in particular a finalised temp is always a
\* part file, never a missing one (compact.py:55-63).
THEOREM TypeCorrect == Spec => []TypeOK
<1>1. IndInv => TypeOK
  BY DEF IndInv
<1> QED
  BY Inductive, <1>1, PTL

\* No crash, failed merge or failed upload costs a captured batch, except a
\* kill in the middle of the unlinks.
THEOREM PreservedAlways == Spec => []Preserved
<1>1. IndInv => Preserved
  BY DEF IndInv, BatchInv, Preserved, TempHolds, OnDisk
<1> QED
  BY Inductive, <1>1, PTL

\* The nightly job and the collectors never meet on a part.
THEOREM WriterKeepsItsPartAlways == Spec => []WriterKeepsItsPart
<1>1. IndInv => WriterKeepsItsPart
  <2> SUFFICES ASSUME IndInv, NEW w \in writing
               PROVE  /\ PartFile(w.name, "torn") \in parts[w.part]
                      /\ ~ \E e \in shipping : e[1] = w.part
    BY DEF WriterKeepsItsPart
  <2>1. w.part \in Partition /\ cutoff \in Nat
    BY LakeAssumption DEF IndInv, TypeOK
  <2>2. ASSUME NEW e \in shipping, e[1] = w.part PROVE FALSE
    <3>1. phase # "idle" /\ w.part[2] < cutoff
      BY <2>2 DEF IndInv, JobInv
    <3>2. w.part[2] >= cutoff
      BY <3>1 DEF IndInv, OpenInv
    <3> QED
      BY <2>1, <3>1, <3>2, PartitionDay
  <2> QED
    BY <2>2 DEF IndInv, OpenInv
<1> QED
  BY Inductive, <1>1, PTL

\* A step removes a readable part only while a complete copy of it exists.
LEMMA DeleteStep == IndInv /\ [Next]_vars => CopyKept
<1> SUFFICES ASSUME IndInv, [Next]_vars PROVE CopyKept
  OBVIOUS
<1>0. TypeOK /\ NamesInv /\ OpenInv /\ JobInv /\ MergeInv /\ BatchInv
  BY DEF IndInv
<1> USE LakeAssumption DEF TypeOK
<1>1. CASE DayTick
  <2>1. \A p \in Partition : parts[p] \subseteq parts'[p]
    BY <1>0, <1>1 DEF DayTick, collector, disk, compactor, history
  <2> QED
    BY <2>1 DEF CopyKept
<1>2. ASSUME NEW s \in Streams, FlushStart(s) PROVE CopyKept
  <2>1. <<s, today>> \in Partition
    BY <1>0, <1>2 DEF FlushStart, Partition
  <2>2. \A p \in Partition : parts[p] \subseteq parts'[p]
    BY <1>0, <1>2, <2>1 DEF FlushStart
  <2> QED
    BY <2>2 DEF CopyKept
<1>3. ASSUME NEW w \in writing, FlushEnd(w) PROVE CopyKept
  <2>1. \A p \in Partition : \A f \in parts[p] \ parts'[p] :
          f = PartFile(w.name, "torn")
    BY <1>0, <1>3 DEF FlushEnd
  <2>2. PartFile(w.name, "torn").bytes = "torn"
    BY DEF PartFile
  <2> QED
    BY <2>1, <2>2 DEF CopyKept
<1>4. ASSUME NEW w \in writing, FlushTorn(w) PROVE CopyKept
  <2>1. \A p \in Partition : parts[p] \subseteq parts'[p]
    BY <1>0, <1>4 DEF FlushTorn, Fault, disk, compactor, history
  <2> QED
    BY <2>1 DEF CopyKept
<1>5. CASE StartRun
  <2>1. \A p \in Partition : parts[p] \subseteq parts'[p]
    BY <1>0, <1>5 DEF StartRun, collector, disk, history
  <2> QED
    BY <2>1 DEF CopyKept
<1>6. ASSUME NEW q \in queue, Recover(q) PROVE CopyKept
  <2>1. \A p \in Partition : parts[p] \subseteq parts'[p]
    BY <1>0, <1>6 DEF Recover, RecoverTemp, RenameTemp, collector, disk, history
  <2> QED
    BY <2>1 DEF CopyKept
<1>7. CASE SkipPartition
  <2>1. \A p \in Partition : parts[p] \subseteq parts'[p]
    BY <1>0, <1>7 DEF SkipPartition, collector, disk, compactor, history
  <2> QED
    BY <2>1 DEF CopyKept
<1>8. CASE AbortOnTorn
  <2>1. \A p \in Partition : parts[p] \subseteq parts'[p]
    BY <1>0, <1>8 DEF AbortOnTorn, collector, disk, history
  <2> QED
    BY <2>1 DEF CopyKept
<1>9. CASE OpenMerge
  <2>1. \A p \in Partition : parts[p] \subseteq parts'[p]
    BY <1>0, <1>9 DEF OpenMerge, collector, history
  <2> QED
    BY <2>1 DEF CopyKept
<1>10. CASE MergeFails
  <2>1. \A p \in Partition : parts[p] \subseteq parts'[p]
    BY <1>0, <1>10 DEF MergeFails, Fault, collector, history
  <2> QED
    BY <2>1 DEF CopyKept
<1>11. CASE FinishMerge
  <2>1. \A p \in Partition : parts[p] \subseteq parts'[p]
    BY <1>0, <1>11 DEF FinishMerge, collector, history
  <2> QED
    BY <2>1 DEF CopyKept
<1>12. ASSUME NEW f \in doomed, Unlink(f) PROVE CopyKept
  <2>1. \A p \in Partition : \A g \in parts[p] \ parts'[p] : p = cur /\ g = f
    BY <1>0, <1>12 DEF Unlink
  <2>2. /\ temp' = temp /\ f \in originals
        /\ temp[cur] = [rows |-> RowsOf(originals), bytes |-> "whole"]
    BY <1>0, <1>12 DEF Unlink, MergeInv
  <2>3. f.rows \subseteq temp'[cur].rows /\ temp'[cur].bytes = "whole"
    BY <2>2 DEF RowsOf
  <2> QED
    BY <2>1, <2>3 DEF CopyKept
<1>13. CASE Rename
  <2>1. \A p \in Partition : parts[p] \subseteq parts'[p]
    BY <1>0, <1>13 DEF Rename, RenameTemp, collector, compactor, history
  <2> QED
    BY <2>1 DEF CopyKept
<1>14. CASE CompactionDone
  <2>1. \A p \in Partition : parts[p] \subseteq parts'[p]
    BY <1>0, <1>14 DEF CompactionDone, collector, disk, compactor, history
  <2> QED
    BY <2>1 DEF CopyKept
<1>15. CASE CompactionKilled
  <2>1. \A p \in Partition : parts[p] \subseteq parts'[p]
    BY <1>0, <1>15 DEF CompactionKilled, Fault, collector, disk
  <2> QED
    BY <2>1 DEF CopyKept
<1>16. CASE UpdateAborts
  <2>1. \A p \in Partition : parts[p] \subseteq parts'[p]
    BY <1>0, <1>16 DEF UpdateAborts, Fault, collector, disk, compactor, history
  <2> QED
    BY <2>1 DEF CopyKept
<1>17. CASE SyncStart
  <2>1. \A p \in Partition : parts[p] \subseteq parts'[p]
    BY <1>0, <1>17 DEF SyncStart, collector, disk, compactor
  <2> QED
    BY <2>1 DEF CopyKept
<1>18. ASSUME NEW e \in shipping, UploadFails(e[1], e[2]) PROVE CopyKept
  <2>1. \A p \in Partition : parts[p] \subseteq parts'[p]
    BY <1>0, <1>18 DEF UploadFails, Fault, Put, collector, disk, compactor, history
  <2> QED
    BY <2>1 DEF CopyKept
<1>19. ASSUME NEW e \in shipping, UploadShort(e[1], e[2]) PROVE CopyKept
  <2>1. \A p \in Partition : parts[p] \subseteq parts'[p]
    BY <1>0, <1>19 DEF UploadShort, Fault, Put, ShortCopy, collector, disk, compactor, history
  <2> QED
    BY <2>1 DEF CopyKept
<1>20. ASSUME NEW e \in shipping, UploadConfirmed(e[1], e[2]) PROVE CopyKept
  <2>1. \A p \in Partition : parts[p] \subseteq parts'[p]
    BY <1>0, <1>20 DEF UploadConfirmed, Put, collector, disk, compactor, history
  <2> QED
    BY <2>1 DEF CopyKept
<1>21. ASSUME NEW e \in shipping, Prune(e[1], e[2]) PROVE CopyKept
  <2>1. \A p \in Partition : \A g \in parts[p] \ parts'[p] :
          p = e[1] /\ g = e[2]
    BY <1>0, <1>21 DEF Prune
  <2>2. e[2] \in bucket'[e[1]]
    BY <1>0, <1>21 DEF Prune, JobInv
  <2> QED
    BY <2>1, <2>2 DEF CopyKept
<1>22. CASE SyncDone
  <2>1. \A p \in Partition : parts[p] \subseteq parts'[p]
    BY <1>0, <1>22 DEF SyncDone, collector, disk, compactor, history
  <2> QED
    BY <2>1 DEF CopyKept
<1>23. CASE SyncKilled
  <2>1. \A p \in Partition : parts[p] \subseteq parts'[p]
    BY <1>0, <1>23 DEF SyncKilled, Fault, collector, disk, compactor, history
  <2> QED
    BY <2>1 DEF CopyKept
<1>24. CASE UNCHANGED vars
  <2>1. \A p \in Partition : parts[p] \subseteq parts'[p]
    BY <1>0, <1>24 DEF vars
  <2> QED
    BY <2>1 DEF CopyKept
<1> QED
  BY <1>1, <1>2, <1>3, <1>4, <1>5, <1>6, <1>7, <1>8, <1>9, <1>10, <1>11,
     <1>12, <1>13, <1>14, <1>15, <1>16, <1>17, <1>18, <1>19, <1>20, <1>21,
     <1>22, <1>23, <1>24 DEF Next, Collect, Compact, Sync, Ship

\* Compaction and sync delete a readable part only while its rows are in a
\* finished merge or in the bucket.
THEOREM DeletedOnlyWithCopyAlways == Spec => DeletedOnlyWithCopy
<1>1. IndInv /\ [Next]_vars => [CopyKept]_vars
  BY DeleteStep
<1> QED
  BY Inductive, <1>1, PTL DEF Spec, DeletedOnlyWithCopy

-----------------------------------------------------------------------------
(* What a step does to the files.                                          *)

\* A step that leaves every file alone, and ships or merges nothing more.
Still ==
    /\ UNCHANGED <<clock, writing, captured, parts, temp, bucket>>
    /\ shipping' \subseteq shipping /\ today <= today' /\ today' \in Nat
    /\ uncompacted \subseteq uncompacted'
    /\ phase' = "merging" => phase = "merging" /\ cur' = cur
    /\ \/ UNCHANGED interrupted
       \/ cur \in Partition /\ interrupted' = interrupted \cup {cur}

\* A part, or a shorter copy of it, goes up.
Uploads(p, f) ==
    /\ \E o \in Object : /\ o.name = f.name /\ o.rows = f.rows /\ Put(p, o)
                        /\ o.bytes \in {f.bytes, "short"}
    /\ phase = "sync" /\ phase' \in {"sync", "confirmed"} /\ shipping' \subseteq shipping
    /\ UNCHANGED <<clock, writing, captured, parts, temp, today, cur, history>>

\* Every step is one of these.
LEMMA Kinds ==
  ASSUME IndInv, [Next]_vars
  PROVE  \/ Still \/ SyncStart \/ Rename
         \/ \E s \in Streams : FlushStart(s)
         \/ \E w \in writing : FlushEnd(w) \/ FlushTorn(w)
         \/ \E p \in queue : Recover(p)
         \/ OpenMerge \/ MergeFails \/ FinishMerge
         \/ \E f \in doomed : Unlink(f)
         \/ \E e \in shipping : Uploads(e[1], e[2]) \/ Prune(e[1], e[2])
<1>0. today \in Nat /\ TypeOK /\ JobInv /\ MergeInv
  BY LakeAssumption DEF IndInv, TypeOK
<1>1. ASSUME DayTick \/ StartRun \/ SkipPartition \/ AbortOnTorn \/ CompactionDone
             \/ UpdateAborts \/ SyncDone \/ SyncKilled \/ UNCHANGED vars
      PROVE  Still
  <2>1. /\ UNCHANGED <<clock, writing, captured, parts, temp, bucket, interrupted, uncompacted>>
        /\ shipping' \subseteq shipping /\ today <= today' /\ today' \in Nat
    BY <1>0, <1>1 DEF DayTick, StartRun, SkipPartition, AbortOnTorn, CompactionDone,
       UpdateAborts, SyncDone, SyncKilled, vars, collector, disk, compactor, history
  <2>2. phase' = "merging" => phase = "merging" /\ cur' = cur
    BY <1>1 DEF DayTick, StartRun, SkipPartition, AbortOnTorn, CompactionDone,
       UpdateAborts, SyncDone, SyncKilled, vars, compactor
  <2> QED
    BY <2>1, <2>2 DEF Still
<1>2. ASSUME CompactionKilled PROVE Still
  BY <1>0, <1>2 DEF CompactionKilled, collector, disk, Still, MergeInv
<1>3. ASSUME NEW e \in shipping, UploadFails(e[1], e[2]) \/ UploadShort(e[1], e[2])
                                 \/ UploadConfirmed(e[1], e[2])
      PROVE  Still \/ Uploads(e[1], e[2])
  <2> DEFINE f == e[2]
  <2>1. f \in LocalFile
    BY <1>0 DEF TypeOK
  <2>2. /\ f \in Object /\ ShortCopy(f) \in Object
        /\ ShortCopy(f).name = f.name /\ ShortCopy(f).rows = f.rows
        /\ ShortCopy(f).bytes = "short"
    BY <2>1 DEF LocalFile, Object, ShortCopy
  <2>3. /\ phase = "sync" /\ phase' \in {"sync", "confirmed"} /\ shipping' \subseteq shipping
        /\ UNCHANGED <<clock, writing, captured, parts, temp, today, cur, history>>
        /\ UNCHANGED bucket \/ Put(e[1], f) \/ Put(e[1], ShortCopy(f))
    BY <1>3 DEF UploadFails, UploadShort, UploadConfirmed, collector, disk, compactor
  <2>4. CASE UNCHANGED bucket
    BY <1>0, <2>3, <2>4 DEF Still, history
  <2> HIDE DEF f
  <2>5. CASE Put(e[1], f) \/ Put(e[1], ShortCopy(f))
    BY <2>2, <2>3, <2>5 DEF Uploads, f
  <2> QED
    BY <2>3, <2>4, <2>5 DEF f
<1> QED
  BY <1>1, <1>2, <1>3 DEF Next, Collect, Compact, Sync, Ship

\* A part about to be shipped is in place, on a past day on which no part is open.
LEMMA ShippedIs ==
  ASSUME IndInv, NEW e \in shipping
  PROVE  /\ e[1] \in Partition /\ e[2] \in parts[e[1]] /\ e[2] \in LocalFile
         /\ e[1][2] < today
         /\ \A w \in writing : w.part # e[1]
<1>1. /\ e[1] \in Partition /\ e[2] \in parts[e[1]] /\ e[2] \in LocalFile
      /\ e[1][2] < cutoff /\ phase # "idle"
  BY DEF IndInv, TypeOK, JobInv
<1>2. cutoff <= today /\ cutoff \in Nat /\ today \in Nat /\ e[1][2] \in Nat
  BY <1>1, PartitionDay, LakeAssumption DEF IndInv, TypeOK, JobInv
<1>3. \A w \in writing : w.part \in Partition /\ w.part[2] >= cutoff
  BY <1>1 DEF IndInv, OpenInv, TypeOK
<1> QED
  BY <1>1, <1>2, <1>3, PartitionDay

-----------------------------------------------------------------------------
(* Fresh stamps.                                                           *)

\* A stamp is used once: what is stored or captured bears earlier ones, and the
\* batch of an open part is neither captured nor uploaded yet.
FreshInv ==
    /\ \A p \in Partition :
         /\ \A f \in parts[p] : \A b \in f.rows : b < clock
         /\ \A b \in temp[p].rows : b < clock
         /\ \A o \in bucket[p] : \A b \in o.rows : b < clock
         /\ \A b \in captured[p] : b < clock
    /\ \A w \in writing :
         /\ w.name \notin captured[w.part]
         /\ \A o \in bucket[w.part] : w.name \notin o.rows

\* Every step keeps the stamps fresh.
LEMMA FreshStep ==
  ASSUME IndInv, FreshInv, [Next]_vars
  PROVE  FreshInv'
<1> DEFINE Part(p) == /\ \A f \in parts'[p] : \A b \in f.rows : b < clock'
                      /\ \A b \in temp'[p].rows : b < clock'
                      /\ \A o \in bucket'[p] : \A b \in o.rows : b < clock'
                      /\ \A b \in captured'[p] : b < clock'
           Open(w) == /\ w.name \notin captured'[w.part]
                      /\ \A o \in bucket'[w.part] : w.name \notin o.rows
<1>s. SUFFICES (\A p \in Partition : Part(p)) /\ \A w \in writing' : Open(w)
  BY DEF FreshInv
<1>0. TypeOK /\ NamesInv /\ OpenInv /\ JobInv /\ MergeInv
  BY DEF IndInv
<1>1. /\ clock \in Nat /\ \A n \in Nat : n < clock => n < clock + 1
      /\ \A p \in Partition :
           /\ \A f \in parts[p] : f.rows \subseteq Nat /\ \A b \in f.rows : b < clock
           /\ temp[p].rows \subseteq Nat /\ \A b \in temp[p].rows : b < clock
           /\ \A o \in bucket[p] : o.rows \subseteq Nat /\ \A b \in o.rows : b < clock
           /\ captured[p] \subseteq Nat /\ \A b \in captured[p] : b < clock
      /\ \A w \in writing : /\ w.part \in Partition /\ w.name \in Nat /\ w.name < clock
                            /\ w.name \notin captured[w.part]
                            /\ \A o \in bucket[w.part] : w.name \notin o.rows
  <2>1. clock \in Nat
    BY <1>0 DEF TypeOK
  <2>2. \A p \in Partition :
           /\ \A f \in parts[p] : f.rows \subseteq Nat
           /\ temp[p].rows \subseteq Nat
           /\ \A o \in bucket[p] : o.rows \subseteq Nat
           /\ captured[p] \subseteq Nat
    BY <1>0 DEF TypeOK, LocalFile, Object, Temp, NoTemp
  <2>3. \A w \in writing : w.part \in Partition /\ w.name \in Nat /\ w.name < clock
    <3>1. \A w \in writing : PartFile(w.name, "torn") \in parts[w.part]
      BY <1>0 DEF OpenInv
    <3>2. \A n : PartFile(n, "torn").name = n
      BY DEF PartFile
    <3> QED
      BY <1>0, <3>1, <3>2 DEF NamesInv, TypeOK
  <2> QED
    BY <2>1, <2>2, <2>3 DEF FreshInv
<1>2. ASSUME UNCHANGED <<clock, writing, captured, parts, temp, bucket>>
      PROVE  (\A p \in Partition : Part(p)) /\ \A w \in writing' : Open(w)
  BY <1>1, <1>2
<1>3. CASE Still \/ SyncStart
  BY <1>2, <1>3 DEF Still, SyncStart, collector, disk
<1>4. ASSUME NEW s \in Streams, FlushStart(s)
      PROVE  (\A p \in Partition : Part(p)) /\ \A w \in writing' : Open(w)
  <2> DEFINE q == <<s, today>>
  <2>1. q \in Partition /\ clock' = clock + 1 /\ UNCHANGED <<temp, bucket, captured>>
    BY <1>0, <1>4 DEF FlushStart, Partition, TypeOK
  <2>2. \A p \in Partition : \A f \in parts'[p] : f \in parts[p] \/ f.rows = {clock}
    BY <1>0, <1>4, <2>1 DEF FlushStart, PartFile, TypeOK
  <2>3. \A w \in writing' : w \in writing \/ (w.part = q /\ w.name = clock)
    BY <1>4 DEF FlushStart
  <2> HIDE DEF q
  <2>4. \A p \in Partition : Part(p)
    BY <1>1, <2>1, <2>2
  <2>5. Open([part |-> q, name |-> clock])
    BY <1>1, <2>1
  <2>6. \A w \in writing' : Open(w)
    BY <1>1, <2>1, <2>3
  <2> QED
    BY <2>4, <2>6
<1>5. ASSUME NEW w \in writing, FlushEnd(w)
      PROVE  (\A p \in Partition : Part(p)) /\ \A v \in writing' : Open(v)
  <2>1. /\ clock' = clock /\ UNCHANGED <<temp, bucket>>
        /\ writing' = writing \ {w}
        /\ \A p \in Partition : captured'[p] = IF p = w.part THEN captured[p] \cup {w.name}
                                               ELSE captured[p]
        /\ w.part \in Partition /\ w.name \in Nat /\ w.name < clock
    BY <1>0, <1>1, <1>5 DEF FlushEnd, TypeOK
  <2>2. \A p \in Partition : \A f \in parts'[p] : f \in parts[p] \/ (p = w.part /\ f.rows = {w.name})
    BY <1>0, <1>5 DEF FlushEnd, PartFile, TypeOK
  <2>3. \A v \in writing : v.part = w.part /\ v.name = w.name => v = w
    BY <1>0 DEF TypeOK
  <2>4. ASSUME NEW p \in Partition PROVE Part(p)
    <3>1. \A f \in parts'[p] : \A b \in f.rows : b < clock'
      BY <1>1, <2>1, <2>2
    <3>2. \A b \in captured'[p] : b < clock'
      BY <1>1, <2>1
    <3>3. /\ \A b \in temp'[p].rows : b < clock'
          /\ \A o \in bucket'[p] : \A b \in o.rows : b < clock'
      BY <1>1, <2>1
    <3> QED
      BY <3>1, <3>2, <3>3
  <2>5. \A v \in writing' : Open(v)
    BY <1>1, <2>1, <2>3
  <2> QED
    BY <2>4, <2>5
<1>6. ASSUME NEW w \in writing, FlushTorn(w)
      PROVE  (\A p \in Partition : Part(p)) /\ \A v \in writing' : Open(v)
  BY <1>1, <1>6 DEF FlushTorn, disk
<1>7. ASSUME UNCHANGED <<writing, captured, bucket>>, clock' = clock \/ clock' = clock + 1,
             \A p \in Partition : \A f \in parts'[p] : f \in parts[p] \/ f.rows \subseteq temp[p].rows,
             \A p \in Partition : \A b \in temp'[p].rows :
               b \in temp[p].rows \/ \E f \in parts[p] : b \in f.rows
      PROVE  (\A p \in Partition : Part(p)) /\ \A v \in writing' : Open(v)
  <2>1. \A v \in writing' : Open(v)
    BY <1>1, <1>7
  <2>2. ASSUME NEW p \in Partition PROVE Part(p)
    <3>1. \A b \in Nat : b < clock => b < clock'
      BY <1>1, <1>7
    <3>2. \A f \in parts'[p] : \A b \in f.rows : b \in Nat /\ b < clock
      BY <1>1, <1>7
    <3>3. \A b \in temp'[p].rows : b \in Nat /\ b < clock
      BY <1>1, <1>7
    <3> QED
      BY <1>1, <1>7, <3>1, <3>2, <3>3
  <2> QED
    BY <2>1, <2>2
<1>8. ASSUME NEW q \in Partition, RenameTemp(q), UNCHANGED <<writing, captured, bucket>>
      PROVE  (\A p \in Partition : Part(p)) /\ \A v \in writing' : Open(v)
  <2>1. clock' = clock + 1
    BY <1>8 DEF RenameTemp
  <2>2. \A p \in Partition : \A f \in parts'[p] : f \in parts[p] \/ f.rows \subseteq temp[p].rows
    BY <1>0, <1>8 DEF RenameTemp, TypeOK
  <2>3. \A p \in Partition : \A b \in temp'[p].rows :
               b \in temp[p].rows \/ \E f \in parts[p] : b \in f.rows
    BY <1>0, <1>8 DEF RenameTemp, TypeOK, NoTemp
  <2> QED
    BY <1>7, <1>8, <2>1, <2>2, <2>3
<1>9. ASSUME NEW q \in queue, Recover(q)
      PROVE  (\A p \in Partition : Part(p)) /\ \A v \in writing' : Open(v)
  <2>1. q \in Partition /\ UNCHANGED <<writing, captured, bucket>>
    BY <1>0, <1>9 DEF Recover, TypeOK, collector
  <2>2. CASE UNCHANGED <<disk, clock>>
    BY <1>2, <2>1, <2>2 DEF disk
  <2>3. CASE temp' = [temp EXCEPT ![q] = NoTemp] /\ UNCHANGED <<parts, clock>>
    <3>1. \A p \in Partition : \A b \in temp'[p].rows : b \in temp[p].rows
      BY <1>0, <2>3 DEF TypeOK, NoTemp
    <3> QED
      BY <1>7, <2>1, <2>3, <3>1
  <2>4. CASE RenameTemp(q)
    BY <1>8, <2>1, <2>4
  <2> QED
    BY <1>9, <2>2, <2>3, <2>4 DEF Recover, RecoverTemp
<1>10. CASE Rename
  <2>1. cur \in Partition /\ UNCHANGED <<writing, captured, bucket>> /\ RenameTemp(cur)
    BY <1>0, <1>10 DEF Rename, MergeInv, collector
  <2> QED
    BY <1>8, <2>1
<1>11. CASE OpenMerge
  <2>1. cur \in Partition /\ UNCHANGED <<writing, captured, bucket, clock, parts>>
    BY <1>0, <1>11 DEF OpenMerge, MergeInv, collector
  <2>2. \A p \in Partition : \A b \in temp'[p].rows : b \in temp[p].rows
    BY <1>0, <1>11, <2>1 DEF OpenMerge, TypeOK
  <2> QED
    BY <1>7, <2>1, <2>2
<1>12. CASE MergeFails \/ FinishMerge
  <2>1. /\ cur \in Partition /\ UNCHANGED <<writing, captured, bucket, clock, parts>>
        /\ parts[cur] = originals
    BY <1>0, <1>12 DEF MergeFails, FinishMerge, MergeInv, collector
  <2>2. \A p \in Partition : p # cur => temp'[p] = temp[p]
    BY <1>0, <1>12 DEF MergeFails, FinishMerge, TypeOK
  <2>3. temp'[cur].rows \subseteq RowsOf(originals)
    BY <1>0, <1>12, <2>1 DEF MergeFails, FinishMerge, TypeOK, RowsOf
  <2>4. \A b \in temp'[cur].rows : \E f \in parts[cur] : b \in f.rows
    BY <2>1, <2>3 DEF RowsOf
  <2> QED
    BY <1>7, <2>1, <2>2, <2>4
<1>13. ASSUME NEW f \in doomed, Unlink(f)
       PROVE  (\A p \in Partition : Part(p)) /\ \A v \in writing' : Open(v)
  <2>1. UNCHANGED <<writing, captured, bucket, clock, temp>>
    BY <1>13 DEF Unlink, collector
  <2>2. \A p \in Partition : \A g \in parts'[p] : g \in parts[p]
    BY <1>0, <1>13 DEF Unlink, TypeOK
  <2> QED
    BY <1>7, <2>1, <2>2
<1>14. ASSUME NEW e \in shipping, Prune(e[1], e[2])
       PROVE  (\A p \in Partition : Part(p)) /\ \A v \in writing' : Open(v)
  <2>1. UNCHANGED <<writing, captured, bucket, clock, temp>>
    BY <1>14 DEF Prune, collector
  <2>2. \A p \in Partition : \A g \in parts'[p] : g \in parts[p]
    BY <1>0, <1>14 DEF Prune, TypeOK
  <2> QED
    BY <1>7, <2>1, <2>2
<1>15. ASSUME NEW e \in shipping, Uploads(e[1], e[2])
       PROVE  (\A p \in Partition : Part(p)) /\ \A v \in writing' : Open(v)
  <2>1. /\ e[1] \in Partition /\ e[2] \in parts[e[1]]
        /\ \A w \in writing : w.part # e[1]
    BY ShippedIs
  <2>2. PICK o \in Object : o.name = e[2].name /\ o.rows = e[2].rows /\ Put(e[1], o)
    BY <1>15 DEF Uploads
  <2>3. \A p \in Partition : /\ p # e[1] => bucket'[p] = bucket[p]
                             /\ \A x \in bucket'[p] : x \in bucket[p] \/ (p = e[1] /\ x = o)
    BY <1>0, <2>1, <2>2 DEF Put, TypeOK
  <2>4. UNCHANGED <<writing, captured, clock, temp, parts>>
    BY <1>15 DEF Uploads
  <2>5. \A p \in Partition : Part(p)
    BY <1>1, <2>1, <2>2, <2>3, <2>4
  <2>6. \A w \in writing' : Open(w)
    BY <1>1, <2>1, <2>3, <2>4
  <2> QED
    BY <2>5, <2>6
<1> QED
  BY <1>3, <1>4, <1>5, <1>6, <1>9, <1>10, <1>11, <1>12, <1>13, <1>14, <1>15, Kinds

-----------------------------------------------------------------------------
(* One copy of each row.                                                   *)

\* Once something of a partition that sync met compacted is shipped, or about to
\* be, the partition has one name left, on disk and in R2, and no temp.
Shipped(p) == bucket[p] # {} \/ \E e \in shipping : e[1] = p
CopyInv ==
    /\ \A p \in Partition : \A f, g \in parts[p] : f # g => f.rows \cap g.rows = {}
    /\ phase = "merging" => temp[cur] # NoTemp
    /\ \A p \in Partition \ uncompacted :
         Shipped(p) =>
           /\ p[2] < today
           /\ temp[p] = NoTemp
           /\ \A w \in writing : w.part # p
           /\ \A f, g \in parts[p] : f = g
           /\ \A o, x \in bucket[p] : o.name = x.name
           /\ \A o \in bucket[p], f \in parts[p] : o.name = f.name

\* No two parts of a partition ever share a row.
LEMMA DisjointStep ==
  ASSUME IndInv, FreshInv, CopyInv, [Next]_vars, NEW p \in Partition
  PROVE  \A f, g \in parts'[p] : f # g => f.rows \cap g.rows = {}
<1> DEFINE Apart(files) == \A f, g \in files : f # g => f.rows \cap g.rows = {}
<1>s. SUFFICES Apart(parts'[p])
  OBVIOUS
<1>0. /\ TypeOK /\ NamesInv /\ OpenInv /\ JobInv /\ MergeInv
      /\ Apart(parts[p]) /\ clock \in Nat
      /\ \A f \in parts[p] : f \in LocalFile /\ \A b \in f.rows : b < clock
  BY DEF IndInv, CopyInv, FreshInv, TypeOK
<1>1. CASE parts'[p] \subseteq parts[p]
  BY <1>0, <1>1
<1>2. ASSUME NEW s \in Streams, FlushStart(s) PROVE Apart(parts'[p])
  <2>1. parts'[p] = parts[p] \/ parts'[p] = parts[p] \cup {PartFile(clock, "torn")}
    BY <1>0, <1>2 DEF FlushStart, TypeOK
  <2>2. PartFile(clock, "torn").rows = {clock} /\ \A f \in parts[p] : clock \notin f.rows
    BY <1>0 DEF PartFile
  <2> QED
    BY <1>0, <2>1, <2>2
<1>3. ASSUME NEW w \in writing, FlushEnd(w) PROVE Apart(parts'[p])
  <2> DEFINE a == PartFile(w.name, "torn")
             b == PartFile(w.name, "whole")
  <2>1. \/ parts'[p] = parts[p]
        \/ a \in parts[p] /\ parts'[p] = (parts[p] \ {a}) \cup {b}
    BY <1>0, <1>3 DEF FlushEnd, OpenInv, TypeOK
  <2>2. a.rows = b.rows
    BY DEF PartFile
  <2> QED
    BY <1>0, <2>1, <2>2
<1>4. ASSUME NEW q \in Partition, RenameTemp(q), parts[q] = {} PROVE Apart(parts'[p])
  <2>1. parts'[p] = parts[p] \/ \A f, g \in parts'[p] : f = g
    BY <1>0, <1>4 DEF RenameTemp, TypeOK
  <2> QED
    BY <1>0, <2>1
<1>5. ASSUME NEW q \in queue, Recover(q) PROVE Apart(parts'[p])
  <2>1. q \in Partition
    BY <1>0 DEF TypeOK
  <2>2. CASE UNCHANGED parts
    BY <1>1, <2>2
  <2>3. CASE RenameTemp(q) /\ parts[q] = {}
    BY <1>4, <2>1, <2>3
  <2> QED
    BY <1>5, <2>2, <2>3 DEF Recover, RecoverTemp, disk
<1>6. CASE Rename
  <2>1. cur \in Partition /\ parts[cur] = {} /\ RenameTemp(cur)
    BY <1>0, <1>6 DEF Rename, MergeInv
  <2> QED
    BY <1>4, <2>1
<1>7. ASSUME \/ Still \/ SyncStart \/ \E w \in writing : FlushTorn(w)
             \/ OpenMerge \/ MergeFails \/ FinishMerge
             \/ \E f \in doomed : Unlink(f)
             \/ \E e \in shipping : Uploads(e[1], e[2]) \/ Prune(e[1], e[2])
      PROVE  parts'[p] \subseteq parts[p]
  BY <1>0, <1>7 DEF Still, SyncStart, FlushTorn, OpenMerge, MergeFails, FinishMerge, Unlink,
     Uploads, Prune, disk, TypeOK
<1> HIDE DEF Apart
<1> QED
  BY <1>1, <1>2, <1>3, <1>5, <1>6, <1>7, Kinds

\* While parts are merged there is a temp.
LEMMA MergingStep ==
  ASSUME IndInv, CopyInv, [Next]_vars, phase' = "merging"
  PROVE  temp'[cur'] # NoTemp
<1>0. /\ TypeOK /\ MergeInv
      /\ phase = "merging" => temp[cur] # NoTemp
  BY DEF IndInv, CopyInv
<1>1. CASE OpenMerge
  <2>1. cur \in Partition /\ cur' = cur /\ temp'[cur] = [rows |-> {}, bytes |-> "torn"]
    BY <1>0, <1>1 DEF OpenMerge, MergeInv, TypeOK
  <2> QED
    BY <2>1 DEF NoTemp
<1>2. ASSUME \/ SyncStart \/ Rename \/ MergeFails \/ FinishMerge
             \/ \E p \in queue : Recover(p)
             \/ \E f \in doomed : Unlink(f)
             \/ \E e \in shipping : Uploads(e[1], e[2]) \/ Prune(e[1], e[2])
      PROVE  FALSE
  BY <1>2 DEF SyncStart, Rename, MergeFails, FinishMerge, Recover, Unlink, Uploads, Prune
<1>3. ASSUME \/ \E s \in Streams : FlushStart(s)
             \/ \E w \in writing : FlushEnd(w) \/ FlushTorn(w)
      PROVE  phase = "merging" /\ temp' = temp /\ cur' = cur
  BY <1>3 DEF FlushStart, FlushEnd, FlushTorn, compactor, disk
<1>4. CASE Still
  BY <1>0, <1>4 DEF Still
<1> QED
  BY <1>0, <1>1, <1>2, <1>3, <1>4, Kinds

\* Nothing comes back to a partition that is shipped.
LEMMA OneNameStep ==
  ASSUME IndInv, CopyInv, [Next]_vars, NEW p \in Partition \ uncompacted', Shipped(p)'
  PROVE  /\ p[2] < today'
         /\ temp'[p] = NoTemp
         /\ \A w \in writing' : w.part # p
         /\ \A f, g \in parts'[p] : f = g
         /\ \A o, x \in bucket'[p] : o.name = x.name
         /\ \A o \in bucket'[p], f \in parts'[p] : o.name = f.name
<1> DEFINE Good == /\ p[2] < today'
                   /\ temp'[p] = NoTemp
                   /\ \A w \in writing' : w.part # p
                   /\ \A f, g \in parts'[p] : f = g
                   /\ \A o, x \in bucket'[p] : o.name = x.name
                   /\ \A o \in bucket'[p], f \in parts'[p] : o.name = f.name
           Was == /\ p[2] < today
                  /\ temp[p] = NoTemp
                  /\ \A w \in writing : w.part # p
                  /\ \A f, g \in parts[p] : f = g
                  /\ \A o, x \in bucket[p] : o.name = x.name
                  /\ \A o \in bucket[p], f \in parts[p] : o.name = f.name
<1>0. /\ TypeOK /\ NamesInv /\ OpenInv /\ JobInv /\ MergeInv
      /\ p \in Partition /\ p[2] \in Nat /\ today \in Nat
  BY PartitionDay, LakeAssumption DEF IndInv, TypeOK
<1>1. p \notin uncompacted /\ Shipped(p) => Was
  BY DEF CopyInv
<1>2. ASSUME UNCHANGED <<uncompacted, bucket>>, shipping' \subseteq shipping PROVE Was
  BY <1>1, <1>2 DEF Shipped
<1>3. ASSUME Still PROVE Good
  <2>1. Was
    BY <1>1, <1>3 DEF Still, Shipped
  <2> QED
    BY <1>0, <1>3, <2>1 DEF Still
<1>4. ASSUME SyncStart PROVE Good
  <2>1. /\ UNCHANGED <<today, temp, writing, parts, bucket>> /\ FlushesSettled
        /\ uncompacted' = uncompacted \cup
             {q \in Partition : /\ Settled(q, today)
                                /\ \/ temp[q] # NoTemp
                                   \/ \E f, g \in parts[q] : f # g}
    BY <1>4 DEF SyncStart, collector, disk
  <2>2. CASE bucket[p] # {}
    <3>1. Was
      BY <1>1, <2>1, <2>2 DEF Shipped
    <3> QED
      BY <2>1, <3>1
  <2>3. CASE bucket[p] = {}
    <3>1. PICK e \in shipping' : e[1] = p
      BY <2>1, <2>3 DEF Shipped
    <3>2. p[2] < today
      BY <1>4, <3>1 DEF SyncStart, Settled
    <3>3. temp[p] = NoTemp /\ \A f, g \in parts[p] : f = g
      BY <1>0, <2>1, <3>2 DEF Settled
    <3>4. \A w \in writing : w.part # p
      BY <1>0, <2>1, <3>2 DEF FlushesSettled
    <3> QED
      BY <2>1, <2>3, <3>2, <3>3, <3>4
  <2> QED
    BY <2>2, <2>3
<1>5. ASSUME NEW s \in Streams, FlushStart(s) PROVE Good
  <2>1. Was
    BY <1>2, <1>5 DEF FlushStart, history
  <2>2. p # <<s, today>>
    BY <1>0, <2>1
  <2>3. /\ parts'[p] = parts[p] /\ UNCHANGED <<today, temp, bucket>>
        /\ \A w \in writing' : w \in writing \/ w.part = <<s, today>>
    BY <1>0, <1>5, <2>2 DEF FlushStart, TypeOK
  <2> QED
    BY <2>1, <2>2, <2>3
<1>6. ASSUME NEW w \in writing, FlushEnd(w) \/ FlushTorn(w) PROVE Good
  <2>1. Was
    BY <1>2, <1>6 DEF FlushEnd, FlushTorn, history
  <2>2. parts'[p] = parts[p] /\ UNCHANGED <<today, temp, bucket>> /\ writing' \subseteq writing
    BY <1>0, <1>6, <2>1 DEF FlushEnd, FlushTorn, disk, TypeOK
  <2> QED
    BY <2>1, <2>2
<1>7. ASSUME UNCHANGED <<uncompacted, bucket, shipping, today, writing>>,
             NEW q \in Partition,
             \A r \in Partition : r # q => temp'[r] = temp[r] /\ parts'[r] = parts[r],
             q = p => temp[p] # NoTemp \/ (temp'[p] = temp[p] /\ parts'[p] = parts[p])
      PROVE  Good
  <2>1. Was
    BY <1>2, <1>7
  <2>2. temp'[p] = temp[p] /\ parts'[p] = parts[p]
    BY <1>0, <1>7, <2>1
  <2> QED
    BY <1>7, <2>1, <2>2
<1>8. ASSUME NEW q \in queue, Recover(q) PROVE Good
  <2>1. q \in Partition /\ UNCHANGED <<uncompacted, bucket, shipping, today, writing>>
    BY <1>0, <1>8 DEF Recover, TypeOK, collector, history
  <2>2. \A r \in Partition : r # q => temp'[r] = temp[r] /\ parts'[r] = parts[r]
    BY <1>0, <1>8, <2>1 DEF Recover, RecoverTemp, RenameTemp, disk, TypeOK
  <2>3. temp[q] # NoTemp \/ UNCHANGED <<parts, temp>>
    BY <1>8 DEF Recover, RecoverTemp, disk
  <2> QED
    BY <1>7, <2>1, <2>2, <2>3
<1>9. ASSUME Rename PROVE Good
  <2>1. /\ cur \in Partition /\ UNCHANGED <<uncompacted, bucket, shipping, today, writing>>
        /\ temp[cur] = [rows |-> RowsOf(originals), bytes |-> "whole"]
    BY <1>0, <1>9 DEF Rename, MergeInv, collector, history
  <2>2. temp[cur] # NoTemp
    BY <2>1 DEF NoTemp
  <2>3. \A r \in Partition : r # cur => temp'[r] = temp[r] /\ parts'[r] = parts[r]
    BY <1>0, <1>9, <2>1 DEF Rename, RenameTemp, TypeOK
  <2> QED
    BY <1>7, <2>1, <2>2, <2>3
<1>10. ASSUME OpenMerge PROVE Good
  <2>1. /\ cur \in Partition /\ UNCHANGED <<uncompacted, bucket, shipping, today, writing, parts>>
        /\ \E f, g \in parts[cur] : f # g
        /\ \A r \in Partition : r # cur => temp'[r] = temp[r]
    BY <1>0, <1>10 DEF OpenMerge, MergeInv, collector, history, TypeOK
  <2>2. Was
    BY <1>2, <2>1
  <2>3. p # cur
    BY <2>1, <2>2
  <2> QED
    BY <1>0, <2>1, <2>2, <2>3
<1>11. ASSUME MergeFails \/ FinishMerge PROVE Good
  <2>1. /\ cur \in Partition /\ UNCHANGED <<uncompacted, bucket, shipping, today, writing, parts>>
        /\ phase = "merging"
        /\ \A r \in Partition : r # cur => temp'[r] = temp[r]
    BY <1>0, <1>11 DEF MergeFails, FinishMerge, MergeInv, collector, history, TypeOK
  <2>2. temp[cur] # NoTemp
    BY <2>1 DEF CopyInv
  <2> QED
    BY <1>7, <2>1, <2>2
<1>12. ASSUME NEW f \in doomed, Unlink(f) PROVE Good
  <2>1. UNCHANGED <<uncompacted, bucket, shipping, today, writing, temp>>
    BY <1>12 DEF Unlink, collector, history
  <2>2. Was
    BY <1>2, <2>1
  <2>3. parts'[p] \subseteq parts[p]
    BY <1>0, <1>12 DEF Unlink, TypeOK
  <2> QED
    BY <2>1, <2>2, <2>3
<1>13. ASSUME NEW e \in shipping, Prune(e[1], e[2]) PROVE Good
  <2>1. UNCHANGED <<uncompacted, bucket, today, writing, temp>> /\ shipping' \subseteq shipping
    BY <1>13 DEF Prune, collector, history
  <2>2. Was
    BY <1>2, <2>1
  <2>3. parts'[p] \subseteq parts[p]
    BY <1>0, <1>13 DEF Prune, TypeOK
  <2> QED
    BY <2>1, <2>2, <2>3
<1>14. ASSUME NEW e \in shipping, Uploads(e[1], e[2]) PROVE Good
  <2>1. UNCHANGED <<uncompacted, today, writing, temp, parts>> /\ shipping' \subseteq shipping
    BY <1>14 DEF Uploads, history
  <2>2. PICK o \in Object : o.name = e[2].name /\ o.rows = e[2].rows /\ Put(e[1], o)
    BY <1>14 DEF Uploads
  <2>3. e[1] \in Partition /\ e[2] \in parts[e[1]]
    BY ShippedIs
  <2>4. /\ p # e[1] => bucket'[p] = bucket[p]
        /\ \A x \in bucket'[p] : x \in bucket[p] \/ (p = e[1] /\ x = o)
    BY <1>0, <2>2, <2>3 DEF Put, TypeOK
  <2>5. Shipped(p)
    BY <2>1, <2>4 DEF Shipped
  <2>6. Was
    BY <1>1, <2>1, <2>5
  <2> QED
    BY <2>1, <2>2, <2>3, <2>4, <2>6
<1> HIDE DEF Good, Was
<1>15. Good
  BY <1>3, <1>4, <1>5, <1>6, <1>8, <1>9, <1>10, <1>11, <1>12, <1>13, <1>14, Kinds
<1> QED
  BY <1>15 DEF Good

\* Stamps are fresh, and there is one copy of each row, in every reachable state.
THEOREM CopiesInductive == Spec => [](IndInv /\ FreshInv /\ CopyInv)
<1>1. Init => FreshInv /\ CopyInv
  BY LakeAssumption DEF Init, FreshInv, CopyInv, Shipped, NoTemp
<1>2. IndInv /\ FreshInv /\ CopyInv /\ [Next]_vars => FreshInv' /\ CopyInv'
  <2> SUFFICES ASSUME IndInv, FreshInv, CopyInv, [Next]_vars PROVE FreshInv' /\ CopyInv'
    OBVIOUS
  <2>1. FreshInv'
    BY FreshStep
  <2>2. \A p \in Partition : \A f, g \in parts'[p] : f # g => f.rows \cap g.rows = {}
    BY DisjointStep
  <2>3. phase' = "merging" => temp'[cur'] # NoTemp
    BY MergingStep
  <2>4. ASSUME NEW p \in Partition \ uncompacted', Shipped(p)'
        PROVE  /\ p[2] < today'
               /\ temp'[p] = NoTemp
               /\ \A w \in writing' : w.part # p
               /\ \A f, g \in parts'[p] : f = g
               /\ \A o, x \in bucket'[p] : o.name = x.name
               /\ \A o \in bucket'[p], f \in parts'[p] : o.name = f.name
    BY <2>4, OneNameStep
  <2> QED
    BY <2>1, <2>2, <2>3, <2>4 DEF CopyInv
<1> QED
  BY Inductive, <1>1, <1>2, PTL DEF Spec

\* No reader of the parts counts a batch twice at any instant of a merge, and R2 and
\* the disk hold a row under one name, unless sync met its partition uncompacted.
THEOREM OneCopyEachAlways == Spec => []OneCopyEach
<1>1. CopyInv => OneCopyEach
  BY DEF CopyInv, OneCopyEach, Shipped
<1> QED
  BY CopiesInductive, <1>1, PTL

-----------------------------------------------------------------------------
(* Lake implements Archive.                                                *)

\* An object beside the part of its name holds the part's rows, and is whole only if
\* the part is: removing the part archives what was on disk, and nothing else.
MirrorInv ==
    \A p \in Partition : \A o \in bucket[p], f \in parts[p] :
        o.name = f.name => /\ o.rows = f.rows
                           /\ o.bytes = "whole" => f.bytes = "whole"

\* Every step keeps the objects and the parts of a name alike.
LEMMA MirrorStep ==
  ASSUME IndInv, FreshInv, MirrorInv, [Next]_vars
  PROVE  MirrorInv'
<1> DEFINE Alike(o, f) == o.name = f.name => /\ o.rows = f.rows
                                             /\ o.bytes = "whole" => f.bytes = "whole"
           Good == \A p \in Partition : \A o \in bucket'[p], f \in parts'[p] : Alike(o, f)
<1>0. /\ TypeOK /\ NamesInv /\ OpenInv /\ JobInv /\ MergeInv /\ clock \in Nat
      /\ \A p \in Partition : \A o \in bucket[p], f \in parts[p] : Alike(o, f)
      /\ \A p \in Partition : \A o \in bucket[p] : o.name \in Nat /\ o.name < clock
  BY DEF IndInv, MirrorInv, TypeOK, NamesInv, Object
<1>1. ASSUME UNCHANGED bucket, \A p \in Partition : parts'[p] \subseteq parts[p] PROVE Good
  BY <1>0, <1>1
<1>2. ASSUME \/ Still \/ SyncStart \/ \E w \in writing : FlushTorn(w)
             \/ OpenMerge \/ MergeFails \/ FinishMerge
             \/ \E f \in doomed : Unlink(f)
             \/ \E e \in shipping : Prune(e[1], e[2])
      PROVE  Good
  <2>1. UNCHANGED bucket
    BY <1>2 DEF Still, SyncStart, FlushTorn, OpenMerge, MergeFails, FinishMerge, Unlink, Prune
  <2>2. \A p \in Partition : parts'[p] \subseteq parts[p]
    BY <1>0, <1>2 DEF Still, SyncStart, FlushTorn, OpenMerge, MergeFails, FinishMerge, Unlink,
       Prune, disk, TypeOK
  <2> QED
    BY <1>1, <2>1, <2>2
<1>3. ASSUME UNCHANGED bucket,
             \A p \in Partition : \A f \in parts'[p] : f \in parts[p] \/ f.name = clock
      PROVE  Good
  BY <1>0, <1>3
<1>4. ASSUME NEW s \in Streams, FlushStart(s) PROVE Good
  <2>1. PartFile(clock, "torn").name = clock
    BY DEF PartFile
  <2>2. \A p \in Partition : \A f \in parts'[p] : f \in parts[p] \/ f.name = clock
    BY <1>0, <1>4, <2>1 DEF FlushStart, TypeOK
  <2> QED
    BY <1>3, <1>4, <2>2 DEF FlushStart
<1>5. ASSUME NEW q \in Partition, RenameTemp(q), UNCHANGED bucket PROVE Good
  <2>1. \A p \in Partition : \A f \in parts'[p] : f \in parts[p] \/ f.name = clock
    BY <1>0, <1>5 DEF RenameTemp, TypeOK
  <2> QED
    BY <1>3, <1>5, <2>1
<1>6. ASSUME NEW q \in queue, Recover(q) PROVE Good
  <2>1. q \in Partition /\ UNCHANGED bucket
    BY <1>0, <1>6 DEF Recover, TypeOK
  <2>2. CASE UNCHANGED parts
    BY <1>1, <2>1, <2>2
  <2>3. CASE RenameTemp(q)
    BY <1>5, <2>1, <2>3
  <2> QED
    BY <1>6, <2>2, <2>3 DEF Recover, RecoverTemp, disk
<1>7. ASSUME Rename PROVE Good
  BY <1>0, <1>5, <1>7 DEF Rename, MergeInv
<1>8. ASSUME NEW w \in writing, FlushEnd(w) PROVE Good
  <2> DEFINE a == PartFile(w.name, "torn")
             c == PartFile(w.name, "whole")
  <2>1. /\ w.part \in Partition /\ a \in parts[w.part] /\ UNCHANGED bucket
        /\ a.name = w.name /\ a.rows = {w.name} /\ c.name = w.name
    BY <1>0, <1>8 DEF FlushEnd, OpenInv, TypeOK, PartFile
  <2>2. \A p \in Partition : \A f \in parts'[p] : f \in parts[p] \/ (p = w.part /\ f = c)
    BY <1>0, <1>8 DEF FlushEnd, TypeOK
  <2>3. \A o \in bucket[w.part] : o.name # w.name
    <3>1. \A o \in bucket[w.part] : w.name \notin o.rows
      BY DEF FreshInv
    <3> HIDE DEF a
    <3> QED
      BY <1>0, <2>1, <3>1
  <2> HIDE DEF a, c
  <2> QED
    BY <1>0, <2>1, <2>2, <2>3
<1>9. ASSUME NEW e \in shipping, Uploads(e[1], e[2]) PROVE Good
  <2>1. e[1] \in Partition /\ e[2] \in parts[e[1]]
    BY ShippedIs
  <2>2. PICK o \in Object : /\ o.name = e[2].name /\ o.rows = e[2].rows /\ Put(e[1], o)
                            /\ o.bytes \in {e[2].bytes, "short"}
    BY <1>9 DEF Uploads
  <2>3. \A p \in Partition : \A x \in bucket'[p] : x \in bucket[p] \/ (p = e[1] /\ x = o)
    BY <1>0, <2>1, <2>2 DEF Put, TypeOK
  <2>4. \A f \in parts[e[1]] : f.name = o.name => f = e[2]
    BY <1>0, <2>1, <2>2 DEF NamesInv
  <2>5. UNCHANGED parts
    BY <1>9 DEF Uploads
  <2> QED
    BY <1>0, <2>1, <2>2, <2>3, <2>4, <2>5
<1> HIDE DEF Good
<1>10. Good
  BY <1>2, <1>4, <1>6, <1>7, <1>8, <1>9, Kinds
<1> QED
  BY <1>10 DEF Good, MirrorInv

\* How one step of Lake moves the archive.
HeldIn(p) == captured[p] \ (ArchivedIn(p) \cup LostIn(p))
Level(p) == ArchivedIn(p)' = ArchivedIn(p) /\ LostIn(p)' = LostIn(p)
Rests == /\ \A p \in Partition : Level(p)
         /\ UNCHANGED <<captured, interrupted>>
Risks(q) == /\ \A p \in Partition : Level(p)
            /\ interrupted' = interrupted \cup {q}
            /\ UNCHANGED captured
Captures(q, b) == /\ \A p \in Partition : Level(p)
                  /\ b \notin captured[q]
                  /\ captured' = [captured EXCEPT ![q] = @ \cup {b}]
                  /\ UNCHANGED interrupted
Ships(q) == /\ \A p \in Partition : p # q => Level(p)
            /\ LostIn(q)' = LostIn(q)
            /\ ArchivedIn(q) \subseteq ArchivedIn(q)'
            /\ ArchivedIn(q)' \subseteq ArchivedIn(q) \cup HeldIn(q)
            /\ UNCHANGED <<captured, interrupted>>
Loses(q) == /\ \A p \in Partition : p # q => Level(p)
            /\ q \in interrupted
            /\ ArchivedIn(q)' = ArchivedIn(q)
            /\ LostIn(q) \subseteq LostIn(q)'
            /\ LostIn(q)' \subseteq LostIn(q) \cup HeldIn(q)
            /\ UNCHANGED <<captured, interrupted>>
Moves == \/ Rests
         \/ \E q \in Partition : \/ Risks(q) \/ Ships(q) \/ Loses(q)
                                 \/ \E b \in captured'[q] : Captures(q, b)

\* A partition whose batches stay where they are is level.
LEMMA LevelIs ==
  ASSUME NEW p, captured'[p] = captured[p],
         \A b \in captured[p] : /\ Archived(p, b)' <=> Archived(p, b)
                                /\ OnDisk(p, b)' <=> OnDisk(p, b)
  PROVE  Level(p)
BY DEF Level, ArchivedIn, LostIn

\* What is on disk may be archived or stay; nothing else is.
LEMMA ShipsIs ==
  ASSUME NEW q \in Partition, UNCHANGED <<captured, interrupted>>,
         \A p \in Partition : p # q => Level(p),
         \A b \in captured[q] : /\ Archived(q, b) => Archived(q, b)'
                                /\ Archived(q, b)' => Archived(q, b) \/ OnDisk(q, b)
                                /\ OnDisk(q, b)' => OnDisk(q, b)
                                /\ OnDisk(q, b) => OnDisk(q, b)' \/ Archived(q, b)'
  PROVE  Ships(q)
<1>1. /\ ArchivedIn(q) \subseteq ArchivedIn(q)'
      /\ ArchivedIn(q)' \subseteq ArchivedIn(q) \cup HeldIn(q)
  BY DEF ArchivedIn, LostIn, HeldIn
<1>2. LostIn(q)' = LostIn(q)
  BY DEF LostIn
<1> QED
  BY <1>1, <1>2 DEF Ships

\* A temp thrown away takes with it only what nothing else was to keep.
LEMMA LosesIs ==
  ASSUME IndInv, NEW q \in Partition, UNCHANGED <<captured, interrupted, bucket, parts>>,
         \A p \in Partition : p # q => temp'[p] = temp[p],
         parts[q] # {}, phase # "unlinking",
         \A b : temp'[q].bytes = "whole" /\ b \in temp'[q].rows => OnDisk(q, b)
  PROVE  Rests \/ Loses(q)
<1>1. \A p \in Partition : \A b : Archived(p, b)' <=> Archived(p, b)
  BY DEF Archived
<1>2. \A p \in Partition : p # q => Level(p)
  <2> SUFFICES ASSUME NEW p \in Partition, p # q PROVE Level(p)
    OBVIOUS
  <2>1. \A b : OnDisk(p, b)' <=> OnDisk(p, b)
    BY DEF OnDisk
  <2> QED
    BY <1>1, <2>1, LevelIs
<1>3. \A b : OnDisk(q, b)' => OnDisk(q, b)
  BY DEF OnDisk
<1>4. ArchivedIn(q)' = ArchivedIn(q)
  BY <1>1 DEF ArchivedIn
<1>5. /\ LostIn(q) \subseteq LostIn(q)'
      /\ LostIn(q)' \subseteq LostIn(q) \cup HeldIn(q)
  BY <1>1, <1>3 DEF LostIn, HeldIn, ArchivedIn
<1>6. CASE q \in interrupted
  BY <1>2, <1>4, <1>5, <1>6 DEF Loses
<1>7. CASE q \notin interrupted
  <2>1. \A b \in captured[q] : OnDisk(q, b) => OnDisk(q, b)' \/ Archived(q, b)
    BY <1>7 DEF IndInv, BatchInv, TempHolds, OnDisk
  <2>2. LostIn(q)' = LostIn(q)
    BY <1>1, <1>3, <2>1 DEF LostIn
  <2> QED
    BY <1>2, <1>4, <2>2 DEF Rests, Level
<1> QED
  BY <1>6, <1>7

\* Every step of Lake is one of these moves.
LEMMA ArchiveStep ==
  ASSUME IndInv, FreshInv, MirrorInv, [Next]_vars
  PROVE  Moves
<1>0. /\ TypeOK /\ NamesInv /\ OpenInv /\ JobInv /\ MergeInv /\ clock \in Nat
      /\ \A p \in Partition : \A f \in parts[p] : f.name \in Nat /\ f.name < clock
      /\ \A p \in Partition : \A o \in bucket[p] : o.name \in Nat /\ o.name < clock
  BY DEF IndInv, TypeOK, NamesInv, Object, LocalFile
<1>1. ASSUME UNCHANGED <<parts, temp, bucket, captured>> PROVE \A p \in Partition : Level(p)
  <2> SUFFICES ASSUME NEW p \in Partition PROVE Level(p)
    OBVIOUS
  <2>1. \A b : (Archived(p, b)' <=> Archived(p, b)) /\ (OnDisk(p, b)' <=> OnDisk(p, b))
    BY <1>1 DEF Archived, OnDisk
  <2> QED
    BY <1>1, <2>1, LevelIs
<1>2. ASSUME Still \/ SyncStart \/ \E w \in writing : FlushTorn(w) PROVE Moves
  <2>1. UNCHANGED <<parts, temp, bucket, captured>>
    BY <1>2 DEF Still, SyncStart, FlushTorn, disk, collector
  <2>2. UNCHANGED interrupted \/ (cur \in Partition /\ interrupted' = interrupted \cup {cur})
    BY <1>2 DEF Still, SyncStart, FlushTorn, history
  <2>3. UNCHANGED interrupted => Rests
    BY <1>1, <2>1 DEF Rests
  <2>4. cur \in Partition /\ interrupted' = interrupted \cup {cur} => Risks(cur)
    BY <1>1, <2>1 DEF Risks
  <2> QED
    BY <2>2, <2>3, <2>4 DEF Moves
<1>3. ASSUME NEW s \in Streams, FlushStart(s) PROVE Rests
  <2>1. PartFile(clock, "torn").name = clock /\ PartFile(clock, "torn").bytes = "torn"
    BY DEF PartFile
  <2>2. /\ UNCHANGED <<temp, bucket, captured, interrupted>>
        /\ \A p \in Partition : \/ parts'[p] = parts[p]
                                \/ parts'[p] = parts[p] \cup {PartFile(clock, "torn")}
    BY <1>0, <1>3 DEF FlushStart, TypeOK, history
  <2>3. ASSUME NEW p \in Partition PROVE Level(p)
    <3>1. \A b : Readable(parts'[p], b) <=> Readable(parts[p], b)
      BY <2>1, <2>2 DEF Readable
    <3>2. \A o \in bucket[p] : o.name \in Names(parts'[p]) <=> o.name \in Names(parts[p])
      BY <1>0, <2>1, <2>2 DEF Names
    <3>3. \A b : (Archived(p, b)' <=> Archived(p, b)) /\ (OnDisk(p, b)' <=> OnDisk(p, b))
      BY <2>2, <3>1, <3>2 DEF Archived, OnDisk
    <3> QED
      BY <2>2, <3>3, LevelIs
  <2> QED
    BY <2>2, <2>3 DEF Rests
<1>4. ASSUME NEW w \in writing, FlushEnd(w)
      PROVE  Captures(w.part, w.name) /\ w.part \in Partition /\ w.name \in captured'[w.part]
  <2> DEFINE q == w.part
             n == w.name
             a == PartFile(n, "torn")
             c == PartFile(n, "whole")
  <2>1. /\ q \in Partition /\ a \in parts[q] /\ UNCHANGED <<temp, bucket, interrupted>>
        /\ captured' = [captured EXCEPT ![q] = @ \cup {n}]
        /\ parts' = [parts EXCEPT ![q] = (@ \ {a}) \cup {c}]
    BY <1>0, <1>4 DEF FlushEnd, OpenInv, TypeOK, history
  <2>2. /\ a.name = n /\ a.rows = {n} /\ a.bytes = "torn"
        /\ c.name = n /\ c.rows = {n} /\ c.bytes = "whole"
    BY DEF PartFile
  <2>3. n \notin captured[q] /\ \A o \in bucket[q] : n \notin o.rows
    BY DEF FreshInv
  <2> HIDE DEF q, n, a, c
  <2>4. /\ parts'[q] = (parts[q] \ {a}) \cup {c}
        /\ captured'[q] = captured[q] \cup {n}
        /\ \A p \in Partition : p # q => parts'[p] = parts[p] /\ captured'[p] = captured[p]
    BY <1>0, <2>1 DEF TypeOK
  <2>5. \A b : b # n => (Readable(parts'[q], b) <=> Readable(parts[q], b))
    BY <2>2, <2>4 DEF Readable
  <2>6. Readable(parts'[q], n)
    BY <2>2, <2>4 DEF Readable
  <2>7. \A o \in bucket[q] : o.name \in Names(parts'[q]) <=> o.name \in Names(parts[q])
    BY <2>1, <2>2, <2>4 DEF Names
  <2>8. /\ \A b : Archived(q, b)' <=> Archived(q, b)
        /\ ~ Archived(q, n)'
    BY <2>1, <2>3, <2>7 DEF Archived
  <2>9. OnDisk(q, n)' /\ \A b \in captured[q] : OnDisk(q, b)' <=> OnDisk(q, b)
    BY <2>1, <2>3, <2>5, <2>6 DEF OnDisk
  <2>10. Level(q)
    BY <2>4, <2>8, <2>9 DEF Level, ArchivedIn, LostIn
  <2>11. ASSUME NEW p \in Partition, p # q PROVE Level(p)
    <3>1. \A b : (Archived(p, b)' <=> Archived(p, b)) /\ (OnDisk(p, b)' <=> OnDisk(p, b))
      BY <2>1, <2>4, <2>11 DEF Archived, OnDisk
    <3> QED
      BY <2>4, <2>11, <3>1, LevelIs
  <2>12. Captures(q, n) /\ n \in captured'[q]
    BY <2>1, <2>3, <2>4, <2>10, <2>11 DEF Captures
  <2> QED
    BY <2>1, <2>12 DEF q, n
<1>5. ASSUME NEW q \in Partition, RenameTemp(q), parts[q] = {},
             UNCHANGED <<bucket, captured, interrupted>>
      PROVE  Rests
  <2> DEFINE f == [name |-> clock, rows |-> temp[q].rows, bytes |-> temp[q].bytes]
  <2>1. f.name = clock /\ f.rows = temp[q].rows /\ f.bytes = temp[q].bytes
    OBVIOUS
  <2>2. /\ parts' = [parts EXCEPT ![q] = @ \cup {f}]
        /\ temp' = [temp EXCEPT ![q] = NoTemp]
    BY <1>5 DEF RenameTemp
  <2> HIDE DEF f
  <2>3. /\ parts'[q] = {f} /\ temp'[q].bytes = "none"
        /\ \A p \in Partition : p # q => parts'[p] = parts[p] /\ temp'[p] = temp[p]
    BY <1>0, <1>5, <2>2 DEF TypeOK, NoTemp
  <2>4. ASSUME NEW p \in Partition, p # q PROVE Level(p)
    <3>1. \A b : (Archived(p, b)' <=> Archived(p, b)) /\ (OnDisk(p, b)' <=> OnDisk(p, b))
      BY <1>5, <2>3, <2>4 DEF Archived, OnDisk
    <3> QED
      BY <1>5, <2>4, <3>1, LevelIs
  <2>5. \A b : OnDisk(q, b)' <=> OnDisk(q, b)
    BY <1>5, <2>1, <2>3 DEF OnDisk, Readable
  <2>6. \A o \in bucket[q] : o.name \notin Names(parts[q]) /\ o.name \notin Names(parts'[q])
    BY <1>0, <1>5, <2>1, <2>3 DEF Names
  <2>7. \A b : Archived(q, b)' <=> Archived(q, b)
    BY <1>5, <2>6 DEF Archived
  <2>8. Level(q)
    BY <1>5, <2>5, <2>7, LevelIs
  <2> QED
    BY <1>5, <2>4, <2>8 DEF Rests
<1>6. ASSUME NEW q \in queue, Recover(q) PROVE Rests \/ Loses(q)
  <2>1. /\ q \in Partition /\ phase = "compact"
        /\ UNCHANGED <<bucket, captured, interrupted>>
    BY <1>0, <1>6 DEF Recover, TypeOK, collector, history
  <2>2. CASE UNCHANGED disk
    BY <1>1, <2>1, <2>2 DEF disk, Rests
  <2>3. CASE parts[q] = {} /\ RenameTemp(q)
    BY <1>5, <2>1, <2>3
  <2>4. CASE parts[q] # {} /\ temp' = [temp EXCEPT ![q] = NoTemp] /\ UNCHANGED parts
    <3>1. /\ temp'[q].bytes = "none"
          /\ \A p \in Partition : p # q => temp'[p] = temp[p]
      BY <1>0, <2>1, <2>4 DEF TypeOK, NoTemp
    <3> QED
      BY <2>1, <2>4, <3>1, LosesIs
  <2> QED
    BY <1>6, <2>2, <2>3, <2>4 DEF Recover, RecoverTemp
<1>7. ASSUME Rename PROVE Rests
  <2>1. cur \in Partition /\ parts[cur] = {} /\ RenameTemp(cur)
        /\ UNCHANGED <<bucket, captured, interrupted>>
    BY <1>0, <1>7 DEF Rename, MergeInv, collector, history
  <2> QED
    BY <1>5, <2>1
<1>8. ASSUME OpenMerge \/ MergeFails \/ FinishMerge
      PROVE  cur \in Partition /\ (Rests \/ Loses(cur))
  <2>1. /\ cur \in Partition /\ parts[cur] # {} /\ phase # "unlinking"
        /\ UNCHANGED <<parts, bucket, captured, interrupted>>
        /\ \A p \in Partition : p # cur => temp'[p] = temp[p]
    BY <1>0, <1>8 DEF OpenMerge, MergeFails, FinishMerge, MergeInv, TypeOK, collector, history
  <2>2. CASE OpenMerge
    <3>1. temp'[cur].bytes = "torn"
      BY <1>0, <2>1, <2>2 DEF OpenMerge, TypeOK
    <3> QED
      BY <2>1, <3>1, LosesIs
  <2>3. CASE MergeFails \/ FinishMerge
    <3>1. parts[cur] = originals /\ \A f \in originals : f.bytes = "whole"
      BY <1>0, <2>3 DEF MergeFails, FinishMerge, MergeInv
    <3>2. temp'[cur].rows \subseteq RowsOf(originals)
      BY <1>0, <2>1, <2>3 DEF MergeFails, FinishMerge, TypeOK, RowsOf
    <3>3. \A b \in temp'[cur].rows : OnDisk(cur, b)
      BY <3>1, <3>2 DEF RowsOf, OnDisk, Readable
    <3> QED
      BY <2>1, <3>3, LosesIs
  <2> QED
    BY <1>8, <2>1, <2>2, <2>3
<1>9. ASSUME NEW q \in Partition, NEW f \in parts[q],
             UNCHANGED <<temp, bucket, captured, interrupted>>,
             parts' = [parts EXCEPT ![q] = @ \ {f}],
             \A b \in f.rows : f.bytes = "whole" =>
                \/ temp[q].bytes = "whole" /\ b \in temp[q].rows
                \/ f \in bucket[q]
      PROVE  Ships(q)
  <2>1. /\ parts'[q] = parts[q] \ {f}
        /\ \A p \in Partition : p # q => parts'[p] = parts[p]
    BY <1>0, <1>9 DEF TypeOK
  <2>2. ASSUME NEW p \in Partition, p # q PROVE Level(p)
    <3>1. \A b : (Archived(p, b)' <=> Archived(p, b)) /\ (OnDisk(p, b)' <=> OnDisk(p, b))
      BY <1>9, <2>1, <2>2 DEF Archived, OnDisk
    <3> QED
      BY <1>9, <2>2, <3>1, LevelIs
  <2>3. \A g \in parts'[q] : g.name # f.name
    BY <1>0, <2>1 DEF NamesInv
  <2>4. \A o \in bucket[q] : o.name \in Names(parts[q]) => o.name = f.name \/ o.name \in Names(parts'[q])
    BY <2>1 DEF Names
  <2>5. ASSUME NEW b \in captured[q], Archived(q, b)' PROVE Archived(q, b) \/ OnDisk(q, b)
    <3>1. PICK o \in bucket[q] : /\ o.bytes = "whole" /\ b \in o.rows
                                 /\ o.name \notin Names(parts'[q])
      BY <1>9, <2>5 DEF Archived
    <3>2. CASE o.name = f.name
      <4>1. f.rows = o.rows /\ f.bytes = "whole"
        BY <3>1, <3>2 DEF MirrorInv
      <4> QED
        BY <3>1, <4>1 DEF OnDisk, Readable
    <3>3. CASE o.name # f.name
      BY <2>4, <3>1, <3>3 DEF Archived
    <3> QED
      BY <3>2, <3>3
  <2>6. ASSUME NEW b \in captured[q], Archived(q, b) PROVE Archived(q, b)'
    <3>1. \A n : n \in Names(parts'[q]) => n \in Names(parts[q])
      BY <2>1 DEF Names
    <3> QED
      BY <1>9, <2>6, <3>1 DEF Archived
  <2>7. ASSUME NEW b \in captured[q], OnDisk(q, b)' PROVE OnDisk(q, b)
    BY <1>9, <2>1, <2>7 DEF OnDisk, Readable
  <2>8. ASSUME NEW b \in captured[q], OnDisk(q, b) PROVE OnDisk(q, b)' \/ Archived(q, b)'
    <3>1. \/ OnDisk(q, b)'
          \/ b \in f.rows /\ f.bytes = "whole"
      BY <1>9, <2>1, <2>8 DEF OnDisk, Readable
    <3>2. f \in bucket[q] /\ b \in f.rows /\ f.bytes = "whole" => Archived(q, b)'
      BY <1>9, <2>3 DEF Archived, Names
    <3>3. temp[q].bytes = "whole" /\ b \in temp[q].rows => OnDisk(q, b)'
      BY <1>9 DEF OnDisk
    <3> QED
      BY <1>9, <3>1, <3>2, <3>3
  <2> QED
    BY <1>9, <2>2, <2>5, <2>6, <2>7, <2>8, ShipsIs
<1>10. ASSUME NEW f \in doomed, Unlink(f) PROVE cur \in Partition /\ Ships(cur)
  <2>1. /\ cur \in Partition /\ f \in parts[cur] /\ f \in originals
        /\ temp[cur] = [rows |-> RowsOf(originals), bytes |-> "whole"]
        /\ UNCHANGED <<temp, bucket, captured, interrupted>>
        /\ parts' = [parts EXCEPT ![cur] = @ \ {f}]
    BY <1>0, <1>10 DEF Unlink, MergeInv, collector, history
  <2>2. \A b \in f.rows : temp[cur].bytes = "whole" /\ b \in temp[cur].rows
    BY <2>1 DEF RowsOf
  <2> QED
    BY <1>9, <2>1, <2>2
<1>11. ASSUME NEW e \in shipping, Prune(e[1], e[2]) PROVE e[1] \in Partition /\ Ships(e[1])
  <2>1. /\ e[1] \in Partition /\ e[2] \in parts[e[1]] /\ e[2] \in bucket[e[1]]
        /\ UNCHANGED <<temp, bucket, captured, interrupted>>
        /\ parts' = [parts EXCEPT ![e[1]] = @ \ {e[2]}]
    BY <1>0, <1>11, ShippedIs DEF Prune, JobInv, collector, history
  <2> QED
    BY <1>9, <2>1
<1>12. ASSUME NEW e \in shipping, Uploads(e[1], e[2]) PROVE Rests
  <2>1. /\ e[1] \in Partition /\ e[2] \in parts[e[1]]
        /\ UNCHANGED <<temp, parts, captured, interrupted>>
    BY <1>12, ShippedIs DEF Uploads, history
  <2>2. PICK o \in Object : o.name = e[2].name /\ Put(e[1], o)
    BY <1>12 DEF Uploads
  <2>3. \A p \in Partition : /\ p # e[1] => bucket'[p] = bucket[p]
                             /\ \A x : x.name # o.name => (x \in bucket'[p] <=> x \in bucket[p])
    BY <1>0, <2>1, <2>2 DEF Put, TypeOK
  <2>4. o.name \in Names(parts[e[1]])
    BY <2>1, <2>2 DEF Names
  <2>5. ASSUME NEW p \in Partition PROVE Level(p)
    <3>1. \A b : Archived(p, b)' <=> Archived(p, b)
      BY <2>1, <2>3, <2>4 DEF Archived
    <3>2. \A b : OnDisk(p, b)' <=> OnDisk(p, b)
      BY <2>1 DEF OnDisk
    <3> QED
      BY <2>1, <3>1, <3>2, LevelIs
  <2> QED
    BY <2>1, <2>5 DEF Rests
<1> HIDE DEF Moves
<1>13. ASSUME NEW q \in Partition, Rests \/ Ships(q) \/ Loses(q) PROVE Moves
  BY <1>13 DEF Moves
<1>14. Rests => Moves
  BY DEF Moves
<1>15. ASSUME NEW w \in writing, FlushEnd(w) PROVE Moves
  BY <1>4, <1>15 DEF Moves
<1>16. ASSUME NEW q \in queue, Recover(q) PROVE Moves
  <2>1. q \in Partition
    BY <1>0 DEF TypeOK
  <2> QED
    BY <1>6, <1>13, <1>16, <2>1
<1> QED
  BY <1>2, <1>3, <1>7, <1>8, <1>10, <1>11, <1>12, <1>13, <1>14, <1>15, <1>16, Kinds

\* The capture-to-R2 path keeps Archive's promise: a captured batch is held until its
\* final copy is in R2, archived is for good, and only a partition that a crash left
\* half-deleted can lose one (compact.py:12-16, sync.py:4-6).
THEOREM ImplementsArchiveAlways == Spec => ImplementsArchive
<1> DEFINE arch == [p \in Partition |-> ArchivedIn(p)]
           gone == [p \in Partition |-> LostIn(p)]
<1>1. Init => MirrorInv
  BY DEF Init, MirrorInv
<1>2. IndInv /\ FreshInv /\ MirrorInv /\ [Next]_vars => MirrorInv'
  BY MirrorStep
<1>3. Spec => [](IndInv /\ FreshInv /\ MirrorInv)
  BY CopiesInductive, <1>1, <1>2, PTL DEF Spec
<1>4. Init => Abstract!Init
  <2> SUFFICES ASSUME Init PROVE Abstract!Init
    OBVIOUS
  <2>1. \A p \in Partition : ArchivedIn(p) = {} /\ LostIn(p) = {}
    BY DEF Init, ArchivedIn, LostIn
  <2> QED
    BY <2>1 DEF Init, Abstract!Init
<1>5. IndInv /\ FreshInv /\ MirrorInv /\ [Next]_vars => [Abstract!Next]_(Abstract!vars)
  <2>s. SUFFICES ASSUME IndInv, FreshInv, MirrorInv, [Next]_vars
                 PROVE  [Abstract!Next]_(Abstract!vars)
    OBVIOUS
  <2>0. Moves
    BY <2>s, ArchiveStep
  <2>1. ASSUME \A p \in Partition : Level(p) PROVE arch' = arch /\ gone' = gone
    BY <2>1 DEF Level
  <2>2. CASE Rests
    <3>1. arch' = arch /\ gone' = gone /\ UNCHANGED <<captured, interrupted>>
      BY <2>1, <2>2 DEF Rests
    <3> QED
      BY <3>1 DEF Abstract!vars
  <2>3. ASSUME NEW q \in Partition, Risks(q) PROVE Abstract!PutAtRisk(q)
    <3>1. arch' = arch /\ gone' = gone
      BY <2>1, <2>3 DEF Risks
    <3> QED
      BY <2>3, <3>1 DEF Risks, Abstract!PutAtRisk
  <2>4. ASSUME NEW q \in Partition, NEW b \in captured'[q], Captures(q, b)
        PROVE  Abstract!Capture(q, b)
    <3>1. arch' = arch /\ gone' = gone
      BY <2>1, <2>4 DEF Captures
    <3> QED
      BY <2>4, <3>1 DEF Captures, Abstract!Capture
  <2>5. ASSUME NEW q \in Partition, Ships(q) PROVE Abstract!Ship(q)
    <3>1. /\ gone' = gone
          /\ arch' = [arch EXCEPT ![q] = arch'[q]]
      BY <2>5 DEF Ships, Level
    <3>2. arch[q] \subseteq arch'[q] /\ arch'[q] \subseteq arch[q] \cup HeldIn(q)
      BY <2>5 DEF Ships
    <3>3. HeldIn(q) = captured[q] \ (arch[q] \cup gone[q])
      BY DEF HeldIn
    <3> QED
      BY <2>5, <3>1, <3>2, <3>3 DEF Ships, Abstract!Ship, Abstract!Held
  <2>6. ASSUME NEW q \in Partition, Loses(q) PROVE Abstract!Lose(q)
    <3>1. /\ arch' = arch
          /\ gone' = [gone EXCEPT ![q] = gone'[q]]
      BY <2>6 DEF Loses, Level
    <3>2. gone[q] \subseteq gone'[q] /\ gone'[q] \subseteq gone[q] \cup HeldIn(q)
      BY <2>6 DEF Loses
    <3>3. HeldIn(q) = captured[q] \ (arch[q] \cup gone[q])
      BY DEF HeldIn
    <3> QED
      BY <2>6, <3>1, <3>2, <3>3 DEF Loses, Abstract!Lose, Abstract!Held
  <2> QED
    BY <2>0, <2>2, <2>3, <2>4, <2>5, <2>6 DEF Moves, Abstract!Next
<1> QED
  BY <1>3, <1>4, <1>5, PTL DEF Spec, ImplementsArchive, Abstract!Spec
=============================================================================
