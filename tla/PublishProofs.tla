---------------------------- MODULE PublishProofs ----------------------------
(***************************************************************************)
(* Publish shows nothing that is not cleared, and a job that reports no    *)
(* failure has delivered what there was, for every set of groups, files    *)
(* and streams and any number of jobs, changes and faults, from            *)
(* PublishAssumption.                                                      *)
(*                                                                         *)
(* What an upload carries is decided when its object is taken from the     *)
(* list and lands later, so the invariant follows the rows in between:     *)
(* they are cleared while the job's hands hold them (HandInv), because     *)
(* the registry does not change under a job, a merged file and a mart are  *)
(* filtered as they are built, and a streamed object of the private        *)
(* bucket holds only rows of its own pair (StreamInv).                     *)
(*                                                                         *)
(* That a job delivers is said of all objects at its end, so DoneInv says  *)
(* it of each object from the moment the job comes past it: what is in     *)
(* hand suits, and what is behind is delivered.  An object may be passed   *)
(* over for being current, and then ReadInv is what counts: a file that is *)
(* not newer than its object, nor was being rewritten when that landed, is *)
(* what the object holds.  StreamedInv is the same for the streams, whose  *)
(* objects are compared by size, and VersionInv says that versions only    *)
(* grow, so that what was delivered is not too old when the job ends.      *)
(***************************************************************************)
EXTENDS Publish, TLAPS

Jobs == {"sync", "publish"}
Places == {"idle", "pick", "open", "put"}
ClearedRows(rows) == \A r \in rows : r[1] \in cleared

\* The buckets are functions of the keys; a job goes through its own list.
ShapeInv ==
    /\ public = [k \in Keys |-> public[k]]
    /\ private = [k \in Keys |-> private[k]]
    /\ job \in Jobs /\ pc \in Places
    /\ pc # "idle" => todo \subseteq Work(job)
    /\ pc \in {"open", "put"} => hand.key \in Work(job)

\* A streamed object holds rows of its own stream.
StreamInv ==
    \A p \in Streams : \A r \in private[FileKey(p)].rows : r[1] = p

\* A publish has only cleared objects in its hands, the catalogue aside.
HandInv ==
    job = "publish" =>
      /\ pc = "open" => PairOf(hand.key) \in cleared
      /\ pc = "put" /\ hand.key # Catalogue => ClearedRows(hand.rows)

IInv == ShapeInv /\ StreamInv /\ HandInv

-----------------------------------------------------------------------------
\* The pair of the key of a stream is the stream (_key_pair, bronze_path).
LEMMA StreamPair == \A p \in Streams : PairOf(FileKey(p)) = p
<1>1. TAKE p \in Streams
<1>2. p = <<p[1], p[2]>>
  BY DEF Streams
<1> QED
  BY <1>2 DEF PairOf, FileKey, Key

\* What sync mirrors is no streamed object, so it cannot overwrite one.
LEMMA SyncKeepsStreams == Work("sync") \cap StreamKeys = {}
<1>1. SUFFICES ASSUME NEW p \in Streams, FileKey(p) \in Work("sync") PROVE FALSE
  BY DEF StreamKeys
<1>2. FileKey(p).kind = "file" /\ FileKey(p).group = 0
  BY DEF FileKey, Key, Streams
<1>3. \A k \in FileKeys : k.group \in 1..NGroups
  BY PublishAssumption DEF FileKeys, FileKey, Key
<1>4. \A k \in MartKeys : k.kind = "mart"
  <2>1. SUFFICES ASSUME NEW g \in 1..NGroups PROVE Key("mart", g, "").kind = "mart"
    BY Zenon DEF MartKeys
  <2> QED
    BY <2>1 DEF Key
<1>5. 0 \notin 1..NGroups
  BY PublishAssumption
<1> QED
  BY <1>1, <1>2, <1>3, <1>4, <1>5 DEF Work

\* Work of either job lies within the keys of a bucket.
LEMMA WorkIsKeys == \A j \in Jobs : Work(j) \subseteq Keys
  BY DEF Work, Keys

-----------------------------------------------------------------------------
(* Every step preserves each conjunct.                                     *)

\* Lands writes one bucket, under the key in hand, and leaves both functions.
LEMMA LandsShape ==
  ASSUME ShapeInv, Lands
  PROVE  /\ public' = [k \in Keys |-> public'[k]]
         /\ private' = [k \in Keys |-> private'[k]]
  BY DEF ShapeInv, Lands

\* No step of a job, of the lake or of the registry leaves the shape.
LEMMA ShapeStep == ShapeInv /\ [Next]_vars => ShapeInv'
<1> SUFFICES ASSUME ShapeInv, [Next]_vars PROVE ShapeInv'
  OBVIOUS
<1> USE DEF ShapeInv, Goes, Jobs, Places, buckets
<1>1. CASE UNCHANGED vars
  BY <1>1 DEF vars
<1>2. CASE \E p \in Files : WriteTemp(p) \/ Replace(p)
  BY <1>2 DEF WriteTemp, Replace
<1>3. CASE \E p \in Streams : Ship(p)
  BY <1>3 DEF Ship
<1>4. CASE BuildGold
  BY <1>4 DEF BuildGold
<1>5. CASE ChangeRegistry
  BY <1>5 DEF ChangeRegistry
<1>6. CASE Start
  BY <1>6 DEF Start
<1>7. ASSUME NEW k \in todo, PassOver(k) PROVE ShapeInv'
  BY <1>7 DEF PassOver, Take
<1>8. ASSUME NEW k \in todo, StatFile(k) PROVE ShapeInv'
  BY <1>8 DEF StatFile, Wanted, Take
<1>9. CASE OpenFile
  BY <1>9 DEF OpenFile
<1>10. ASSUME NEW k \in todo, CopyStream(k) PROVE ShapeInv'
  BY <1>10 DEF CopyStream, Wanted, Take
<1>11. ASSUME NEW k \in todo, Build(k) PROVE ShapeInv'
  BY <1>11 DEF Build, Wanted, Take
<1>12. CASE Put
  BY <1>12, LandsShape DEF Put
<1>13. CASE PutFails
  <2>1. public' = [k \in Keys |-> public'[k]] /\ private' = [k \in Keys |-> private'[k]]
    BY <1>13, LandsShape DEF PutFails
  <2> QED
    BY <1>13, <2>1 DEF PutFails
<1>14. CASE Dies
  BY <1>14 DEF Dies, Ends
<1>15. CASE Finish
  BY <1>15 DEF Finish, Ends
<1> QED
  BY <1>1, <1>2, <1>3, <1>4, <1>5, <1>6, <1>7, <1>8, <1>9, <1>10, <1>11, <1>12,
     <1>13, <1>14, <1>15 DEF Next

\* An upload of sync lands beside the streamed objects.
LEMMA LandsStream ==
  ASSUME ShapeInv, StreamInv, pc = "put", Lands
  PROVE  StreamInv'
<1>1. CASE job = "sync"
  <2>1. hand.key \notin StreamKeys
    BY <1>1, SyncKeepsStreams DEF ShapeInv
  <2>2. \A p \in Streams : FileKey(p) \in StreamKeys /\ FileKey(p) \in Keys
    BY DEF StreamKeys, Keys
  <2>3. \A p \in Streams : private'[FileKey(p)] = private[FileKey(p)]
    BY <1>1, <2>1, <2>2 DEF Lands, ShapeInv
  <2> QED
    BY <2>3 DEF StreamInv
<1>2. CASE job # "sync"
  BY <1>2 DEF Lands, StreamInv
<1> QED
  BY <1>1, <1>2

\* What is shipped is of its stream, and a sync does not upload over it.
LEMMA StreamStep == ShapeInv /\ StreamInv /\ [Next]_vars => StreamInv'
<1> SUFFICES ASSUME ShapeInv, StreamInv, [Next]_vars PROVE StreamInv'
  OBVIOUS
<1>1. CASE UNCHANGED private
  BY <1>1 DEF StreamInv
<1>2. ASSUME NEW q \in Streams, Ship(q) PROVE StreamInv'
  <2>1. SUFFICES ASSUME NEW p \in Streams, NEW r \in private'[FileKey(p)].rows
                 PROVE  r[1] = p
    BY DEF StreamInv
  <2>2. FileKey(p) \in Keys
    BY DEF Keys, StreamKeys
  <2>3. CASE FileKey(p) = FileKey(q)
    <3>1. private'[FileKey(p)].rows = {<<q, 1>>}
      BY <1>2, <2>2, <2>3 DEF Ship, ShapeInv, Content
    <3>2. p = q
      BY <2>3, StreamPair
    <3> QED
      BY <2>1, <3>1, <3>2
  <2>4. CASE FileKey(p) # FileKey(q)
    <3>1. private'[FileKey(p)] = private[FileKey(p)]
      BY <1>2, <2>2, <2>4 DEF Ship, ShapeInv
    <3> QED
      BY <2>1, <3>1 DEF StreamInv
  <2> QED
    BY <2>3, <2>4
<1>3. CASE Put
  BY <1>3, LandsStream DEF Put
<1>4. CASE PutFails
  <2>1. CASE Lands
    BY <1>4, <2>1, LandsStream DEF PutFails
  <2>2. CASE UNCHANGED private
    BY <2>2 DEF StreamInv
  <2> QED
    BY <1>4, <2>1, <2>2 DEF PutFails
<1>5. ASSUME ~Put, ~PutFails, \A q \in Streams : ~Ship(q) PROVE UNCHANGED private
  BY <1>5 DEF Next, vars, buckets, WriteTemp, Replace, BuildGold, ChangeRegistry, Start, PassOver,
     StatFile, CopyStream, Build, Wanted, OpenFile, Dies, Finish
<1> QED
  BY <1>1, <1>2, <1>3, <1>4, <1>5

\* The rows that Cleared keeps are cleared (_group_in_list).
LEMMA ClearedAreCleared == \A rows : ClearedRows(Cleared(rows))
  BY DEF ClearedRows, Cleared

\* A publish builds cleared rows only, whatever the lake and the marts hold.
LEMMA BuiltIsCleared ==
  ASSUME NEW k \in Keys \ (FileKeys \cup StreamKeys \cup {Catalogue})
  PROVE  ClearedRows(Built(k))
<1>1. \A g : /\ Key("mart", g, "").kind = "mart" /\ Key("all", g, "").kind = "all"
             /\ Key("quality", g, "").kind = "quality"
  BY DEF Key
<1>2. CASE k \in AllKeys
  <2>1. k.kind = "all"
    BY <1>1, <1>2 DEF AllKeys
  <2> QED
    BY <2>1, ClearedAreCleared DEF Built
<1>3. CASE k \in MartKeys
  <2>1. k.kind = "mart"
    BY <1>1, <1>3 DEF MartKeys
  <2> QED
    BY <2>1, ClearedAreCleared DEF Built
<1>4. CASE k = Quality
  <2>1. k.kind = "quality"
    BY <1>1, <1>4 DEF Quality
  <2> QED
    BY <2>1 DEF Built, ClearedRows
<1> QED
  BY <1>2, <1>3, <1>4 DEF Keys

\* What a publish takes up and is a file or a stream is cleared.
LEMMA WantedIsCleared ==
  ASSUME NEW k \in FileKeys \cup StreamKeys, Wanted(k), job = "publish"
  PROVE  PairOf(k) \in cleared
<1>1. k.kind = "file"
  BY DEF FileKeys, StreamKeys, FileKey, Key
<1> QED
  BY <1>1 DEF Wanted, Withheld

\* From the taking of an object to its landing: the rows stay cleared, because
\* the registry changes between jobs only (publish_public reads it once).
LEMMA HandStep == IInv /\ [Next]_vars => HandInv'
<1> SUFFICES ASSUME IInv, [Next]_vars PROVE HandInv'
  OBVIOUS
<1> USE DEF IInv, HandInv, Goes
<1>1. CASE UNCHANGED vars
  BY <1>1 DEF vars, ClearedRows
<1>2. CASE \E p \in Files : WriteTemp(p) \/ Replace(p)
  BY <1>2 DEF WriteTemp, Replace, ClearedRows
<1>3. CASE \E p \in Streams : Ship(p)
  BY <1>3 DEF Ship
<1>4. CASE BuildGold
  BY <1>4 DEF BuildGold
<1>5. CASE ChangeRegistry
  BY <1>5 DEF ChangeRegistry
<1>6. CASE Start
  BY <1>6 DEF Start
<1>7. ASSUME NEW k \in todo, PassOver(k) PROVE HandInv'
  BY <1>7 DEF PassOver, Take
<1>8. ASSUME NEW k \in todo, StatFile(k) PROVE HandInv'
  <2>1. job = "publish" => PairOf(k) \in cleared
    BY <1>8, WantedIsCleared DEF StatFile
  <2>2. pc' = "open" /\ hand'.key = k /\ cleared' = cleared /\ job' = job
    BY <1>8 DEF StatFile, Wanted
  <2>3. PairOf(hand.key)' = PairOf(k)
    BY <2>2 DEF PairOf
  <2> QED
    BY <2>1, <2>2, <2>3
<1>9. CASE OpenFile
  <2>1. pc = "open" /\ pc' = "put" /\ job' = job /\ cleared' = cleared
    BY <1>9 DEF OpenFile
  <2>2. hand'.rows = RowsOf(PairOf(hand.key))
    BY <1>9 DEF OpenFile
  <2>3. \A r \in RowsOf(PairOf(hand.key)) : r[1] = PairOf(hand.key)
    BY DEF RowsOf
  <2> QED
    BY <2>1, <2>2, <2>3 DEF ClearedRows
<1>10. ASSUME NEW k \in todo, CopyStream(k) PROVE HandInv'
  <2>1. job = "publish" => PairOf(k) \in cleared
    BY <1>10, WantedIsCleared DEF CopyStream
  <2>2. pc' = "put" /\ job' = job /\ cleared' = cleared /\ hand'.rows = private[k].rows
    BY <1>10 DEF CopyStream, Wanted
  <2>3. PICK p \in Streams : k = FileKey(p)
    BY <1>10 DEF CopyStream, StreamKeys
  <2>4. \A r \in private[k].rows : r[1] = PairOf(k)
    BY <2>3, StreamPair DEF StreamInv
  <2> QED
    BY <2>1, <2>2, <2>4 DEF ClearedRows
<1>11. ASSUME NEW k \in todo, Build(k) PROVE HandInv'
  <2>1. /\ pc' = "put" /\ job' = job /\ cleared' = cleared /\ hand'.key = k
        /\ job = "publish" => hand'.rows = Built(k)
        /\ k \notin FileKeys \cup StreamKeys
    BY <1>11 DEF Build, Wanted
  <2>2. k \in Keys
    BY <1>11, WorkIsKeys DEF ShapeInv, Build, Wanted, Take
  <2>3. job = "publish" /\ k # Catalogue => ClearedRows(Built(k))
    BY <2>1, <2>2, BuiltIsCleared
  <2> QED
    BY <2>1, <2>3 DEF ClearedRows
<1>12. CASE Put
  BY <1>12 DEF Put
<1>13. CASE PutFails
  BY <1>13 DEF PutFails
<1>14. CASE Dies
  BY <1>14 DEF Dies, Ends
<1>15. CASE Finish
  BY <1>15 DEF Finish, Ends
<1> QED
  BY <1>1, <1>2, <1>3, <1>4, <1>5, <1>6, <1>7, <1>8, <1>9, <1>10, <1>11, <1>12,
     <1>13, <1>14, <1>15 DEF Next

-----------------------------------------------------------------------------
(* The theorems.                                                           *)

\* New buckets, and no job.
LEMMA InitHolds == Init => IInv
<1> SUFFICES ASSUME Init PROVE IInv
  OBVIOUS
<1>1. ShapeInv
  BY DEF Init, ShapeInv, Jobs, Places
<1>2. \A p \in Streams : private[FileKey(p)].rows = {}
  <2>1. \A p \in Streams : FileKey(p) \in Keys
    BY DEF Keys, StreamKeys
  <2> QED
    BY <2>1 DEF Init, Nothing
<1> QED
  BY <1>1, <1>2 DEF Init, IInv, StreamInv, HandInv

\* The rows a publish carries are cleared in every reachable state: between the
\* decision to publish an object and its arrival (publish_public, mirror_private_prefix).
THEOREM Inductive == Spec => []IInv
<1>1. IInv /\ [Next]_vars => IInv'
  BY ShapeStep, StreamStep, HandStep DEF IInv
<1> QED
  BY InitHolds, <1>1, PTL DEF Spec

\* Only an upload of a publish changes the public bucket.
LEMMA PublicChanges ==
  ASSUME [Next]_vars, public' # public
  PROVE  pc = "put" /\ job # "sync" /\ Lands /\ cleared' = cleared
<1>1. CASE Put
  BY <1>1 DEF Put, Lands
<1>2. CASE PutFails
  BY <1>2 DEF PutFails, Lands
<1>3. ASSUME ~Put, ~PutFails PROVE UNCHANGED public
  BY <1>3 DEF Next, vars, buckets, WriteTemp, Replace, Ship, BuildGold, ChangeRegistry,
     Start, PassOver, StatFile, CopyStream, Build, Wanted, OpenFile, Dies, Finish
<1> QED
  BY <1>1, <1>2, <1>3

\* A public object appears or changes only into rows that are cleared then, for
\* their group and source both: publish_public, with its bronze loop, the
\* consolidated files and the marts, and mirror_private_prefix.
THEOREM OnlyClearedAlways == Spec => OnlyCleared
<1> DEFINE Kept == \A k \in Keys \ {Catalogue} :
                     public'[k] # public[k] => \A r \in public'[k].rows : r[1] \in cleared
<1>1. IInv /\ [Next]_vars => [Kept]_vars
  <2> SUFFICES ASSUME IInv, [Next]_vars, NEW k \in Keys \ {Catalogue},
                      public'[k] # public[k]
               PROVE  \A r \in public'[k].rows : r[1] \in cleared
    OBVIOUS
  <2>1. pc = "put" /\ job # "sync" /\ Lands
    BY PublicChanges
  <2>2. k = hand.key /\ public'[k].rows = hand.rows
    BY <2>1 DEF Lands, IInv, ShapeInv, Content
  <2>3. job = "publish"
    BY <2>1 DEF IInv, ShapeInv, Jobs
  <2> QED
    BY <2>1, <2>2, <2>3 DEF IInv, HandInv, ClearedRows
<1> QED
  BY Inductive, <1>1, PTL DEF Spec, OnlyCleared

-----------------------------------------------------------------------------
(* What a job delivers.                                                    *)

RowAsBegun(rows, p) == \E r \in rows : r[1] = p /\ r[2] >= begun[p]
There == {p \in Pairs : begun[p] > 0}
Bucket == IF job = "sync" THEN private ELSE public

\* Versions only grow, and a file that exists is not empty.
VersionInv ==
    /\ local \in [Pairs -> [version : Nat, size : Nat]]
    /\ begun \in [Pairs -> Nat]
    /\ \A p \in Pairs : begun[p] <= local[p].version
    /\ \A p \in Pairs : Has(p) => local[p].size > 0
    /\ newer \subseteq Files /\ raced \subseteq Files

\* A file that looks no newer than its public object is what the object holds,
\* unless the object landed while the file was being rewritten.
ReadInv ==
    \A p \in Files : Has(p) /\ p \notin newer /\ p \notin raced =>
        public[FileKey(p)].rows = RowsOf(p)

\* A streamed file is copied whole from bucket to bucket.
Whole(p) == Content({<<p, 1>>}, 1)
StreamedInv ==
    /\ pc = "open" => hand.key \in FileKeys
    /\ \A p \in Streams :
         /\ Has(p) => local[p].version = 1 /\ private[FileKey(p)] = Whole(p)
         /\ ~Has(p) => local[p].version = 0
         /\ public[FileKey(p)] \in {Nothing, Whole(p)}
         /\ pc = "put" /\ hand.key = FileKey(p) => hand.rows = Whole(p).rows /\ hand.size = 1

\* Rows that deliver an object: no older than the job, and filtered as published.
Suits(k, rows) ==
    /\ \A p \in There : k = FileKey(p) => RowAsBegun(rows, p)
    /\ k \in AllKeys => \A p \in There \cap Files \cap cleared :
                          p[1] = k.group => RowAsBegun(rows, p)
    /\ k \in MartKeys /\ InGroup(gold, k.group) # {} =>
         rows = IF job = "sync" THEN InGroup(gold, k.group) ELSE Cleared(InGroup(gold, k.group))
    /\ k = Catalogue /\ OneName =>
         {r[1] : r \in rows} \cap There = cleared \cap There \cap Files

Excused(k) == job = "publish" /\ \E p \in Pairs : k = FileKey(p) /\ (p \notin cleared \/ p \in raced)
InHand(k) == pc \in {"open", "put"} /\ k = hand.key
Delivered(k) == Excused(k) \/ Suits(k, Bucket[k].rows)

\* What is in hand suits, and so does all that the job has come past.
DoneInv ==
    /\ pc = "put" => Suits(hand.key, hand.rows)
    /\ pc # "idle" /\ ~failed => \A k \in Work(job) \ todo : InHand(k) \/ Delivered(k)

\* The key of a pair is its own, and streams are no files.
LEMMA PairKeys ==
  /\ \A p \in Pairs : PairOf(FileKey(p)) = p /\ FileKey(p).kind = "file" /\ FileKey(p) \in Keys
  /\ Files \cap Streams = {}
<1>1. ASSUME NEW p \in Pairs PROVE p = <<p[1], p[2]>>
  BY PublishAssumption DEF Pairs, Streams
<1>2. \A p \in Pairs : PairOf(FileKey(p)) = p
  BY <1>1 DEF PairOf, FileKey, Key
<1>3. \A p \in Pairs : FileKey(p).kind = "file" /\ FileKey(p) \in Keys
  BY DEF Pairs, FileKey, Key, Keys, FileKeys, StreamKeys
<1>4. Files \cap Streams = {}
  <2>1. 0 \notin 1..NGroups
    BY PublishAssumption
  <2> QED
    BY <2>1, PublishAssumption DEF Streams
<1> QED
  BY <1>2, <1>3, <1>4

\* Keys of different kinds are different.
LEMMA KeyKinds ==
  /\ \A k \in FileKeys \cup StreamKeys : k.kind = "file"
  /\ \A k \in AllKeys : k.kind = "all"
  /\ \A k \in MartKeys : k.kind = "mart"
  /\ Catalogue.kind = "catalogue" /\ Quality.kind = "quality"
<1>1. \A kind, g, s : Key(kind, g, s).kind = kind
  BY DEF Key
<1>2. \A k \in FileKeys \cup StreamKeys : k.kind = "file"
  BY <1>1 DEF FileKeys, StreamKeys, FileKey
<1>3. ASSUME NEW k \in AllKeys PROVE k.kind = "all"
  BY <1>1, Zenon DEF AllKeys
<1>4. ASSUME NEW k \in MartKeys PROVE k.kind = "mart"
  BY <1>1, Zenon DEF MartKeys
<1>5. Catalogue.kind = "catalogue" /\ Quality.kind = "quality"
  BY <1>1, Zenon DEF Catalogue, Quality
<1> QED
  BY <1>2, <1>3, <1>4, <1>5

\* What a step may do to the lake and to the history of the job's begin.
LEMMA LakeKinds ==
  ASSUME [Next]_vars
  PROVE  \/ \E p \in Files : Replace(p)
         \/ \E p \in Streams : Ship(p)
         \/ Start
         \/ /\ UNCHANGED local /\ newer' \subseteq newer
            /\ UNCHANGED begun \/ begun' = NotBegun
<1>1. CASE Put \/ PutFails
  <2>1. newer' \subseteq newer
    BY <1>1 DEF Put, PutFails, Lands
  <2> QED
    BY <1>1, <2>1 DEF Put, PutFails
<1>2. CASE Dies \/ Finish
  BY <1>2 DEF Dies, Finish, Ends, lake
<1>3. CASE \/ UNCHANGED vars \/ BuildGold \/ ChangeRegistry \/ OpenFile
           \/ \E p \in Files : WriteTemp(p)
           \/ \E k \in todo : PassOver(k) \/ StatFile(k) \/ CopyStream(k) \/ Build(k)
  BY <1>3 DEF vars, lake, WriteTemp, BuildGold, ChangeRegistry, OpenFile, PassOver, StatFile, CopyStream,
     Build, Wanted
<1> QED
  BY <1>1, <1>2, <1>3 DEF Next

\* Only a public object that lands, and a rename it overtook, change what has raced.
LEMMA RacedKinds == [Next]_vars => raced' \subseteq raced \cup Files
<1>1. CASE Put \/ PutFails
  BY <1>1 DEF Put, PutFails, Lands
<1>2. CASE \/ UNCHANGED vars \/ BuildGold \/ ChangeRegistry \/ OpenFile \/ Start \/ Dies \/ Finish
           \/ \E p \in Files : WriteTemp(p)
           \/ \E p \in Streams : Ship(p)
           \/ \E k \in todo : PassOver(k) \/ StatFile(k) \/ CopyStream(k) \/ Build(k)
  BY <1>2 DEF vars, BuildGold, ChangeRegistry, OpenFile, Start, Dies, Finish, WriteTemp,
     Ship, PassOver, StatFile, CopyStream, Build
<1>3. ASSUME NEW p \in Files, Replace(p) PROVE raced' \subseteq raced \cup Files
  BY <1>3 DEF Replace
<1> QED
  BY <1>1, <1>2, <1>3 DEF Next

\* A rename and a shipped file add to the lake and take nothing away.
LEMMA VersionStep == VersionInv /\ [Next]_vars => VersionInv'
<1> SUFFICES ASSUME VersionInv, [Next]_vars PROVE VersionInv'
  OBVIOUS
<1>0. raced' \subseteq Files
  BY RacedKinds DEF VersionInv
<1>1. ASSUME NEW p \in Files, Replace(p) PROVE VersionInv'
  <2>1. PICK s \in Sizes : local' = [local EXCEPT ![p] = [version |-> @.version + 1, size |-> s]]
    BY <1>1 DEF Replace
  <2>2. s \in Nat /\ s > 0 /\ p \in Pairs
    BY PublishAssumption DEF Pairs
  <2>3. /\ local'[p] = [version |-> local[p].version + 1, size |-> s]
        /\ \A q \in Pairs : q # p => local'[q] = local[q]
        /\ local' \in [Pairs -> [version : Nat, size : Nat]]
    BY <2>1, <2>2 DEF VersionInv
  <2>4. begun' = begun /\ newer' \subseteq newer \cup {p}
    BY <1>1 DEF Replace
  <2> QED
    BY <1>0, <2>2, <2>3, <2>4 DEF VersionInv, Has
<1>2. ASSUME NEW p \in Streams, Ship(p) PROVE VersionInv'
  <2>1. p \in Pairs
    BY DEF Pairs
  <2>2. /\ local'[p] = [version |-> 1, size |-> 1]
        /\ \A q \in Pairs : q # p => local'[q] = local[q]
        /\ local' \in [Pairs -> [version : Nat, size : Nat]]
    BY <1>2, <2>1 DEF Ship, VersionInv
  <2>3. begun' = begun /\ newer' = newer /\ ~Has(p)
    BY <1>2 DEF Ship
  <2>4. begun[p] <= 0 /\ begun[p] \in Nat
    BY <2>1, <2>3 DEF VersionInv, Has
  <2> QED
    BY <1>0, <2>1, <2>2, <2>3, <2>4 DEF VersionInv, Has
<1>3. CASE Start
  BY <1>0, <1>3 DEF Start, VersionInv, Has, lake
<1>4. CASE UNCHANGED local /\ newer' \subseteq newer /\ UNCHANGED begun
  BY <1>0, <1>4 DEF VersionInv, Has
<1>5. CASE UNCHANGED local /\ newer' \subseteq newer /\ begun' = NotBegun
  BY <1>0, <1>5 DEF VersionInv, Has, NotBegun
<1> QED
  BY <1>1, <1>2, <1>3, <1>4, <1>5, LakeKinds

\* What a landing changes: one object, and the marks of its file.
LEMMA LandsIs ==
  ASSUME ShapeInv, Lands, hand.key \in Keys
  PROVE  /\ job = "sync" =>
              /\ UNCHANGED <<public, newer, raced>>
              /\ private'[hand.key] = Content(hand.rows, hand.size)
              /\ \A k \in Keys : k # hand.key => private'[k] = private[k]
         /\ job # "sync" =>
              /\ UNCHANGED private
              /\ public'[hand.key] = Content(hand.rows, hand.size)
              /\ \A k \in Keys : k # hand.key => public'[k] = public[k]
              /\ newer' = {p \in newer : FileKey(p) # hand.key}
              /\ raced' = {p \in Files : IF FileKey(p) = hand.key THEN hand.rows # RowsOf(p)
                                         ELSE p \in raced}
BY DEF Lands, ShapeInv

\* Only a put changes a bucket or the marks, a shipped file and a rename aside.
LEMMA BucketKinds ==
  ASSUME [Next]_vars
  PROVE  \/ \E p \in Streams : Ship(p)
         \/ Put
         \/ PutFails
         \/ \E p \in Files : Replace(p)
         \/ UNCHANGED <<private, public, raced>> /\ newer \subseteq newer'
<1>1. CASE \E p \in Files : WriteTemp(p)
  BY <1>1 DEF WriteTemp, buckets
<1>2. CASE \/ UNCHANGED vars \/ BuildGold \/ ChangeRegistry \/ OpenFile \/ Start \/ Dies \/ Finish
           \/ \E k \in todo : PassOver(k) \/ StatFile(k) \/ CopyStream(k) \/ Build(k)
  BY <1>2 DEF vars, lake, buckets, BuildGold, ChangeRegistry, OpenFile, Start, Dies, Finish,
     PassOver, StatFile, CopyStream, Build, Wanted
<1> QED
  BY <1>1, <1>2 DEF Next

\* A rename marks its file as newer than the public object, or as raced when the
\* object has overtaken it; a landing that has missed a rename marks it as raced.
LEMMA ReadStep == IInv /\ ReadInv /\ VersionInv /\ [Next]_vars => ReadInv'
<1> SUFFICES ASSUME IInv, ReadInv, VersionInv, [Next]_vars PROVE ReadInv'
  OBVIOUS
<1>0. ShapeInv /\ \A p \in Files : p \in Pairs /\ FileKey(p) \in Keys
  BY PairKeys DEF IInv, Pairs
<1>1. ASSUME NEW q \in Files, Replace(q) PROVE ReadInv'
  <2>1. /\ q \in newer' \/ q \in raced'
        /\ newer \ {q} \subseteq newer' /\ raced \subseteq raced' /\ UNCHANGED public
        /\ \A p \in Pairs : p # q => local'[p] = local[p]
    BY <1>0, <1>1 DEF Replace, VersionInv, buckets
  <2> QED
    BY <1>0, <2>1 DEF ReadInv, Has, RowsOf
<1>2. ASSUME NEW q \in Streams, Ship(q) PROVE ReadInv'
  <2>1. /\ UNCHANGED <<public, raced, newer>>
        /\ \A p \in Files : local'[p] = local[p]
    BY <1>0, <1>2, PairKeys DEF Ship, VersionInv
  <2> QED
    BY <2>1 DEF ReadInv, Has, RowsOf
<1>3. ASSUME UNCHANGED <<local, public, raced>>, newer \subseteq newer' PROVE ReadInv'
  BY <1>3 DEF ReadInv, Has, RowsOf
<1>4. ASSUME pc = "put", Lands, UNCHANGED local PROVE ReadInv'
  <2>0. hand.key \in Keys
    BY <1>0, <1>4, WorkIsKeys DEF ShapeInv
  <2>1. CASE job = "sync"
    BY <1>0, <1>3, <1>4, <2>0, <2>1, LandsIs
  <2>2. CASE job # "sync"
    <3>1. SUFFICES ASSUME NEW p \in Files, Has(p), p \notin newer', p \notin raced'
                   PROVE  public'[FileKey(p)].rows = RowsOf(p)
      BY <1>4 DEF ReadInv, Has, RowsOf
    <3>2. /\ public'[hand.key] = Content(hand.rows, hand.size)
          /\ \A k \in Keys : k # hand.key => public'[k] = public[k]
          /\ newer' = {r \in newer : FileKey(r) # hand.key}
          /\ raced' = {r \in Files : IF FileKey(r) = hand.key THEN hand.rows # RowsOf(r)
                                     ELSE r \in raced}
      BY <1>0, <1>4, <2>0, <2>2, LandsIs
    <3>3. CASE FileKey(p) = hand.key
      BY <3>1, <3>2, <3>3 DEF Content
    <3>4. CASE FileKey(p) # hand.key
      BY <1>0, <3>1, <3>2, <3>4 DEF ReadInv
    <3> QED
      BY <3>3, <3>4
  <2> QED
    BY <2>1, <2>2
<1>5. CASE Put
  BY <1>4, <1>5 DEF Put
<1>6. CASE PutFails
  BY <1>3, <1>4, <1>6 DEF PutFails
<1>7. CASE Start
  BY <1>3, <1>7 DEF Start, lake, buckets
<1>8. CASE UNCHANGED local /\ UNCHANGED <<private, public, raced>> /\ newer \subseteq newer'
  BY <1>3, <1>8
<1> QED
  BY <1>1, <1>2, <1>5, <1>6, <1>7, <1>8, LakeKinds, BucketKinds

\* A stream's object is shipped once, and copied whole or not at all.
LEMMA StreamedStep == IInv /\ StreamedInv /\ VersionInv /\ [Next]_vars => StreamedInv'
<1> SUFFICES ASSUME IInv, StreamedInv, VersionInv, [Next]_vars PROVE StreamedInv'
  OBVIOUS
<1>0. /\ ShapeInv
      /\ \A p \in Streams : p \in Pairs /\ FileKey(p) \in StreamKeys /\ FileKey(p) \in Keys
      /\ \A p, q \in Streams : FileKey(p) = FileKey(q) => p = q
      /\ FileKeys \cap StreamKeys = {}
  <2>1. FileKeys \cap StreamKeys = {}
    BY SyncKeepsStreams DEF Work
  <2> QED
    BY <2>1, PairKeys DEF IInv, Pairs, StreamKeys
\* Steps that leave the streams of the lake and the buckets alone.
<1>1. ASSUME \A p \in Streams : local'[p] = local[p], UNCHANGED <<private, public>>,
             \/ pc' \notin {"open", "put"}
             \/ pc' = "open" /\ hand'.key \in FileKeys
             \/ pc' = pc /\ hand' = hand
             \/ pc' = "put" /\ hand'.key \notin StreamKeys
             \/ pc' = "put" /\ \A p \in Streams : hand'.key = FileKey(p) =>
                                 hand'.rows = Whole(p).rows /\ hand'.size = 1
      PROVE  StreamedInv'
  <2>1. \A p \in Streams : Has(p)' <=> Has(p)
    BY <1>1 DEF Has
  <2>2. \A p \in Streams : Whole(p)' = Whole(p)
    BY DEF Whole, Content
  <2>3. pc' = "open" => hand'.key \in FileKeys
    BY <1>1 DEF StreamedInv
  <2>4. \A p \in Streams : pc' = "put" /\ hand'.key = FileKey(p) =>
                             hand'.rows = Whole(p).rows /\ hand'.size = 1
    BY <1>0, <1>1 DEF StreamedInv
  <2>5. \A p \in Streams :
         /\ Has(p)' => local'[p].version = 1 /\ private'[FileKey(p)] = Whole(p)
         /\ ~Has(p)' => local'[p].version = 0
         /\ public'[FileKey(p)] \in {Nothing, Whole(p)}
    BY <1>1, <2>1 DEF StreamedInv
  <2> QED
    BY <2>2, <2>3, <2>4, <2>5 DEF StreamedInv, FileKey, FileKeys, Key, Nothing
<1>2. ASSUME NEW q \in Files, WriteTemp(q) \/ Replace(q) PROVE StreamedInv'
  <2>1. \A p \in Streams : local'[p] = local[p]
    BY <1>0, <1>2, PairKeys DEF WriteTemp, Replace, VersionInv
  <2> QED
    BY <1>1, <1>2, <2>1 DEF WriteTemp, Replace, buckets
<1>3. ASSUME NEW q \in Streams, Ship(q) PROVE StreamedInv'
  <2>1. /\ local'[q] = [version |-> 1, size |-> 1]
        /\ \A p \in Streams : p # q => local'[p] = local[p]
        /\ private'[FileKey(q)] = Whole(q)
        /\ \A p \in Streams : p # q => private'[FileKey(p)] = private[FileKey(p)]
        /\ UNCHANGED <<public, pc, hand>> /\ pc = "idle"
    BY <1>0, <1>3 DEF Ship, VersionInv, ShapeInv, Whole
  <2>2. \A p \in Streams :
         /\ Has(p)' => local'[p].version = 1 /\ private'[FileKey(p)] = Whole(p)
         /\ ~Has(p)' => local'[p].version = 0
    BY <1>0, <2>1 DEF StreamedInv, Has
  <2>3. \A p \in Streams : Whole(p)' = Whole(p)
    BY DEF Whole, Content
  <2> QED
    BY <2>1, <2>2, <2>3 DEF StreamedInv, FileKey, Key, Nothing
<1>4. ASSUME \/ UNCHANGED vars \/ BuildGold \/ ChangeRegistry \/ Start \/ Dies \/ Finish
             \/ \E k \in todo : PassOver(k)
      PROVE  StreamedInv'
  <2>1. UNCHANGED <<local, private, public>>
    BY <1>4 DEF vars, lake, buckets, BuildGold, ChangeRegistry, Start, Dies, Finish, PassOver
  <2>2. pc' \notin {"open", "put"} \/ (pc' = pc /\ hand' = hand)
    BY <1>4 DEF vars, BuildGold, ChangeRegistry, Start, Goes, Dies, Finish, Ends, PassOver, Take
  <2> QED
    BY <1>1, <2>1, <2>2
<1>5. ASSUME NEW k \in todo, StatFile(k) \/ Build(k) PROVE StreamedInv'
  <2>1. /\ UNCHANGED <<local, private, public>> /\ hand'.key = k
        /\ \/ pc' = "open" /\ k \in FileKeys
           \/ pc' = "put" /\ k \notin StreamKeys
    BY <1>5 DEF StatFile, Build, Wanted, Goes, lake, buckets
  <2> QED
    BY <1>1, <2>1
<1>6. ASSUME NEW k \in todo, CopyStream(k) PROVE StreamedInv'
  <2>1. /\ UNCHANGED <<local, private, public>> /\ pc' = "put" /\ ~Absent(k)
        /\ hand'.key = k /\ hand'.rows = private[k].rows /\ hand'.size = private[k].size
    BY <1>6 DEF CopyStream, Wanted, Goes, lake, buckets
  <2>2. ASSUME NEW p \in Streams, k = FileKey(p)
        PROVE  hand'.rows = Whole(p).rows /\ hand'.size = 1
    <3>1. Has(p)
      BY <1>0, <2>1, <2>2, PairKeys DEF Absent
    <3>2. private[k] = Whole(p) /\ Whole(p).size = 1
      BY <2>2, <3>1 DEF StreamedInv, Whole, Content
    <3> QED
      BY <2>1, <3>2
  <2> QED
    BY <1>1, <2>1, <2>2
<1>7. CASE OpenFile
  <2>1. /\ UNCHANGED <<local, private, public>> /\ pc = "open" /\ pc' = "put"
        /\ hand'.key = hand.key
    BY <1>7 DEF OpenFile, Goes, lake, buckets
  <2>2. hand'.key \notin StreamKeys
    BY <1>0, <2>1 DEF StreamedInv
  <2> QED
    BY <1>1, <2>1, <2>2
<1>8. ASSUME pc = "put", pc' = "pick", Lands, UNCHANGED local PROVE StreamedInv'
  <2>0. hand.key \in Keys /\ (job = "sync" => hand.key \notin StreamKeys)
    BY <1>0, <1>8, WorkIsKeys, SyncKeepsStreams DEF ShapeInv
  <2>1. \A p \in Streams : private'[FileKey(p)] = private[FileKey(p)]
    BY <1>0, <1>8, <2>0, LandsIs
  <2>2. ASSUME NEW p \in Streams PROVE public'[FileKey(p)] \in {Nothing, Whole(p)}
    <3>1. CASE public'[FileKey(p)] = public[FileKey(p)]
      BY <3>1 DEF StreamedInv
    <3>2. CASE hand.key = FileKey(p) /\ public'[hand.key] = Content(hand.rows, hand.size)
      <4>1. hand.rows = Whole(p).rows /\ hand.size = 1
        BY <1>8, <3>2 DEF StreamedInv
      <4> QED
        BY <3>2, <4>1 DEF Whole, Content
    <3> QED
      BY <1>0, <1>8, <2>0, <3>1, <3>2, LandsIs
  <2>3. \A p \in Streams : (Has(p)' <=> Has(p)) /\ Whole(p)' = Whole(p)
    BY <1>8 DEF Has, Whole, Content
  <2>4. \A p \in Streams :
         /\ Has(p)' => local'[p].version = 1 /\ private'[FileKey(p)] = Whole(p)
         /\ ~Has(p)' => local'[p].version = 0
    BY <1>8, <2>1, <2>3 DEF StreamedInv
  <2> QED
    BY <1>8, <2>2, <2>3, <2>4 DEF StreamedInv, FileKey, Key, Nothing
<1>9. CASE Put
  BY <1>8, <1>9 DEF Put, Goes
<1>10. CASE PutFails
  <2>1. UNCHANGED local /\ pc = "put" /\ pc' = "pick"
    BY <1>10 DEF PutFails, Goes
  <2>2. Lands \/ UNCHANGED <<private, public>>
    BY <1>10 DEF PutFails
  <2> QED
    BY <1>1, <1>8, <2>1, <2>2
<1> QED
  BY <1>2, <1>3, <1>4, <1>5, <1>6, <1>7, <1>9, <1>10 DEF Next

\* What suits an object does so for as long as the job, the marts and the registry stand.
LEMMA SuitsStays ==
  ASSUME UNCHANGED <<begun, cleared, gold, job>>, NEW k, NEW rows
  PROVE  Suits(k, rows)' <=> Suits(k, rows)
<1>1. There' = There /\ OneName' = OneName
  BY DEF There, OneName
<1>2. \A p : RowAsBegun(rows, p)' <=> RowAsBegun(rows, p)
  BY DEF RowAsBegun
<1>3. \A r : Cleared(r)' = Cleared(r)
  BY DEF Cleared
<1>4. InGroup(gold, k.group)' = InGroup(gold, k.group)
  BY DEF InGroup
<1>5. Cleared(InGroup(gold, k.group))' = Cleared(InGroup(gold, k.group))
  BY DEF InGroup, Cleared
<1> QED
  BY <1>1, <1>2, <1>4, <1>5 DEF Suits, FileKey, Key, Catalogue, AllKeys, MartKeys

\* What is delivered stays so while the buckets do.
LEMMA DeliveredStays ==
  ASSUME UNCHANGED <<begun, cleared, gold, job>>, NEW k,
         raced \subseteq raced' \/ ~ \E p \in Pairs : k = FileKey(p) /\ p \in raced /\ p \notin raced',
         Bucket'[k] = Bucket[k], Delivered(k)
  PROVE  Delivered(k)'
<1>1. CASE Excused(k)
  BY <1>1 DEF Excused, Delivered, FileKey, Key
<1>2. CASE Suits(k, Bucket[k].rows)
  <2> DEFINE rows == Bucket[k].rows
  <2>1. Suits(k, rows)' <=> Suits(k, rows)
    <3> HIDE DEF rows
    <3>1. \A r : Suits(k, r)' <=> Suits(k, r)
      BY SuitsStays
    <3> QED
      BY <3>1 DEF rows
  <2> QED
    BY <1>2, <2>1 DEF Delivered
<1> QED
  BY <1>1, <1>2 DEF Delivered

\* The key of a file or a stream is that of a pair.
LEMMA FileKeyPair ==
  ASSUME NEW k \in Keys, k.kind = "file"
  PROVE  \E p \in Pairs : k = FileKey(p)
<1>1. k \in FileKeys \cup StreamKeys
  BY KeyKinds DEF Keys
<1> QED
  BY <1>1 DEF FileKeys, StreamKeys, Pairs

\* A pair that existed when the job began has a row, no older than that.
LEMMA RowAsBegunOf ==
  ASSUME VersionInv, NEW p \in There
  PROVE  Has(p) /\ RowsOf(p) = {<<p, local[p].version>>} /\ RowAsBegun(RowsOf(p), p)
<1>1. /\ begun[p] > 0 /\ begun[p] \in Nat /\ local[p].version \in Nat
      /\ begun[p] <= local[p].version
  BY DEF There, VersionInv
<1>2. Has(p) /\ RowsOf(p) = {<<p, local[p].version>>}
  BY <1>1 DEF Has, RowsOf
<1> QED
  BY <1>1, <1>2 DEF RowAsBegun

\* What is built from the lake suits: merged files, marts and the catalogue.
LEMMA BuildSuits ==
  ASSUME VersionInv, NEW k \in Work(job), job \in Jobs, k \notin FileKeys \cup StreamKeys
  PROVE  Suits(k, IF job = "sync" THEN Mirrored(k) ELSE Built(k))
<1> DEFINE rows == IF job = "sync" THEN Mirrored(k) ELSE Built(k)
<1>1. k \in MartKeys \/ (job = "publish" /\ k \in AllKeys \cup {Quality, Catalogue})
  BY DEF Work, Keys, Jobs
<1>2. \A p \in There : k # FileKey(p)
  BY <1>1, PairKeys, KeyKinds DEF There
<1>3. ASSUME k \in AllKeys, NEW p \in There \cap Files \cap cleared, p[1] = k.group
      PROVE  RowAsBegun(rows, p)
  <2>1. k.kind = "all" /\ job = "publish"
    BY <1>1, <1>3, KeyKinds
  <2>2. rows = Cleared(Held(k.group))
    BY <2>1 DEF Built, Jobs
  <2>3. \A r \in RowsOf(p) : r \in Cleared(Held(k.group))
    <3>1. \A r \in RowsOf(p) : r \in Held(k.group) /\ r[1] = p
      BY <1>3 DEF Held, RowsOf
    <3> QED
      BY <1>3, <3>1 DEF Cleared
  <2>4. RowAsBegun(RowsOf(p), p)
    BY RowAsBegunOf
  <2> QED
    BY <2>2, <2>3, <2>4 DEF RowAsBegun
<1>4. ASSUME k \in MartKeys
      PROVE  rows = IF job = "sync" THEN InGroup(gold, k.group) ELSE Cleared(InGroup(gold, k.group))
  BY <1>4, KeyKinds DEF Mirrored, Built
<1>5. ASSUME k = Catalogue, OneName
      PROVE  {r[1] : r \in rows} \cap There = cleared \cap There \cap Files
  <2>1. rows = Counted
    BY <1>1, <1>5, KeyKinds DEF Built
  <2>2. ASSUME NEW p \in There \cap Files \cap cleared PROVE \E r \in Counted : r[1] = p
    <3>1. RowsOf(p) = {<<p, local[p].version>>}
      BY RowAsBegunOf
    <3>2. p[1] \in 1..NGroups /\ RowsOf(p) \subseteq Held(p[1])
      BY PublishAssumption DEF Held
    <3>3. <<p, local[p].version>> \in Counted
      BY <3>1, <3>2 DEF Counted, ClearedByName
    <3> QED
      BY <3>3
  <2>3. ASSUME NEW r \in Counted PROVE r[1] \in Files /\ r[1] \in cleared
    <3>1. /\ \E g \in 1..NGroups : r \in Held(g)
          /\ \E q \in cleared : q[2] = r[1][2]
      BY DEF Counted, ClearedByName
    <3>2. PICK p \in Files : r \in RowsOf(p)
      BY <3>1 DEF Held
    <3>3. r[1] = p
      BY <3>2 DEF RowsOf
    <3> QED
      BY <1>5, <3>1, <3>3 DEF OneName
  <2> HIDE DEF rows
  <2> QED
    BY <2>1, <2>2, <2>3
<1> QED
  BY <1>2, <1>3, <1>4, <1>5 DEF Suits

\* What a job passes over is delivered, or excused: there is nothing of it, it is not
\* for the public, or the object there is the file.
LEMMA PassedOver ==
  ASSUME ShapeInv, VersionInv, ReadInv, StreamedInv, NEW k \in Work(job),
         Absent(k) \/ Withheld(k) \/ UpToDate(k)
  PROVE  Delivered(k)
<1>0. k \in Keys
  BY WorkIsKeys DEF ShapeInv
<1>1. CASE k.kind = "file"
  <2>1. PICK p \in Pairs : k = FileKey(p)
    BY <1>0, <1>1, FileKeyPair
  <2>2. PairOf(k) = p /\ \A q \in Pairs : k = FileKey(q) => q = p
    BY <2>1, PairKeys
  <2>3. k \notin AllKeys /\ k \notin MartKeys /\ k # Catalogue
    BY <1>1, KeyKinds
  <2>4. ASSUME p \in There => RowAsBegun(Bucket[k].rows, p) PROVE Delivered(k)
    <3> DEFINE rows == Bucket[k].rows
    <3>1. \A q \in There : k = FileKey(q) => RowAsBegun(rows, q)
      BY <2>2, <2>4 DEF There
    <3> HIDE DEF rows
    <3>2. Suits(k, rows)
      BY <2>3, <3>1 DEF Suits
    <3> QED
      BY <3>2 DEF Delivered, rows
  <2>5. CASE Absent(k)
    <3>1. ~Has(p)
      BY <1>1, <2>2, <2>5 DEF Absent
    <3>2. p \notin There
      BY <3>1, RowAsBegunOf
    <3> QED
      BY <2>4, <3>2
  <2>6. CASE Withheld(k)
    BY <2>1, <2>2, <2>6 DEF Withheld, Excused, Delivered
  <2>7. CASE UpToDate(k) /\ p \in There
    <3>1. /\ job = "publish" /\ p \notin newer /\ public[k].size = local[p].size
          /\ Has(p) /\ local[p].size > 0 /\ RowAsBegun(RowsOf(p), p)
          /\ RowsOf(p) = {<<p, local[p].version>>}
      BY <2>2, <2>7, RowAsBegunOf DEF UpToDate, Current, VersionInv
    <3>2. CASE p \in raced
      BY <2>1, <3>1, <3>2 DEF Excused, Delivered
    <3>3. CASE p \in Files /\ p \notin raced
      <4>1. public[k].rows = RowsOf(p)
        BY <2>1, <3>1, <3>3 DEF ReadInv
      <4> QED
        BY <2>4, <3>1, <4>1 DEF Bucket
    <3>4. CASE p \in Streams
      <4>1. public[k] # Nothing
        BY <3>1 DEF Nothing
      <4>2. public[k] = Whole(p) /\ local[p].version = 1
        BY <2>1, <3>1, <3>4, <4>1 DEF StreamedInv
      <4>3. Whole(p).rows = {<<p, 1>>}
        BY DEF Whole, Content
      <4> QED
        BY <2>4, <3>1, <4>2, <4>3 DEF Bucket
    <3> QED
      BY <3>2, <3>3, <3>4 DEF Pairs
  <2> QED
    BY <2>4, <2>5, <2>6, <2>7
<1>2. CASE k.kind # "file"
  <2>1. Absent(k)
    BY <1>2 DEF Withheld, UpToDate
  <2> DEFINE rows == Bucket[k].rows
  <2>2. \A p \in There : k # FileKey(p)
    BY <1>2, PairKeys DEF There
  <2>3. k \in AllKeys => \A p \in There \cap Files : p[1] # k.group
    <3> SUFFICES ASSUME k \in AllKeys, NEW p \in There \cap Files, p[1] = k.group PROVE FALSE
      OBVIOUS
    <3>1. Held(k.group) = {}
      BY <2>1, KeyKinds DEF Absent
    <3>2. <<p, local[p].version>> \in Held(k.group)
      BY RowAsBegunOf DEF Held
    <3> QED
      BY <3>1, <3>2
  <2>4. k \in MartKeys => InGroup(gold, k.group) = {}
    BY <2>1, KeyKinds DEF Absent
  <2>5. k # Catalogue
    BY <2>1, KeyKinds DEF Absent
  <2> HIDE DEF rows
  <2>6. Suits(k, rows)
    BY <2>2, <2>3, <2>4, <2>5 DEF Suits
  <2> QED
    BY <2>6 DEF Delivered, rows
<1> QED
  BY <1>1, <1>2

\* What a job takes up, it takes in a form that suits, and what it has come past is
\* delivered.
LEMMA DoneStep ==
  IInv /\ VersionInv /\ ReadInv /\ StreamedInv /\ DoneInv /\ [Next]_vars => DoneInv'
<1> SUFFICES ASSUME IInv, VersionInv, ReadInv, StreamedInv, DoneInv, [Next]_vars PROVE DoneInv'
  OBVIOUS
<1>0. ShapeInv /\ job \in Jobs
  BY DEF IInv, ShapeInv
<1>1. ASSUME pc' = "idle" PROVE DoneInv'
  BY <1>1 DEF DoneInv
<1>2. ASSUME UNCHANGED <<begun, cleared, gold, job>>, pc' # "put" \/ (pc' = pc /\ hand' = hand)
      PROVE  pc' = "put" => Suits(hand.key, hand.rows)'
  <2> SUFFICES ASSUME pc = "put", hand' = hand PROVE Suits(hand.key, hand.rows)'
    BY <1>2
  <2> DEFINE k == hand.key
             rows == hand.rows
  <2>1. Suits(k, rows)
    BY DEF DoneInv
  <2>2. \A j, r : Suits(j, r)' <=> Suits(j, r)
    BY <1>2, SuitsStays
  <2> QED
    BY <2>1, <2>2
<1>3. ASSUME UNCHANGED <<begun, cleared, gold, job, private, public>>, raced \subseteq raced',
             pc' # "idle" => pc # "idle", ~failed' => ~failed,
             \A k \in Work(job) \ todo' :
                ~InHand(k)' => Delivered(k) \/ (k \notin todo /\ ~InHand(k))
      PROVE  pc' # "idle" /\ ~failed' => \A k \in (Work(job) \ todo)' : InHand(k)' \/ Delivered(k)'
  <2> SUFFICES ASSUME pc' # "idle", ~failed', NEW k \in Work(job) \ todo', ~InHand(k)'
               PROVE  Delivered(k)'
    BY <1>3 DEF Work, FileKeys, MartKeys, Keys, StreamKeys, AllKeys, Quality, Catalogue, FileKey, Key
  <2>1. Delivered(k)
    BY <1>3 DEF DoneInv
  <2>2. Bucket' = Bucket
    BY <1>3 DEF Bucket
  <2> QED
    BY <1>3, <2>1, <2>2, DeliveredStays
<1>4. ASSUME NEW p \in Files, WriteTemp(p) \/ Replace(p) PROVE DoneInv'
  <2>1. /\ UNCHANGED <<begun, cleared, gold, job, private, public, pc, hand, todo, failed>>
        /\ raced \subseteq raced'
    BY <1>4 DEF WriteTemp, Replace, buckets
  <2>2. \A k : InHand(k)' <=> InHand(k)
    BY <2>1 DEF InHand
  <2> QED
    BY <1>2, <1>3, <2>1, <2>2 DEF DoneInv
<1>5. CASE Start
  <2>1. pc' = "pick" /\ todo' = Work(job')
    BY <1>5 DEF Start, Goes
  <2>2. Work(job)' = Work(job')
    BY DEF Work, FileKeys, MartKeys, Keys, StreamKeys, AllKeys, Quality, Catalogue, FileKey, Key
  <2> QED
    BY <2>1, <2>2 DEF DoneInv
<1>6. ASSUME NEW k \in todo, PassOver(k) PROVE DoneInv'
  <2>1. /\ UNCHANGED <<begun, cleared, gold, job, private, public, raced, pc, hand, failed>>
        /\ pc = "pick" /\ todo' = todo \ {k} /\ (Absent(k) \/ Withheld(k) \/ UpToDate(k))
    BY <1>6 DEF PassOver, Take, buckets, lake
  <2>2. k \in Work(job)
    BY <1>0, <2>1 DEF ShapeInv
  <2>3. Delivered(k)
    BY <1>0, <2>1, <2>2, PassedOver
  <2>4. \A j : ~InHand(j)
    BY <2>1 DEF InHand
  <2> QED
    BY <1>2, <1>3, <2>1, <2>3, <2>4 DEF DoneInv
<1>7. ASSUME NEW k \in todo, Wanted(k), pc' \in {"open", "put"}, hand'.key = k, UNCHANGED raced,
             pc' = "put" => Suits(k, hand'.rows)
      PROVE  DoneInv'
  <2>1. /\ UNCHANGED <<begun, cleared, gold, job, private, public, raced, failed>>
        /\ pc = "pick" /\ todo' = todo \ {k}
    BY <1>7 DEF Wanted, Take, buckets, lake
  <2>2. InHand(k)' /\ \A j : ~InHand(j)
    BY <1>7, <2>1 DEF InHand
  <2>3. pc' = "put" => Suits(hand.key, hand.rows)'
    <3> SUFFICES ASSUME pc' = "put" PROVE Suits(hand.key, hand.rows)'
      OBVIOUS
    <3>1. \A j, r : Suits(j, r)' <=> Suits(j, r)
      BY <2>1, SuitsStays
    <3>2. \A r : r = hand'.rows => Suits(k, r)'
      BY <1>7, <3>1
    <3> QED
      BY <1>7, <3>2
  <2> QED
    BY <1>3, <2>1, <2>2, <2>3 DEF DoneInv
<1>8. ASSUME NEW k \in todo, StatFile(k) PROVE DoneInv'
  <2>1. Wanted(k) /\ pc' = "open" /\ hand'.key = k /\ UNCHANGED raced
    BY <1>8 DEF StatFile, Goes
  <2> QED
    BY <1>7, <2>1
<1>9. ASSUME NEW k \in todo, CopyStream(k) PROVE DoneInv'
  <2>1. /\ Wanted(k) /\ pc' = "put" /\ hand'.key = k /\ UNCHANGED raced
        /\ hand'.rows = private[k].rows /\ ~Absent(k)
    BY <1>9 DEF CopyStream, Goes, Wanted
  <2>2. PICK p \in Streams : k = FileKey(p)
    BY <1>9 DEF CopyStream, StreamKeys
  <2>3. p \in Pairs /\ k.kind = "file" /\ PairOf(k) = p
    BY <2>2, PairKeys DEF Pairs
  <2>4. Has(p) /\ private[k] = Whole(p) /\ local[p].version = 1
    BY <2>1, <2>2, <2>3 DEF Absent, StreamedInv
  <2>5. begun[p] <= 1 /\ Whole(p).rows = {<<p, 1>>}
    BY <2>3, <2>4 DEF VersionInv, Whole, Content
  <2>6. RowAsBegun(private[k].rows, p)
    BY <2>4, <2>5 DEF RowAsBegun
  <2> DEFINE rows == private[k].rows
  <2>7. \A q \in There : k = FileKey(q) => RowAsBegun(rows, q)
    BY <2>3, <2>6, PairKeys DEF There
  <2>8. k \notin AllKeys /\ k \notin MartKeys /\ k # Catalogue
    BY <2>3, KeyKinds
  <2> HIDE DEF rows
  <2>9. Suits(k, rows)
    BY <2>7, <2>8 DEF Suits
  <2>10. Suits(k, hand'.rows)
    BY <2>1, <2>9 DEF rows
  <2> QED
    BY <1>7, <2>1, <2>10
<1>10. ASSUME NEW k \in todo, Build(k) PROVE DoneInv'
  <2>1. /\ Wanted(k) /\ pc' = "put" /\ hand'.key = k /\ UNCHANGED raced
        /\ hand'.rows = IF job = "sync" THEN Mirrored(k) ELSE Built(k)
        /\ k \notin FileKeys \cup StreamKeys /\ pc = "pick"
    BY <1>10 DEF Build, Goes, Wanted, Take
  <2>2. k \in Work(job)
    BY <1>0, <2>1 DEF ShapeInv
  <2>3. Suits(k, IF job = "sync" THEN Mirrored(k) ELSE Built(k))
    BY <1>0, <2>1, <2>2, BuildSuits
  <2> QED
    BY <1>7, <2>1, <2>3
<1>11. CASE OpenFile
  <2>1. /\ UNCHANGED <<begun, cleared, gold, job, private, public, raced, failed, todo>>
        /\ pc = "open" /\ pc' = "put" /\ hand'.key = hand.key
        /\ hand'.rows = RowsOf(PairOf(hand.key))
    BY <1>11 DEF OpenFile, Goes, buckets, lake
  <2>2. PICK p \in Files : hand.key = FileKey(p)
    BY <2>1 DEF StreamedInv, FileKeys
  <2>3. p \in Pairs /\ hand.key.kind = "file" /\ PairOf(hand.key) = p
    BY <2>2, PairKeys DEF Pairs
  <2> DEFINE k == FileKey(p)
             rows == RowsOf(p)
  <2>4. \A q \in There : k = FileKey(q) => RowAsBegun(rows, q)
    BY <2>3, PairKeys, RowAsBegunOf DEF There
  <2>5. k \notin AllKeys /\ k \notin MartKeys /\ k # Catalogue
    BY <2>2, <2>3, KeyKinds
  <2>6. hand'.key = k /\ hand'.rows = rows
    BY <2>1, <2>2, <2>3
  <2> HIDE DEF k, rows
  <2>7. Suits(k, rows)
    BY <2>4, <2>5 DEF Suits
  <2>8. Suits(hand.key, hand.rows)'
    <3>1. \A j, r : Suits(j, r)' <=> Suits(j, r)
      BY <2>1, SuitsStays
    <3>2. \A j, r : j = hand'.key /\ r = hand'.rows => Suits(j, r)'
      BY <2>6, <2>7, <3>1
    <3> QED
      BY <3>2
  <2>9. \A j : InHand(j)' <=> InHand(j)
    BY <2>1 DEF InHand
  <2> QED
    BY <1>3, <2>1, <2>8, <2>9 DEF DoneInv
<1>12. ASSUME pc = "put", pc' = "pick", Lands, UNCHANGED <<begun, cleared, gold, job, todo>>,
              ~failed' => ~failed
       PROVE  DoneInv'
  <2>0. hand.key \in Keys
    BY <1>0, <1>12, WorkIsKeys DEF ShapeInv
  <2>1. /\ Bucket'[hand.key].rows = hand.rows
        /\ \A k \in Keys : k # hand.key => Bucket'[k] = Bucket[k]
    BY <1>0, <1>12, <2>0, LandsIs DEF Bucket, Content
  <2>2. \A j, r : Suits(j, r)' <=> Suits(j, r)
    BY <1>12, SuitsStays
  <2>3. SUFFICES ASSUME ~failed', NEW k \in Work(job) \ todo PROVE Delivered(k)'
    BY <1>12 DEF DoneInv, Work, FileKeys, MartKeys, Keys, StreamKeys, AllKeys, Quality, Catalogue,
       FileKey, Key
  <2>4. k \in Keys
    BY <1>0, <2>3, WorkIsKeys
  <2>5. CASE k = hand.key
    <3>1. Suits(k, hand.rows)
      BY <1>12, <2>5 DEF DoneInv
    <3>2. \A r : r = hand.rows => Suits(k, r)'
      BY <2>2, <3>1
    <3>3. Suits(k, Bucket[k].rows)'
      BY <2>1, <2>5, <3>2
    <3> QED
      BY <3>3 DEF Delivered
  <2>6. CASE k # hand.key
    <3>1. Delivered(k)
      BY <1>12, <2>3, <2>6 DEF DoneInv, InHand
    <3>2. ~ \E p \in Pairs : k = FileKey(p) /\ p \in raced /\ p \notin raced'
      BY <1>0, <1>12, <2>0, <2>6, LandsIs DEF VersionInv
    <3> QED
      BY <1>12, <2>1, <2>4, <2>6, <3>1, <3>2, DeliveredStays
  <2> QED
    BY <2>5, <2>6
<1>13. CASE Put
  <2>1. ~failed' => ~failed
    BY <1>13 DEF Put
  <2> QED
    BY <1>12, <1>13, <2>1 DEF Put, Goes
<1>14. CASE PutFails
  <2>1. pc' = "pick" /\ failed' = TRUE
    BY <1>14 DEF PutFails, Goes
  <2> QED
    BY <2>1 DEF DoneInv
<1>15. CASE UNCHANGED vars
  <2>1. UNCHANGED <<begun, cleared, gold, job, private, public, raced, pc, hand, todo, failed>>
    BY <1>15 DEF vars
  <2>2. \A k : InHand(k)' <=> InHand(k)
    BY <2>1 DEF InHand
  <2> QED
    BY <1>2, <1>3, <2>1, <2>2 DEF DoneInv
<1>16. ASSUME \/ \E p \in Streams : Ship(p)
              \/ BuildGold \/ ChangeRegistry \/ Dies \/ Finish
       PROVE  pc' = "idle"
  BY <1>16 DEF Ship, BuildGold, ChangeRegistry, Dies, Finish, Ends
<1> QED
  BY <1>1, <1>4, <1>5, <1>6, <1>8, <1>9, <1>10, <1>11, <1>13, <1>14, <1>15, <1>16 DEF Next

-----------------------------------------------------------------------------
(* The invariant of the delivery, and what it says of a job that ends.     *)

DeliveryInv == IInv /\ VersionInv /\ ReadInv /\ StreamedInv /\ DoneInv

\* Nothing is under way when the buckets are new, and no stream has been shipped.
LEMMA InitDelivery == Init => DeliveryInv
<1> SUFFICES ASSUME Init PROVE DeliveryInv
  OBVIOUS
<1>0. IInv
  BY InitHolds
<1>1. /\ \A p \in Pairs : local[p] = IF p \in Seeded THEN [version |-> 1, size |-> 1]
                                     ELSE [version |-> 0, size |-> 0]
      /\ local \in [Pairs -> [version : Nat, size : Nat]]
  BY DEF Init
<1>2. Seeded \subseteq Files /\ Files \cap Streams = {}
  BY PublishAssumption, PairKeys
<1>3. VersionInv
  <2>1. newer = Seeded /\ raced = {} /\ begun = [p \in Pairs |-> 0]
    BY DEF Init, NotBegun
  <2> QED
    BY <1>1, <1>2, <2>1 DEF VersionInv, Has
<1>4. ReadInv
  BY <1>1 DEF ReadInv, Init, Has, Pairs
<1>5. StreamedInv
  <2>1. \A p \in Streams : p \in Pairs /\ p \notin Seeded /\ FileKey(p) \in Keys
    BY <1>2, PairKeys DEF Pairs
  <2>2. pc = "idle" /\ public = [k \in Keys |-> Nothing]
    BY DEF Init
  <2> QED
    BY <1>1, <2>1, <2>2 DEF StreamedInv, Has
<1>6. DoneInv
  BY DEF Init, DoneInv
<1> QED
  BY <1>0, <1>3, <1>4, <1>5, <1>6 DEF DeliveryInv

\* What a job takes up or has come past is as it should be, at every moment.
THEOREM DeliveryInductive == Spec => []DeliveryInv
<1>1. DeliveryInv /\ [Next]_vars => DeliveryInv'
  <2>1. IInv /\ [Next]_vars => IInv'
    BY ShapeStep, StreamStep, HandStep DEF IInv
  <2> QED
    BY <2>1, VersionStep, ReadStep, StreamedStep, DoneStep DEF DeliveryInv
<1> QED
  BY InitDelivery, <1>1, PTL DEF Spec

\* A sync that has come past everything has mirrored it.
LEMMA AllMirrored ==
  ASSUME DeliveryInv, job = "sync", \A k \in Work(job) : Delivered(k)
  PROVE  PrivateDelivered
<1>0. \A k \in FileKeys \cup MartKeys : Suits(k, private[k].rows)
  BY DEF Work, Delivered, Excused, Bucket
<1>1. ASSUME NEW p \in Files, begun[p] > 0 PROVE AsBegun(private, FileKey(p), p)
  <2>1. p \in There /\ FileKey(p) \in FileKeys
    BY <1>1 DEF There, Pairs, FileKeys
  <2> QED
    BY <1>0, <2>1 DEF Suits, RowAsBegun, AsBegun
<1>2. ASSUME NEW k \in MartKeys, InGroup(gold, k.group) # {}
      PROVE  private[k].rows = InGroup(gold, k.group)
  BY <1>0, <1>2 DEF Suits
<1> QED
  BY <1>1, <1>2 DEF PrivateDelivered

\* A publish that has come past everything has published it, but for what was
\* rewritten while it was on its way.
LEMMA AllPublished ==
  ASSUME DeliveryInv, job = "publish", \A k \in Work(job) : Delivered(k)
  PROVE  PublicDelivered
<1>0. /\ Work(job) = Keys
      /\ \A k \in Keys : Excused(k) \/ Suits(k, public[k].rows)
  BY DEF Work, Delivered, Bucket
<1>1. \A k \in Keys : k.kind # "file" => Suits(k, public[k].rows)
  BY <1>0, PairKeys DEF Excused
<1>2. ASSUME NEW p \in (There \cap cleared) \ raced PROVE AsBegun(public, FileKey(p), p)
  <2>1. p \in Pairs /\ FileKey(p) \in Keys /\ \A q \in Pairs : FileKey(q) = FileKey(p) => q = p
    BY PairKeys DEF There
  <2>2. ~Excused(FileKey(p))
    BY <1>2, <2>1 DEF Excused
  <2>3. Suits(FileKey(p), public[FileKey(p)].rows)
    BY <1>0, <2>1, <2>2
  <2> QED
    BY <1>2, <2>3 DEF Suits, RowAsBegun, AsBegun
<1>3. ASSUME NEW k \in AllKeys, NEW p \in There \cap Files \cap cleared, p[1] = k.group
      PROVE  AsBegun(public, k, p)
  <2>1. Suits(k, public[k].rows)
    BY <1>1, KeyKinds DEF Keys
  <2> QED
    BY <1>3, <2>1 DEF Suits, RowAsBegun, AsBegun
<1>4. ASSUME NEW k \in MartKeys, InGroup(gold, k.group) # {}
      PROVE  public[k].rows = Cleared(InGroup(gold, k.group))
  <2>1. Suits(k, public[k].rows)
    BY <1>1, KeyKinds DEF Keys
  <2> QED
    BY <1>4, <2>1 DEF Suits
<1>5. OneName => Mentions(Catalogue) \cap There = cleared \cap There \cap Files
  <2>1. Suits(Catalogue, public[Catalogue].rows)
    BY <1>1, KeyKinds DEF Keys
  <2> QED
    BY <2>1 DEF Suits, Mentions
<1>6. {p \in Pairs : begun[p] > 0} = There
  BY DEF There
<1> QED
  BY <1>2, <1>3, <1>4, <1>5, <1>6 DEF PublicDelivered

\* A job that reports no failure has delivered every object as it was when the
\* job began, or later: the exit code of publish_public, the log of sync.  Only a
\* file rewritten while its upload was on its way may be behind.
THEOREM SuccessMeansCurrentAlways == Spec => SuccessMeansCurrent
<1> DEFINE Right == IF job = "sync" THEN PrivateDelivered ELSE PublicDelivered
<1>1. DeliveryInv /\ [Next]_vars => [Finish /\ ~failed => Right]_vars
  <2> SUFFICES ASSUME DeliveryInv, Finish, ~failed PROVE Right
    OBVIOUS
  <2>1. pc = "pick" /\ todo = {} /\ job \in Jobs
    BY DEF Finish, DeliveryInv, IInv, ShapeInv
  <2>2. \A k \in Work(job) : Delivered(k)
    BY <2>1 DEF DeliveryInv, DoneInv, InHand
  <2> QED
    BY <2>1, <2>2, AllMirrored, AllPublished DEF Jobs
<1> QED
  BY DeliveryInductive, <1>1, PTL DEF Spec, SuccessMeansCurrent
=============================================================================
