------------------------------- MODULE Publish -------------------------------
(***************************************************************************)
(* The two buckets: the mirror of the working lake (qde/sync.py, the part  *)
(* after the streamed files, which Lake models) and the public lake        *)
(* (qde/publish_public.py) with its catalogue (qde/catalogue.py).  A job   *)
(* uploads what the registry clears, one object at a time, while a manual  *)
(* update may rewrite the very file; it may be killed anywhere, and a new  *)
(* image may change what is cleared between two jobs.                      *)
(*                                                                         *)
(* A file of the lake is the pair of its group and source; group 0 is the  *)
(* streamed one, which exists in the private bucket only.  Content is a    *)
(* set of rows, a row being a pair and the version of the file it is from. *)
(* Files of different versions may have the same size.                     *)
(***************************************************************************)
EXTENDS Integers

CONSTANTS
    NGroups,     \* the batch groups are 1..NGroups
    Files,       \* pairs of a batch group and a source that the lake may hold
    Seeded,      \* those it holds when the buckets are new
    Streamed,    \* sources of group 0
    Sizes,
    MaxJobs,     \* bound: syncs and publishes
    MaxChanges,  \* bound: temps, shipped files, builds of the marts, new images
    MaxFaults    \* bound: failed calls, kills

ASSUME PublishAssumption ==
    /\ NGroups \in Nat /\ {MaxJobs, MaxChanges, MaxFaults} \subseteq Nat
    /\ \A p \in Files : p = <<p[1], p[2]>> /\ p[1] \in 1..NGroups
    /\ Seeded \subseteq Files /\ Sizes \subseteq Nat \ {0}

Streams == {0} \X Streamed
Pairs == Files \cup Streams

VARIABLES
    local,     \* pair -> version and size; a stream is as the private bucket has it
    newer,     \* files whose mtime is after LastModified of their public object
    pending,   \* the temp beside a file: "none"; "fresh", written after its public
               \* object landed; "passed", written before
    gold,      \* the rows of the marts that dbt built
    cleared,   \* the registry: _publishable_pairs
    private, public,   \* bucket: key -> content
    staged,    \* .publish-staging
    job, pc, todo,     \* the job, and the objects it has still to come to
    hand,      \* the upload under way: key, size by stat, size and rows read
    failed,    \* the count of failures is not zero
    begun,     \* history: versions when the job began
    raced,     \* history: files whose public object landed while a rewrite was under
               \* way: it may be older than the file, and its LastModified younger
    jobs, changes, faults

lake == <<local, newer, pending, gold>>
buckets == <<private, public>>
bounds == <<jobs, changes, faults>>
vars == <<local, newer, pending, gold, cleared, private, public, staged, job, pc, todo,
          hand, failed, begun, raced, jobs, changes, faults>>

-----------------------------------------------------------------------------
Key(kind, group, source) == [kind |-> kind, group |-> group, source |-> source]
FileKey(p) == Key("file", p[1], p[2])
PairOf(k) == <<k.group, k.source>>        \* _key_pair, _source_of
MartKeys == {Key("mart", g, "") : g \in 1..NGroups}
AllKeys == {Key("all", g, "") : g \in 1..NGroups}
Catalogue == Key("catalogue", NGroups, "")
Quality == Key("quality", NGroups, "")
FileKeys == {FileKey(p) : p \in Files}
StreamKeys == {FileKey(p) : p \in Streams}
Keys == FileKeys \cup StreamKeys \cup MartKeys \cup AllKeys \cup {Quality, Catalogue}

\* main() of either job, in order: group by group, each group's merge after it.
Work(j) == IF j = "sync" THEN FileKeys \cup MartKeys ELSE Keys
Rank(k) == CASE k.kind = "file" -> 2 * k.group  [] k.kind = "all" -> 2 * k.group + 1
             [] k.kind = "quality" -> 2 * k.group + 2 [] k.kind = "mart" -> 2 * NGroups + 3
             [] k.kind = "catalogue" -> 2 * NGroups + 4

Nothing == [rows |-> {}, size |-> 0]
Content(rows, size) == [rows |-> rows, size |-> size]
Has(p) == local[p].version > 0
RowsOf(p) == IF Has(p) THEN {<<p, local[p].version>>} ELSE {}
Held(group) == UNION {RowsOf(p) : p \in {q \in Files : q[1] = group}}
InGroup(rows, group) == {r \in rows : r[1][1] = group}

\* _group_in_list.  (Mutant: by the name alone, as once.)
ClearedByName(rows) == {r \in rows : \E p \in cleared : p[2] = r[1][2]}
Cleared(rows) == {r \in rows : r[1] \in cleared}

\* publish_gold: the marts as dbt built them.
Mirrored(k) == InGroup(gold, k.group)

\* _bronze_dataset, once per group.
Counted == ClearedByName(UNION {Held(g) : g \in 1..NGroups})

\* What goes into a consolidated file, a trimmed mart, the quality history
\* (which no one's licence concerns), and the catalogue.
Built(k) ==
    CASE k.kind = "all"       -> Cleared(Held(k.group))
      [] k.kind = "mart"      -> Cleared(InGroup(gold, k.group))
      [] k.kind = "catalogue" -> Counted
      [] k.kind = "quality"   -> {}

\* _already_current, when nothing fails; and the test of mirror_private_prefix.
\* (Mutant: by size alone.)
CurrentBySize(k) == public[k].size = local[PairOf(k)].size
Current(k) ==
    /\ public[k].size = local[PairOf(k)].size
    /\ PairOf(k) \notin newer

\* Objects a job passes over.
Absent(k) ==
    CASE k.kind = "file" -> ~Has(PairOf(k))
      [] k.kind = "all"  -> Held(k.group) = {}
      [] k.kind = "mart" -> InGroup(gold, k.group) = {}
      [] OTHER           -> FALSE
Withheld(k) == job = "publish" /\ k.kind = "file" /\ PairOf(k) \notin cleared
UpToDate(k) == job = "publish" /\ k.kind = "file" /\ Current(k)

\* A process that is not there, and the hands of one that uploads nothing.
NotBegun == [p \in Pairs |-> 0]
Empty == [key |-> Catalogue, stat |-> 0, size |-> 0, rows |-> {}]
Ends == pc' = "idle" /\ hand' = Empty /\ failed' = FALSE /\ begun' = NotBegun

-----------------------------------------------------------------------------
Init ==
    /\ local = [p \in Pairs |-> IF p \in Seeded THEN [version |-> 1, size |-> 1]
                              ELSE [version |-> 0, size |-> 0]]
    /\ newer = Seeded /\ pending = [p \in Files |-> "none"] /\ gold = {}
    /\ cleared \in SUBSET Pairs
    /\ private = [k \in Keys |-> Nothing] /\ public = private
    /\ staged = [k \in AllKeys \cup MartKeys |-> Nothing]
    /\ job = "sync" /\ pc = "idle" /\ todo = {}
    /\ hand = Empty /\ failed = FALSE
    /\ begun = NotBegun /\ raced = {}
    /\ jobs = 0 /\ changes = 0 /\ faults = 0

Fault == faults < MaxFaults /\ faults' = faults + 1
Goes(to) == pc' = to
Change == changes < MaxChanges /\ changes' = changes + 1

\* An update, the nightly one between jobs, a manual one at any time.  The mtime of
\* the new file is that of the last write to its temp ...
WriteTemp(p) ==
    /\ Change
    /\ pending' = [pending EXCEPT ![p] = "fresh"]
    /\ UNCHANGED <<local, newer, gold, cleared, buckets, staged, job, pc, todo, hand, failed,
                   begun, raced, jobs, faults>>

\* ... which is flushed before it is renamed: an object that lands between the two
\* is younger than a file it does not hold.  A temp may also be left for good.
Replace(p) ==
    /\ pending[p] # "none" /\ pending' = [pending EXCEPT ![p] = "none"]
    /\ \E s \in Sizes : local' = [local EXCEPT ![p] = [version |-> @.version + 1, size |-> s]]
    /\ newer' = IF pending[p] = "fresh" THEN newer \cup {p} ELSE newer \ {p}
    /\ raced' = IF pending[p] = "fresh" THEN raced ELSE raced \cup {p}
    /\ UNCHANGED <<gold, cleared, buckets, staged, job, pc, todo, hand, failed, begun, bounds>>

\* sync_bronze has shipped a file of a stream, under a name of its own.
Ship(p) ==
    /\ pc = "idle" /\ ~Has(p) /\ Change
    /\ local' = [local EXCEPT ![p] = [version |-> 1, size |-> 1]]
    /\ private' = [private EXCEPT ![FileKey(p)] = Content({<<p, 1>>}, 1)]
    /\ UNCHANGED <<newer, pending, gold, cleared, public, staged, job, pc, todo, hand, failed,
                   begun, raced, jobs, faults>>

BuildGold ==
    /\ pc = "idle" /\ Change
    /\ gold' = UNION {Held(g) : g \in 1..NGroups}
    /\ UNCHANGED <<local, newer, pending, cleared, buckets, staged, job, pc, todo, hand, failed,
                   begun, raced, jobs, faults>>

ChangeRegistry ==
    /\ pc = "idle" /\ Change
    /\ \E p \in Pairs : cleared' = IF p \in cleared THEN cleared \ {p} ELSE cleared \cup {p}
    /\ UNCHANGED <<lake, buckets, staged, job, pc, todo, hand, failed, begun, raced,
                   jobs, faults>>

-----------------------------------------------------------------------------
Start ==
    /\ pc = "idle" /\ jobs < MaxJobs /\ jobs' = jobs + 1
    /\ \E j \in {"sync", "publish"} : job' = j /\ todo' = Work(j)
    /\ failed' = FALSE /\ Goes("pick")
    /\ begun' = [p \in Pairs |-> local[p].version]
    /\ UNCHANGED <<lake, cleared, buckets, staged, hand, raced, changes, faults>>

\* The loops take the objects in order.
Take(k) ==
    /\ pc = "pick" /\ k \in todo /\ \A j \in todo : Rank(k) <= Rank(j)
    /\ todo' = todo \ {k}

PassOver(k) ==
    /\ Take(k) /\ (Absent(k) \/ Withheld(k) \/ UpToDate(k))
    /\ UNCHANGED <<lake, cleared, buckets, staged, job, pc, hand, failed, begun, raced, bounds>>

\* A head that fails leads to an upload.
Wanted(k) ==
    /\ Take(k) /\ ~Absent(k) /\ ~Withheld(k)
    /\ IF UpToDate(k) THEN Fault ELSE UNCHANGED faults
    /\ UNCHANGED <<lake, cleared, buckets, job, failed, begun, jobs, changes>>

\* _upload and publish_bars and its twins take the size first ...
StatFile(k) ==
    /\ Wanted(k) /\ k \in FileKeys /\ Goes("open")
    /\ hand' = [key |-> k, stat |-> local[PairOf(k)].size, size |-> 0, rows |-> {}]
    /\ UNCHANGED <<staged, raced>>

\* ... then open the file and read it: a rename after this goes unseen.
OpenFile ==
    /\ pc = "open" /\ Goes("put")
    /\ LET p == PairOf(hand.key)
       IN hand' = [hand EXCEPT !.size = local[p].size, !.rows = RowsOf(p)]
    /\ UNCHANGED <<lake, cleared, buckets, staged, job, todo, failed, begun, raced, bounds>>

\* The bucket copies to the bucket.
CopyStream(k) ==
    /\ Wanted(k) /\ k \in StreamKeys /\ Goes("put")
    /\ hand' = [key |-> k, stat |-> private[k].size, size |-> private[k].size,
                rows |-> private[k].rows]
    /\ UNCHANGED <<staged, raced>>

\* COPY to the staging directory; write_catalogue, by rename.  The marts of the
\* private bucket go as they are.
Build(k) ==
    /\ Wanted(k) /\ k \notin FileKeys \cup StreamKeys /\ Goes("put")
    /\ LET rows == IF job = "sync" THEN Mirrored(k) ELSE Built(k)
       IN /\ hand' = [key |-> k, stat |-> 0, size |-> 0, rows |-> rows]
          /\ staged' = IF job = "publish" /\ k \in DOMAIN staged
                       THEN [staged EXCEPT ![k] = Content(rows, 0)] ELSE staged
    /\ UNCHANGED raced

\* The object lands; its LastModified is after every mtime so far, that of a
\* rewrite it has missed included, renamed or not.
Lands ==
    IF job = "sync"
    THEN /\ private' = [private EXCEPT ![hand.key] = Content(hand.rows, hand.size)]
         /\ UNCHANGED <<public, newer, pending, raced>>
    ELSE /\ public' = [public EXCEPT ![hand.key] = Content(hand.rows, hand.size)]
         /\ newer' = {p \in newer : FileKey(p) # hand.key}
         /\ pending' = [p \in Files |-> IF FileKey(p) = hand.key /\ pending[p] = "fresh"
                                       THEN "passed" ELSE pending[p]]
         /\ raced' = {p \in Files : IF FileKey(p) = hand.key THEN hand.rows # RowsOf(p)
                                    ELSE p \in raced}
         /\ UNCHANGED private

\* finally: merged.unlink().
Unstaged == [k \in DOMAIN staged |-> IF k = hand.key THEN Nothing ELSE staged[k]]

Put ==
    /\ pc = "put" /\ Goes("pick") /\ Lands
    /\ failed' = (failed \/ hand.size # hand.stat)
    /\ staged' = Unstaged /\ hand' = Empty
    /\ UNCHANGED <<local, gold, cleared, job, todo, begun, bounds>>

\* The upload failed, or the head that looks after it.
PutFails ==
    /\ pc = "put" /\ Fault /\ Goes("pick")
    /\ Lands \/ UNCHANGED <<public, newer, pending, private, raced>>
    /\ failed' = TRUE
    /\ staged' = Unstaged /\ hand' = Empty
    /\ UNCHANGED <<local, gold, cleared, job, todo, begun, jobs, changes>>

\* An exception nobody catches, or a kill; what is staged may stay.
Dies ==
    /\ pc # "idle" /\ Fault /\ Ends /\ todo' = {}
    /\ staged' \in {staged, Unstaged}
    /\ UNCHANGED <<lake, cleared, buckets, job, raced, jobs, changes>>

\* The exit code of publish_public is `failed'; sync only logs it.
Finish ==
    /\ pc = "pick" /\ todo = {} /\ Ends
    /\ UNCHANGED <<lake, cleared, buckets, staged, job, todo, raced, bounds>>

Next ==
    \/ \E p \in Files : WriteTemp(p) \/ Replace(p)
    \/ \E p \in Streams : Ship(p)
    \/ BuildGold \/ ChangeRegistry \/ Start
    \/ \E k \in todo : PassOver(k) \/ StatFile(k) \/ CopyStream(k) \/ Build(k)
    \/ OpenFile \/ Put \/ PutFails \/ Dies \/ Finish

Spec == Init /\ [][Next]_vars

-----------------------------------------------------------------------------
\* A public object appears or changes only into rows that are cleared then, for
\* their group and source both: the bronze loop, mirror_private_prefix, the
\* consolidated files and the trimmed marts of publish_public, whatever a killed
\* run left in the staging directory.
OnlyCleared ==
    [][\A k \in Keys \ {Catalogue} :
         public'[k] # public[k] => \A r \in public'[k].rows : r[1] \in cleared]_vars

AsBegun(bucket, k, p) == \E r \in bucket[k].rows : r[1] = p /\ r[2] >= begun[p]

PrivateDelivered ==
    /\ \A p \in Files : begun[p] > 0 => AsBegun(private, FileKey(p), p)
    /\ \A k \in MartKeys : InGroup(gold, k.group) # {} =>
         private[k].rows = InGroup(gold, k.group)

\* Where a name is cleared in a group, it is in all.
OneName == \A p \in Files : (\E q \in cleared : q[2] = p[2]) => p \in cleared

Mentions(k) == {r[1] : r \in public[k].rows}
PublicDelivered ==
    LET there == {p \in Pairs : begun[p] > 0}
    IN /\ \A p \in (there \cap cleared) \ raced : AsBegun(public, FileKey(p), p)
       /\ \A k \in AllKeys, p \in there \cap Files \cap cleared :
            p[1] = k.group => AsBegun(public, k, p)
       /\ \A k \in MartKeys : InGroup(gold, k.group) # {} =>
            public[k].rows = Cleared(InGroup(gold, k.group))
       /\ OneName => Mentions(Catalogue) \cap there = cleared \cap there \cap Files

\* A job that reports no failure has delivered every object as it was when the
\* job began, or later (_upload, _already_current, the exit code of
\* publish_public); but for a file whose public object, in this job or an earlier
\* one, landed while a rewrite was under way: read before the rename it missed, and
\* landed after the temp's last write.  The catalogue counts the sources that were
\* published.
SuccessMeansCurrent ==
    [][Finish /\ ~failed =>
         IF job = "sync" THEN PrivateDelivered ELSE PublicDelivered]_vars
=============================================================================
