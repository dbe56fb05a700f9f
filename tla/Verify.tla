------------------------------- MODULE Verify --------------------------------
(***************************************************************************)
(* The comparisons of qde/verify.py, as operators on abstract frames.      *)
(*                                                                         *)
(* What the comparisons can tell apart about a frame of one symbol is      *)
(* which thing its closes quote, and how many rows it holds:               *)
(*                                                                         *)
(*   true      the instrument, as traded                                   *)
(*   adjusted  the same, back-adjusted: a ratio that drifts one way        *)
(*   scaled    the same in other units: a constant ratio                   *)
(*   rounded   the same in other units, rounded: a ratio that jitters      *)
(*   stale     an earlier month of it: the level is near, the moves differ *)
(*   other     another instrument                                          *)
(*                                                                         *)
(* Rows are counted in thirds of the window's days: 1 is a third of them,  *)
(* 3 all of them, 72 the hourly candles of all of them.  Draft and Nightly *)
(* use these operators in their steps.                                     *)
(***************************************************************************)
EXTENDS Integers, FiniteSets

Kinds == {"true", "adjusted", "scaled", "rounded", "stale", "other"}
RowCounts == {0, 1, 3, 72}
Windows == {"tiny", "short", "long"}   \* under 6 dates, under 250, more

\* A source that raises, whatever the reason.
Down == [kind |-> "other", rows |-> -1]

Frames == [kind : Kinds, rows : RowCounts]

-----------------------------------------------------------------------------
(***************************************************************************)
(* cross_check: the same symbol from other sources.                        *)
(***************************************************************************)
LevelsAgree(a, b) == a.kind = b.kind \/ {a.kind, b.kind} = {"true", "stale"}

SameMoves(a, b) ==
    a.kind = b.kind \/ {a.kind, b.kind} \subseteq Kinds \ {"stale", "other"}

\* _return_correlation is None on too few dates, and None is not correlated.
Correlated(a, b, window) == window # "tiny" /\ SameMoves(a, b)

\* _ratio_trend of two frames that move together: None for a constant ratio.
Trend(a, b) ==
    IF "adjusted" \in {a.kind, b.kind} THEN "strong"
    ELSE IF "rounded" \in {a.kind, b.kind} THEN "weak" ELSE "none"

Excused(a, b, window) ==
    /\ Correlated(a, b, window)
    /\ \/ Trend(a, b) = "strong"
       \/ Trend(a, b) # "none" /\ window = "short"

Short(ours, theirs) == theirs.rows > 0 /\ 10 * ours.rows < 7 * theirs.rows

\* What the comparison with one peer's reply says.  (Mutant: a peer that agrees
\* on the level is not asked about the movement.)
OpinionOnLevel(ours, reply, window) ==
    IF reply.rows <= 0 THEN "silent"
    ELSE IF Short(ours, reply) THEN "short"
    ELSE IF LevelsAgree(ours, reply) THEN "agrees" ELSE "conflict"

Opinion(ours, reply, window) ==
    IF reply.rows <= 0 THEN "silent"
    ELSE IF Short(ours, reply) THEN "short"
    ELSE IF ~LevelsAgree(ours, reply)
    THEN IF Excused(ours, reply, window) THEN "convention" ELSE "conflict"
    ELSE IF window # "tiny" /\ ~SameMoves(ours, reply) THEN "stale"
    ELSE "agrees"

Says(severity, why, peers) == [severity |-> severity, why |-> why, by |-> peers]

\* Mutant of Adjudicate: a conflict convicts without a third opinion.
ConvictAtOnce(ours, accuser, again) ==
    Says("error", "unadjudicated", {accuser})

\* _adjudicate: the first other peer that answers, asked now, decides.
Adjudicate(ours, accuser, again) ==
    LET answering == {p \in DOMAIN again \ {accuser} : again[p].rows > 0}
        third == CHOOSE p \in answering : \A q \in answering : p <= q
    IN IF answering = {} THEN Says("error", "unadjudicated", {accuser})
       ELSE IF LevelsAgree(ours, again[third])
       THEN Says("warn", "peer is the outlier", {accuser, third})
       ELSE Says("error", "two agree against it", {accuser, third})

\* The peers are asked in order until one is decisive: replies is what each
\* says when the loop comes to it, again what it says to _adjudicate.
CrossCheck(ours, replies, again, window) ==
    LET opinion == [p \in DOMAIN replies |-> Opinion(ours, replies[p], window)]
        decisive == {p \in DOMAIN replies : opinion[p] \notin {"silent", "short"}}
        first == CHOOSE p \in decisive : \A q \in decisive : p <= q
        shorts == {p \in DOMAIN replies :
                     opinion[p] = "short" /\ (decisive = {} \/ p < first)}
    IN IF decisive # {}
       THEN CASE opinion[first] = "convention" -> Says("warn", "convention", {first})
              [] opinion[first] = "stale"      -> Says("error", "stale", {first})
              [] opinion[first] = "conflict"   -> Adjudicate(ours, first, again)
              [] opinion[first] = "agrees" /\ shorts = {} ->
                   Says("clean", "agrees", {first})
              [] OTHER -> Says("warn", "coverage disputed", {first} \cup shorts)
       ELSE IF Cardinality(shorts) > 1 THEN Says("error", "drops data", shorts)
       ELSE IF shorts # {} THEN Says("warn", "coverage disputed", shorts)
       ELSE Says("warn", "unverifiable", {})

-----------------------------------------------------------------------------
(***************************************************************************)
(* verify_frame: one frame against the contract of its group.              *)
(***************************************************************************)
Rule(defect, severity, groups) ==
    [defect |-> defect, severity |-> severity, groups |-> groups]

Dated == {"bars", "series"}
Groups == Dated \cup {"events"}

\* _structural: whether it is a frame of the group at all.
Structural ==
    {Rule("empty", "error", Groups), Rule("columns", "error", Groups),
     Rule("no dates", "error", Dated), Rule("naive", "error", Dated),
     Rule("repeats", "error", Dated), Rule("unsorted", "warn", Dated)}

\* _timestamps: the last two need the window or interval that was asked for.
Timestamps ==
    {Rule("future", "error", Dated), Rule("outside", "error", Dated),
     Rule("spacing", "error", Dated)}

\* _parseable, _contract, _plausibility.
Values ==
    {Rule("unparseable", "error", Dated), Rule("nulls", "error", {"bars"}),
     Rule("all null", "warn", {"series"})}
Contract ==
    {Rule("incoherent", "error", {"bars"}), Rule("negative volume", "error", {"bars"}),
     Rule("backwards", "error", {"events"}), Rule("repeated key", "error", {"events"}),
     Rule("revision hole", "error", {"events"})}
Plausibility ==
    {Rule("jump", "warn", {"bars"}), Rule("constant", "warn", {"bars"})}

Applies(rules, defects, group) ==
    {r \in rules : r.defect \in defects /\ group \in r.groups}

\* Any structural finding, a warning included, ends the check.
VerifyFrame(defects, group) ==
    IF Applies(Structural, defects, group) # {}
    THEN Applies(Structural, defects, group)
    ELSE Applies(Timestamps \cup Values \cup Contract \cup Plausibility,
                 defects, group)

Errors(findings) == {f \in findings : f.severity = "error"}

=============================================================================
