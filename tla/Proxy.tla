-------------------------------- MODULE Proxy --------------------------------
(***************************************************************************)
(* The proxy tier of qde/verify.py, as the weekly pass of                  *)
(* qde/weekly_verify.py runs it over the daily bars of a lake: a feed is   *)
(* held against the related instruments of the lake, by the correlation    *)
(* of their returns, long ago and lately.                                  *)
(*                                                                         *)
(* Time is in quarters of 90 days, two of them to the recent window.  In a *)
(* quarter a feed follows the market, moves on its own, is flat, or is     *)
(* silent.  Two feeds correlate at 90 percent over the quarters in which   *)
(* both follow the market and at 0 over the others; over several quarters  *)
(* the percentage is the mean, and it is undefined when either is flat     *)
(* throughout.                                                             *)
(***************************************************************************)
EXTENDS Integers, FiniteSets, Sequences

CONSTANTS
    NFeeds,       \* daily series of one market, by their order in the lake
    Backfilled,   \* quarters a backfill may have fetched
    MaxQuarters,  \* bound: the quarters after it
    MaxChanges    \* bound: how often a feed changes its manner

ASSUME ProxyAssumption ==
    /\ NFeeds \in Nat \ {0} /\ Backfilled \subseteq Nat \ {0}
    /\ {MaxQuarters, MaxChanges} \subseteq Nat

Quarter == 90
RelatedMin == 75        \* _PROXY_RELATED_MIN, and the other thresholds
BrokenMax == 30
MinBaselineDays == 400
RecentQuarters == 2
MaxWindowAgeDays == 14

Feeds == 1..NFeeds
Manners == {"market", "own", "flat", "silent"}

VARIABLES
    lake,      \* feed -> its manner in every quarter so far
    verdict,   \* feed -> what the weekly pass of the quarter said of it, or none
    quarters,  \* since the backfill
    changes

vars == <<lake, verdict, quarters, changes>>

Undefined == -1    \* NaN: no comparison with it is true
Now == Len(lake[1])
Rows(f) == {t \in 1..Now : lake[f][t] # "silent"}
Latest(span) == CHOOSE t \in span : \A u \in span : u <= t
Days(span) == Quarter * Cardinality(span)

Flat(f, span) == \A t \in span : lake[f][t] = "flat"
Together(f, g, t) == lake[f][t] = "market" /\ lake[g][t] = "market"
Corr(f, g, span) ==
    IF Flat(f, span) \/ Flat(g, span) THEN Undefined
    ELSE (90 * Cardinality({t \in span : Together(f, g, t)}))
         \div Cardinality(span)

\* The inner join, and its last 180 rows.
Joined(f, g) == Rows(f) \cap Rows(g)
Recent(span) ==
    {t \in span : Cardinality({u \in span : u > t}) < RecentQuarters}
Past(span) == span \ Recent(span)

\* What the candidate is judged by before it may judge.  (Mutant: the window
\* under test is part of it.)
BaselineOfAll(f, g) == Corr(f, g, Joined(f, g))
Baseline(f, g) == Corr(f, g, Past(Joined(f, g)))

Related(f, readable) ==
    {g \in readable \ {f} :
       /\ Days(Joined(f, g)) >= MinBaselineDays + RecentQuarters * Quarter
       /\ Baseline(f, g) >= RelatedMin}

Current(f, g) == Corr(f, g, Recent(Joined(f, g)))

\* The lowest correlation of the pair in any window of its past; windows in
\* which it is undefined do not count.
Floors(f, g) ==
    LET past == Past(Joined(f, g))
        Window(t) == Recent({u \in past : u <= t})
    IN {Corr(f, g, Window(t)) : t \in {u \in past : Cardinality(Window(u)) = RecentQuarters}}
       \ {Undefined}
Threshold(f, g) ==
    CHOOSE c \in Floors(f, g) \cup {BrokenMax} :
        \A d \in Floors(f, g) \cup {BrokenMax} : c <= d

Strongest(f, related) ==
    CHOOSE g \in related : \A h \in related :
        \/ Baseline(f, g) > Baseline(f, h)
        \/ Baseline(f, g) = Baseline(f, h) /\ g <= h

\* (Mutant: the strongest relation alone decides.)
HealthyWithStrongest(f, related) ==
    LET g == Strongest(f, related) IN Current(f, g) >= Threshold(f, g)
Healthy(f, related) == \E g \in related : Current(f, g) >= Threshold(f, g)

ProxyCheck(f, readable) ==
    LET related == Related(f, readable)
    IN IF \/ Days(Rows(f)) < MinBaselineDays
          \/ Quarter * (Now - Latest(Rows(f))) > MaxWindowAgeDays
          \/ related = {}
       THEN "unavailable"
       ELSE IF Healthy(f, related) THEN "clean"
       ELSE IF Current(f, Strongest(f, related)) = Undefined THEN "frozen"
       ELSE "broken"

-----------------------------------------------------------------------------
Init ==
    /\ \E n \in Backfilled :
         lake = [f \in Feeds |-> [t \in 1..n |-> "market"]]
    /\ verdict = [f \in Feeds |-> "none"]
    /\ quarters = 0 /\ changes = 0

\* The nightly updates of a quarter, of the feeds as they are now: a vendor may
\* mislabel a ticker, freeze a price, drop a symbol, repair it; or an instrument
\* leaves its market for a while.
Elapse(manner) ==
    LET changed == {f \in Feeds : manner[f] # lake[f][Now]}
    IN /\ quarters < MaxQuarters /\ quarters' = quarters + 1
       /\ changes' = changes + Cardinality(changed) /\ changes' <= MaxChanges
       /\ lake' = [f \in Feeds |-> Append(lake[f], manner[f])]
       /\ verdict' = [f \in Feeds |-> "none"]

\* run(): each series in turn; one that cannot be read is a failure of its own,
\* and no witness for the others.
Weekly(readable) ==
    /\ verdict' = [f \in Feeds |->
                     IF f \in readable THEN ProxyCheck(f, readable) ELSE "failed"]
    /\ UNCHANGED <<lake, quarters, changes>>

\* One pass stands for those of a quarter, and one file at most cannot be read.
Pass ==
    /\ \A f \in Feeds : verdict[f] = "none"
    /\ \E f \in Feeds \cup {0} : Weekly(Feeds \ {f})

Next == (\E manner \in [Feeds -> Manners] : Elapse(manner)) \/ Pass

Spec == Init /\ [][Next]_vars

-----------------------------------------------------------------------------
Loyal(f, span) == \A t \in span : lake[f][t] = "market"
Read(f) == verdict'[f] # "failed"
Judged == \A f \in Feeds : verdict'[f] # "none"    \* a step of Pass

\* The feeds that can be read and have followed the market all along.
Witnesses(f) == {g \in Feeds \ {f} : Read(g) /\ Loyal(g, 1..Now)}

\* A feed that has followed the market all along beside another that has is not
\* reported, whatever the rest of the lake does: the market moved, not the feed
\* (the comments and the test on one decoupling of verify.py, proxy_check).
RotationSpared ==
    [][Judged => \A f \in Feeds :
        Loyal(f, 1..Now) /\ Witnesses(f) # {}
        => verdict'[f] \in {"clean", "unavailable", "failed"}]_vars

\* A feed that has a witness and goes wrong for a whole recent window, the first
\* time, is reported, although its own bad days are part of its history; one that
\* has gone silent gets no verdict.  (As long as no other feed has gone silent, or
\* has left the market for a window before: proxy_check takes their word.)
FirstBreakSaid ==
    [][Judged => \A f \in Feeds :
        LET before == 1..(Now - RecentQuarters)
            lately == 1..Now \ before
        IN /\ Loyal(f, before) /\ Days(before) >= MinBaselineDays
           /\ Witnesses(f) # {} /\ Read(f)
           /\ \A g \in Feeds \ {f} : Rows(g) = 1..Now /\ Floors(f, g) \subseteq BrokenMax..90
           => /\ (\A t \in lately : lake[f][t] \in {"own", "flat"})
                 => verdict'[f] \in {"broken", "frozen"}
              /\ lake[f][Now] = "silent" => verdict'[f] = "unavailable"]_vars

\* Stated by verify.py:744 and docs/PROGRESS.md: no verdict is issued "for a
\* window the data does not cover": a clean bill rests on a feed that has data of
\* the last quarter.  The age of the candidates is not looked at.
WindowIsRecent ==
    [][Judged => \A f \in Feeds :
        verdict'[f] = "clean" =>
        \E g \in Related(f, Feeds) :
            Now \in Rows(g) /\ Current(f, g) >= Threshold(f, g)]_vars
=============================================================================
