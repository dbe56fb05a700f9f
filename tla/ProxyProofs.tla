----------------------------- MODULE ProxyProofs -----------------------------
(***************************************************************************)
(* Proofs about Proxy, for every number of feeds, length of the backfill   *)
(* and bound.                                                              *)
(*                                                                         *)
(* Both properties are about one pass over a lake that is what the last    *)
(* quarters made it, so the invariant is only that it has every feed for   *)
(* every quarter (LakeOK); the work is in the windows. Windows counts      *)
(* which quarters are recent, InStep and TwoQuarters what feeds in step    *)
(* or apart correlate there, and Spared and BreakReported put these        *)
(* beside the floor proxy_check has from the past.                         *)
(***************************************************************************)
EXTENDS Proxy, FiniteSetTheorems, TLAPS

-----------------------------------------------------------------------------
(* Windows and correlations.                                               *)

\* A full percentage.
LEMMA Whole == ASSUME NEW n \in Nat, n > 0 PROVE (90 * n) \div n = 90
<1>1. \E q, r \in Int : 90 * n = n * q + r /\ 0 <= r /\ r < n /\ q = (90 * n) \div n
  BY SMT
<1> QED
  BY <1>1, SMT

\* The recent window of quarters without a gap is the last two, its past the rest.
LEMMA Windows ==
  ASSUME NEW n \in Nat, n >= 2
  PROVE  Recent(1..n) = (n - 1)..n /\ Past(1..n) = 1..(n - 2)
<1>1. ASSUME NEW t \in 1..n
      PROVE  Cardinality({u \in 1..n : u > t}) = n - t
  <2>1. {u \in 1..n : u > t} = (t + 1)..n
    BY SMT
  <2>2. Cardinality((t + 1)..n) = IF t + 1 > n THEN 0 ELSE n - (t + 1) + 1
    BY FS_Interval, SMT
  <2>3. Cardinality((t + 1)..n) = n - t
    BY <2>2, SMT
  <2> QED
    BY <2>1, <2>3, Zenon
<1>2. Recent(1..n) = (n - 1)..n
  BY <1>1, SMT DEF Recent, RecentQuarters
<1>3. Past(1..n) = 1..(n - 2)
  BY <1>2, SMT DEF Past
<1> QED
  BY <1>2, <1>3

\* Two feeds that follow the market throughout correlate in full.
LEMMA InStep ==
  ASSUME NEW f, NEW g, NEW a \in Nat, NEW b \in Nat, a <= b,
         Loyal(f, a..b), Loyal(g, a..b)
  PROVE  Corr(f, g, a..b) = 90
<1>1. {t \in a..b : Together(f, g, t)} = a..b
  BY DEF Loyal, Together
<1>2. ~ Flat(f, a..b) /\ ~ Flat(g, a..b)
  <2>1. a \in a..b
    BY SMT
  <2> QED
    BY <2>1 DEF Loyal, Flat
<1>3. Cardinality(a..b) = b - a + 1
  BY FS_Interval, SMT
<1>4. (90 * (b - a + 1)) \div (b - a + 1) = 90
  <2>1. b - a + 1 \in Nat /\ b - a + 1 > 0
    BY SMT
  <2> QED
    BY <2>1, Whole, Zenon
<1> QED
  BY <1>1, <1>2, <1>3, <1>4 DEF Corr

\* A window of two quarters correlates not at all, by half, or in full.
LEMMA TwoQuarters ==
  ASSUME NEW f, NEW g, NEW span, IsFiniteSet(span), Cardinality(span) = RecentQuarters
  PROVE  Corr(f, g, span) \in {Undefined, 0, 45, 90}
<1> DEFINE both == {t \in span : Together(f, g, t)}
           n == Cardinality(both)
<1>1. n \in Nat /\ n <= 2
  <2>1. both \in SUBSET span
    OBVIOUS
  <2> HIDE DEF both
  <2>2. IsFiniteSet(both) /\ n <= Cardinality(span)
    BY <2>1, FS_Subset, Zenon
  <2>3. n \in Nat
    BY <2>2, FS_CardinalityType
  <2> QED
    BY <2>2, <2>3 DEF RecentQuarters
<1>2. Corr(f, g, span) = Undefined \/ Corr(f, g, span) = (90 * n) \div 2
  BY DEF Corr, RecentQuarters
<1> HIDE DEF n
<1>3. n = 0 \/ n = 1 \/ n = 2
  BY <1>1, SMT
<1>4. (90 * n) \div 2 \in {0, 45, 90}
  BY <1>3, SMT
<1> QED
  BY <1>2, <1>4

\* The threshold of a pair is never above BrokenMax, and is BrokenMax itself if
\* the pair has never been below it.
LEMMA ThresholdIs ==
  ASSUME NEW f, NEW g, IsFiniteSet(Joined(f, g))
  PROVE  /\ Threshold(f, g) \in Int /\ Threshold(f, g) <= BrokenMax
         /\ Floors(f, g) \subseteq BrokenMax..90 => Threshold(f, g) = BrokenMax
<1> DEFINE S == Floors(f, g) \cup {BrokenMax}
           Least(c) == c \in S /\ \A d \in S : c <= d
<1>1. Floors(f, g) \subseteq {0, 45, 90}
  <2> DEFINE past == Past(Joined(f, g))
             Window(t) == Recent({u \in past : u <= t})
  <2>1. ASSUME NEW t \in past, Cardinality(Window(t)) = RecentQuarters
        PROVE  Corr(f, g, Window(t)) \in {Undefined, 0, 45, 90}
    <3>1. Window(t) \in SUBSET Joined(f, g)
      BY DEF Recent, Past
    <3> HIDE DEF Window
    <3>2. IsFiniteSet(Window(t))
      BY <3>1, FS_Subset, Zenon
    <3> QED
      BY <2>1, <3>2, TwoQuarters
  <2>2. Floors(f, g) = {Corr(f, g, Window(t)) :
                          t \in {u \in past : Cardinality(Window(u)) = RecentQuarters}}
                       \ {Undefined}
    BY DEF Floors
  <2> HIDE DEF past, Window
  <2> QED
    BY <2>1, <2>2
<1> HIDE DEF S
<1>2. S \subseteq {0, 45, 90, 30} /\ 30 \in S
  BY <1>1 DEF S, BrokenMax
<1>3. \E c : Least(c)
  <2>1. CASE 0 \in S
    BY <1>2, <2>1
  <2>2. CASE 0 \notin S
    BY <1>2, <2>2
  <2> QED
    BY <2>1, <2>2
<1>4. Threshold(f, g) = CHOOSE c : Least(c)
  BY DEF Threshold, S
<1>5. Least(Threshold(f, g))
  BY <1>3, <1>4, Zenon
<1>6. Threshold(f, g) \in Int /\ Threshold(f, g) <= 30
  <2>1. Threshold(f, g) \in S /\ Threshold(f, g) <= 30
    BY <1>2, <1>5, Zenon
  <2> HIDE DEF Least
  <2>2. \A x : x \in S => x \in Int
    BY <1>2
  <2> QED
    BY <2>1, <2>2
<1>7. Floors(f, g) \subseteq 30..90 => Threshold(f, g) = 30
  <2> SUFFICES ASSUME Floors(f, g) \subseteq 30..90 PROVE Threshold(f, g) >= 30
    BY <1>6
  <2>1. \A d \in S : d >= 30
    BY DEF S, BrokenMax
  <2> QED
    BY <1>5, <2>1
<1> QED
  BY <1>6, <1>7 DEF BrokenMax

-----------------------------------------------------------------------------
(* The lake, and what a pass says of a feed.                               *)

\* Every feed has a manner for every quarter so far.
LakeOK ==
    /\ lake \in [Feeds -> Seq(Manners)]
    /\ Now \in Nat \ {0}
    /\ \A f \in Feeds : Len(lake[f]) = Now

\* The lake grows by a quarter of every feed at a time.
LEMMA LakeInductive == Spec => []LakeOK
<1>0. 1 \in Feeds
  BY ProxyAssumption DEF Feeds
<1>1. Init => LakeOK
  <2> SUFFICES ASSUME Init PROVE LakeOK
    OBVIOUS
  <2>1. PICK n \in Backfilled : lake = [f \in Feeds |-> [t \in 1..n |-> "market"]]
    BY DEF Init
  <2>2. n \in Nat \ {0}
    BY ProxyAssumption
  <2> DEFINE s == [t \in 1..n |-> "market"]
  <2>3. s \in Seq(Manners) /\ Len(s) = n
    BY <2>2 DEF Manners
  <2> HIDE DEF s
  <2>4. lake = [f \in Feeds |-> s]
    BY <2>1 DEF s
  <2> QED
    BY <1>0, <2>2, <2>3, <2>4 DEF LakeOK, Now
<1>2. LakeOK /\ [Next]_vars => LakeOK'
  <2> SUFFICES ASSUME LakeOK, [Next]_vars PROVE LakeOK'
    OBVIOUS
  <2>1. ASSUME NEW manner \in [Feeds -> Manners], Elapse(manner) PROVE LakeOK'
    <3>1. \A f \in Feeds : /\ lake'[f] = Append(lake[f], manner[f])
                           /\ lake'[f] \in Seq(Manners) /\ Len(lake'[f]) = Now + 1
      BY <2>1 DEF Elapse, LakeOK
    <3>2. lake' = [f \in Feeds |-> lake'[f]]
      BY <2>1 DEF Elapse
    <3>3. Now' = Now + 1
      BY <1>0, <3>1 DEF Now
    <3> QED
      BY <3>1, <3>2, <3>3 DEF LakeOK
  <2>2. CASE UNCHANGED lake
    BY <2>2 DEF LakeOK, Now
  <2> QED
    BY <2>1, <2>2 DEF Next, Pass, Weekly, vars
<1> QED
  BY <1>1, <1>2, PTL DEF Spec

\* A verdict on every feed is the work of a pass over the feeds it could read.
LEMMA JudgedByPass ==
  ASSUME Next, Judged
  PROVE  \E readable \in SUBSET Feeds :
           /\ verdict' = [f \in Feeds |-> IF f \in readable THEN ProxyCheck(f, readable)
                                                            ELSE "failed"]
           /\ \A f \in Feeds : Read(f) => f \in readable
<1>1. 1 \in Feeds
  BY ProxyAssumption DEF Feeds
<1>2. ~ \E manner \in [Feeds -> Manners] : Elapse(manner)
  BY <1>1 DEF Elapse, Judged
<1>3. PICK x \in Feeds \cup {0} : Weekly(Feeds \ {x})
  BY <1>2 DEF Next, Pass
<1> QED
  BY <1>3 DEF Weekly, Read

\* Quarters in which a feed follows the market are quarters it has rows of.
LEMMA LoyalRows ==
  ASSUME LakeOK, NEW f \in Feeds
  PROVE  /\ Rows(f) \subseteq 1..Now
         /\ Loyal(f, 1..Now) => Rows(f) = 1..Now
BY DEF Rows, Loyal

\* Two feeds with rows of all of at least seven quarters are related if both
\* followed the market until the recent window.
LEMMA RelatedIs ==
  ASSUME LakeOK, NEW readable, NEW f, NEW g \in readable \ {f}, Now >= 7,
         Rows(f) = 1..Now, Rows(g) = 1..Now,
         Loyal(f, 1..(Now - 2)), Loyal(g, 1..(Now - 2))
  PROVE  g \in Related(f, readable)
<1> DEFINE n == Now
<1>0. n \in Nat /\ n >= 7
  BY DEF LakeOK
<1>1. Joined(f, g) = 1..n
  BY DEF Joined
<1>2. Cardinality(1..n) = n
  <2>1. Cardinality(1..n) = IF 1 > n THEN 0 ELSE n - 1 + 1
    BY <1>0, FS_Interval
  <2> HIDE DEF n
  <2> QED
    BY <1>0, <2>1
<1>3. Past(1..n) = 1..(n - 2)
  BY <1>0, Windows
<1>4. Loyal(f, 1..(n - 2)) /\ Loyal(g, 1..(n - 2))
  OBVIOUS
<1> HIDE DEF n
<1>5. Corr(f, g, 1..(n - 2)) = 90
  <2>1. 1 \in Nat /\ n - 2 \in Nat /\ 1 <= n - 2
    BY <1>0
  <2> DEFINE b == n - 2
  <2>2. Loyal(f, 1..b) /\ Loyal(g, 1..b) /\ b \in Nat /\ 1 <= b
    BY <1>4, <2>1
  <2> HIDE DEF b
  <2>3. Corr(f, g, 1..b) = 90
    BY <2>2, InStep
  <2> QED
    BY <2>3 DEF b
<1>6. Baseline(f, g) = 90
  BY <1>1, <1>3, <1>5 DEF Baseline
<1>7. Days(Joined(f, g)) = 90 * n
  BY <1>1, <1>2 DEF Days, Quarter
<1>8. 90 * n >= 400 + 2 * 90
  BY <1>0
<1> QED
  BY <1>6, <1>7, <1>8 DEF Related, RelatedMin, MinBaselineDays, RecentQuarters, Quarter

\* Beside a witness, a feed that follows the market is not reported.
LEMMA Spared ==
  ASSUME LakeOK, NEW readable \in SUBSET Feeds, NEW f \in Feeds, NEW g \in readable \ {f},
         Loyal(f, 1..Now), Loyal(g, 1..Now)
  PROVE  ProxyCheck(f, readable) \in {"clean", "unavailable"}
<1>1. CASE Related(f, readable) = {}
  BY <1>1 DEF ProxyCheck
<1>2. CASE Related(f, readable) # {}
  <2> DEFINE n == Now
  <2>0. n \in Nat /\ n >= 1
    BY DEF LakeOK
  <2>1. PICK h \in Related(f, readable) : TRUE
    BY <1>2
  <2>2. Joined(f, h) \in SUBSET (1..n)
    BY LoyalRows DEF Joined
  <2> DEFINE j == Joined(f, h)
             c == Cardinality(j)
  <2>3. 90 * c >= 400 + 2 * 90
    BY <2>1 DEF Related, Days, Quarter, MinBaselineDays, RecentQuarters
  <2>4. IsFiniteSet(1..n) /\ Cardinality(1..n) = n
    <3>1. IsFiniteSet(1..n) /\ Cardinality(1..n) = IF 1 > n THEN 0 ELSE n - 1 + 1
      BY <2>0, FS_Interval
    <3> HIDE DEF n
    <3> QED
      BY <2>0, <3>1
  <2>5. c \in Nat /\ c <= n
    <3> HIDE DEF j, n
    <3>1. j \in SUBSET (1..n)
      BY <2>2 DEF j
    <3>2. IsFiniteSet(j) /\ c <= Cardinality(1..n)
      BY <2>4, <3>1, FS_Subset, Zenon
    <3>3. c \in Nat
      BY <3>2, FS_CardinalityType
    <3> QED
      BY <2>4, <3>2, <3>3
  <2>6. n >= 7
    <3> HIDE DEF c, n
    <3> QED
      BY <2>0, <2>3, <2>5
  <2>7. Rows(f) = 1..Now /\ Rows(g) = 1..Now
    BY LoyalRows
  <2>8. g \in Related(f, readable)
    <3>1. Loyal(f, 1..(Now - 2)) /\ Loyal(g, 1..(Now - 2))
      BY <2>0 DEF Loyal
    <3> QED
      BY <2>6, <2>7, <3>1, RelatedIs
  <2>9. Current(f, g) = 90
    <3>1. Joined(f, g) = 1..n
      BY <2>7 DEF Joined
    <3>2. Recent(1..n) = (n - 1)..n
      BY <2>0, <2>6, Windows
    <3>3. Loyal(f, (n - 1)..n) /\ Loyal(g, (n - 1)..n)
      BY <2>0, <2>6 DEF Loyal
    <3> DEFINE a == n - 1
    <3>4. Loyal(f, a..n) /\ Loyal(g, a..n) /\ a \in Nat /\ a <= n
      BY <2>0, <2>6, <3>3
    <3>5. Corr(f, g, a..n) = 90
      <4> HIDE DEF a, n
      <4> QED
        BY <2>0, <3>4, InStep
    <3> QED
      BY <3>1, <3>2, <3>5 DEF Current
  <2>10. Threshold(f, g) \in Int /\ Threshold(f, g) <= 30
    <3>1. Joined(f, g) = 1..n
      BY <2>7 DEF Joined
    <3>2. IsFiniteSet(Joined(f, g))
      BY <2>4, <3>1
    <3> QED
      BY <3>2, ThresholdIs DEF BrokenMax
  <2>11. Healthy(f, Related(f, readable))
    <3>1. Current(f, g) >= Threshold(f, g)
      BY <2>9, <2>10
    <3> QED
      BY <2>8, <3>1 DEF Healthy
  <2> QED
    BY <2>11, Zenon DEF ProxyCheck
<1> QED
  BY <1>1, <1>2

\* A feed that moves with the market beside another that does is never reported,
\* whatever the rest of the lake does (verify.py, proxy_check).
THEOREM RotationSparedAlways == Spec => RotationSpared
<1>1. LakeOK /\ [Next]_vars =>
        [Judged => \A f \in Feeds :
           Loyal(f, 1..Now) /\ Witnesses(f) # {}
           => verdict'[f] \in {"clean", "unavailable", "failed"}]_vars
  <2>s. SUFFICES ASSUME LakeOK, Next, Judged, NEW f \in Feeds,
                       Loyal(f, 1..Now), Witnesses(f) # {}
                PROVE  verdict'[f] \in {"clean", "unavailable", "failed"}
    BY Zenon
  <2>1. PICK readable \in SUBSET Feeds :
           /\ verdict' = [h \in Feeds |-> IF h \in readable THEN ProxyCheck(h, readable)
                                                            ELSE "failed"]
           /\ \A h \in Feeds : Read(h) => h \in readable
    BY <2>s, JudgedByPass
  <2>2. PICK g \in Feeds \ {f} : g \in readable /\ Loyal(g, 1..Now)
    BY <2>s, <2>1 DEF Witnesses
  <2>3. ProxyCheck(f, readable) \in {"clean", "unavailable"}
    BY <2>s, <2>1, <2>2, Spared
  <2> QED
    BY <2>1, <2>3
<1> QED
  BY <1>1, LakeInductive, PTL DEF Spec, RotationSpared

\* The first 400 days of a feed need five quarters.
LEMMA BeforeIs ==
  ASSUME LakeOK, Days(1..(Now - 2)) >= MinBaselineDays
  PROVE  Now >= 7
<1> DEFINE n == Now
           c == Cardinality(1..(n - 2))
<1>0. n \in Nat
  BY DEF LakeOK
<1>1. 90 * c >= 400
  BY DEF Days, Quarter, MinBaselineDays
<1>2. c = IF 1 > n - 2 THEN 0 ELSE n - 2 - 1 + 1
  <2> DEFINE b == n - 2
  <2>1. b \in Int
    BY <1>0
  <2> HIDE DEF b
  <2>2. Cardinality(1..b) = IF 1 > b THEN 0 ELSE b - 1 + 1
    BY <2>1, FS_Interval
  <2> QED
    BY <2>2 DEF b
<1> HIDE DEF n, c
<1>3. n >= 7
  BY <1>0, <1>1, <1>2
<1> QED
  BY <1>3 DEF n

\* The latest row of a feed that has a row this quarter, and of one that has not.
LEMMA LatestIs ==
  ASSUME LakeOK, NEW f \in Feeds, Now >= 7, 1..(Now - 2) \subseteq Rows(f)
  PROVE  /\ lake[f][Now] # "silent" => Latest(Rows(f)) = Now
         /\ lake[f][Now] = "silent" => Latest(Rows(f)) \in Nat /\ Latest(Rows(f)) < Now
<1> DEFINE n == Now
           R == Rows(f)
           Last(t) == t \in R /\ \A u \in R : u <= t
<1>0. n \in Nat /\ n >= 7 /\ R \subseteq 1..n /\ 1..(n - 2) \subseteq R
  BY LoyalRows DEF LakeOK
<1>1. Latest(R) = CHOOSE t : Last(t)
  BY DEF Latest
<1>2. n \in R <=> lake[f][Now] # "silent"
  <2>1. Now \in 1..Now
    BY <1>0
  <2> QED
    BY <2>1 DEF Rows
<1> HIDE DEF n, R
<1>3. n \in R => Latest(R) = n
  <2> SUFFICES ASSUME n \in R PROVE Latest(R) = n
    OBVIOUS
  <2>1. Last(n)
    BY <1>0
  <2>2. \A t : Last(t) => t = n
    BY <1>0
  <2> HIDE DEF Last
  <2> QED
    BY <1>1, <2>1, <2>2, Zenon
<1>4. n \notin R => Latest(R) \in Nat /\ Latest(R) < n
  <2> SUFFICES ASSUME n \notin R PROVE Latest(R) \in Nat /\ Latest(R) < n
    OBVIOUS
  <2>1. n - 1 \in R => Last(n - 1)
    BY <1>0
  <2>2. n - 1 \notin R => Last(n - 2)
    BY <1>0
  <2>3. Last(Latest(R))
    BY <1>1, <2>1, <2>2, Zenon
  <2>4. Latest(R) \in R
    BY <2>3
  <2> HIDE DEF Last
  <2>5. \A t \in R : t \in Nat /\ t < n
    <3>1. \A t \in 1..n : t = n \/ (t \in Nat /\ t < n)
      BY <1>0
    <3> QED
      BY <1>0, <3>1
  <2> QED
    BY <2>4, <2>5
<1> QED
  BY <1>2, <1>3, <1>4 DEF n, R

\* A feed silent this quarter gets no verdict.
LEMMA SilentUnjudged ==
  ASSUME LakeOK, NEW readable, NEW f \in Feeds, Now >= 7,
         Loyal(f, 1..(Now - 2)), lake[f][Now] = "silent"
  PROVE  ProxyCheck(f, readable) = "unavailable"
<1>0. Now \in Nat
  BY DEF LakeOK
<1>1. 1..(Now - 2) \subseteq Rows(f)
  BY <1>0 DEF Loyal, Rows
<1>2. Latest(Rows(f)) \in Nat /\ Latest(Rows(f)) < Now
  BY <1>1, LatestIs
<1>3. 90 * (Now - Latest(Rows(f))) > 14
  BY <1>0, <1>2
<1> QED
  BY <1>3 DEF ProxyCheck, Quarter, MaxWindowAgeDays

\* A feed that left the market for the recent window, the first time, is reported.
LEMMA BreakReported ==
  ASSUME LakeOK, NEW readable \in SUBSET Feeds, NEW f \in Feeds, NEW g \in readable \ {f},
         Now >= 7, Loyal(f, 1..(Now - 2)), Loyal(g, 1..Now),
         \A h \in Feeds \ {f} : Rows(h) = 1..Now /\ Floors(f, h) \subseteq BrokenMax..90,
         \A t \in (Now - 1)..Now : lake[f][t] \in {"own", "flat"}
  PROVE  ProxyCheck(f, readable) \in {"broken", "frozen"}
<1> DEFINE n == Now
<1>0. n \in Nat /\ n >= 7
  BY DEF LakeOK
<1>1. Rows(f) = 1..Now
  <2>1. \A t \in 1..Now : t \in 1..(Now - 2) \/ t \in (Now - 1)..Now
    BY <1>0
  <2> QED
    BY <2>1 DEF Rows, Loyal
<1>2. g \in Related(f, readable)
  <2>1. Loyal(g, 1..(Now - 2))
    BY <1>0 DEF Loyal
  <2> QED
    BY <1>1, <2>1, RelatedIs
<1>3. IsFiniteSet(1..n) /\ Cardinality(1..n) = n
  <2>1. IsFiniteSet(1..n) /\ Cardinality(1..n) = IF 1 > n THEN 0 ELSE n - 1 + 1
    BY <1>0, FS_Interval
  <2> HIDE DEF n
  <2> QED
    BY <1>0, <2>1
<1>4. Days(Rows(f)) >= MinBaselineDays
  BY <1>0, <1>1, <1>3 DEF Days, Quarter, MinBaselineDays
<1>5. Latest(Rows(f)) = Now
  <2>1. 1..(Now - 2) \subseteq Rows(f) /\ Now \in (Now - 1)..Now
    BY <1>0, <1>1
  <2> QED
    BY <2>1, LatestIs
<1>6. ASSUME NEW h \in Related(f, readable) PROVE ~ (Current(f, h) >= Threshold(f, h))
  <2>1. Joined(f, h) = 1..n
    BY <1>1 DEF Joined, Related
  <2>2. Recent(1..n) = (n - 1)..n
    BY <1>0, Windows
  <2>3. {t \in (n - 1)..n : Together(f, h, t)} = {}
    BY DEF Together
  <2>4. Current(f, h) = Undefined \/ Current(f, h) = (90 * 0) \div Cardinality((n - 1)..n)
    <3>1. Cardinality({}) = 0
      BY FS_EmptySet
    <3> QED
      BY <2>1, <2>2, <2>3, <3>1 DEF Current, Corr
  <2>5. Cardinality((n - 1)..n) = 2
    <3> DEFINE a == n - 1
    <3>1. a \in Int /\ n \in Int
      BY <1>0
    <3> HIDE DEF a
    <3>2. Cardinality(a..n) = IF a > n THEN 0 ELSE n - a + 1
      BY <3>1, FS_Interval
    <3> QED
      BY <1>0, <3>2 DEF a
  <2>6. Threshold(f, h) = 30
    <3>1. Floors(f, h) \subseteq BrokenMax..90
      BY DEF Related
    <3>2. IsFiniteSet(Joined(f, h))
      BY <1>3, <2>1
    <3> QED
      BY <3>1, <3>2, ThresholdIs DEF BrokenMax
  <2>7. Current(f, h) = -1 \/ Current(f, h) = 0
    BY <2>4, <2>5 DEF Undefined
  <2> QED
    BY <2>6, <2>7
<1>7. ~ Healthy(f, Related(f, readable))
  BY <1>6 DEF Healthy
<1>8. ~ (Quarter * (Now - Latest(Rows(f))) > MaxWindowAgeDays)
  BY <1>0, <1>5 DEF Quarter, MaxWindowAgeDays
<1>9. ~ (Days(Rows(f)) < MinBaselineDays)
  <2>1. Days(Rows(f)) = 90 * n
    BY <1>1, <1>3 DEF Days, Quarter
  <2> QED
    BY <1>0, <2>1 DEF MinBaselineDays
<1> QED
  BY <1>2, <1>7, <1>8, <1>9, Zenon DEF ProxyCheck

\* The first break of a feed that has a witness is reported, although its own bad
\* days are part of its history, and a feed gone silent is not judged (verify.py,
\* proxy_check).
THEOREM FirstBreakSaidAlways == Spec => FirstBreakSaid
<1> DEFINE Said(f) ==
      LET before == 1..(Now - RecentQuarters)
          lately == 1..Now \ before
      IN /\ Loyal(f, before) /\ Days(before) >= MinBaselineDays
         /\ Witnesses(f) # {} /\ Read(f)
         /\ \A g \in Feeds \ {f} : Rows(g) = 1..Now /\ Floors(f, g) \subseteq BrokenMax..90
         => /\ (\A t \in lately : lake[f][t] \in {"own", "flat"})
               => verdict'[f] \in {"broken", "frozen"}
            /\ lake[f][Now] = "silent" => verdict'[f] = "unavailable"
<1>1. ASSUME LakeOK, Next, Judged, NEW f \in Feeds PROVE Said(f)
  <2> DEFINE before == 1..(Now - 2)
             lately == 1..Now \ before
  <2>s. SUFFICES ASSUME Loyal(f, before), Days(before) >= MinBaselineDays,
                        Witnesses(f) # {}, Read(f),
                        \A g \in Feeds \ {f} : /\ Rows(g) = 1..Now
                                               /\ Floors(f, g) \subseteq BrokenMax..90
                 PROVE  /\ (\A t \in lately : lake[f][t] \in {"own", "flat"})
                           => verdict'[f] \in {"broken", "frozen"}
                        /\ lake[f][Now] = "silent" => verdict'[f] = "unavailable"
    BY DEF RecentQuarters
  <2>1. PICK readable \in SUBSET Feeds :
           /\ verdict' = [h \in Feeds |-> IF h \in readable THEN ProxyCheck(h, readable)
                                                            ELSE "failed"]
           /\ \A h \in Feeds : Read(h) => h \in readable
    BY <1>1, JudgedByPass
  <2>2. PICK g \in Feeds \ {f} : g \in readable /\ Loyal(g, 1..Now)
    BY <2>s, <2>1 DEF Witnesses
  <2>3. verdict'[f] = ProxyCheck(f, readable)
    BY <2>s, <2>1
  <2>4. Now >= 7 /\ Now \in Nat
    BY <1>1, <2>s, BeforeIs DEF LakeOK
  <2>5. ASSUME \A t \in lately : lake[f][t] \in {"own", "flat"}
        PROVE  ProxyCheck(f, readable) \in {"broken", "frozen"}
    <3>1. \A t \in (Now - 1)..Now : t \in lately
      BY <2>4
    <3> QED
      BY <1>1, <2>s, <2>2, <2>4, <2>5, <3>1, BreakReported
  <2>6. ASSUME lake[f][Now] = "silent" PROVE ProxyCheck(f, readable) = "unavailable"
    BY <1>1, <2>s, <2>4, <2>6, SilentUnjudged
  <2> QED
    BY <2>3, <2>5, <2>6
<1>2. LakeOK /\ [Next]_vars => [Judged => \A f \in Feeds : Said(f)]_vars
  <2> HIDE DEF Said
  <2> QED
    BY <1>1, Zenon
<1> QED
  BY <1>2, LakeInductive, PTL DEF Spec, FirstBreakSaid
=============================================================================
