----------------------------- MODULE DraftProofs -----------------------------
(***************************************************************************)
(* What the drafting loop accepts and leaves behind, for any drafts,       *)
(* requests, peers and number of attempts and faults, from                 *)
(* DraftAssumption.                                                        *)
(*                                                                         *)
(* A verdict on a draft is spread over stages that were run at different   *)
(* moments, and the loop looks at the report only after the containers are *)
(* taken down.  The invariant carries the one fact that counts from the    *)
(* run to the judgement: a complete report belongs to a right frame        *)
(* (ReportInv).  That a run makes it true is CleanIsRight: a peer that     *)
(* holds the instrument agrees with no other frame, on a window that has   *)
(* more than a few dates; and a report on a smaller window is not          *)
(* complete.  WholeInv carries in the same way what completeness saw       *)
(* (RunIsWhole: the best answer is a number, so there is one to compare    *)
(* with), and AcquittalInv what cross_check said of one bad peer           *)
(* (OneBadAcquits: a good one is decisive first, or is asked by            *)
(* _adjudicate).                                                           *)
(***************************************************************************)
EXTENDS Draft, WellFoundedInduction, TLAPS

RightPeers == \A p \in Peers : peers[p].kind = "true" /\ peers[p].rows = 3

\* A complete report of bars, held against right peers, is on a right frame.
ReportInv ==
    pc \in {"remove proxy", "remove network", "judge"}
    /\ RightPeers /\ request.group = "bars" /\ Complete(report)
    => draft.frame.kind = "true"

\* A complete report of bars is on a whole frame, or no peer that answered
\* completeness had all days.
Whole(d) == ~(d.frame.rows < 3 \/ "drops" \in d.flaws)
WholeInv ==
    pc \in {"remove proxy", "remove network", "judge"}
    /\ request.group = "bars" /\ Complete(report)
    => Whole(draft) \/ evidence.reference < 3

\* One peer that is wrong, in a way that is not convincing, among others that
\* hold what the draft fetched.
OneBad(bad, ours) ==
    /\ NPeers > 1 /\ peers[bad].kind # "stale"
    /\ ours = [kind |-> "true", rows |-> 3]
    /\ \A p \in Peers \ {bad} : peers[p] = ours

\* OneBadPeerConvictsNobody from the run to the judgement; before the run the
\* report has the screen only.
AcquittalInv ==
    /\ pc \in {"docker", "network", "proxy", "run"} => DOMAIN report = {"screen"}
    /\ \A bad \in Peers :
         /\ pc \in {"remove proxy", "remove network", "judge"} /\ faults = 0
         /\ "cross_source" \in DOMAIN report
         /\ request.window # "tiny" /\ OutOfReach("cross_source") = {}
         /\ OneBad(bad, draft.frame)
         => report["cross_source"] # "fail"

\* Where the proxy of an attempt may be.
ProxyInv ==
    /\ pc \in {"network", "proxy"} => Proxied
    /\ pc \notin {"run", "remove proxy"} => "proxy" \notin left
    /\ pc = "run" /\ ~Proxied => "proxy" \notin left

-----------------------------------------------------------------------------
(* The comparison with the peers.                                          *)

\* A set of peers that is not empty has a first one.
LEMMA FirstPeer ==
  ASSUME NEW S \in SUBSET Nat, S # {}
  PROVE  \E p \in S : \A q \in S : p <= q
<1> DEFINE R == {q \in Nat \X Nat : q[1] < q[2]}
<1>1. IsWellFoundedOn(R, Nat)
  BY NatLessThanWellFounded, Zenon DEF OpToRel
<1> HIDE DEF R
<1>2. PICK p \in S : \A q \in S : ~(<<q, p>> \in R)
  BY <1>1, WFMin
<1>3. \A q \in S : ~(q < p)
  BY <1>2 DEF R
<1> QED
  BY <1>3

\* A right peer agrees with a right frame only (cross_check).
LEMMA AgreesIsRight ==
  ASSUME NEW ours, NEW reply, NEW window,
         reply = Down \/ (reply.kind = "true" /\ reply.rows = 3),
         window # "tiny", Opinion(ours, reply, window) = "agrees"
  PROVE  ours.kind = "true"
<1>1. reply # Down
  BY DEF Opinion, Down
<1>2. reply.kind = "true"
  BY <1>1
<1>3. LevelsAgree(ours, reply) /\ SameMoves(ours, reply)
  BY DEF Opinion
<1>4. CASE {ours.kind, reply.kind} = {"true", "stale"}
  <2>1. ours.kind = "stale"
    BY <1>2, <1>4
  <2> QED
    BY <1>2, <1>3, <2>1 DEF SameMoves, Kinds
<1> QED
  BY <1>2, <1>3, <1>4 DEF LevelsAgree

\* When all that answer are right, a clean verdict means a right frame.
LEMMA CleanIsRight ==
  ASSUME NEW ours, NEW replies, NEW again, NEW window,
         DOMAIN replies \subseteq Nat,
         \A p \in DOMAIN replies :
            replies[p] = Down \/ (replies[p].kind = "true" /\ replies[p].rows = 3),
         window # "tiny",
         CrossCheck(ours, replies, again, window).severity \notin {"error", "warn"}
  PROVE  ours.kind = "true"
<1> DEFINE opinion == [p \in DOMAIN replies |-> Opinion(ours, replies[p], window)]
           decisive == {p \in DOMAIN replies : opinion[p] \notin {"silent", "short"}}
           first == CHOOSE p \in decisive : \A q \in decisive : p <= q
           shorts == {p \in DOMAIN replies :
                        opinion[p] = "short" /\ (decisive = {} \/ p < first)}
           more == Cardinality(shorts) > 1
<1>1. CrossCheck(ours, replies, again, window) =
        IF decisive # {}
        THEN CASE opinion[first] = "convention" -> Says("warn", "convention", {first})
               [] opinion[first] = "stale"      -> Says("error", "stale", {first})
               [] opinion[first] = "conflict"   -> Adjudicate(ours, first, again)
               [] opinion[first] = "agrees" /\ shorts = {} ->
                    Says("clean", "agrees", {first})
               [] OTHER -> Says("warn", "coverage disputed", {first} \cup shorts)
        ELSE IF more THEN Says("error", "drops data", shorts)
        ELSE IF shorts # {} THEN Says("warn", "coverage disputed", shorts)
        ELSE Says("warn", "unverifiable", {})
  BY Zenon DEF CrossCheck
<1>2. \A s, w, b : Says(s, w, b).severity = s
  BY DEF Says
<1>3. Adjudicate(ours, first, again).severity \in {"error", "warn"}
  <2> DEFINE A == Adjudicate(ours, first, again)
  <2>1. \E s \in {"error", "warn"} : \E w, b : A = Says(s, w, b)
    BY Zenon DEF Adjudicate
  <2> QED
    BY <1>2, <2>1
<1>4. decisive \subseteq Nat
  OBVIOUS
<1> HIDE DEF opinion, decisive, shorts, more, first
<1>5. decisive # {}
  <2>1. SUFFICES ASSUME decisive = {} PROVE FALSE
    OBVIOUS
  <2> DEFINE C == CrossCheck(ours, replies, again, window)
  <2>2. \E s \in {"error", "warn"} : \E w, b : C = Says(s, w, b)
    BY <1>1, <2>1
  <2>3. C.severity \in {"error", "warn"}
    BY <1>2, <2>2
  <2> QED
    BY <2>3, Zenon
<1>6. first \in decisive
  BY <1>4, <1>5, FirstPeer DEF first
<1>7. opinion[first] = "agrees"
  <2>1. SUFFICES ASSUME opinion[first] # "agrees" PROVE FALSE
    OBVIOUS
  <2> DEFINE C == CrossCheck(ours, replies, again, window)
  <2>2. C = Adjudicate(ours, first, again)
        \/ \E s \in {"error", "warn"} : \E w, b : C = Says(s, w, b)
    BY <1>1, <1>5, <2>1
  <2>3. C.severity \in {"error", "warn"}
    BY <1>2, <1>3, <2>2
  <2> QED
    BY <2>3, Zenon
<1>8. first \in DOMAIN replies /\ Opinion(ours, replies[first], window) = "agrees"
  BY <1>6, <1>7 DEF decisive, opinion
<1> QED
  BY <1>8, AgreesIsRight

\* What the peers answer when it is their turn.
LEMMA RepliesAreRight ==
  ASSUME RightPeers, NEW trouble, NEW poll
  PROVE  /\ DOMAIN Replies(trouble, poll) = Peers
         /\ \A p \in Peers : LET r == Replies(trouble, poll)[p] IN
              r = Down \/ (r.kind = "true" /\ r.rows = 3)
<1> DEFINE silent == OutOfReach(IF poll = "completeness" THEN poll ELSE "cross_source")
                     \cup IF poll \in trouble.at THEN trouble.silent ELSE {}
<1>1. Replies(trouble, poll) = [p \in Peers |-> IF p \in silent THEN Down ELSE peers[p]]
  BY Zenon DEF Replies
<1> HIDE DEF silent
<1> QED
  BY <1>1 DEF RightPeers

-----------------------------------------------------------------------------
(* The reports.                                                            *)

\* Every stage of a run says ok, fail or skip.
LEMMA StagesTyped ==
  ASSUME NEW flake, NEW reference, NEW verdict,
         NEW stages, stages = StagesRun(flake, reference, verdict)
  PROVE  /\ DOMAIN stages \subseteq Stages
         /\ \A s \in DOMAIN stages : stages[s] \in {"ok", "fail", "skip"}
<1> DEFINE Says3 == {"ok", "fail", "skip"}
<1>1. \A failed, skipped : Verdict(failed, skipped) \in Says3
  BY DEF Verdict
<1>2. Completeness(reference) \in Says3
  BY <1>1 DEF Completeness, SeriesCompleteness
<1>3. Pagination \in Says3
  BY <1>1 DEF Pagination
<1>4. CrossSource(verdict) \in Says3
  BY <1>1 DEF CrossSource
<1>5. CASE Misfit
  BY <1>5 DEF StagesRun, Only, Stages
<1>6. CASE ~Misfit /\ ("raises" \in draft.flaws \/ flake = "fetch")
  BY <1>6 DEF StagesRun, Only, And, Stages
<1>7. CASE ~(Misfit \/ "raises" \in draft.flaws \/ flake = "fetch")
  <2> DEFINE fr == Verdict(Errors(VerifyFrame(draft.flaws, request.group)) # {}, FALSE)
             de == Verdict("unstable" \in draft.flaws \/ flake = "determinism", FALSE)
             ra == Verdict("unbounded" \in draft.flaws \/ flake = "range",
                           request.window = "tiny")
             co == Completeness(reference)
             cr == CrossSource(verdict)
  <2>1. fr \in Says3 /\ de \in Says3 /\ ra \in Says3 /\ co \in Says3 /\ cr \in Says3
    BY <1>1, <1>2, <1>4
  <2>2. stages = [contract |-> "ok", fetch |-> "ok", frame |-> fr, determinism |-> de,
                  range |-> ra, pagination |-> Pagination, completeness |-> co,
                  cross_source |-> cr]
    BY <1>7 DEF StagesRun
  <2> HIDE DEF fr, de, ra, co, cr
  <2> QED
    BY <2>1, <2>2, <1>3 DEF Stages
<1> QED
  BY <1>5, <1>6, <1>7

\* A run that leaves a complete report has been through cross_source.
LEMMA CompleteRun ==
  ASSUME NEW flake, NEW reference, NEW verdict,
         NEW stages, stages = StagesRun(flake, reference, verdict),
         \A s \in DOMAIN stages : stages[s] = "ok", request.group = "bars"
  PROVE  /\ request.window # "tiny" /\ Completeness(reference) = "ok"
         /\ verdict.severity \notin {"error", "warn"}
<1>1. ~Misfit
  BY DEF StagesRun, Only
<1>2. ~("raises" \in draft.flaws \/ flake = "fetch")
  BY <1>1 DEF StagesRun, Only, And
<1>3. /\ "completeness" \in DOMAIN stages /\ "cross_source" \in DOMAIN stages
      /\ stages["completeness"] = Completeness(reference)
      /\ stages["cross_source"] = CrossSource(verdict)
  BY <1>1, <1>2 DEF StagesRun
<1>4. Completeness(reference) = "ok" /\ CrossSource(verdict) = "ok"
  BY <1>3
<1> QED
  BY <1>4 DEF Completeness, CrossSource, Verdict

\* A run with right peers completes the report of a right frame only.
LEMMA RunIsRight ==
  ASSUME NEW trouble, RunWith(trouble), DraftAssumption,
         RightPeers, request.group = "bars", Complete(report')
  PROVE  draft.frame.kind = "true"
<1> DEFINE first == Replies(trouble, "cross_source")
           again == Replies(trouble, "adjudicate")
           verdict == CrossCheck(draft.frame, first, again, request.window)
           reference == Best(Replies(trouble, "completeness"))
           stages == StagesRun(trouble.pull, reference, verdict)
<1>1. \A s \in DOMAIN stages : s \in DOMAIN report' /\ report'[s] = stages[s]
  BY Zenon DEF RunWith
<1>2. \A s \in DOMAIN stages : stages[s] = "ok"
  <2>1. \A s \in DOMAIN stages : stages[s] \in {"ok", "fail", "skip"}
    BY StagesTyped
  <2> HIDE DEF stages
  <2> QED
    BY <1>1, <2>1 DEF Complete, Passed
<1>3. request.window # "tiny" /\ verdict.severity \notin {"error", "warn"}
  <2> HIDE DEF verdict, reference
  <2> QED
    BY <1>2, CompleteRun
<1>4. /\ DOMAIN first \subseteq Nat
      /\ \A p \in DOMAIN first :
           first[p] = Down \/ (first[p].kind = "true" /\ first[p].rows = 3)
  BY RepliesAreRight DEF Peers
<1> HIDE DEF first, again
<1> QED
  BY <1>3, <1>4, CleanIsRight
\* The best count of dates is one of the window, or none, whoever answers.
LEMMA BestIsNumber ==
  ASSUME NEW replies, \A p \in Peers : replies[p] \in Frames \cup {Down}
  PROVE  Best(replies) \in -1..3
<1> DEFINE counts == {-1} \cup {Dates(replies[p]) : p \in Peers}
           ranks == {3 - d : d \in counts}
<1>1. \A p \in Peers : Dates(replies[p]) \in -1..3
  BY DEF Dates, Frames, RowCounts, Down
<1>2. counts \subseteq -1..3 /\ counts # {}
  BY <1>1
<1>3. Best(replies) = CHOOSE d \in counts : \A e \in counts : e <= d
  BY Zenon DEF Best
<1> HIDE DEF counts
<1>4. ranks \in SUBSET Nat /\ ranks # {}
  <2>1. \A d \in counts : 3 - d \in Nat
    BY <1>2
  <2>2. ranks # {}
    BY <1>2
  <2> QED
    BY <2>1, <2>2
<1>5. PICK r \in ranks : \A q \in ranks : r <= q
  BY <1>4, FirstPeer
<1>6. PICK d \in counts : r = 3 - d
  BY <1>5
<1>7. \A e \in counts : e <= d
  <2> TAKE e \in counts
  <2>1. r <= 3 - e
    BY <1>5
  <2>2. d \in -1..3 /\ e \in -1..3
    BY <1>2, <1>6
  <2> HIDE DEF ranks
  <2> QED
    BY <1>6, <2>1, <2>2
<1>8. Best(replies) \in counts
  BY <1>3, <1>6, <1>7
<1> QED
  BY <1>2, <1>8

\* A run completes the report of a frame with days missing only if no peer that
\* answered completeness had them.
LEMMA RunIsWhole ==
  ASSUME NEW trouble, RunWith(trouble), TypeOK, DraftAssumption,
         request.group = "bars", Complete(report')
  PROVE  Whole(draft) \/ evidence'.reference < 3
<1> DEFINE replies == Replies(trouble, "completeness")
           verdict == CrossCheck(draft.frame, Replies(trouble, "cross_source"),
                                 Replies(trouble, "adjudicate"), request.window)
           reference == Best(replies)
           stages == StagesRun(trouble.pull, reference, verdict)
<1>1. \A s \in DOMAIN stages : s \in DOMAIN report' /\ report'[s] = stages[s]
  BY Zenon DEF RunWith
<1>7. evidence'.reference = reference
  <2>1. evidence' = [reference |-> reference, verdict |-> verdict]
    BY Zenon DEF RunWith
  <2> HIDE DEF reference, verdict
  <2> QED
    BY <2>1
<1>2. \A s \in DOMAIN stages : stages[s] = "ok"
  <2>1. \A s \in DOMAIN stages : stages[s] \in {"ok", "fail", "skip"}
    BY StagesTyped
  <2> HIDE DEF stages
  <2> QED
    BY <1>1, <2>1 DEF Complete, Passed
<1>3. reference \in -1..3
  <2>1. \A p \in Peers : replies[p] \in Frames \cup {Down}
    BY Zenon, DraftAssumption DEF Replies, TypeOK
  <2> HIDE DEF replies
  <2> QED
    BY <2>1, BestIsNumber
<1>4. Completeness(reference) = "ok"
  <2> HIDE DEF verdict, reference
  <2> QED
    BY <1>2, CompleteRun
<1>5. draft.frame.rows \in Int
  <2>1. draft \in Drafts \/ draft = None
    BY Zenon DEF TypeOK
  <2>2. draft \in Drafts => draft.frame \in Frames
    BY DraftAssumption
  <2> QED
    BY <2>1, <2>2 DEF None, Down, Frames, RowCounts
<1> HIDE DEF reference
<1>6. /\ ~(draft.frame.rows < reference)
      /\ ~(reference = 3 /\ "drops" \in draft.flaws)
  BY <1>4 DEF Completeness, Verdict
<1> QED
  BY <1>3, <1>5, <1>6, <1>7 DEF Whole

\* What cross_check says of a whole, right frame when one source is wrong and
\* the others hold what the frame holds.
LEMMA OneBadAcquits ==
  ASSUME NEW ours, NEW window, NEW bad \in Peers, OneBad(bad, ours),
         DraftAssumption, TypeOK, window # "tiny"
  PROVE  CrossCheck(ours, peers, peers, window).severity # "error"
<1> DEFINE opinion == [p \in DOMAIN peers |-> Opinion(ours, peers[p], window)]
           decisive == {p \in DOMAIN peers : opinion[p] \notin {"silent", "short"}}
           first == CHOOSE p \in decisive : \A q \in decisive : p <= q
           shorts == {p \in DOMAIN peers :
                        opinion[p] = "short" /\ (decisive = {} \/ p < first)}
           more == Cardinality(shorts) > 1
<1>1. CrossCheck(ours, peers, peers, window) =
        IF decisive # {}
        THEN CASE opinion[first] = "convention" -> Says("warn", "convention", {first})
               [] opinion[first] = "stale"      -> Says("error", "stale", {first})
               [] opinion[first] = "conflict"   -> Adjudicate(ours, first, peers)
               [] opinion[first] = "agrees" /\ shorts = {} ->
                    Says("clean", "agrees", {first})
               [] OTHER -> Says("warn", "coverage disputed", {first} \cup shorts)
        ELSE IF more THEN Says("error", "drops data", shorts)
        ELSE IF shorts # {} THEN Says("warn", "coverage disputed", shorts)
        ELSE Says("warn", "unverifiable", {})
  BY Zenon DEF CrossCheck
<1>2. \A s, w, b : Says(s, w, b).severity = s
  BY DEF Says
<1>3. /\ DOMAIN peers = Peers /\ peers \in [Peers -> Frames]
      /\ NPeers \in Nat /\ Peers \subseteq Nat /\ Peers = 1..NPeers
  <2>1. PeerFrames \subseteq Frames /\ NPeers \in Nat /\ peers \in [Peers -> PeerFrames]
    BY DraftAssumption, Zenon DEF TypeOK
  <2> QED
    BY <2>1 DEF Peers
<1>4. /\ \A p \in Peers \ {bad} : peers[p] = ours
      /\ NPeers > 1 /\ peers[bad].kind # "stale"
      /\ ours.kind = "true" /\ ours.rows = 3
  BY DEF OneBad
\* A good peer agrees, the bad one does not say that the frame is stale.
<1>5. \A p \in Peers \ {bad} : Opinion(ours, peers[p], window) = "agrees"
  BY <1>4 DEF Opinion, Short, LevelsAgree, SameMoves
<1>6. Opinion(ours, peers[bad], window) # "stale"
  <2>1. CASE peers[bad].kind = "true"
    BY <1>4, <2>1 DEF Opinion, SameMoves
  <2>2. CASE peers[bad].kind # "true"
    <3>1. {ours.kind, peers[bad].kind} # {"true", "stale"}
      BY <1>4
    <3>2. ~LevelsAgree(ours, peers[bad])
      BY <1>4, <2>2, <3>1 DEF LevelsAgree
    <3> QED
      BY <3>2 DEF Opinion
  <2> QED
    BY <2>1, <2>2
<1>7. PICK good \in Peers : good # bad
  BY <1>3, <1>4
<1>8. /\ good \in decisive /\ opinion[bad] # "stale"
      /\ \A p \in Peers \ {bad} : opinion[p] = "agrees"
      /\ decisive \subseteq Nat /\ decisive \subseteq Peers
  BY <1>3, <1>5, <1>6, <1>7
<1> HIDE DEF opinion, decisive, shorts, more, first
<1>9. first \in decisive
  BY <1>8, FirstPeer DEF first
\* Whoever is asked about the bad one's conflict has what the frame has.
<1>10. opinion[first] = "conflict" =>
         \E w, b : Adjudicate(ours, first, peers) = Says("warn", w, b)
  <2>1. SUFFICES ASSUME opinion[first] = "conflict"
                 PROVE  \E w, b : Adjudicate(ours, first, peers) = Says("warn", w, b)
    OBVIOUS
  <2>2. first = bad
    BY <1>8, <1>9, <2>1
  <2> DEFINE answering == {p \in DOMAIN peers \ {first} : peers[p].rows > 0}
             third == CHOOSE p \in answering : \A q \in answering : p <= q
  <2>3. good \in answering /\ answering \subseteq Nat /\ answering \subseteq Peers \ {bad}
    BY <1>3, <1>4, <1>7, <2>2
  <2>4. Adjudicate(ours, first, peers) =
          IF answering = {} THEN Says("error", "unadjudicated", {first})
          ELSE IF LevelsAgree(ours, peers[third])
          THEN Says("warn", "peer is the outlier", {first, third})
          ELSE Says("error", "two agree against it", {first, third})
    BY Zenon DEF Adjudicate
  <2> HIDE DEF answering
  <2>5. third \in answering
    BY <2>3, FirstPeer
  <2>6. LevelsAgree(ours, peers[third])
    BY <1>4, <2>3, <2>5 DEF LevelsAgree
  <2> QED
    BY <2>3, <2>4, <2>6, Zenon
<1>11. decisive # {} /\ opinion[first] # "stale"
  BY <1>8, <1>9
<1>12. \E s \in {"warn", "clean"} : \E w, b :
          CrossCheck(ours, peers, peers, window) = Says(s, w, b)
  BY <1>1, <1>10, <1>11
<1> DEFINE C == CrossCheck(ours, peers, peers, window)
<1>13. C.severity \in {"warn", "clean"}
  BY <1>2, <1>12
<1> QED
  BY <1>13, Zenon

\* A calm run does not fail cross_source because of one bad peer.
LEMMA RunAcquits ==
  ASSUME RunWith(Calm), NEW bad \in Peers, OneBad(bad, draft.frame),
         DraftAssumption, TypeOK, DOMAIN report = {"screen"},
         request.window # "tiny", OutOfReach("cross_source") = {},
         "cross_source" \in DOMAIN report'
  PROVE  report'["cross_source"] # "fail"
<1> DEFINE replies == Replies(Calm, "cross_source")
           again == Replies(Calm, "adjudicate")
           verdict == CrossCheck(draft.frame, replies, again, request.window)
           reference == Best(Replies(Calm, "completeness"))
           stages == StagesRun(Calm.pull, reference, verdict)
           extra == IF request.container THEN {"egress"} ELSE {}
<1>1. report' = [s \in DOMAIN report \cup DOMAIN stages \cup extra |->
                   IF s \in DOMAIN stages THEN stages[s]
                   ELSE IF s = "egress" THEN Egress(stages, Calm.log)
                   ELSE report[s]]
  BY Zenon DEF RunWith
<1>2. replies = peers /\ again = peers
  <2>1. Calm.at = {} /\ peers = [p \in Peers |-> peers[p]]
    BY DEF Calm, TypeOK
  <2>2. \A poll \in {"cross_source", "adjudicate"} :
          Replies(Calm, poll) = [p \in Peers |-> peers[p]]
    BY <2>1 DEF Replies
  <2> QED
    BY <2>1, <2>2
<1> HIDE DEF replies, again
<1>3. verdict.severity # "error"
  BY <1>2, OneBadAcquits
<1> HIDE DEF verdict, reference
<1>4. CrossSource(verdict) # "fail"
  BY <1>3 DEF CrossSource, Verdict
<1>5. "cross_source" \in DOMAIN stages => stages["cross_source"] = CrossSource(verdict)
  BY DEF StagesRun, Only, And
<1>6. extra \subseteq {"egress"}
  OBVIOUS
<1> HIDE DEF stages, extra
<1>7. "cross_source" \in DOMAIN stages
  BY <1>1, <1>6
<1> QED
  BY <1>1, <1>4, <1>5, <1>7

-----------------------------------------------------------------------------
(* The steps.                                                              *)

\* TypeOK in two parts.
ReportTyped ==
    /\ DOMAIN report \subseteq Stages
    /\ \A s \in DOMAIN report : report[s] \in {"ok", "fail", "skip"}
OthersTyped ==
    /\ request \in Requests /\ peers \in [Peers -> PeerFrames]
    /\ pc \in {"generate", "screen", "docker", "network", "proxy", "run",
               "remove proxy", "remove network", "judge", "done", "crashed"}
    /\ n \in 1..MaxAttempts
    /\ {draft, accepted} \subseteq Drafts \cup {None}
    /\ left \subseteq {"network", "proxy", "candidate", "orphan"}
    /\ faults \in 0..MaxFaults

\* What a step of the stages does to the report.
LEMMA RunTyped ==
  ASSUME TypeOK, NEW trouble, RunWith(trouble)
  PROVE  /\ DOMAIN report' \subseteq Stages
         /\ \A s \in DOMAIN report' : report'[s] \in {"ok", "fail", "skip"}
         /\ pc' \in {"remove proxy", "judge"}
<1> DEFINE verdict == CrossCheck(draft.frame, Replies(trouble, "cross_source"),
                                 Replies(trouble, "adjudicate"), request.window)
           reference == Best(Replies(trouble, "completeness"))
           stages == StagesRun(trouble.pull, reference, verdict)
           extra == IF request.container THEN {"egress"} ELSE {}
<1>1. report' = [s \in DOMAIN report \cup DOMAIN stages \cup extra |->
                   IF s \in DOMAIN stages THEN stages[s]
                   ELSE IF s = "egress" THEN Egress(stages, trouble.log)
                   ELSE report[s]]
  BY Zenon DEF RunWith
<1>2. /\ DOMAIN stages \subseteq Stages
      /\ \A s \in DOMAIN stages : stages[s] \in {"ok", "fail", "skip"}
  <2> HIDE DEF verdict, reference
  <2> QED
    BY StagesTyped
<1>3. Egress(stages, trouble.log) \in {"ok", "fail", "skip"}
  BY DEF Egress, Verdict
<1>4. extra \subseteq Stages /\ (extra = {"egress"} \/ extra = {})
  BY DEF Stages
<1>5. pc' \in {"remove proxy", "judge"}
  BY Zenon DEF RunWith, AfterRun, Goes
<1> HIDE DEF stages, extra
<1> QED
  BY <1>1, <1>2, <1>3, <1>4, <1>5 DEF TypeOK

\* Every step keeps the report typed.
LEMMA ReportTypeStep == TypeOK /\ [Next]_vars => ReportTyped'
<1> SUFFICES ASSUME TypeOK, [Next]_vars PROVE ReportTyped'
  OBVIOUS
<1>0. /\ ReportTyped
      /\ \A s, v : s \in {"screen", "sandbox", "egress"} /\ v \in {"ok", "fail"}
                   /\ (report' = Only(s, v) \/ report' = And(report, s, v))
                   => ReportTyped'
      /\ report' = NoReport => ReportTyped'
      /\ UNCHANGED report => ReportTyped'
  BY DEF TypeOK, ReportTyped, Only, And, NoReport, Stages
<1> USE <1>0
<1>1. CASE UNCHANGED vars
  BY <1>1 DEF vars
<1>2. CASE Generate
  BY <1>2 DEF Generate
<1>3. CASE GenerateFails
  BY <1>3 DEF GenerateFails
<1>4. CASE Screen
  BY <1>4 DEF Screen, Refused
<1>5. CASE FindDocker
  BY <1>5 DEF FindDocker
<1>6. CASE DockerMissing
  BY <1>6 DEF DockerMissing, Refused
<1>7. CASE CreateNetwork
  BY <1>7 DEF CreateNetwork
<1>8. CASE CreateNetworkFails
  BY <1>8 DEF CreateNetworkFails, Refused
<1>9. CASE StartProxy
  BY <1>9 DEF StartProxy
<1>10. CASE StartProxyFails
  BY <1>10 DEF StartProxyFails, Refused
<1>11. CASE Run
  BY <1>11, RunTyped DEF Run, ReportTyped
<1>12. CASE RunDies
  BY <1>12 DEF RunDies, Refused
<1>13. CASE RunHangs
  BY <1>13 DEF RunHangs, Refused
<1>14. CASE RemoveProxy
  BY <1>14 DEF RemoveProxy
<1>15. CASE RemoveProxyTimesOut
  BY <1>15 DEF RemoveProxyTimesOut, Orphaned, Refused
<1>16. CASE RemoveNetwork
  BY <1>16 DEF RemoveNetwork
<1>17. CASE RemoveNetworkTimesOut
  BY <1>17 DEF RemoveNetworkTimesOut, Refused
<1>18. CASE Judge
  BY <1>18 DEF Judge, Refused
<1>19. CASE RemoveProxyFails
  BY <1>19 DEF RemoveProxyFails, Orphaned
<1>20. CASE RemoveNetworkFails
  BY <1>20 DEF RemoveNetworkFails
<1> QED
  BY <1>1, <1>2, <1>3, <1>4, <1>5, <1>6, <1>7, <1>8, <1>9,
     <1>10, <1>11, <1>12, <1>13, <1>14, <1>15, <1>16, <1>17, <1>18, <1>19, <1>20 DEF Next

\* Every step keeps the rest typed.
LEMMA OthersTypeStep == OthersTyped /\ [Next]_vars => OthersTyped'
<1> SUFFICES ASSUME OthersTyped, [Next]_vars PROVE OthersTyped'
  OBVIOUS
<1> DEFINE L == {"network", "proxy", "candidate", "orphan"}
<1>0. /\ Fault => faults' \in 0..MaxFaults
      /\ \A x \in L : left \cup {x} \subseteq L /\ left \ {x} \subseteq L
      /\ Orphaned \subseteq L
      /\ n # MaxAttempts => n + 1 \in 1..MaxAttempts
  <2>0. /\ MaxFaults \in Nat /\ MaxAttempts \in Nat
        /\ faults \in 0..MaxFaults /\ n \in 1..MaxAttempts
    BY DraftAssumption, Zenon DEF OthersTyped
  <2>1. Fault => faults' \in 0..MaxFaults
    BY <2>0 DEF Fault
  <2>2. n # MaxAttempts => n + 1 \in 1..MaxAttempts
    BY <2>0
  <2>3. left \subseteq L
    BY DEF OthersTyped
  <2>4. Orphaned \subseteq L
    BY <2>3 DEF Orphaned
  <2> QED
    BY <2>1, <2>2, <2>3, <2>4
<1> USE DEF OthersTyped, Goes
<1>1. CASE UNCHANGED vars
  BY <1>1 DEF vars
<1>2. CASE Generate
  BY <1>2 DEF Generate
<1>3. CASE GenerateFails
  BY <1>0, <1>3 DEF GenerateFails
<1>4. CASE Screen
  BY <1>4 DEF Screen
<1>5. CASE FindDocker
  BY <1>5 DEF FindDocker
<1>6. CASE DockerMissing
  BY <1>0, <1>6 DEF DockerMissing
<1>7. CASE CreateNetwork
  BY <1>7 DEF CreateNetwork
<1>8. CASE CreateNetworkFails
  BY <1>0, <1>8 DEF CreateNetworkFails
<1>9. CASE StartProxy
  BY <1>9 DEF StartProxy
<1>10. CASE StartProxyFails
  BY <1>0, <1>10 DEF StartProxyFails
<1>11. CASE Run
  <2>1. PICK trouble : RunWith(trouble)
    BY <1>11 DEF Run
  <2>2. faults' \in 0..MaxFaults
    BY <1>0, <1>11 DEF Run, OthersTyped
  <2>3. UNCHANGED <<request, peers, n, draft, left, accepted>>
    BY <2>1 DEF RunWith
  <2>4. pc' \in {"remove proxy", "judge"}
    BY <2>1, Zenon DEF RunWith, AfterRun
  <2> QED
    BY <2>2, <2>3, <2>4
<1>12. CASE RunDies
  BY <1>0, <1>12 DEF RunDies, AfterRun, Refused
<1>13. CASE RunHangs
  BY <1>0, <1>13 DEF RunHangs
<1>14. CASE RemoveProxy
  BY <1>14 DEF RemoveProxy
<1>15. CASE RemoveProxyTimesOut
  BY <1>0, <1>15 DEF RemoveProxyTimesOut, Orphaned
<1>16. CASE RemoveNetwork
  BY <1>16 DEF RemoveNetwork
<1>17. CASE RemoveNetworkTimesOut
  BY <1>0, <1>17 DEF RemoveNetworkTimesOut
<1>18. CASE Judge
  BY <1>0, <1>18 DEF Judge
<1>19. CASE RemoveProxyFails
  BY <1>0, <1>19 DEF RemoveProxyFails, Orphaned
<1>20. CASE RemoveNetworkFails
  BY <1>0, <1>20 DEF RemoveNetworkFails
<1> QED
  BY <1>1, <1>2, <1>3, <1>4, <1>5, <1>6, <1>7, <1>8, <1>9,
     <1>10, <1>11, <1>12, <1>13, <1>14, <1>15, <1>16, <1>17, <1>18, <1>19, <1>20 DEF Next

\* Every step preserves the type invariant.
LEMMA TypeStep == TypeOK /\ [Next]_vars => TypeOK'
<1>1. TypeOK <=> ReportTyped /\ OthersTyped
  BY DEF TypeOK, ReportTyped, OthersTyped
<1>2. TypeOK' <=> ReportTyped' /\ OthersTyped'
  BY DEF TypeOK, ReportTyped, OthersTyped
<1> QED
  BY <1>1, <1>2, ReportTypeStep, OthersTypeStep

\* Every step preserves the place of the proxy.
LEMMA ProxyStep == TypeOK /\ ProxyInv /\ [Next]_vars => ProxyInv'
<1> SUFFICES ASSUME TypeOK, ProxyInv, [Next]_vars PROVE ProxyInv'
  OBVIOUS
<1> USE DraftAssumption DEF TypeOK, ProxyInv, Goes, AfterRun, Proxied
<1>1. CASE UNCHANGED vars
  BY <1>1 DEF vars
<1>2. CASE Generate
  BY <1>2 DEF Generate
<1>3. CASE GenerateFails
  BY <1>3 DEF GenerateFails
<1>4. CASE Screen
  BY <1>4 DEF Screen
<1>5. CASE FindDocker
  BY <1>5 DEF FindDocker
<1>6. CASE DockerMissing
  BY <1>6 DEF DockerMissing
<1>7. CASE CreateNetwork
  BY <1>7 DEF CreateNetwork
<1>8. CASE CreateNetworkFails
  BY <1>8 DEF CreateNetworkFails
<1>9. CASE StartProxy
  BY <1>9 DEF StartProxy
<1>10. CASE StartProxyFails
  BY <1>10 DEF StartProxyFails
<1>11. CASE Run
  BY <1>11, Zenon DEF Run, RunWith
<1>12. CASE RunDies
  BY <1>12 DEF RunDies, Refused
<1>13. CASE RunHangs
  BY <1>13 DEF RunHangs
<1>14. CASE RemoveProxy
  BY <1>14 DEF RemoveProxy
<1>15. CASE RemoveProxyTimesOut
  BY <1>15 DEF RemoveProxyTimesOut, Orphaned
<1>16. CASE RemoveNetwork
  BY <1>16 DEF RemoveNetwork
<1>17. CASE RemoveNetworkTimesOut
  BY <1>17 DEF RemoveNetworkTimesOut
<1>18. CASE Judge
  BY <1>18 DEF Judge
<1>19. CASE RemoveProxyFails
  BY <1>19 DEF RemoveProxyFails, Orphaned
<1>20. CASE RemoveNetworkFails
  BY <1>20 DEF RemoveNetworkFails
<1> QED
  BY <1>1, <1>2, <1>3, <1>4, <1>5, <1>6, <1>7, <1>8, <1>9,
     <1>10, <1>11, <1>12, <1>13, <1>14, <1>15, <1>16, <1>17, <1>18, <1>19, <1>20 DEF Next

\* Every step preserves what a complete report means.
LEMMA ReportStep == TypeOK /\ ReportInv /\ [Next]_vars => ReportInv'
<1> SUFFICES ASSUME TypeOK, ReportInv, [Next]_vars PROVE ReportInv'
  OBVIOUS
<1>0. (\A s : ~Complete(Only(s, "fail"))) /\ (\A r, s : ~Complete(And(r, s, "fail")))
  BY DEF Complete, Passed, Only, And
<1> USE DEF ReportInv, Goes, RightPeers
<1>1. CASE UNCHANGED vars
  BY <1>1 DEF vars
<1>2. CASE Generate
  BY <1>2 DEF Generate
<1>3. CASE GenerateFails
  BY <1>3 DEF GenerateFails
<1>4. CASE Screen
  BY <1>0, <1>4 DEF Screen
<1>5. CASE FindDocker
  BY <1>5 DEF FindDocker
<1>6. CASE DockerMissing
  BY <1>0, <1>6 DEF DockerMissing
<1>7. CASE CreateNetwork
  BY <1>7 DEF CreateNetwork
<1>8. CASE CreateNetworkFails
  BY <1>0, <1>8 DEF CreateNetworkFails, Refused
<1>9. CASE StartProxy
  BY <1>9 DEF StartProxy
<1>10. CASE StartProxyFails
  BY <1>0, <1>10 DEF StartProxyFails, Refused
<1>11. CASE Run
  <2>1. PICK trouble : RunWith(trouble)
    BY <1>11 DEF Run
  <2>2. UNCHANGED <<request, peers, draft>>
    BY <2>1 DEF RunWith
  <2> QED
    BY <2>1, <2>2, RunIsRight, DraftAssumption
<1>12. CASE RunDies
  BY <1>0, <1>12 DEF RunDies, Refused
<1>13. CASE RunHangs
  BY <1>0, <1>13 DEF RunHangs, Refused
<1>14. CASE RemoveProxy
  BY <1>14 DEF RemoveProxy
<1>15. CASE RemoveProxyTimesOut
  BY <1>0, <1>15 DEF RemoveProxyTimesOut, Orphaned, Refused
<1>16. CASE RemoveNetwork
  BY <1>16 DEF RemoveNetwork
<1>17. CASE RemoveNetworkTimesOut
  BY <1>0, <1>17 DEF RemoveNetworkTimesOut, Refused
<1>18. CASE Judge
  BY <1>18 DEF Judge
<1>19. CASE RemoveProxyFails
  BY <1>0, <1>19 DEF RemoveProxyFails, Orphaned
<1>20. CASE RemoveNetworkFails
  BY <1>0, <1>20 DEF RemoveNetworkFails
<1> QED
  BY <1>1, <1>2, <1>3, <1>4, <1>5, <1>6, <1>7, <1>8, <1>9,
     <1>10, <1>11, <1>12, <1>13, <1>14, <1>15, <1>16, <1>17, <1>18, <1>19, <1>20 DEF Next

\* Every step preserves RightPeersAcceptRight.
LEMMA AcceptStep ==
  RightPeersAcceptRight /\ ReportInv /\ [Next]_vars => RightPeersAcceptRight'
<1> SUFFICES ASSUME RightPeersAcceptRight, ReportInv, [Next]_vars
             PROVE  RightPeersAcceptRight'
  OBVIOUS
<1> USE DEF RightPeersAcceptRight, ReportInv, RightPeers
<1>1. CASE UNCHANGED vars
  BY <1>1 DEF vars
<1>2. CASE Generate
  BY <1>2 DEF Generate
<1>3. CASE GenerateFails
  BY <1>3 DEF GenerateFails
<1>4. CASE Screen
  BY <1>4 DEF Screen
<1>5. CASE FindDocker
  BY <1>5 DEF FindDocker
<1>6. CASE DockerMissing
  BY <1>6 DEF DockerMissing
<1>7. CASE CreateNetwork
  BY <1>7 DEF CreateNetwork
<1>8. CASE CreateNetworkFails
  BY <1>8 DEF CreateNetworkFails
<1>9. CASE StartProxy
  BY <1>9 DEF StartProxy
<1>10. CASE StartProxyFails
  BY <1>10 DEF StartProxyFails
<1>11. CASE Run
  BY <1>11 DEF Run, RunWith
<1>12. CASE RunDies
  BY <1>12 DEF RunDies, Refused
<1>13. CASE RunHangs
  BY <1>13 DEF RunHangs
<1>14. CASE RemoveProxy
  BY <1>14 DEF RemoveProxy
<1>15. CASE RemoveProxyTimesOut
  BY <1>15 DEF RemoveProxyTimesOut, Orphaned
<1>16. CASE RemoveNetwork
  BY <1>16 DEF RemoveNetwork
<1>17. CASE RemoveNetworkTimesOut
  BY <1>17 DEF RemoveNetworkTimesOut
<1>18. CASE Judge
  BY <1>18 DEF Judge
<1>19. CASE RemoveProxyFails
  BY <1>19 DEF RemoveProxyFails, Orphaned
<1>20. CASE RemoveNetworkFails
  BY <1>20 DEF RemoveNetworkFails
<1> QED
  BY <1>1, <1>2, <1>3, <1>4, <1>5, <1>6, <1>7, <1>8, <1>9,
     <1>10, <1>11, <1>12, <1>13, <1>14, <1>15, <1>16, <1>17, <1>18, <1>19, <1>20 DEF Next

\* Every step preserves what a complete report says of the days, and who has been
\* accepted when.
LEMMA WholeStep ==
  TypeOK /\ WholeInv /\ WholeUnlessUnwitnessed /\ (pc # "done" => accepted = None)
  /\ [Next]_vars
  => WholeInv' /\ WholeUnlessUnwitnessed' /\ (pc' # "done" => accepted' = None)
<1> SUFFICES ASSUME TypeOK, WholeInv, WholeUnlessUnwitnessed,
                    pc # "done" => accepted = None, [Next]_vars
             PROVE  WholeInv' /\ WholeUnlessUnwitnessed'
                    /\ (pc' # "done" => accepted' = None)
  OBVIOUS
<1>0. (\A s : ~Complete(Only(s, "fail"))) /\ (\A r, s : ~Complete(And(r, s, "fail")))
  BY DEF Complete, Passed, Only, And
<1> USE DEF WholeInv, WholeUnlessUnwitnessed, Whole, Goes, AfterRun
<1>1. CASE UNCHANGED vars
  BY <1>1, <1>0 DEF vars
<1>2. CASE Generate
  BY <1>2, <1>0 DEF Generate
<1>3. CASE GenerateFails
  BY <1>3, <1>0 DEF GenerateFails
<1>4. CASE Screen
  BY <1>4, <1>0 DEF Screen
<1>5. CASE FindDocker
  BY <1>5, <1>0 DEF FindDocker
<1>6. CASE DockerMissing
  BY <1>6, <1>0 DEF DockerMissing
<1>7. CASE CreateNetwork
  BY <1>7, <1>0 DEF CreateNetwork
<1>8. CASE CreateNetworkFails
  BY <1>8, <1>0 DEF CreateNetworkFails, Refused
<1>9. CASE StartProxy
  BY <1>9, <1>0 DEF StartProxy
<1>10. CASE StartProxyFails
  BY <1>10, <1>0 DEF StartProxyFails, Refused
<1>11. CASE Run
  <2>1. PICK trouble : RunWith(trouble)
    BY <1>11 DEF Run
  <2>2. UNCHANGED <<request, peers, draft, accepted>> /\ pc = "run"
    BY <2>1 DEF RunWith
  <2>3. pc' \in {"remove proxy", "judge"}
    BY <2>1, Zenon DEF RunWith, AfterRun
  <2>4. WholeInv'
    BY <2>1, <2>2, RunIsWhole, DraftAssumption
  <2> QED
    BY <2>2, <2>3, <2>4
<1>12. CASE RunDies
  BY <1>12, <1>0 DEF RunDies, Refused
<1>13. CASE RunHangs
  BY <1>13, <1>0 DEF RunHangs, Refused
<1>14. CASE RemoveProxy
  BY <1>14, <1>0 DEF RemoveProxy
<1>15. CASE RemoveProxyTimesOut
  BY <1>15, <1>0 DEF RemoveProxyTimesOut, Orphaned, Refused
<1>16. CASE RemoveNetwork
  BY <1>16, <1>0 DEF RemoveNetwork
<1>17. CASE RemoveNetworkTimesOut
  BY <1>17, <1>0 DEF RemoveNetworkTimesOut, Refused
<1>18. CASE Judge
  BY <1>18, <1>0 DEF Judge
<1>19. CASE RemoveProxyFails
  BY <1>19, <1>0 DEF RemoveProxyFails, Orphaned
<1>20. CASE RemoveNetworkFails
  BY <1>20, <1>0 DEF RemoveNetworkFails
<1> QED
  BY <1>1, <1>2, <1>3, <1>4, <1>5, <1>6, <1>7, <1>8, <1>9, <1>10, <1>11,
     <1>12, <1>13, <1>14, <1>15, <1>16, <1>17, <1>18, <1>19, <1>20 DEF Next

\* Every step preserves the acquittal.
LEMMA AcquittalStep == TypeOK /\ AcquittalInv /\ [Next]_vars => AcquittalInv'
<1> SUFFICES ASSUME TypeOK, AcquittalInv, [Next]_vars PROVE AcquittalInv'
  OBVIOUS
<1>0. (\A s, v : DOMAIN Only(s, v) = {s}) /\ (Fault => faults' # 0)
  <2>1. faults \in 0..MaxFaults /\ MaxFaults \in Nat
    BY DraftAssumption, Zenon DEF TypeOK
  <2>2. Fault => faults' # 0
    BY <2>1 DEF Fault
  <2> QED
    BY <2>2 DEF Only
<1> USE DEF AcquittalInv, Goes, OneBad, OutOfReach, Proxied
<1>1. CASE UNCHANGED vars
  BY <1>1, <1>0 DEF vars
<1>2. CASE Generate
  BY <1>2, <1>0 DEF Generate
<1>3. CASE GenerateFails
  BY <1>3, <1>0 DEF GenerateFails
<1>4. CASE Screen
  <2>1. DOMAIN report' = {"screen"} /\ pc' \in {"judge", "docker", "run"}
    BY <1>0, <1>4 DEF Screen
  <2> QED
    BY <2>1
<1>5. CASE FindDocker
  BY <1>5, <1>0 DEF FindDocker
<1>6. CASE DockerMissing
  BY <1>6, <1>0 DEF DockerMissing
<1>7. CASE CreateNetwork
  BY <1>7, <1>0 DEF CreateNetwork
<1>8. CASE CreateNetworkFails
  BY <1>8, <1>0 DEF CreateNetworkFails
<1>9. CASE StartProxy
  BY <1>9, <1>0 DEF StartProxy
<1>10. CASE StartProxyFails
  BY <1>10, <1>0 DEF StartProxyFails
<1>11. CASE Run
  <2>1. PICK trouble : RunWith(trouble)
    BY <1>11 DEF Run
  <2>2. UNCHANGED <<request, peers, draft>> /\ pc = "run" /\ DOMAIN report = {"screen"}
    BY <2>1 DEF RunWith
  <2>3. pc' \in {"remove proxy", "judge"}
    BY <2>1, Zenon DEF RunWith, AfterRun
  <2>4. CASE faults' = 0
    <3>1. RunWith(Calm)
      BY <1>11, <1>0, <2>4 DEF Run
    <3> QED
      BY <2>2, <2>3, <3>1, RunAcquits, DraftAssumption
  <2>5. CASE faults' # 0
    BY <2>3, <2>5
  <2> QED
    BY <2>4, <2>5
<1>12. CASE RunDies
  BY <1>12, <1>0 DEF RunDies, AfterRun, Refused
<1>13. CASE RunHangs
  BY <1>13, <1>0 DEF RunHangs
<1>14. CASE RemoveProxy
  BY <1>14, <1>0 DEF RemoveProxy
<1>15. CASE RemoveProxyTimesOut
  BY <1>15, <1>0 DEF RemoveProxyTimesOut, Orphaned
<1>16. CASE RemoveNetwork
  BY <1>16, <1>0 DEF RemoveNetwork
<1>17. CASE RemoveNetworkTimesOut
  BY <1>17, <1>0 DEF RemoveNetworkTimesOut
<1>18. CASE Judge
  BY <1>18, <1>0 DEF Judge
<1>19. CASE RemoveProxyFails
  BY <1>19, <1>0 DEF RemoveProxyFails, Orphaned
<1>20. CASE RemoveNetworkFails
  BY <1>20, <1>0 DEF RemoveNetworkFails
<1> QED
  BY <1>1, <1>2, <1>3, <1>4, <1>5, <1>6, <1>7, <1>8, <1>9, <1>10, <1>11,
     <1>12, <1>13, <1>14, <1>15, <1>16, <1>17, <1>18, <1>19, <1>20 DEF Next

-----------------------------------------------------------------------------
IInv ==
    /\ TypeOK /\ ProxyInv
    /\ ReportInv /\ RightPeersAcceptRight
    /\ WholeInv /\ WholeUnlessUnwitnessed /\ (pc # "done" => accepted = None)
    /\ AcquittalInv

\* The loop begins with nothing.
LEMMA InitHolds == Init => IInv
  BY DraftAssumption DEF Init, IInv, TypeOK, ProxyInv, ReportInv, RightPeersAcceptRight,
     WholeInv, WholeUnlessUnwitnessed, AcquittalInv, NoReport, Stages

\* The inductive invariant of the drafting loop: a report that is complete when the
\* loop looks at it belongs to a right frame, if the peers are right, and to a whole
\* one, if a peer that answered was; and no report of a calm run convicts a frame
\* for the one peer that is wrong.
THEOREM Inductive == Spec => []IInv
<1>1. IInv /\ [Next]_vars => IInv'
  BY TypeStep, ProxyStep, ReportStep, AcceptStep, WholeStep, AcquittalStep DEF IInv
<1> QED
  BY InitHolds, <1>1, PTL DEF Spec

\* Type correctness of the drafting loop.
THEOREM TypeCorrect == Spec => []TypeOK
  BY Inductive, PTL DEF IInv

\* With trusted sources that hold the instrument no draft of another instrument,
\* unit, month or adjustment is accepted, whoever is silent and whatever fails.
THEOREM RightPeersAcceptRightAlways == Spec => []RightPeersAcceptRight
  BY Inductive, PTL DEF IInv

\* What is accepted with days missing was held against no peer that answered with
\* them (_stage_completeness).
THEOREM WholeUnlessUnwitnessedAlways == Spec => []WholeUnlessUnwitnessed
  BY Inductive, PTL DEF IInv

\* Where nothing fails, one source that is wrong does not make cross_check call a
\* whole, right frame wrong (_adjudicate asks another).
THEOREM OneBadPeerConvictsNobodyAlways == Spec => []OneBadPeerConvictsNobody
<1>1. IInv => OneBadPeerConvictsNobody
  BY DEF IInv, AcquittalInv, OneBad, OneBadPeerConvictsNobody
<1> QED
  BY Inductive, <1>1, PTL

\* No attempt begins, and the loop does not end, with a proxy left that docker was
\* not told to remove, whatever failed before.
THEOREM ProxyRemovedAlways == Spec => []ProxyRemoved
<1>1. IInv => ProxyRemoved
  BY DEF IInv, ProxyInv, ProxyRemoved
<1> QED
  BY Inductive, <1>1, PTL
=============================================================================
