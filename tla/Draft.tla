-------------------------------- MODULE Draft --------------------------------
(***************************************************************************)
(* The drafting of an ingestor: the loop of qde/author.py, which has a     *)
(* language model write a module, and the gauntlet of qde/draft.py, which  *)
(* runs it and judges the frames it fetches.  A run in a container builds  *)
(* a network and an egress proxy first and takes them down afterwards.     *)
(*                                                                         *)
(* A draft is the frame it fetches and the set of its flaws: defects of    *)
(* the frame that verify_frame looks for, and                              *)
(*                                                                         *)
(*   smells, misfit, raises, unstable, unbounded   (screen, contract,      *)
(*                         fetch, determinism and range look for these)    *)
(*   drops     one row in twenty is missing                                *)
(*   wanders   it connects to a host nobody named                          *)
(*                                                                         *)
(* A frame with a third of the rows has every third day of the window.     *)
(***************************************************************************)
EXTENDS Verify

CONSTANTS
    Drafts,        \* what the model may write
    Requests,      \* how the loop is started
    PeerFrames,    \* what a trusted source of the symbol may hold
    NPeers,        \* how many of them the registry names
    Keyed,         \* those whose API wants a key (Tiingo does)
    MaxAttempts,   \* the attempts argument
    MaxFaults      \* bound: silent peers, failed pulls, docker and model failures

Flaws == {"smells", "misfit", "raises", "unstable", "unbounded", "drops", "wanders"}
Allowlists == {"none", "own", "all"}    \* all: the peers' hosts too
Defects == {r.defect : r \in Structural \cup Timestamps \cup Values
                              \cup Contract \cup Plausibility}

ASSUME DraftAssumption ==
    /\ Drafts \subseteq [frame : Frames, flaws : SUBSET (Flaws \cup Defects)]
    /\ Requests \subseteq [group : Groups, cap : -1..3, hosts : Allowlists,
                           container : BOOLEAN, window : Windows]
    /\ PeerFrames \subseteq Frames /\ Keyed \subseteq 1..NPeers
    /\ NPeers \in Nat /\ MaxAttempts \in Nat \ {0} /\ MaxFaults \in Nat

Peers == 1..NPeers
None == [frame |-> Down, flaws |-> {}]

VARIABLES
    request,   \* the arguments of author(); cap is max_rows_per_call, counted
               \* as rows are and rounded down, -1 for None
    peers,     \* what the trusted sources hold
    pc, n,     \* where the loop stands, the number of the attempt
    draft,     \* the module just written
    report,    \* stage -> "ok", "fail" or "skip", a GauntletReport
    evidence,  \* history: what the last two stages compared the frame with
    left,      \* docker objects of this attempt; orphan: a proxy that docker
               \* was told to remove and did not
    accepted,  \* AuthorResult.accepted
    faults

vars == <<request, peers, pc, n, draft, report, evidence, left, accepted, faults>>

NoReport == [s \in {} |-> "ok"]
NoEvidence == [reference |-> 0, verdict |-> Says("warn", "unverifiable", {})]

Stages == {"screen", "sandbox", "contract", "fetch", "frame", "determinism",
           "range", "pagination", "completeness", "cross_source", "egress"}

-----------------------------------------------------------------------------
\* GauntletReport.passed and .complete.
Passed(r) == \A s \in DOMAIN r : r[s] # "fail"
Complete(r) == Passed(r) /\ \A s \in DOMAIN r : r[s] # "skip"

Only(stage, verdict) == [s \in {stage} |-> verdict]
And(r, stage, verdict) == [s \in DOMAIN r \cup {stage} |->
                             IF s = stage THEN verdict ELSE r[s]]
Verdict(failed, skipped) == IF skipped THEN "skip" ELSE IF failed THEN "fail" ELSE "ok"

\* _stage_series_completeness: by the series' own rhythm, of which every third
\* day is one, and which forgives one hole in ten.
SeriesCompleteness == Verdict(FALSE, request.window = "tiny")

\* _stage_completeness: rows that the best answering peer has and the draft
\* has not; without such a peer, the calendar, which forgives one in twenty.
\* (Mutant: the rows that are there are counted against themselves.)
CompletenessOfOverlap(reference) == "ok"

\* Candles of one day are one date; the most dates any peer answered with.
Dates(reply) == IF reply.rows > 3 THEN 3 ELSE reply.rows
Best(replies) ==
    LET counts == {-1} \cup {Dates(replies[p]) : p \in Peers}
    IN CHOOSE d \in counts : \A e \in counts : e <= d
Completeness(reference) ==
    LET holes == \/ draft.frame.rows < reference
                 \/ reference = 3 /\ "drops" \in draft.flaws
                 \/ reference <= 0 /\ draft.frame.rows < 3
    IN CASE request.group = "bars"   -> Verdict(holes, request.window = "tiny")
         [] request.group = "series" -> SeriesCompleteness
         [] OTHER                    -> "skip"

\* _stage_pagination: the walk is proven only by more rows than a page holds.
Pagination == Verdict(FALSE, request.cap = -1 \/ draft.frame.rows <= request.cap)

\* _stage_cross_source: a warning means nothing was compared, or not enough.
CrossSource(verdict) ==
    IF request.group # "bars" THEN "skip"
    ELSE Verdict(verdict.severity = "error", verdict.severity = "warn")

\* _stage_contract, and load_candidate before it.
Misfit == "misfit" \in draft.flaws

\* run_stages_in_process: contract and fetch stop the run, the others do not.
StagesRun(flake, reference, verdict) ==
    IF Misfit THEN Only("contract", "fail")
    ELSE IF "raises" \in draft.flaws \/ flake = "fetch"
    THEN And(Only("contract", "ok"), "fetch", "fail")
    ELSE [contract |-> "ok", fetch |-> "ok",
          frame |-> Verdict(Errors(VerifyFrame(draft.flaws, request.group)) # {}, FALSE),
          determinism |->
            Verdict("unstable" \in draft.flaws \/ flake = "determinism", FALSE),
          range |-> Verdict("unbounded" \in draft.flaws \/ flake = "range",
                            request.window = "tiny"),
          pagination |-> Pagination,
          completeness |-> Completeness(reference),
          cross_source |-> CrossSource(verdict)]

Proxied == request.container /\ request.hosts # "none"

\* _egress_stage: what the proxy logged, if there was one.  It logs whatever
\* leaves the container, the stages' own pulls from the peers among it.  A log
\* that docker failed to print reads as an empty one.
PeersAreOutside ==
    request.group = "bars" /\ request.hosts = "own" /\ Keyed # Peers
Egress(stages, log) ==
    Verdict(/\ log # "lost"
            /\ \/ "wanders" \in draft.flaws
               \/ PeersAreOutside /\ "completeness" \in DOMAIN stages
               \/ log = "denied",
            ~Proxied)

\* The peers that cannot be asked: the container has one key and the allowed
\* hosts, and completeness holds the draft's key only, wherever it runs.
OutOfReach(stage) ==
    IF Proxied /\ request.hosts = "own" THEN Peers
    ELSE IF request.container \/ stage = "completeness" THEN Keyed ELSE {}

-----------------------------------------------------------------------------
Init ==
    /\ request \in Requests
    /\ peers \in [Peers -> PeerFrames]
    /\ pc = "generate" /\ n = 1
    /\ draft = None /\ report = NoReport /\ evidence = NoEvidence
    /\ left = {} /\ accepted = None
    /\ faults = 0

Fault == faults < MaxFaults /\ faults' = faults + 1
Goes(to) == pc' = to

\* _generate raised: the loop keeps the error and stops.
GenerateFails ==
    /\ pc = "generate" /\ Fault /\ Goes("done")
    /\ UNCHANGED <<request, peers, n, draft, report, evidence, left, accepted>>

Generate ==
    /\ pc = "generate" /\ Goes("screen")
    /\ draft' \in Drafts /\ left' = {}
    /\ UNCHANGED <<request, peers, n, report, evidence, accepted, faults>>

\* run_gauntlet: the screen, and what the candidate will be run in.
Screen ==
    /\ pc = "screen"
    /\ IF "smells" \in draft.flaws
       THEN report' = Only("screen", "fail") /\ Goes("judge")
       ELSE /\ report' = Only("screen", "ok")
            /\ Goes(IF request.container THEN "docker" ELSE "run")
    /\ UNCHANGED <<request, peers, n, draft, evidence, left, accepted, faults>>

FindDocker ==
    /\ pc = "docker" /\ Goes(IF Proxied THEN "network" ELSE "run")
    /\ UNCHANGED <<request, peers, n, draft, report, evidence, left, accepted, faults>>

DockerMissing ==
    /\ pc = "docker" /\ Fault /\ Goes("judge")
    /\ report' = Only("sandbox", "fail")
    /\ UNCHANGED <<request, peers, n, draft, evidence, left, accepted>>

CreateNetwork ==
    /\ pc = "network" /\ Goes("proxy")
    /\ left' = left \cup {"network"}
    /\ UNCHANGED <<request, peers, n, draft, report, evidence, accepted, faults>>

\* The report of a draft whose network could not be contained.
Refused == Only("egress", "fail")

\* The command failed or timed out, maybe after docker had done it.
CreateNetworkFails ==
    /\ pc = "network" /\ Fault /\ Goes("judge")
    /\ left' \in {left, left \cup {"network"}}
    /\ report' = Refused
    /\ UNCHANGED <<request, peers, n, draft, evidence, accepted>>

StartProxy ==
    /\ pc = "proxy" /\ Goes("run")
    /\ left' = left \cup {"proxy"}
    /\ UNCHANGED <<request, peers, n, draft, report, evidence, accepted, faults>>

\* It did not start, never reported ready, or could not be connected.
\* (Mutant: only what was fully built is taken down.)
StartProxyGivesUp ==
    /\ pc = "proxy" /\ Fault /\ Goes("judge")
    /\ left' \in {left, left \cup {"proxy"}}
    /\ report' = Refused
    /\ UNCHANGED <<request, peers, n, draft, evidence, accepted>>

StartProxyFails ==
    /\ pc = "proxy" /\ Fault /\ Goes("remove proxy")
    /\ left' \in {left, left \cup {"proxy"}}
    /\ report' = Refused
    /\ UNCHANGED <<request, peers, n, draft, evidence, accepted>>

AfterRun == Goes(IF Proxied THEN "remove proxy" ELSE "judge")

\* What goes wrong in one run of the stages: one pull raises, some peers are
\* silent when some of the three polls ask, a connection does not get through
\* the proxy at first, or docker does not print the proxy's log.
Calm == [pull |-> "none", silent |-> {}, at |-> {}, log |-> "read"]
Polls == {"completeness", "cross_source", "adjudicate"}
Troubles ==
    {[Calm EXCEPT !.pull = pull] : pull \in {"fetch", "determinism", "range"}}
    \cup {[Calm EXCEPT !.silent = q, !.at = at] :
            q \in SUBSET Peers \ {{}}, at \in SUBSET Polls \ {{}}}
    \cup IF Proxied THEN {[Calm EXCEPT !.log = l] : l \in {"denied", "lost"}} ELSE {}

Replies(trouble, poll) ==
    LET stage == IF poll = "completeness" THEN poll ELSE "cross_source"
        silent == OutOfReach(stage)
                  \cup IF poll \in trouble.at THEN trouble.silent ELSE {}
    IN [p \in Peers |-> IF p \in silent THEN Down ELSE peers[p]]

\* run_stages_in_process, here or in the container.
RunWith(trouble) ==
    /\ pc = "run" /\ AfterRun
    /\ \E reference \in {Best(Replies(trouble, "completeness"))},
          verdict \in {CrossCheck(draft.frame, Replies(trouble, "cross_source"),
                                  Replies(trouble, "adjudicate"), request.window)} :
         /\ evidence' = [reference |-> reference, verdict |-> verdict]
         /\ \E stages \in {StagesRun(trouble.pull, reference, verdict)} :
              report' = [s \in DOMAIN report \cup DOMAIN stages
                          \cup (IF request.container THEN {"egress"} ELSE {}) |->
                         IF s \in DOMAIN stages THEN stages[s]
                         ELSE IF s = "egress" THEN Egress(stages, trouble.log)
                         ELSE report[s]]
    /\ UNCHANGED <<request, peers, n, draft, left, accepted>>

Run ==
    \/ RunWith(Calm) /\ UNCHANGED faults
    \/ \E trouble \in Troubles : Fault /\ RunWith(trouble)

\* The container printed no report, or docker did not answer when the proxy's
\* log was asked for.
RunDies ==
    /\ pc = "run" /\ request.container /\ Fault /\ AfterRun
    /\ \/ report' = And(report, "sandbox", "fail")
       \/ Proxied /\ report' = Refused
    /\ UNCHANGED <<request, peers, n, draft, evidence, left, accepted>>

\* The run timed out: only the docker client is killed.  Without an allowlist
\* nothing catches it, and the loop ends with no result.
RunHangs ==
    /\ pc = "run" /\ request.container /\ Fault
    /\ left' = left \cup {"candidate"}
    /\ IF Proxied THEN report' = Refused /\ Goes("remove proxy")
       ELSE UNCHANGED report /\ Goes("crashed")
    /\ UNCHANGED <<request, peers, n, draft, evidence, accepted>>

RemoveProxy ==
    /\ pc = "remove proxy" /\ Goes("remove network")
    /\ left' = left \ {"proxy"}
    /\ UNCHANGED <<request, peers, n, draft, report, evidence, accepted, faults>>

\* The proxy, if there was one, goes on listening.
Orphaned == {IF o = "proxy" THEN "orphan" ELSE o : o \in left}

\* docker rm failed: it is run with check=False, so the report stands.
RemoveProxyFails ==
    /\ pc = "remove proxy" /\ Fault /\ Goes("remove network")
    /\ left' = Orphaned
    /\ UNCHANGED <<request, peers, n, draft, report, evidence, accepted>>

\* docker rm timed out, before or after it worked; the second removal is
\* skipped and the report replaced.
RemoveProxyTimesOut ==
    /\ pc = "remove proxy" /\ Fault /\ Goes("judge")
    /\ left' \in {left \ {"proxy"}, Orphaned}
    /\ report' = Refused
    /\ UNCHANGED <<request, peers, n, draft, evidence, accepted>>

\* A network with a container in it is not removed, and nobody looks; an orphan
\* is in it unless it was never connected.
RemoveNetwork ==
    /\ pc = "remove network" /\ Goes("judge")
    /\ \/ "candidate" \notin left /\ left' = left \ {"network"}
       \/ {"candidate", "orphan"} \cap left # {} /\ left' = left
    /\ UNCHANGED <<request, peers, n, draft, report, evidence, accepted, faults>>

\* docker network rm failed for a reason of its own.
RemoveNetworkFails ==
    /\ pc = "remove network" /\ Fault /\ Goes("judge")
    /\ UNCHANGED <<request, peers, n, draft, report, evidence, left, accepted>>

RemoveNetworkTimesOut ==
    /\ pc = "remove network" /\ Fault /\ Goes("judge")
    /\ report' = Refused
    /\ UNCHANGED <<request, peers, n, draft, evidence, left, accepted>>

\* (Mutant: it does not count the attempts.)
JudgeUncounted ==
    /\ pc = "judge" /\ Goes(IF Complete(report) THEN "done" ELSE "generate")
    /\ accepted' = IF Complete(report) THEN draft ELSE accepted
    /\ n' = n + 1
    /\ UNCHANGED <<request, peers, draft, report, evidence, left, faults>>

\* author(): the verdict, and whether to try again.
Judge ==
    /\ pc = "judge"
    /\ accepted' = IF Complete(report) THEN draft ELSE accepted
    /\ IF Complete(report) \/ n = MaxAttempts
       THEN Goes("done") /\ UNCHANGED <<n, draft, report, evidence>>
       ELSE /\ Goes("generate") /\ n' = n + 1
            /\ draft' = None /\ report' = NoReport /\ evidence' = NoEvidence
    /\ UNCHANGED <<request, peers, left, faults>>

Next ==
    \/ Generate \/ GenerateFails
    \/ Screen \/ FindDocker \/ DockerMissing
    \/ CreateNetwork \/ CreateNetworkFails
    \/ StartProxy \/ StartProxyFails
    \/ Run \/ RunDies \/ RunHangs
    \/ RemoveProxy \/ RemoveProxyFails \/ RemoveProxyTimesOut
    \/ RemoveNetwork \/ RemoveNetworkFails \/ RemoveNetworkTimesOut
    \/ Judge

Spec == Init /\ [][Next]_vars

-----------------------------------------------------------------------------
\* Type invariant.
TypeOK ==
    /\ request \in Requests /\ peers \in [Peers -> PeerFrames]
    /\ pc \in {"generate", "screen", "docker", "network", "proxy", "run",
               "remove proxy", "remove network", "judge", "done", "crashed"}
    /\ n \in 1..MaxAttempts
    /\ {draft, accepted} \subseteq Drafts \cup {None}
    /\ DOMAIN report \subseteq Stages
    /\ \A s \in DOMAIN report : report[s] \in {"ok", "fail", "skip"}
    /\ left \subseteq {"network", "proxy", "candidate", "orphan"}
    /\ faults \in 0..MaxFaults

\* With trusted sources that hold the instrument, whoever is silent and
\* whenever, no frame of another instrument, unit, month or adjustment is
\* accepted: cross_check of verify.py, _stage_cross_source and .complete.
RightPeersAcceptRight ==
    (\A p \in Peers : peers[p].kind = "true" /\ peers[p].rows = 3)
    /\ accepted # None /\ request.group = "bars"
    => accepted.frame.kind = "true"

\* What is accepted with days missing was held against no peer that has them:
\* _stage_completeness compares with the fullest peer that answers it, whatever
\* cross_check then hears from the others.
WholeUnlessUnwitnessed ==
    accepted # None /\ request.group = "bars"
    /\ (accepted.frame.rows < 3 \/ "drops" \in accepted.flaws)
    => evidence.reference < 3

\* A whole, right frame is not called wrong by cross_check because one source
\* is, when that source's moves are off too, or its units, or its candles: the
\* other source is asked.  (A stale peer convicts at once.)
OneBadPeerConvictsNobody ==
    \A bad \in Peers :
        /\ pc \in {"judge", "remove proxy"} /\ faults = 0
        /\ "cross_source" \in DOMAIN report
        /\ request.window # "tiny" /\ OutOfReach("cross_source") = {}
        /\ draft.frame = [kind |-> "true", rows |-> 3]
        /\ NPeers > 1 /\ peers[bad].kind # "stale"
        /\ \A p \in Peers \ {bad} : peers[p] = draft.frame
        => report["cross_source"] # "fail"

\* Whatever was built and however the run ended, the proxy of an attempt is gone
\* before the next attempt, or docker was told to remove it and did not: the
\* finally of _contained_egress.  (An orphan may stay beside a complete report.)
ProxyRemoved ==
    pc \in {"generate", "judge", "done", "crashed"} => "proxy" \notin left
=============================================================================
