------------------------------- MODULE Budget --------------------------------
(***************************************************************************)
(* The hourly request budget of one source (qde/loaders/budget.py) as the  *)
(* processes that share its ledger spend it through get_with_requests      *)
(* (qde/loaders/http.py): reserve, count, prune, admit or refuse, request, *)
(* retry.                                                                  *)
(*                                                                         *)
(* The ledger is a file that is appended to and, when stale lines dominate,*)
(* rewritten beside itself and renamed over.  So names and files are kept  *)
(* apart: a process that opened the ledger before a rename appends to a    *)
(* file no name leads to.  A line is the hour of its stamp.                *)
(***************************************************************************)
EXTENDS Naturals, Sequences, FiniteSets

CONSTANTS
    Procs,        \* processes and containers using the source
    Limit,        \* rate_limit_per_hour
    MaxRetries,   \* attempts of one get_with_requests
    MaxHour,      \* bound: hours that pass
    MaxCharges    \* bound: lines appended per hour

ASSUME BudgetAssumption ==
    /\ IsFiniteSet(Procs)
    /\ Limit \in Nat \ {0}
    /\ MaxRetries \in Nat \ {0}
    /\ MaxHour \in Nat /\ MaxCharges \in Nat

Hours == 0..MaxHour
None == 0

VARIABLES
    hour,      \* the wall clock
    ledger,    \* the file the ledger's name leads to
    tmp,       \* the file the temporary name leads to
    lines,     \* the lines of each file created so far
    pc, window, attempt,  \* per process: where it is, its stamp's hour, its try
    handle,    \* per process: the file it has open
    live,      \* per process: the current lines it counted
    reserved,  \* history: lines ever appended, per hour
    admitted,  \* history: requests let through, per hour of their stamp
    made,      \* history: requests made, per hour of their stamp
    lost       \* history: the most reservations of an hour that a process did
               \*   not find in the ledger when it counted them

names == <<ledger, tmp>>
local == <<window, attempt, handle, live>>
history == <<reserved, admitted, made, lost>>
vars == <<hour, names, lines, pc, local, history>>

-----------------------------------------------------------------------------
Empty == [h \in Hours |-> 0]
Go(p, where) == pc' = [pc EXCEPT ![p] = where]

\* The fetch is over, and its locals are gone.
Leave(p) ==
    /\ Go(p, "idle")
    /\ window' = [window EXCEPT ![p] = 0]
    /\ attempt' = [attempt EXCEPT ![p] = 0]
    /\ handle' = [handle EXCEPT ![p] = None]
    /\ live' = [live EXCEPT ![p] = 0]

Init ==
    /\ hour = 0
    /\ ledger = None /\ tmp = None
    /\ lines = <<>>
    /\ pc = [p \in Procs |-> "idle"]
    /\ window = [p \in Procs |-> 0]
    /\ attempt = [p \in Procs |-> 0]
    /\ handle = [p \in Procs |-> None]
    /\ live = [p \in Procs |-> 0]
    /\ reserved = Empty /\ admitted = Empty /\ made = Empty /\ lost = Empty

Tick ==
    /\ hour < MaxHour
    /\ hour' = hour + 1
    /\ UNCHANGED <<names, lines, pc, local, history>>

\* A fetch begins: get_with_requests enters its loop.
Fetch(p) ==
    /\ pc[p] = "idle"
    /\ Go(p, "charge")
    /\ attempt' = [attempt EXCEPT ![p] = 1]
    /\ UNCHANGED <<hour, names, lines, window, handle, live, history>>

\* consume: the stamp is taken and the ledger opened for appending.
Open(p) ==
    /\ pc[p] = "charge"
    /\ reserved[hour] < MaxCharges
    /\ window' = [window EXCEPT ![p] = hour]
    /\ IF ledger = None
       THEN ledger' = Len(lines) + 1 /\ lines' = Append(lines, <<>>)
       ELSE UNCHANGED <<ledger, lines>>
    /\ handle' = [handle EXCEPT ![p] = ledger']
    /\ Go(p, "append")
    /\ UNCHANGED <<hour, tmp, attempt, live, history>>

\* The reservation: one O_APPEND write to whatever file is open.
Reserve(p) ==
    /\ pc[p] = "append"
    /\ reserved[window[p]] < MaxCharges
    /\ lines' = [lines EXCEPT ![handle[p]] = Append(@, window[p])]
    /\ reserved' = [reserved EXCEPT ![window[p]] = @ + 1]
    /\ handle' = [handle EXCEPT ![p] = None]
    /\ Go(p, "count")
    /\ UNCHANGED <<hour, names, window, attempt, live, admitted, made, lost>>

\* Mutant of LiveLines: lines of every hour count.
AllLines(w) == Len(lines[ledger])

Occurrences(s, w) == {i \in 1..Len(s) : s[i] = w}
LiveLines(w) == Cardinality(Occurrences(lines[ledger], w))

AtLeastOne(n) == IF n = 0 THEN 1 ELSE n
Larger(m, n) == IF m > n THEN m ELSE n

\* _spend_in_window reads the ledger and decides whether to prune it.
Count(p) ==
    /\ pc[p] = "count"
    /\ LET n == LiveLines(window[p]) IN
         /\ live' = [live EXCEPT ![p] = n]
         /\ Go(p, IF Len(lines[ledger]) > 2 * AtLeastOne(n)
                  THEN "truncate" ELSE "decide")
         /\ lost' = [lost EXCEPT ![window[p]] =
                       Larger(@, reserved[window[p]] - n)]
    /\ UNCHANGED <<hour, names, lines, window, attempt, handle, reserved,
                   admitted, made>>

\* tmp.write_text opens the one temporary file of the source, truncating it if
\* another process is using it ...
Truncate(p) ==
    /\ pc[p] = "truncate"
    /\ IF tmp = None
       THEN tmp' = Len(lines) + 1 /\ lines' = Append(lines, <<>>)
       ELSE lines' = [lines EXCEPT ![tmp] = <<>>] /\ UNCHANGED tmp
    /\ handle' = [handle EXCEPT ![p] = tmp']
    /\ Go(p, "fill")
    /\ UNCHANGED <<hour, ledger, window, attempt, live, history>>

\* ... and writes, over its beginning, the live lines read before.
Overwritten(old, n, w) ==
    [i \in 1..n |-> w] \o SubSeq(old, n + 1, Len(old))

Fill(p) ==
    /\ pc[p] = "fill"
    /\ lines' = [lines EXCEPT ![handle[p]] = Overwritten(@, live[p], window[p])]
    /\ handle' = [handle EXCEPT ![p] = None]
    /\ Go(p, "replace")
    /\ UNCHANGED <<hour, names, window, attempt, live, history>>

\* os.replace.  If another process has renamed the temporary file already, it
\* raises FileNotFoundError, which ends the fetch.
Replace(p) ==
    /\ pc[p] = "replace"
    /\ IF tmp = None
       THEN Leave(p) /\ UNCHANGED names
       ELSE /\ Go(p, "decide")
            /\ ledger' = tmp /\ tmp' = None
            /\ UNCHANGED local
    /\ UNCHANGED <<hour, lines, history>>

\* Mutant of Spent: an off-by-one.
SpentOffByOne(p) == live[p] > Limit + 1

Spent(p) == live[p] > Limit

Refuse(p) ==
    /\ pc[p] = "decide"
    /\ Spent(p)
    /\ Leave(p)
    /\ UNCHANGED <<hour, names, lines, history>>

Admit(p) ==
    /\ pc[p] = "decide"
    /\ ~Spent(p)
    /\ Go(p, "request")
    /\ admitted' = [admitted EXCEPT ![window[p]] = @ + 1]
    /\ live' = [live EXCEPT ![p] = 0]
    /\ UNCHANGED <<hour, names, lines, window, attempt, handle, reserved, made,
                   lost>>

\* Mutant of NextTry: a retry is not charged.
RetryUncharged == "request"

NextTry == "charge"

\* Mutant of MayRetry: the attempts are not counted.
AlwaysMayRetry(p) == TRUE

MayRetry(p) == attempt[p] < MaxRetries

\* The request: it succeeds or fails for good, or there is another attempt.
Request(p) ==
    /\ pc[p] = "request"
    /\ made' = [made EXCEPT ![window[p]] = @ + 1]
    /\ \/ Leave(p)
       \/ /\ MayRetry(p)
          /\ attempt' = [attempt EXCEPT ![p] = @ + 1]
          /\ Go(p, NextTry)
          /\ UNCHANGED <<window, handle, live>>
    /\ UNCHANGED <<hour, names, lines, reserved, admitted, lost>>

\* The process is killed; another may start in its place.
Die(p) ==
    /\ pc[p] # "idle"
    /\ Leave(p)
    /\ UNCHANGED <<hour, names, lines, history>>

Consume(p) == \/ Open(p) \/ Reserve(p) \/ Count(p)
              \/ Truncate(p) \/ Fill(p) \/ Replace(p)
              \/ Refuse(p) \/ Admit(p)

Next ==
    \/ Tick
    \/ \E p \in Procs : Fetch(p) \/ Consume(p) \/ Request(p) \/ Die(p)

Spec == Init /\ [][Next]_vars

-----------------------------------------------------------------------------
Files == DOMAIN lines

TypeOK ==
    /\ hour \in Hours
    /\ lines \in Seq(Seq(Hours))
    /\ ledger \in Files \cup {None} /\ tmp \in Files \cup {None}
    /\ pc \in [Procs -> {"idle", "charge", "append", "count", "truncate", "fill",
                         "replace", "decide", "request"}]
    /\ window \in [Procs -> Hours] /\ attempt \in [Procs -> 0..MaxRetries]
    /\ handle \in [Procs -> Files \cup {None}]
    /\ live \in [Procs -> Nat]
    /\ reserved \in [Hours -> Nat] /\ admitted \in [Hours -> Nat]
    /\ made \in [Hours -> Nat] /\ lost \in [Hours -> Nat]

\* What is let through above the allowance of an hour is bounded by the
\* reservations of that hour the ledger had lost when a process counted them:
\* while none is lost, processes that race never exceed it (budget.py:20-24).
OverspendIsLost == \A w \in Hours : admitted[w] <= Limit + lost[w]

\* A request is refused only if more than the allowance really was reserved in
\* its hour: stale lines, prunes and kills never use allowance up
\* (budget.py:15-18).
RefusedOnlyWhenSpent ==
    [][\A p \in Procs : Refuse(p) => reserved[window[p]] > Limit]_vars

\* "a request that is made is a request that was counted", retries included
\* (http.py:48-50).
EveryAttemptCharged == \A w \in Hours : made[w] <= reserved[w]
=============================================================================
