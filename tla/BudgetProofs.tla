---------------------------- MODULE BudgetProofs ----------------------------
(***************************************************************************)
(* What holds of the request budget for any number of processes, any       *)
(* allowance and any number of attempts: it is overspent only by the       *)
(* reservations the prunes lost, it refuses only what is really spent,     *)
(* and every request was charged.                                          *)
(*                                                                         *)
(* A process decides on the lines it counted, in a file that others        *)
(* append to, truncate and replace meanwhile. LinesInv bounds what any     *)
(* file, and any prune under way, may show of an hour by what was          *)
(* reserved in it; SpendInv bounds what was let through together with      *)
(* the processes that hold a count but have not decided: a reservation     *)
(* is theirs alone, and those that will be let through are no more than    *)
(* the allowance and what the ledger had lost when they counted.           *)
(***************************************************************************)
EXTENDS Budget, TLAPS, FiniteSetTheorems

-----------------------------------------------------------------------------
(* The lines of a file.                                                    *)

\* The lines of hour w beyond the first k of a file.
After(s, k, w) == {i \in 1..Len(s) : i > k /\ s[i] = w}

\* The lines of an hour in a file are finitely many.
LEMMA AfterIs ==
  ASSUME NEW s \in Seq(Hours), NEW k \in Nat, NEW w
  PROVE  /\ IsFiniteSet(After(s, k, w))
         /\ Cardinality(After(s, k, w)) \in Nat
<1>1. Len(s) \in Nat /\ After(s, k, w) \subseteq 1..Len(s)
  BY DEF After
<1>2. IsFiniteSet(1..Len(s))
  BY <1>1, FS_Interval
<1>3. IsFiniteSet(After(s, k, w))
  BY <1>1, <1>2, FS_Subset
<1> QED
  BY <1>3, FS_CardinalityType

\* A line appended adds at most itself, and only to its hour.
LEMMA AppendedIs ==
  ASSUME NEW s \in Seq(Hours), NEW h \in Hours, NEW k \in Nat, NEW w \in Hours
  PROVE  /\ Append(s, h) \in Seq(Hours)
         /\ h # w => Cardinality(After(Append(s, h), k, w)) = Cardinality(After(s, k, w))
         /\ Cardinality(After(Append(s, h), k, w)) <= Cardinality(After(s, k, w)) + 1
<1> DEFINE t == Append(s, h)
           new == Len(s) + 1
<1>1. /\ t \in Seq(Hours) /\ Len(t) = new /\ Len(s) \in Nat
      /\ t[new] = h /\ \A i \in 1..Len(s) : t[i] = s[i]
  OBVIOUS
<1>2. 1..new = (1..Len(s)) \cup {new} /\ new \notin 1..Len(s)
  BY <1>1
<1> HIDE DEF t, new
<1>3. After(t, k, w) = After(s, k, w) \/ (h = w /\ After(t, k, w) = After(s, k, w) \cup {new})
  <2>1. CASE h = w /\ new > k
    BY <1>1, <1>2, <2>1 DEF After
  <2>2. CASE ~(h = w /\ new > k)
    BY <1>1, <1>2, <2>2 DEF After
  <2> QED
    BY <2>1, <2>2
<1>4. IsFiniteSet(After(s, k, w)) /\ Cardinality(After(s, k, w)) \in Nat
  BY AfterIs
<1>5. Cardinality(After(s, k, w) \cup {new}) <= Cardinality(After(s, k, w)) + 1
  <2> DEFINE S == After(s, k, w)
  <2>1. IsFiniteSet(S) /\ Cardinality(S) \in Nat
    BY <1>4
  <2> HIDE DEF S
  <2>2. Cardinality(S \cup {new}) = IF new \in S THEN Cardinality(S) ELSE Cardinality(S) + 1
    BY <2>1, FS_AddElement, Zenon
  <2>3. Cardinality(S \cup {new}) <= Cardinality(S) + 1
    BY <2>1, <2>2
  <2> QED
    BY <2>3 DEF S
<1>6. Cardinality(After(s, k, w)) <= Cardinality(After(s, k, w)) + 1
  BY <1>4
<1>7. h # w => Cardinality(After(t, k, w)) = Cardinality(After(s, k, w))
  BY <1>3
<1>8. Cardinality(After(t, k, w)) <= Cardinality(After(s, k, w)) + 1
  BY <1>3, <1>5, <1>6
<1> QED
  BY <1>1, <1>7, <1>8 DEF t

\* A prune writes its lines over the beginning of a file: it adds those of its own
\* hour that reach beyond k, and no line of another hour.
LEMMA OverwrittenIs ==
  ASSUME NEW s \in Seq(Hours), NEW n \in Nat, NEW k \in Nat,
         NEW h \in Hours, NEW w \in Hours
  PROVE  /\ Overwritten(s, n, h) \in Seq(Hours)
         /\ h # w => Cardinality(After(Overwritten(s, n, h), k, w)) <= Cardinality(After(s, k, w))
         /\ k >= n => Cardinality(After(Overwritten(s, n, h), k, w)) = Cardinality(After(s, k, w))
         /\ k < n => Cardinality(After(Overwritten(s, n, h), k, h))
                       = (n - k) + Cardinality(After(s, n, h))
<1> DEFINE a == [i \in 1..n |-> h]
           b == SubSeq(s, n + 1, Len(s))
           t == Overwritten(s, n, h)
<1>1. /\ a \in Seq(Hours) /\ Len(a) = n /\ Len(s) \in Nat
      /\ \A i \in 1..n : a[i] = h
  OBVIOUS
<1>2. /\ b \in Seq(Hours) /\ Len(b) = IF n >= Len(s) THEN 0 ELSE Len(s) - n
      /\ \A i \in 1..Len(b) : b[i] = s[n + i]
  <2>1. \A i \in (n + 1)..Len(s) : s[i] \in Hours
    OBVIOUS
  <2> QED
    BY <1>1, <2>1
<1> HIDE DEF a, b
<1>3. t = a \o b
  BY DEF Overwritten, t, a, b
<1>4. /\ t \in Seq(Hours) /\ Len(t) = Len(a) + Len(b)
      /\ \A i \in 1..Len(t) : t[i] = IF i <= Len(a) THEN a[i] ELSE b[i - Len(a)]
  BY <1>1, <1>2, <1>3
<1> HIDE DEF t
<1>5. /\ Len(t) = IF n >= Len(s) THEN n ELSE Len(s)
      /\ \A i \in 1..Len(t) : i <= n => t[i] = h
  BY <1>1, <1>2, <1>4
<1>6. \A i \in 1..Len(t) : i > n => i \in 1..Len(s) /\ t[i] = s[i]
  <2> SUFFICES ASSUME NEW i \in 1..Len(t), i > n PROVE i \in 1..Len(s) /\ t[i] = s[i]
    OBVIOUS
  <2>1. i \in 1..Len(s) /\ i - n \in 1..Len(b) /\ n + (i - n) = i
    BY <1>1, <1>2, <1>5
  <2> QED
    BY <1>1, <1>2, <1>4, <2>1
<1>7. \A i \in 1..Len(s) : i > n => i \in 1..Len(t) /\ t[i] = s[i]
  BY <1>1, <1>5, <1>6
<1>8. h # w => After(t, k, w) \subseteq After(s, k, w)
  BY <1>1, <1>5, <1>6 DEF After
<1>9. k >= n => After(t, k, w) = After(s, k, w)
  BY <1>1, <1>5, <1>6, <1>7 DEF After
<1>10. k < n => Cardinality(After(t, k, h)) = (n - k) + Cardinality(After(s, n, h))
  <2> SUFFICES ASSUME k < n PROVE Cardinality(After(t, k, h)) = (n - k) + Cardinality(After(s, n, h))
    OBVIOUS
  <2>1. After(t, k, h) = ((k + 1)..n) \cup After(s, n, h)
    BY <1>1, <1>5, <1>6, <1>7 DEF After
  <2>2. ((k + 1)..n) \cap After(s, n, h) = {}
    BY <1>1 DEF After
  <2>3. IsFiniteSet((k + 1)..n) /\ Cardinality((k + 1)..n) = n - k
    <3>1. k + 1 \in Int /\ n \in Int /\ ~(k + 1 > n) /\ n - (k + 1) + 1 = n - k
      OBVIOUS
    <3> HIDE DEF a
    <3> QED
      BY <3>1, FS_Interval
  <2>4. IsFiniteSet(After(s, n, h)) /\ Cardinality(After(s, n, h)) \in Nat
    BY AfterIs
  <2>5. Cardinality({}) = 0
    BY FS_EmptySet
  <2> DEFINE A == (k + 1)..n
             B == After(s, n, h)
  <2>6. /\ IsFiniteSet(A) /\ IsFiniteSet(B) /\ A \cap B = {}
        /\ Cardinality(A) = n - k /\ Cardinality(B) \in Nat
    BY <2>2, <2>3, <2>4
  <2> HIDE DEF A, B
  <2>7. Cardinality(A \cup B) = Cardinality(A) + Cardinality(B) - Cardinality(A \cap B)
    BY <2>6, FS_Union, Zenon
  <2>8. Cardinality(A \cup B) = (n - k) + Cardinality(B)
    <3>1. Cardinality(A \cap B) = 0
      BY <2>5, <2>6, Zenon
    <3> DEFINE c == Cardinality(B)
               e == Cardinality(A \cup B)
    <3>2. c \in Nat /\ e = (n - k) + c - 0
      BY <2>6, <2>7, <3>1, Zenon
    <3> HIDE DEF c, e
    <3>3. e = (n - k) + c
      BY <3>2
    <3> QED
      BY <3>3 DEF c, e
  <2> QED
    BY <2>1, <2>8 DEF A, B
<1>11. h # w => Cardinality(After(t, k, w)) <= Cardinality(After(s, k, w))
  BY <1>8, AfterIs, FS_Subset
<1> QED
  BY <1>4, <1>9, <1>10, <1>11 DEF t

-----------------------------------------------------------------------------
(* The invariant, in parts.                                                *)

\* A file that is written to is there, and so is the ledger once it was opened.
FilesInv ==
    /\ \A p \in Procs : pc[p] \in {"append", "fill"} => handle[p] # None
    /\ \A p \in Procs : pc[p] \notin {"idle", "charge"} => ledger # None

Counted == {"truncate", "fill", "replace", "decide"}

\* No file has more lines of an hour than were reserved in it, none will have when
\* a prune under way writes it, and none was counted.
LinesInv ==
    /\ \A f \in Files : \A w \in Hours : Cardinality(After(lines[f], 0, w)) <= reserved[w]
    /\ \A p \in Procs : pc[p] \in Counted => live[p] <= reserved[window[p]]
    /\ \A p \in Procs : pc[p] = "fill" =>
         live[p] + Cardinality(After(lines[handle[p]], live[p], window[p]))
           <= reserved[window[p]]

\* The processes with a reservation in hour w that is not spent yet, by a decision
\* or by a request, and those that will be let through.
Undecided(w) == {p \in Procs : window[p] = w /\ pc[p] \in Counted \cup {"count"}}
Unspent(w) == {p \in Procs : window[p] = w /\ pc[p] \in Counted \cup {"count", "request"}}
Cleared(w) == {p \in Procs : window[p] = w /\ pc[p] \in Counted /\ live[p] <= Limit}

\* What was let through, with what will or may be, is covered.
SpendInv ==
    \A w \in Hours :
        /\ admitted[w] + Cardinality(Undecided(w)) <= reserved[w]
        /\ made[w] + Cardinality(Unspent(w)) <= reserved[w]
        /\ admitted[w] + Cardinality(Cleared(w)) <= Limit + lost[w]

IInv == TypeOK /\ FilesInv /\ LinesInv /\ SpendInv

-----------------------------------------------------------------------------
(* Types, and the files that are there.                                    *)

\* A file is created empty, beside those there are; they keep their lines.
LEMMA CreatedIs ==
  ASSUME lines \in Seq(Seq(Hours)), lines' = Append(lines, <<>>)
  PROVE  /\ lines' \in Seq(Seq(Hours)) /\ Files' = Files \cup {Len(lines) + 1}
         /\ Len(lines) + 1 \notin Files /\ Len(lines) + 1 # None
         /\ \A f \in Files : lines'[f] = lines[f]
         /\ lines'[Len(lines) + 1] = <<>>
<1>1. <<>> \in Seq(Hours) /\ Len(lines) \in Nat /\ Files = 1..Len(lines)
  BY DEF Files
<1>2. /\ lines' \in Seq(Seq(Hours)) /\ Files' = 1..(Len(lines) + 1)
      /\ \A f \in 1..Len(lines) : lines'[f] = lines[f]
      /\ lines'[Len(lines) + 1] = <<>>
  BY <1>1 DEF Files
<1> QED
  BY <1>1, <1>2 DEF None

\* A file rewritten leaves the others, and every name, alone.
LEMMA RewrittenIs ==
  ASSUME lines \in Seq(Seq(Hours)), NEW f \in Files, NEW s \in Seq(Hours),
         lines' = [lines EXCEPT ![f] = s]
  PROVE  /\ lines' \in Seq(Seq(Hours)) /\ Files' = Files
         /\ lines'[f] = s /\ \A g \in Files : g # f => lines'[g] = lines[g]
BY DEF Files

\* A file that has a name is there.
LEMMA NamedIs ==
  ASSUME TypeOK
  PROVE  /\ \A f \in Files : f \in Nat \ {0} /\ lines[f] \in Seq(Hours)
         /\ ledger # None => ledger \in Files
         /\ tmp # None => tmp \in Files
         /\ \A p \in Procs : handle[p] # None => handle[p] \in Files
BY DEF TypeOK, Files, None

\* Every step keeps the types, and what was appended to or filled a file.
LEMMA TypeStep ==
  ASSUME TypeOK, FilesInv, [Next]_vars
  PROVE  TypeOK' /\ FilesInv'
<1> DEFINE Typed == TypeOK' /\ FilesInv'
<1>1. /\ \A f \in Files : f \in Nat \ {0} /\ lines[f] \in Seq(Hours)
      /\ None \notin Files /\ 0 \in Hours /\ MaxRetries \in Nat \ {0}
      /\ \A n \in 0..MaxRetries : n < MaxRetries => n + 1 \in 0..MaxRetries
      /\ 0 \in 0..MaxRetries /\ 1 \in 0..MaxRetries
      /\ \A h \in Hours : h < MaxHour => h + 1 \in Hours
      /\ \A n \in Nat : n + 1 \in Nat
  BY NamedIs, BudgetAssumption DEF None, Hours
<1>2. CASE UNCHANGED vars
  BY <1>2 DEF vars, names, local, history, TypeOK, FilesInv, Files
<1>3. ASSUME Tick PROVE Typed
  BY <1>1, <1>3 DEF Tick, names, local, history, TypeOK, FilesInv, Files
<1>11. ASSUME NEW p \in Procs, Leave(p), UNCHANGED <<hour, names, lines>>,
              reserved' \in [Hours -> Nat], admitted' \in [Hours -> Nat],
              made' \in [Hours -> Nat], lost' \in [Hours -> Nat]
       PROVE  Typed
  BY <1>1, <1>11 DEF Leave, Go, names, TypeOK, FilesInv, Files
<1>4. ASSUME NEW p \in Procs PROVE
        /\ Fetch(p) => Typed
        /\ Refuse(p) \/ Admit(p) \/ Request(p) \/ Die(p) => Typed
  <2>1. ASSUME Fetch(p) PROVE Typed
    BY <1>1, <2>1 DEF Fetch, Go, names, history, TypeOK, FilesInv, Files
  <2>3. ASSUME Refuse(p) \/ Die(p) PROVE Typed
    BY <1>11, <2>3 DEF Refuse, Die, history, TypeOK
  <2>4. ASSUME Admit(p) PROVE Typed
    BY <1>1, <2>4 DEF Admit, Go, names, TypeOK, FilesInv, Files
  <2>5. ASSUME Request(p) PROVE Typed
    <3>1. /\ reserved' \in [Hours -> Nat] /\ admitted' \in [Hours -> Nat]
          /\ made' \in [Hours -> Nat] /\ lost' \in [Hours -> Nat]
      BY <1>1, <2>5 DEF Request, TypeOK
    <3>2. CASE Leave(p)
      BY <1>11, <2>5, <3>1, <3>2 DEF Request
    <3>3. CASE MayRetry(p) /\ attempt' = [attempt EXCEPT ![p] = @ + 1] /\ Go(p, NextTry)
               /\ UNCHANGED <<window, handle, live>>
      BY <1>1, <2>5, <3>1, <3>3
      DEF Request, Go, NextTry, MayRetry, names, TypeOK, FilesInv, Files
    <3> QED
      BY <2>5, <3>2, <3>3 DEF Request
  <2> QED
    BY <2>1, <2>3, <2>4, <2>5
<1>5. ASSUME NEW p \in Procs, Open(p) PROVE Typed
  <2>1. \/ ledger = None /\ ledger' = Len(lines) + 1 /\ lines' = Append(lines, <<>>)
        \/ ledger # None /\ UNCHANGED <<ledger, lines>>
    BY <1>5 DEF Open
  <2>2. /\ lines' \in Seq(Seq(Hours)) /\ Files \subseteq Files'
        /\ ledger' \in Files' /\ ledger' # None
    BY <1>1, <2>1, CreatedIs, NamedIs DEF TypeOK, Files
  <2> QED
    BY <1>1, <1>5, <2>2 DEF Open, Go, history, TypeOK, FilesInv
<1>6. ASSUME NEW p \in Procs, Reserve(p) PROVE Typed
  <2>1. handle[p] \in Files /\ window[p] \in Hours
    BY <1>6, NamedIs DEF Reserve, FilesInv, TypeOK
  <2>2. Append(lines[handle[p]], window[p]) \in Seq(Hours)
    BY <1>1, <2>1, AppendedIs
  <2>3. lines' \in Seq(Seq(Hours)) /\ Files' = Files
    BY <1>6, <2>1, <2>2, RewrittenIs DEF Reserve, TypeOK
  <2> QED
    BY <1>1, <1>6, <2>3 DEF Reserve, Go, names, TypeOK, FilesInv
<1>7. ASSUME NEW p \in Procs, Count(p) PROVE Typed
  <2>1. window[p] \in Hours /\ ledger \in Files
    BY <1>7, NamedIs DEF Count, FilesInv, TypeOK
  <2> DEFINE n == LiveLines(window[p])
  <2>2. n \in Nat
    <3>1. Occurrences(lines[ledger], window[p]) = After(lines[ledger], 0, window[p])
      BY DEF Occurrences, After
    <3> QED
      BY <1>1, <2>1, <3>1, AfterIs DEF LiveLines
  <2> HIDE DEF n
  <2>3. Larger(lost[window[p]], reserved[window[p]] - n) \in Nat
    BY <2>1, <2>2 DEF Larger, TypeOK
  <2>4. lost' = [lost EXCEPT ![window[p]] = Larger(lost[window[p]], reserved[window[p]] - n)]
    BY <1>7 DEF Count, n
  <2>5. lost' \in [Hours -> Nat]
    BY <2>3, <2>4 DEF TypeOK
  <2>6. live' = [live EXCEPT ![p] = n] /\ (Go(p, "truncate") \/ Go(p, "decide"))
    BY <1>7 DEF Count, n
  <2>7. /\ pc[p] = "count"
        /\ UNCHANGED <<hour, ledger, tmp, lines, window, attempt, handle, reserved,
                       admitted, made>>
    BY <1>7 DEF Count, names
  <2>8. /\ live' \in [Procs -> Nat]
        /\ pc' \in [Procs -> {"idle", "charge", "append", "count", "truncate", "fill",
                               "replace", "decide", "request"}]
        /\ \A q \in Procs : pc'[q] # pc[q] => pc[q] = "count" /\ pc'[q] # "fill"
                                                 /\ pc'[q] # "append"
    BY <2>2, <2>6, <2>7 DEF Go, TypeOK
  <2>9. TypeOK'
    BY <2>5, <2>7, <2>8 DEF TypeOK, Files
  <2>10. FilesInv'
    BY <2>7, <2>8 DEF FilesInv
  <2> QED
    BY <2>9, <2>10
<1>8. ASSUME NEW p \in Procs, Truncate(p) PROVE Typed
  <2>1. \/ tmp = None /\ tmp' = Len(lines) + 1 /\ lines' = Append(lines, <<>>)
        \/ tmp # None /\ lines' = [lines EXCEPT ![tmp] = <<>>] /\ UNCHANGED tmp
    BY <1>8 DEF Truncate
  <2>2. <<>> \in Seq(Hours)
    OBVIOUS
  <2>3. /\ lines' \in Seq(Seq(Hours)) /\ Files \subseteq Files'
        /\ tmp' \in Files' /\ tmp' # None
    <3>1. CASE tmp = None
      BY <1>1, <2>1, <3>1, CreatedIs DEF TypeOK
    <3>2. CASE tmp # None
      <4>1. tmp \in Files /\ lines \in Seq(Seq(Hours)) /\ lines' = [lines EXCEPT ![tmp] = <<>>]
        BY <2>1, <3>2, NamedIs DEF TypeOK
      <4>2. lines' \in Seq(Seq(Hours)) /\ Files' = Files
        BY <2>2, <4>1, RewrittenIs
      <4> QED
        BY <2>1, <3>2, <4>1, <4>2
    <3> QED
      BY <3>1, <3>2
  <2> QED
    BY <1>1, <1>8, <2>3 DEF Truncate, Go, history, TypeOK, FilesInv
<1>9. ASSUME NEW p \in Procs, Fill(p) PROVE Typed
  <2>1. handle[p] \in Files /\ window[p] \in Hours /\ live[p] \in Nat
    BY <1>9, NamedIs DEF Fill, FilesInv, TypeOK
  <2>2. Overwritten(lines[handle[p]], live[p], window[p]) \in Seq(Hours)
    BY <1>1, <2>1, OverwrittenIs
  <2>3. lines' \in Seq(Seq(Hours)) /\ Files' = Files
    BY <1>9, <2>1, <2>2, RewrittenIs DEF Fill, TypeOK
  <2> QED
    BY <1>1, <1>9, <2>3 DEF Fill, Go, names, history, TypeOK, FilesInv
<1>10. ASSUME NEW p \in Procs, Replace(p) PROVE Typed
  <2>1. CASE tmp = None
    BY <1>10, <1>11, <2>1 DEF Replace, history, TypeOK
  <2>2. CASE tmp # None
    BY <1>1, <1>10, <2>2 DEF Replace, Go, local, history, TypeOK, FilesInv, Files
  <2> QED
    BY <2>1, <2>2
<1> QED
  BY <1>2, <1>3, <1>4, <1>5, <1>6, <1>7, <1>8, <1>9, <1>10 DEF Next, Consume

-----------------------------------------------------------------------------
(* The lines of the files.                                                 *)

\* An empty file has no line of any hour.
LEMMA EmptyIs == \A k, w : Cardinality(After(<<>>, k, w)) = 0
<1>1. \A k, w : After(<<>>, k, w) = {}
  BY DEF After
<1> QED
  BY <1>1, FS_EmptySet

\* A step that writes no line and counts none keeps what was counted.
LEMMA LinesKept ==
  ASSUME LinesInv, UNCHANGED <<lines, reserved>>,
         \A q \in Procs : pc'[q] \in Counted =>
           /\ pc[q] \in Counted /\ live'[q] = live[q] /\ window'[q] = window[q]
           /\ pc'[q] = "fill" => pc[q] = "fill" /\ handle'[q] = handle[q]
  PROVE  LinesInv'
<1>1. \A f \in Files' : \A w \in Hours : Cardinality(After(lines'[f], 0, w)) <= reserved'[w]
  BY DEF LinesInv, Files
<1>2. \A q \in Procs : pc'[q] \in Counted => live'[q] <= reserved'[window'[q]]
  BY DEF LinesInv
<1>3. \A q \in Procs : pc'[q] = "fill" =>
        live'[q] + Cardinality(After(lines'[handle'[q]], live'[q], window'[q]))
          <= reserved'[window'[q]]
  BY DEF LinesInv, Counted
<1> QED
  BY <1>1, <1>2, <1>3 DEF LinesInv

\* A step that empties a file, new or not, keeps the others: the process that does
\* goes on to fill it, or to append to it.
LEMMA LinesEmptied ==
  ASSUME TypeOK, FilesInv, LinesInv, NEW g, lines'[g] = <<>>,
         \A f \in Files' : f # g => f \in Files /\ lines'[f] = lines[f],
         NEW p \in Procs, UNCHANGED <<live, reserved>>,
         \A q \in Procs : q # p => pc'[q] = pc[q] /\ handle'[q] = handle[q] /\ window'[q] = window[q],
         pc'[p] = "append" \/ (pc'[p] = "fill" /\ pc[p] \in Counted /\ handle'[p] = g
                               /\ window'[p] = window[p]),
         \A f \in Files : f \in Files'
  PROVE  LinesInv'
<1>1. /\ reserved \in [Hours -> Nat] /\ live \in [Procs -> Nat] /\ window \in [Procs -> Hours]
      /\ \A q \in Procs : pc[q] = "fill" => handle[q] \in Files
  BY NamedIs DEF TypeOK, FilesInv
<1>2. ASSUME NEW f \in Files', NEW w \in Hours
      PROVE  Cardinality(After(lines'[f], 0, w)) <= reserved'[w]
  <2>1. CASE f = g
    <3>1. Cardinality(After(lines'[f], 0, w)) = 0
      BY <2>1, EmptyIs
    <3> QED
      BY <1>1, <3>1
  <2>2. CASE f # g
    BY <1>2, <2>2 DEF LinesInv
  <2> QED
    BY <2>1, <2>2
<1>3. ASSUME NEW q \in Procs, pc'[q] \in Counted PROVE live'[q] <= reserved'[window'[q]]
  BY <1>3 DEF LinesInv, Counted
<1>4. ASSUME NEW q \in Procs, pc'[q] = "fill"
      PROVE  live'[q] + Cardinality(After(lines'[handle'[q]], live'[q], window'[q]))
               <= reserved'[window'[q]]
  <2>1. live'[q] <= reserved'[window'[q]] /\ live'[q] \in Nat
    BY <1>1, <1>3, <1>4 DEF Counted
  <2>2. CASE handle'[q] = g
    <3>1. Cardinality(After(lines'[handle'[q]], live'[q], window'[q])) = 0
      BY <2>2, EmptyIs
    <3> QED
      BY <2>1, <3>1
  <2>3. CASE handle'[q] # g
    <3>1. q # p /\ pc[q] = "fill" /\ handle'[q] = handle[q] /\ window'[q] = window[q]
      BY <1>4, <2>3
    <3>2. lines'[handle[q]] = lines[handle[q]]
      BY <1>1, <2>3, <3>1
    <3> QED
      BY <3>1, <3>2 DEF LinesInv
  <2> QED
    BY <2>2, <2>3
<1> QED
  BY <1>2, <1>3, <1>4 DEF LinesInv

\* A reservation adds one line of its hour, in one file.
LEMMA LinesReserved ==
  ASSUME TypeOK, FilesInv, LinesInv, NEW p \in Procs, Reserve(p)
  PROVE  LinesInv'
<1> DEFINE h == handle[p]
           v == window[p]
<1>1. /\ h \in Files /\ v \in Hours /\ lines[h] \in Seq(Hours)
      /\ reserved \in [Hours -> Nat] /\ live \in [Procs -> Nat] /\ window \in [Procs -> Hours]
      /\ \A q \in Procs : pc[q] = "fill" => handle[q] \in Files
      /\ \A f \in Files : lines[f] \in Seq(Hours)
      /\ lines \in Seq(Seq(Hours))
  BY NamedIs DEF TypeOK, FilesInv, Reserve
<1>2. /\ lines' = [lines EXCEPT ![h] = Append(@, v)]
      /\ reserved' = [reserved EXCEPT ![v] = @ + 1]
      /\ pc' = [pc EXCEPT ![p] = "count"] /\ handle' = [handle EXCEPT ![p] = None]
      /\ UNCHANGED <<window, live>>
  BY DEF Reserve, Go
<1>3. \A w \in Hours : /\ reserved[w] <= reserved'[w]
                       /\ w = v => reserved'[w] = reserved[w] + 1
                       /\ reserved[w] \in Nat /\ reserved'[w] \in Nat
  BY <1>1, <1>2
<1>4. \A q \in Procs : pc'[q] \in Counted =>
        pc[q] = pc'[q] /\ q # p /\ handle'[q] = handle[q]
  BY <1>2 DEF Counted, TypeOK
<1> HIDE DEF h, v
<1>5. /\ Files' = Files /\ lines'[h] = Append(lines[h], v)
      /\ \A f \in Files : f # h => lines'[f] = lines[f]
  <2>1. Append(lines[h], v) \in Seq(Hours)
    BY <1>1, AppendedIs
  <2> QED
    BY <1>1, <1>2, <2>1, RewrittenIs
<1>6. ASSUME NEW f \in Files, NEW k \in Nat, NEW w \in Hours
      PROVE  \/ Cardinality(After(lines'[f], k, w)) = Cardinality(After(lines[f], k, w))
             \/ /\ w = v
                /\ Cardinality(After(lines'[f], k, w)) <= Cardinality(After(lines[f], k, w)) + 1
  <2>1. CASE f # h
    BY <1>5, <2>1
  <2>2. CASE f = h
    <3> DEFINE s == lines[h]
    <3>1. s \in Seq(Hours) /\ v \in Hours
      BY <1>1
    <3>2. lines'[f] = Append(s, v) /\ lines[f] = s
      BY <1>5, <2>2
    <3> HIDE DEF s
    <3>3. /\ v # w => Cardinality(After(Append(s, v), k, w)) = Cardinality(After(s, k, w))
          /\ Cardinality(After(Append(s, v), k, w)) <= Cardinality(After(s, k, w)) + 1
      BY <1>6, <3>1, AppendedIs, Zenon
    <3> QED
      BY <3>2, <3>3
  <2> QED
    BY <2>1, <2>2
<1>7. ASSUME NEW f \in Files, NEW k \in Nat, NEW w \in Hours
      PROVE  /\ Cardinality(After(lines'[f], k, w)) \in Nat
             /\ Cardinality(After(lines[f], k, w)) \in Nat
  <2>1. lines'[f] \in Seq(Hours)
    BY <1>1, <1>5, AppendedIs
  <2> QED
    BY <1>1, <2>1, AfterIs
<1>8. ASSUME NEW f \in Files', NEW w \in Hours
      PROVE  Cardinality(After(lines'[f], 0, w)) <= reserved'[w]
  <2>1. f \in Files /\ 0 \in Nat
    BY <1>5, <1>8
  <2>2. Cardinality(After(lines[f], 0, w)) <= reserved[w]
    BY <2>1 DEF LinesInv
  <2> QED
    BY <1>3, <1>6, <1>7, <2>1, <2>2
<1>9. ASSUME NEW q \in Procs, pc'[q] \in Counted PROVE live'[q] <= reserved'[window'[q]]
  <2>1. live[q] <= reserved[window[q]] /\ window[q] \in Hours /\ live[q] \in Nat
    BY <1>1, <1>4, <1>9 DEF LinesInv
  <2> QED
    BY <1>2, <1>3, <2>1
<1>10. ASSUME NEW q \in Procs, pc'[q] = "fill"
       PROVE  live'[q] + Cardinality(After(lines'[handle'[q]], live'[q], window'[q]))
                <= reserved'[window'[q]]
  <2>1. pc[q] = "fill" /\ handle'[q] = handle[q] /\ handle[q] \in Files
    BY <1>1, <1>4, <1>10 DEF Counted
  <2>2. live[q] + Cardinality(After(lines[handle[q]], live[q], window[q])) <= reserved[window[q]]
    BY <2>1 DEF LinesInv
  <2>3. window[q] \in Hours /\ live[q] \in Nat /\ live'[q] = live[q] /\ window'[q] = window[q]
    BY <1>1, <1>2
  <2> QED
    BY <1>3, <1>6, <1>7, <2>1, <2>2, <2>3
<1> QED
  BY <1>8, <1>9, <1>10 DEF LinesInv

\* A prune writes, of its hour, no more lines than it counted.
LEMMA LinesFilled ==
  ASSUME TypeOK, FilesInv, LinesInv, NEW p \in Procs, Fill(p)
  PROVE  LinesInv'
<1> DEFINE h == handle[p]
           v == window[p]
           n == live[p]
<1>1. /\ h \in Files /\ v \in Hours /\ n \in Nat /\ lines[h] \in Seq(Hours)
      /\ reserved \in [Hours -> Nat] /\ live \in [Procs -> Nat] /\ window \in [Procs -> Hours]
      /\ \A q \in Procs : pc[q] = "fill" => handle[q] \in Files
      /\ \A f \in Files : lines[f] \in Seq(Hours)
      /\ lines \in Seq(Seq(Hours))
  BY NamedIs DEF TypeOK, FilesInv, Fill
<1>2. /\ lines' = [lines EXCEPT ![h] = Overwritten(@, n, v)]
      /\ pc' = [pc EXCEPT ![p] = "replace"] /\ handle' = [handle EXCEPT ![p] = None]
      /\ UNCHANGED <<window, live, reserved>>
  BY DEF Fill, Go, history
<1>3. n + Cardinality(After(lines[h], n, v)) <= reserved[v] /\ n <= reserved[v]
  BY DEF Fill, LinesInv, Counted
<1>4. \A q \in Procs : pc'[q] \in Counted =>
        pc[q] \in Counted /\ (q # p => pc[q] = pc'[q] /\ handle'[q] = handle[q])
  BY <1>2 DEF Counted, TypeOK, Fill
<1>5. pc'[p] = "replace"
  BY <1>2 DEF TypeOK
<1> HIDE DEF h, v, n
<1>6. /\ Files' = Files /\ lines'[h] = Overwritten(lines[h], n, v)
      /\ \A f \in Files : f # h => lines'[f] = lines[f]
  <2>1. Overwritten(lines[h], n, v) \in Seq(Hours)
    BY <1>1, OverwrittenIs
  <2> QED
    BY <1>1, <1>2, <2>1, RewrittenIs
<1>7. ASSUME NEW f \in Files, NEW k \in Nat, NEW w \in Hours
      PROVE  \/ Cardinality(After(lines'[f], k, w)) <= Cardinality(After(lines[f], k, w))
             \/ /\ w = v /\ k < n
                /\ Cardinality(After(lines'[f], k, w)) = (n - k) + Cardinality(After(lines[h], n, v))
  <2>0. Cardinality(After(lines[f], k, w)) \in Nat
    BY <1>1, AfterIs
  <2>1. CASE f # h
    BY <1>6, <2>0, <2>1
  <2>2. CASE f = h
    <3>1. /\ v # w => Cardinality(After(lines'[h], k, w)) <= Cardinality(After(lines[h], k, w))
          /\ k >= n => Cardinality(After(lines'[h], k, w)) = Cardinality(After(lines[h], k, w))
          /\ k < n => Cardinality(After(lines'[h], k, v))
                        = (n - k) + Cardinality(After(lines[h], n, v))
      <4> DEFINE s == lines[h]
      <4>1. s \in Seq(Hours) /\ v \in Hours /\ n \in Nat /\ lines'[h] = Overwritten(s, n, v)
        BY <1>1, <1>6
      <4> HIDE DEF s
      <4>2. /\ v # w => Cardinality(After(Overwritten(s, n, v), k, w)) <= Cardinality(After(s, k, w))
            /\ k >= n => Cardinality(After(Overwritten(s, n, v), k, w)) = Cardinality(After(s, k, w))
            /\ k < n => Cardinality(After(Overwritten(s, n, v), k, v))
                          = (n - k) + Cardinality(After(s, n, v))
        BY <1>7, <4>1, OverwrittenIs, Zenon
      <4> QED
        BY <4>1, <4>2 DEF s
    <3>2. k < n \/ k >= n
      BY <1>1
    <3> QED
      BY <2>0, <2>2, <3>1, <3>2
  <2> QED
    BY <2>1, <2>2
<1>8. ASSUME NEW f \in Files, NEW k \in Nat, NEW w \in Hours
      PROVE  /\ Cardinality(After(lines'[f], k, w)) \in Nat
             /\ Cardinality(After(lines[f], k, w)) \in Nat
  <2>1. lines'[f] \in Seq(Hours)
    <3>1. Overwritten(lines[h], n, v) \in Seq(Hours)
      BY <1>1, OverwrittenIs
    <3> QED
      BY <1>1, <1>6, <1>8, <3>1
  <2> QED
    BY <1>1, <2>1, AfterIs
<1>9. Cardinality(After(lines[h], n, v)) \in Nat /\ \A w \in Hours : reserved[w] \in Nat
  BY <1>1, <1>8
<1>10. ASSUME NEW f \in Files', NEW w \in Hours
      PROVE  Cardinality(After(lines'[f], 0, w)) <= reserved'[w]
  <2>1. f \in Files /\ 0 \in Nat /\ reserved'[w] = reserved[w]
    BY <1>2, <1>6, <1>10
  <2>2. Cardinality(After(lines[f], 0, w)) <= reserved[w]
    BY <2>1 DEF LinesInv
  <2>3. CASE Cardinality(After(lines'[f], 0, w)) <= Cardinality(After(lines[f], 0, w))
    BY <1>8, <1>9, <2>1, <2>2, <2>3
  <2>4. CASE w = v /\ Cardinality(After(lines'[f], 0, w)) = (n - 0) + Cardinality(After(lines[h], n, v))
    BY <1>1, <1>3, <1>9, <2>1, <2>4
  <2> QED
    BY <1>7, <2>1, <2>3, <2>4
<1>11. ASSUME NEW q \in Procs, pc'[q] \in Counted PROVE live'[q] <= reserved'[window'[q]]
  BY <1>2, <1>4, <1>11 DEF LinesInv
<1>12. ASSUME NEW q \in Procs, pc'[q] = "fill"
       PROVE  live'[q] + Cardinality(After(lines'[handle'[q]], live'[q], window'[q]))
                <= reserved'[window'[q]]
  <2>1. pc[q] = "fill" /\ handle'[q] = handle[q] /\ handle[q] \in Files
    BY <1>1, <1>4, <1>5, <1>12 DEF Counted
  <2> DEFINE f == handle[q]
             k == live[q]
             w == window[q]
  <2>2. k + Cardinality(After(lines[f], k, w)) <= reserved[w]
    BY <2>1 DEF LinesInv
  <2>3. w \in Hours /\ k \in Nat /\ f \in Files /\ live'[q] = k /\ window'[q] = w /\ handle'[q] = f
    BY <1>1, <1>2, <2>1
  <2> HIDE DEF f, k, w
  <2>4. CASE Cardinality(After(lines'[f], k, w)) <= Cardinality(After(lines[f], k, w))
    BY <1>2, <1>8, <1>9, <2>2, <2>3, <2>4
  <2>5. CASE /\ w = v /\ k < n
             /\ Cardinality(After(lines'[f], k, w)) = (n - k) + Cardinality(After(lines[h], n, v))
    BY <1>1, <1>2, <1>3, <1>9, <2>3, <2>5
  <2> QED
    BY <1>7, <2>3, <2>4, <2>5
<1> QED
  BY <1>10, <1>11, <1>12 DEF LinesInv

\* Every step keeps the lines of an hour within its reservations.
LEMMA LinesStep ==
  ASSUME TypeOK, FilesInv, LinesInv, [Next]_vars
  PROVE  LinesInv'
<1>1. ASSUME NEW p \in Procs, Leave(p), UNCHANGED <<lines, reserved>> PROVE LinesInv'
  <2>1. \A q \in Procs : pc'[q] \in Counted =>
          /\ pc[q] \in Counted /\ live'[q] = live[q] /\ window'[q] = window[q]
          /\ pc'[q] = "fill" => pc[q] = "fill" /\ handle'[q] = handle[q]
    BY <1>1 DEF Leave, Go, Counted, TypeOK
  <2> QED
    BY <1>1, <2>1, LinesKept
<1>2. CASE UNCHANGED vars \/ Tick
  <2>1. UNCHANGED <<pc, live, window, handle, lines, reserved>>
    BY <1>2 DEF vars, Tick, local, history
  <2> QED
    BY <2>1, LinesKept
<1>3. ASSUME NEW p \in Procs, Fetch(p) \/ Admit(p) \/ Refuse(p) \/ Die(p) \/ Request(p)
      PROVE LinesInv'
  <2>1. CASE Leave(p)
    BY <1>1, <1>3, <2>1 DEF Fetch, Admit, Refuse, Die, Request, history
  <2>2. CASE ~Leave(p)
    <3>1. /\ UNCHANGED <<lines, reserved, window, handle>>
          /\ pc' = [pc EXCEPT ![p] = "charge"] \/ pc' = [pc EXCEPT ![p] = "request"]
          /\ \A q \in Procs : q # p => live'[q] = live[q]
      BY <1>3, <2>2 DEF Fetch, Admit, Refuse, Die, Request, Go, NextTry, history, TypeOK
    <3>2. \A q \in Procs : pc'[q] \in Counted => q # p /\ pc'[q] = pc[q]
      BY <3>1 DEF Counted, TypeOK
    <3> QED
      BY <3>1, <3>2, LinesKept
  <2> QED
    BY <2>1, <2>2
<1>4. ASSUME NEW p \in Procs, Replace(p) PROVE LinesInv'
  <2>1. CASE tmp = None
    BY <1>1, <1>4, <2>1 DEF Replace, history
  <2>2. CASE tmp # None
    <3>1. /\ UNCHANGED <<lines, reserved, window, handle, live>>
          /\ \A q \in Procs : /\ pc'[q] \in Counted => pc[q] \in Counted
                              /\ pc'[q] = "fill" => pc[q] = "fill"
      BY <1>4, <2>2 DEF Replace, Go, Counted, local, history, TypeOK
    <3> QED
      BY <3>1, LinesKept
  <2> QED
    BY <2>1, <2>2
<1>5. ASSUME NEW p \in Procs, Open(p) PROVE LinesInv'
  <2>1. /\ \A q \in Procs : q # p => /\ pc'[q] = pc[q] /\ handle'[q] = handle[q]
                                     /\ window'[q] = window[q]
        /\ pc'[p] = "append" /\ UNCHANGED <<live, reserved>>
    BY <1>5 DEF Open, Go, history, TypeOK
  <2>2. CASE ledger = None
    <3>1. lines' = Append(lines, <<>>) /\ lines \in Seq(Seq(Hours))
      BY <1>5, <2>2 DEF Open, TypeOK
    <3>2. /\ Files' = Files \cup {Len(lines) + 1} /\ lines'[Len(lines) + 1] = <<>>
          /\ \A f \in Files : lines'[f] = lines[f]
      BY <3>1, CreatedIs
    <3> QED
      BY <2>1, <3>2, LinesEmptied
  <2>3. CASE ledger # None
    <3>1. UNCHANGED lines
      BY <1>5, <2>3 DEF Open
    <3>2. \A q \in Procs : pc'[q] \in Counted => q # p
      BY <2>1 DEF Counted
    <3> QED
      BY <2>1, <3>1, <3>2, LinesKept
  <2> QED
    BY <2>2, <2>3
<1>6. ASSUME NEW p \in Procs, Count(p) PROVE LinesInv'
  <2> DEFINE n == LiveLines(window[p])
  <2>1. /\ UNCHANGED <<lines, reserved, window, handle>> /\ live' = [live EXCEPT ![p] = n]
        /\ pc' = [pc EXCEPT ![p] = "truncate"] \/ pc' = [pc EXCEPT ![p] = "decide"]
    BY <1>6 DEF Count, Go
  <2>2. n <= reserved[window[p]]
    <3>1. ledger \in Files /\ window[p] \in Hours
      BY <1>6, NamedIs DEF Count, FilesInv, TypeOK
    <3>2. n = Cardinality(After(lines[ledger], 0, window[p]))
      <4>1. Occurrences(lines[ledger], window[p]) = After(lines[ledger], 0, window[p])
        <5>1. \A i \in 1..Len(lines[ledger]) : i > 0
          BY <3>1, NamedIs
        <5> QED
          BY <5>1 DEF Occurrences, After
      <4> QED
        BY <4>1 DEF LiveLines
    <3> QED
      BY <3>1, <3>2 DEF LinesInv
  <2> HIDE DEF n
  <2>3. \A q \in Procs : q # p => pc'[q] = pc[q] /\ live'[q] = live[q]
    BY <2>1 DEF TypeOK
  <2>4. pc'[p] # "fill" /\ live'[p] = n
    BY <2>1 DEF TypeOK
  <2>5. \A q \in Procs : pc'[q] \in Counted => live'[q] <= reserved'[window'[q]]
    BY <2>1, <2>2, <2>3, <2>4 DEF LinesInv
  <2>6. \A q \in Procs : pc'[q] = "fill" =>
          live'[q] + Cardinality(After(lines'[handle'[q]], live'[q], window'[q]))
            <= reserved'[window'[q]]
    BY <2>1, <2>3, <2>4 DEF LinesInv
  <2>7. \A f \in Files' : \A w \in Hours : Cardinality(After(lines'[f], 0, w)) <= reserved'[w]
    BY <2>1 DEF LinesInv, Files
  <2> QED
    BY <2>5, <2>6, <2>7 DEF LinesInv
<1>7. ASSUME NEW p \in Procs, Truncate(p) PROVE LinesInv'
  <2>1. /\ \A q \in Procs : q # p => pc'[q] = pc[q] /\ handle'[q] = handle[q]
        /\ pc'[p] = "fill" /\ pc[p] \in Counted /\ handle'[p] = tmp'
        /\ UNCHANGED <<live, reserved, window>>
    BY <1>7 DEF Truncate, Go, history, TypeOK, Counted
  <2>2. lines'[tmp'] = <<>> /\ \A f \in Files' : f # tmp' => f \in Files /\ lines'[f] = lines[f]
    <3>1. CASE tmp = None
      <4>1. lines' = Append(lines, <<>>) /\ lines \in Seq(Seq(Hours)) /\ tmp' = Len(lines) + 1
        BY <1>7, <3>1 DEF Truncate, TypeOK
      <4> QED
        BY <4>1, CreatedIs
    <3>2. CASE tmp # None
      <4>1. /\ lines' = [lines EXCEPT ![tmp] = <<>>] /\ lines \in Seq(Seq(Hours))
            /\ tmp' = tmp /\ tmp \in Files /\ <<>> \in Seq(Hours)
        BY <1>7, <3>2, NamedIs DEF Truncate, TypeOK
      <4>2. Files' = Files /\ lines'[tmp] = <<>> /\ \A g \in Files : g # tmp => lines'[g] = lines[g]
        BY <4>1, RewrittenIs
      <4> QED
        BY <4>1, <4>2
    <3> QED
      BY <3>1, <3>2
  <2>3. \A f \in Files : f \in Files'
    <3>1. CASE tmp = None
      <4>1. lines' = Append(lines, <<>>) /\ lines \in Seq(Seq(Hours))
        BY <1>7, <3>1 DEF Truncate, TypeOK
      <4> QED
        BY <4>1, CreatedIs
    <3>2. CASE tmp # None
      <4>1. /\ lines' = [lines EXCEPT ![tmp] = <<>>] /\ lines \in Seq(Seq(Hours))
            /\ tmp \in Files /\ <<>> \in Seq(Hours)
        BY <1>7, <3>2, NamedIs DEF Truncate, TypeOK
      <4> QED
        BY <4>1, RewrittenIs
    <3> QED
      BY <3>1, <3>2
  <2> QED
    BY <2>1, <2>2, <2>3, LinesEmptied
<1> QED
  BY <1>2, <1>3, <1>4, <1>5, <1>6, <1>7, LinesReserved, LinesFilled DEF Next, Consume

-----------------------------------------------------------------------------
(* What is let through and made.                                           *)

\* Sets of processes are finite: one that is part of another is no larger, one
\* that gains a process grows by one at most, and one that loses it shrinks.
LEMMA Counts ==
  ASSUME NEW S \in SUBSET Procs, NEW T \in SUBSET Procs, NEW p
  PROVE  /\ Cardinality(S) \in Nat /\ Cardinality(T) \in Nat
         /\ T \subseteq S => Cardinality(T) <= Cardinality(S)
         /\ T \subseteq S \cup {p} => Cardinality(T) <= Cardinality(S) + 1
         /\ p \in S /\ T \subseteq S \ {p} => Cardinality(T) + 1 <= Cardinality(S)
<1>1. IsFiniteSet(S) /\ IsFiniteSet(T)
  BY BudgetAssumption, FS_Subset
<1>2. Cardinality(S) \in Nat /\ Cardinality(T) \in Nat
  BY <1>1, FS_CardinalityType
<1>3. T \subseteq S => Cardinality(T) <= Cardinality(S)
  BY <1>1, FS_Subset
<1>4. IsFiniteSet(S \cup {p}) /\ IsFiniteSet(S \ {p})
  BY <1>1, FS_AddElement, FS_RemoveElement
<1>5. ASSUME T \subseteq S \cup {p} PROVE Cardinality(T) <= Cardinality(S) + 1
  <2> DEFINE a == Cardinality(S \cup {p})
             b == Cardinality(S)
             c == Cardinality(T)
  <2>1. c <= a
    BY <1>4, <1>5, FS_Subset, Zenon
  <2>2. a = IF p \in S THEN b ELSE b + 1
    BY <1>1, FS_AddElement, Zenon
  <2>3. b \in Nat /\ c \in Nat
    BY <1>2
  <2> HIDE DEF a, b, c
  <2>4. c <= b + 1
    BY <2>1, <2>2, <2>3
  <2> QED
    BY <2>4 DEF b, c
<1>6. ASSUME p \in S, T \subseteq S \ {p} PROVE Cardinality(T) + 1 <= Cardinality(S)
  <2> DEFINE a == Cardinality(S \ {p})
             b == Cardinality(S)
             c == Cardinality(T)
  <2>1. c <= a
    BY <1>4, <1>6, FS_Subset, Zenon
  <2>2. a = b - 1
    BY <1>1, <1>6, FS_RemoveElement, Zenon
  <2>3. b \in Nat /\ c \in Nat
    BY <1>2
  <2> HIDE DEF a, b, c
  <2>4. c + 1 <= b
    BY <2>1, <2>2, <2>3
  <2> QED
    BY <2>4 DEF b, c
<1> QED
  BY <1>2, <1>3, <1>5, <1>6

\* What a step leaves of the counts of an hour, by what it does to the processes.
LEMMA SpendAt ==
  ASSUME NEW w \in Hours, TypeOK, TypeOK', SpendInv
  PROVE  /\ admitted[w] \in Nat /\ made[w] \in Nat /\ reserved[w] \in Nat /\ lost[w] \in Nat
         /\ admitted'[w] \in Nat /\ made'[w] \in Nat /\ reserved'[w] \in Nat /\ lost'[w] \in Nat
         /\ Limit \in Nat
         /\ Undecided(w) \in SUBSET Procs /\ Unspent(w) \in SUBSET Procs /\ Cleared(w) \in SUBSET Procs
         /\ Undecided(w)' \in SUBSET Procs /\ Unspent(w)' \in SUBSET Procs
         /\ Cleared(w)' \in SUBSET Procs
         /\ admitted[w] + Cardinality(Undecided(w)) <= reserved[w]
         /\ made[w] + Cardinality(Unspent(w)) <= reserved[w]
         /\ admitted[w] + Cardinality(Cleared(w)) <= Limit + lost[w]
<1>1. /\ admitted[w] \in Nat /\ made[w] \in Nat /\ reserved[w] \in Nat /\ lost[w] \in Nat
      /\ admitted'[w] \in Nat /\ made'[w] \in Nat /\ reserved'[w] \in Nat /\ lost'[w] \in Nat
  BY DEF TypeOK, Hours
<1> QED
  BY <1>1, BudgetAssumption DEF SpendInv, Undecided, Unspent, Cleared

\* A step in which no process comes to hold a reservation.
LEMMA SpendKept ==
  ASSUME TypeOK, TypeOK', SpendInv, UNCHANGED <<admitted, made, reserved, lost>>,
         \A q \in Procs : pc'[q] \in Counted \cup {"count", "request"} =>
           /\ window'[q] = window[q]
           /\ pc[q] \in Counted \cup {"count", "request"}
           /\ pc'[q] # "request" => pc[q] # "request"
           /\ pc'[q] \in Counted => pc[q] \in Counted /\ live'[q] = live[q]
  PROVE  SpendInv'
<1>s. SUFFICES ASSUME NEW w \in Hours
               PROVE  /\ admitted'[w] + Cardinality(Undecided(w)') <= reserved'[w]
                      /\ made'[w] + Cardinality(Unspent(w)') <= reserved'[w]
                      /\ admitted'[w] + Cardinality(Cleared(w)') <= Limit + lost'[w]
  BY DEF SpendInv
<1>1. /\ Undecided(w)' \subseteq Undecided(w) /\ Unspent(w)' \subseteq Unspent(w)
      /\ Cleared(w)' \subseteq Cleared(w)
  BY DEF Undecided, Unspent, Cleared, Counted
<1> DEFINE u == Cardinality(Undecided(w))
           v == Cardinality(Unspent(w))
           c == Cardinality(Cleared(w))
           uu == Cardinality(Undecided(w)')
           vv == Cardinality(Unspent(w)')
           cc == Cardinality(Cleared(w)')
<1>2. /\ uu <= u /\ vv <= v /\ cc <= c
      /\ u \in Nat /\ v \in Nat /\ c \in Nat /\ uu \in Nat /\ vv \in Nat /\ cc \in Nat
  BY <1>1, SpendAt, Counts
<1>3. /\ admitted[w] + u <= reserved[w] /\ made[w] + v <= reserved[w]
      /\ admitted[w] + c <= Limit + lost[w]
      /\ admitted[w] \in Nat /\ made[w] \in Nat /\ reserved[w] \in Nat /\ lost[w] \in Nat
      /\ Limit \in Nat
  BY SpendAt
<1> HIDE DEF u, v, c, uu, vv, cc
<1>4. admitted'[w] + uu <= reserved'[w] /\ made'[w] + vv <= reserved'[w]
  BY <1>2, <1>3
<1>5. admitted'[w] + cc <= Limit + lost'[w]
  BY <1>2, <1>3
<1> QED
  BY <1>4, <1>5 DEF uu, vv, cc

\* Every step keeps what was let through and made covered.
LEMMA SpendStep ==
  ASSUME TypeOK, TypeOK', FilesInv, LinesInv, SpendInv, [Next]_vars
  PROVE  SpendInv'
<1> DEFINE At(w) == /\ admitted'[w] + Cardinality(Undecided(w)') <= reserved'[w]
                    /\ made'[w] + Cardinality(Unspent(w)') <= reserved'[w]
                    /\ admitted'[w] + Cardinality(Cleared(w)') <= Limit + lost'[w]
<1>1. CASE UNCHANGED vars \/ Tick
  <2>1. UNCHANGED <<pc, window, live, admitted, made, reserved, lost>>
    BY <1>1 DEF vars, Tick, local, history
  <2> QED
    BY <2>1, SpendKept DEF Counted
<1>2. ASSUME NEW p \in Procs, Leave(p), UNCHANGED <<admitted, made, reserved, lost>>
      PROVE  SpendInv'
  <2>1. \A q \in Procs : IF q = p THEN pc'[q] = "idle"
                         ELSE pc'[q] = pc[q] /\ window'[q] = window[q] /\ live'[q] = live[q]
    BY <1>2 DEF Leave, Go, TypeOK
  <2> QED
    BY <1>2, <2>1, SpendKept DEF Counted
<1>3. ASSUME NEW p \in Procs, Fetch(p) \/ Open(p) \/ Refuse(p) \/ Die(p) \/ Truncate(p)
                              \/ Fill(p) \/ Replace(p)
      PROVE  SpendInv'
  <2>1. UNCHANGED <<admitted, made, reserved, lost>>
    BY <1>3 DEF Fetch, Open, Refuse, Die, Truncate, Fill, Replace, history
  <2>2. CASE Leave(p)
    BY <1>2, <2>1, <2>2
  <2>3. CASE ~Leave(p)
    <3>1. \A q \in Procs : q # p => pc'[q] = pc[q] /\ window'[q] = window[q] /\ live'[q] = live[q]
      BY <1>3, <2>3 DEF Fetch, Open, Refuse, Die, Truncate, Fill, Replace, Go, local, TypeOK
    <3>2. \/ pc'[p] \in {"charge", "append"}
          \/ /\ pc[p] \in Counted /\ pc'[p] \in Counted
             /\ window'[p] = window[p] /\ live'[p] = live[p]
      BY <1>3, <2>3
      DEF Fetch, Open, Refuse, Die, Truncate, Fill, Replace, Go, local, TypeOK, Counted
    <3> QED
      BY <2>1, <3>1, <3>2, SpendKept DEF Counted
  <2> QED
    BY <2>2, <2>3
<1>4. ASSUME NEW p \in Procs, Reserve(p), NEW w \in Hours PROVE At(w)
  <2>1. /\ admitted' = admitted /\ made' = made /\ lost' = lost
        /\ reserved'[w] = IF w = window[p] THEN reserved[w] + 1 ELSE reserved[w]
        /\ window' = window /\ live' = live
        /\ \A q \in Procs : pc'[q] = IF q = p THEN "count" ELSE pc[q]
    BY <1>4 DEF Reserve, Go, TypeOK
  <2>2. /\ Undecided(w)' \subseteq Undecided(w) \cup {p}
        /\ Unspent(w)' \subseteq Unspent(w) \cup {p}
        /\ w # window[p] => /\ Undecided(w)' \subseteq Undecided(w)
                            /\ Unspent(w)' \subseteq Unspent(w)
        /\ Cleared(w)' \subseteq Cleared(w)
    BY <2>1 DEF Undecided, Unspent, Cleared, Counted
  <2> DEFINE u == Cardinality(Undecided(w))
             v == Cardinality(Unspent(w))
             c == Cardinality(Cleared(w))
             uu == Cardinality(Undecided(w)')
             vv == Cardinality(Unspent(w)')
             cc == Cardinality(Cleared(w)')
  <2>3. /\ uu <= u + 1 /\ vv <= v + 1 /\ cc <= c
        /\ w # window[p] => uu <= u /\ vv <= v
        /\ u \in Nat /\ v \in Nat /\ c \in Nat /\ uu \in Nat /\ vv \in Nat /\ cc \in Nat
    BY <1>4, <2>2, SpendAt, Counts
  <2>4. /\ admitted[w] + u <= reserved[w] /\ made[w] + v <= reserved[w]
        /\ admitted[w] + c <= Limit + lost[w]
        /\ admitted[w] \in Nat /\ made[w] \in Nat /\ reserved[w] \in Nat /\ lost[w] \in Nat
        /\ Limit \in Nat
    BY <1>4, SpendAt
  <2> HIDE DEF u, v, c, uu, vv, cc
  <2>5. admitted'[w] + uu <= reserved'[w] /\ made'[w] + vv <= reserved'[w]
    BY <2>1, <2>3, <2>4
  <2>6. admitted'[w] + cc <= Limit + lost'[w]
    BY <2>1, <2>3, <2>4
  <2> QED
    BY <2>5, <2>6 DEF uu, vv, cc
<1>5. ASSUME NEW p \in Procs, Count(p), NEW w \in Hours PROVE At(w)
  <2> DEFINE n == LiveLines(window[p])
  <2>1. /\ admitted' = admitted /\ made' = made /\ reserved' = reserved /\ window' = window
        /\ lost'[w] = IF w = window[p] THEN Larger(lost[w], reserved[w] - n) ELSE lost[w]
        /\ \A q \in Procs : live'[q] = IF q = p THEN n ELSE live[q]
        /\ \A q \in Procs : q # p => pc'[q] = pc[q]
        /\ pc[p] = "count" /\ pc'[p] \in Counted
    BY <1>5 DEF Count, Go, TypeOK, Counted
  <2>2. n \in Nat
    BY <1>5 DEF Count, Go, TypeOK
  <2> HIDE DEF n
  <2>3. /\ Undecided(w)' \subseteq Undecided(w) /\ Unspent(w)' \subseteq Unspent(w)
        /\ Cleared(w)' \subseteq Undecided(w)
        /\ (w # window[p] \/ n > Limit) => Cleared(w)' \subseteq Cleared(w)
    <3>1. Undecided(w)' \subseteq Undecided(w) /\ Unspent(w)' \subseteq Unspent(w)
      BY <2>1 DEF Undecided, Unspent, Counted
    <3>2. Cleared(w)' \subseteq Undecided(w)
      BY <2>1 DEF Undecided, Cleared, Counted
    <3>3. ASSUME w # window[p] \/ n > Limit PROVE Cleared(w)' \subseteq Cleared(w)
      <4>1. p \notin Cleared(w)'
        BY <2>1, <2>2, <3>3, BudgetAssumption DEF Cleared
      <4> QED
        BY <2>1, <4>1 DEF Cleared
    <3> QED
      BY <3>1, <3>2, <3>3
  <2> DEFINE u == Cardinality(Undecided(w))
             v == Cardinality(Unspent(w))
             c == Cardinality(Cleared(w))
             uu == Cardinality(Undecided(w)')
             vv == Cardinality(Unspent(w)')
             cc == Cardinality(Cleared(w)')
  <2>4. /\ uu <= u /\ vv <= v /\ cc <= u
        /\ (w # window[p] \/ n > Limit) => cc <= c
        /\ u \in Nat /\ v \in Nat /\ c \in Nat /\ uu \in Nat /\ vv \in Nat /\ cc \in Nat
    BY <1>5, <2>3, SpendAt, Counts
  <2>5. /\ admitted[w] + u <= reserved[w] /\ made[w] + v <= reserved[w]
        /\ admitted[w] + c <= Limit + lost[w]
        /\ admitted[w] \in Nat /\ made[w] \in Nat /\ reserved[w] \in Nat /\ lost[w] \in Nat
        /\ Limit \in Nat
    BY <1>5, SpendAt
  <2> HIDE DEF u, v, c, uu, vv, cc
  <2>6. admitted'[w] + uu <= reserved'[w] /\ made'[w] + vv <= reserved'[w]
    BY <2>1, <2>4, <2>5
  <2>7. admitted'[w] + cc <= Limit + lost'[w]
    <3>1. lost'[w] >= lost[w] /\ (w = window[p] => lost'[w] >= reserved[w] - n) /\ lost'[w] \in Int
      BY <2>1, <2>2, <2>5 DEF Larger
    <3>2. CASE w # window[p] \/ n > Limit
      BY <2>1, <2>4, <2>5, <3>1, <3>2
    <3>3. CASE w = window[p] /\ n <= Limit
      BY <2>1, <2>2, <2>4, <2>5, <3>1, <3>3
    <3> QED
      BY <2>2, <2>5, <3>2, <3>3
  <2> QED
    BY <2>6, <2>7 DEF uu, vv, cc
<1>6. ASSUME NEW p \in Procs, Admit(p), NEW w \in Hours PROVE At(w)
  <2>1. /\ made' = made /\ reserved' = reserved /\ window' = window /\ lost' = lost
        /\ admitted'[w] = IF w = window[p] THEN admitted[w] + 1 ELSE admitted[w]
        /\ \A q \in Procs : q # p => live'[q] = live[q] /\ pc'[q] = pc[q]
        /\ pc[p] = "decide" /\ pc'[p] = "request" /\ ~(live[p] > Limit)
    BY <1>6 DEF Admit, Spent, Go, TypeOK
  <2>2. live[p] <= Limit
    <3>1. live[p] \in Nat
      BY DEF TypeOK
    <3>2. Limit \in Nat
      BY BudgetAssumption
    <3> QED
      BY <2>1, <3>1, <3>2
  <2>3. /\ Undecided(w)' \subseteq Undecided(w) /\ Unspent(w)' \subseteq Unspent(w)
        /\ Cleared(w)' \subseteq Cleared(w)
        /\ w = window[p] => /\ p \in Undecided(w) /\ Undecided(w)' \subseteq Undecided(w) \ {p}
                            /\ p \in Cleared(w) /\ Cleared(w)' \subseteq Cleared(w) \ {p}
    <3>1. Undecided(w)' \subseteq Undecided(w) /\ Unspent(w)' \subseteq Unspent(w)
      BY <2>1 DEF Undecided, Unspent, Counted
    <3>2. p \notin Undecided(w)' /\ p \notin Cleared(w)'
      BY <2>1 DEF Undecided, Cleared, Counted
    <3>3. Cleared(w)' \subseteq Cleared(w)
      BY <2>1, <3>2 DEF Cleared
    <3>4. w = window[p] => p \in Undecided(w) /\ p \in Cleared(w)
      BY <2>1, <2>2 DEF Undecided, Cleared, Counted
    <3> QED
      BY <3>1, <3>2, <3>3, <3>4
  <2> DEFINE u == Cardinality(Undecided(w))
             v == Cardinality(Unspent(w))
             c == Cardinality(Cleared(w))
             uu == Cardinality(Undecided(w)')
             vv == Cardinality(Unspent(w)')
             cc == Cardinality(Cleared(w)')
  <2>4. /\ uu <= u /\ vv <= v /\ cc <= c
        /\ w = window[p] => uu + 1 <= u /\ cc + 1 <= c
        /\ u \in Nat /\ v \in Nat /\ c \in Nat /\ uu \in Nat /\ vv \in Nat /\ cc \in Nat
    BY <1>6, <2>3, SpendAt, Counts
  <2>5. /\ admitted[w] + u <= reserved[w] /\ made[w] + v <= reserved[w]
        /\ admitted[w] + c <= Limit + lost[w]
        /\ admitted[w] \in Nat /\ made[w] \in Nat /\ reserved[w] \in Nat /\ lost[w] \in Nat
        /\ Limit \in Nat
    BY <1>6, SpendAt
  <2> HIDE DEF u, v, c, uu, vv, cc
  <2>6. admitted'[w] + uu <= reserved'[w] /\ made'[w] + vv <= reserved'[w]
    BY <2>1, <2>4, <2>5
  <2>7. admitted'[w] + cc <= Limit + lost'[w]
    BY <2>1, <2>4, <2>5
  <2> QED
    BY <2>6, <2>7 DEF uu, vv, cc
<1>7. ASSUME NEW p \in Procs, Request(p), NEW w \in Hours PROVE At(w)
  <2>1. /\ admitted' = admitted /\ reserved' = reserved /\ lost' = lost
        /\ made'[w] = IF w = window[p] THEN made[w] + 1 ELSE made[w]
        /\ \A q \in Procs : q # p => /\ live'[q] = live[q] /\ pc'[q] = pc[q]
                                     /\ window'[q] = window[q]
        /\ pc[p] = "request" /\ pc'[p] \in {"idle", "charge"}
    BY <1>7 DEF Request, Leave, Go, NextTry, TypeOK
  <2>2. /\ Undecided(w)' \subseteq Undecided(w) /\ Unspent(w)' \subseteq Unspent(w)
        /\ Cleared(w)' \subseteq Cleared(w)
        /\ w = window[p] => p \in Unspent(w) /\ Unspent(w)' \subseteq Unspent(w) \ {p}
    <3>1. p \notin Undecided(w)' /\ p \notin Unspent(w)' /\ p \notin Cleared(w)'
      BY <2>1 DEF Undecided, Unspent, Cleared, Counted
    <3>2. /\ Undecided(w)' \subseteq Undecided(w) /\ Unspent(w)' \subseteq Unspent(w)
          /\ Cleared(w)' \subseteq Cleared(w)
      BY <2>1, <3>1 DEF Undecided, Unspent, Cleared
    <3>3. w = window[p] => p \in Unspent(w)
      BY <2>1 DEF Unspent
    <3> QED
      BY <3>1, <3>2, <3>3
  <2> DEFINE u == Cardinality(Undecided(w))
             v == Cardinality(Unspent(w))
             c == Cardinality(Cleared(w))
             uu == Cardinality(Undecided(w)')
             vv == Cardinality(Unspent(w)')
             cc == Cardinality(Cleared(w)')
  <2>3. /\ uu <= u /\ vv <= v /\ cc <= c
        /\ w = window[p] => vv + 1 <= v
        /\ u \in Nat /\ v \in Nat /\ c \in Nat /\ uu \in Nat /\ vv \in Nat /\ cc \in Nat
    BY <1>7, <2>2, SpendAt, Counts
  <2>4. /\ admitted[w] + u <= reserved[w] /\ made[w] + v <= reserved[w]
        /\ admitted[w] + c <= Limit + lost[w]
        /\ admitted[w] \in Nat /\ made[w] \in Nat /\ reserved[w] \in Nat /\ lost[w] \in Nat
        /\ Limit \in Nat
    BY <1>7, SpendAt
  <2> HIDE DEF u, v, c, uu, vv, cc
  <2>5. admitted'[w] + uu <= reserved'[w] /\ made'[w] + vv <= reserved'[w]
    BY <2>1, <2>3, <2>4
  <2>6. admitted'[w] + cc <= Limit + lost'[w]
    BY <2>1, <2>3, <2>4
  <2> QED
    BY <2>5, <2>6 DEF uu, vv, cc
<1>8. (\A w \in Hours : At(w)) => SpendInv'
  BY DEF SpendInv, Hours
<1> HIDE DEF At
<1> QED
  BY <1>1, <1>3, <1>4, <1>5, <1>6, <1>7, <1>8 DEF Next, Consume

-----------------------------------------------------------------------------
(* The theorems.                                                           *)

\* Before the first fetch there is no file, and nothing is reserved.
LEMMA InitHolds == Init => IInv
<1> SUFFICES ASSUME Init PROVE IInv
  OBVIOUS
<1>0. 0 \in Hours /\ MaxRetries \in Nat /\ Limit \in Nat
  BY BudgetAssumption DEF Hours
<1>1. TypeOK
  <2>1. lines \in Seq(Seq(Hours)) /\ Files = {}
    BY DEF Init, Files
  <2> QED
    BY <1>0, <2>1 DEF Init, TypeOK, Empty
<1>2. \A w \in Hours : reserved[w] = 0 /\ admitted[w] = 0 /\ made[w] = 0 /\ lost[w] = 0
  BY DEF Init, Empty
<1>3. Files = {} /\ \A p \in Procs : pc[p] = "idle"
  BY DEF Init, Files
<1>4. FilesInv /\ LinesInv
  BY <1>3 DEF FilesInv, LinesInv, Counted
<1>5. SpendInv
  <2>1. \A w \in Hours : Undecided(w) = {} /\ Unspent(w) = {} /\ Cleared(w) = {}
    BY <1>3 DEF Undecided, Unspent, Cleared, Counted
  <2> QED
    BY <1>0, <1>2, <2>1, FS_EmptySet DEF SpendInv
<1> QED
  BY <1>1, <1>4, <1>5 DEF IInv

\* The invariant, in every reachable state.
THEOREM Inductive == Spec => []IInv
<1>1. IInv /\ [Next]_vars => IInv'
  <2> SUFFICES ASSUME IInv, [Next]_vars PROVE IInv'
    OBVIOUS
  <2>1. TypeOK /\ FilesInv /\ LinesInv /\ SpendInv
    BY DEF IInv
  <2>2. TypeOK' /\ FilesInv'
    BY <2>1, TypeStep
  <2>3. LinesInv' /\ SpendInv'
    BY <2>1, <2>2, LinesStep, SpendStep
  <2> QED
    BY <2>2, <2>3 DEF IInv
<1> QED
  BY InitHolds, <1>1, PTL DEF Spec

\* Type correctness of the budget: a name leads to a file that is there, and no
\* fetch makes more attempts than it may.
THEOREM TypeCorrect == Spec => []TypeOK
  BY Inductive, PTL DEF IInv

\* However many processes race, an hour is overspent only by the reservations the
\* ledger had lost when one of them counted (consume, _spend_in_window).
THEOREM OverspendIsLostAlways == Spec => []OverspendIsLost
<1>1. IInv => OverspendIsLost
  <2> SUFFICES ASSUME IInv, NEW w \in Hours PROVE admitted[w] <= Limit + lost[w]
    BY DEF OverspendIsLost
  <2> DEFINE c == Cardinality(Cleared(w))
  <2>1. Cleared(w) \in SUBSET Procs
    BY DEF Cleared
  <2>2. c \in Nat
    BY <2>1, Counts
  <2>3. /\ admitted[w] + c <= Limit + lost[w]
        /\ admitted[w] \in Nat /\ lost[w] \in Nat /\ Limit \in Nat
    BY BudgetAssumption DEF IInv, SpendInv, TypeOK
  <2> HIDE DEF c
  <2> QED
    BY <2>2, <2>3
<1> QED
  BY Inductive, <1>1, PTL

\* Every request made, retries included, was charged (get_with_requests).
THEOREM EveryAttemptChargedAlways == Spec => []EveryAttemptCharged
<1>1. IInv => EveryAttemptCharged
  <2> SUFFICES ASSUME IInv, NEW w \in Hours PROVE made[w] <= reserved[w]
    BY DEF EveryAttemptCharged
  <2> DEFINE v == Cardinality(Unspent(w))
  <2>1. Unspent(w) \in SUBSET Procs
    BY DEF Unspent
  <2>2. v \in Nat
    BY <2>1, Counts
  <2>3. made[w] + v <= reserved[w] /\ made[w] \in Nat /\ reserved[w] \in Nat
    BY DEF IInv, SpendInv, TypeOK
  <2> HIDE DEF v
  <2> QED
    BY <2>2, <2>3
<1> QED
  BY Inductive, <1>1, PTL

\* No prune, stale line or kill uses allowance up: a request is refused only if more
\* than the allowance was reserved in its hour (consume).
THEOREM RefusedOnlyWhenSpentAlways == Spec => RefusedOnlyWhenSpent
<1>1. IInv /\ [Next]_vars => [\A p \in Procs : Refuse(p) => reserved[window[p]] > Limit]_vars
  <2> SUFFICES ASSUME IInv, NEW p \in Procs, Refuse(p) PROVE reserved[window[p]] > Limit
    OBVIOUS
  <2>1. live[p] > Limit /\ live[p] <= reserved[window[p]]
    BY DEF IInv, LinesInv, Counted, Refuse, Spent
  <2>2. live[p] \in Nat /\ reserved[window[p]] \in Nat /\ Limit \in Nat
    BY BudgetAssumption DEF IInv, TypeOK
  <2> QED
    BY <2>1, <2>2
<1> QED
  BY Inductive, <1>1, PTL DEF RefusedOnlyWhenSpent, Spec
=============================================================================
