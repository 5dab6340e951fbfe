----------------------------- MODULE ToolsProofs -----------------------------
(***************************************************************************)
(* Theorems about the tools: the files and the task list (Tools), and the  *)
(* processes that run_shell and run_python start (ProcessRunner).  The     *)
(* lemmas come in this order: numbers and recursive functions, texts and   *)
(* lines, the edits, the pages of a reading, the clean-up, the file under  *)
(* its tools, the search, the task list, the listing, the processes.       *)
(***************************************************************************)
EXTENDS Tools, ProcessRunner, FiniteSetTheorems, SequenceTheorems, WellFoundedInduction, TLAPS

\* The least of some numbers.
LEMMA LeastNumber ==
  ASSUME NEW S, S \subseteq Nat, S # {}
  PROVE  \E k \in S : \A j \in S : k <= j
<1> DEFINE Lower == OpToRel(<, Nat)
<1>1. IsWellFoundedOn(Lower, Nat)
  BY NatLessThanWellFounded, Zenon
<1>2. \A j, k \in Nat : j < k => <<j, k>> \in Lower
  BY DEF OpToRel
<1> HIDE DEF Lower
<1>3. PICK k \in S : \A j \in S : ~ (<<j, k>> \in Lower)
  BY <1>1, WFMin
<1>4. ASSUME NEW j \in S PROVE k <= j
  <2>1. j \in Nat /\ k \in Nat
    OBVIOUS
  <2>2. ~ (j < k)
    BY <1>2, <1>3, <2>1
  <2> QED BY <2>1, <2>2
<1> QED BY <1>4

\* Induction over the numbers up to some n.
LEMMA UpTo ==
  ASSUME NEW n \in Nat, NEW Good, 0 \in Good,
         \A m \in 0 .. n - 1 : m \in Good => m + 1 \in Good
  PROVE  0 .. n \subseteq Good
<1> DEFINE Bad == {m \in 0 .. n : m \notin Good}
<1> SUFFICES ASSUME Bad # {} PROVE FALSE
  OBVIOUS
<1>0. Bad \subseteq Nat /\ \A k : k \in Bad <=> k \in 0 .. n /\ k \notin Good
  OBVIOUS
<1> HIDE DEF Bad
<1>1. PICK k \in Bad : \A j \in Bad : k <= j
  BY <1>0, LeastNumber
<1>2. k \in 0 .. n /\ k \notin Good /\ k # 0
  BY <1>0, <1>1
<1>3. k - 1 \in 0 .. n - 1 /\ k - 1 \in 0 .. n /\ ~ (k <= k - 1)
  BY <1>2
<1>4. k - 1 \in Good
  BY <1>0, <1>1, <1>3
<1>5. (k - 1) + 1 = k
  BY <1>2
<1>6. (k - 1) + 1 \in Good
  BY <1>3, <1>4
<1> QED BY <1>2, <1>5, <1>6

\* The greatest of some numbers that have a bound.
LEMMA GreatestNumber ==
  ASSUME NEW n \in Nat, NEW S, S \subseteq 0 .. n, S # {}
  PROVE  \E k \in S : \A j \in S : j <= k
<1> DEFINE T == {n - k : k \in S}
<1>1. T \subseteq Nat /\ T # {}
  <2>1. \A k \in S : n - k \in Nat
    OBVIOUS
  <2> QED BY <2>1
<1>2. PICK m \in T : \A j \in T : m <= j
  <2> HIDE DEF T
  <2> QED BY <1>1, LeastNumber
<1>3. PICK k \in S : m = n - k
  OBVIOUS
<1>4. ASSUME NEW j \in S PROVE j <= k
  <2>1. n - j \in T
    OBVIOUS
  <2>2. m <= n - j
    BY <1>2, <2>1
  <2> QED BY <1>3, <2>2
<1> QED BY <1>4

LEMMA MinIsLeast ==
  ASSUME NEW S, S \subseteq Nat, S # {}
  PROVE  Min(S) \in S /\ \A j \in S : Min(S) <= j
<1>1. \E k \in S : \A j \in S : k <= j
  BY LeastNumber
<1> QED BY <1>1, Zenon DEF Min

LEMMA MaxIsGreatest ==
  ASSUME NEW n \in Nat, NEW S, S \subseteq 0 .. n, S # {}
  PROVE  Max(S) \in S /\ \A j \in S : j <= Max(S)
<1>1. \E k \in S : \A j \in S : k >= j
  BY GreatestNumber
<1> QED BY <1>1 DEF Max

\* Recursion over the numbers up to some n has a solution.
RunOf(f, n, S, a, onward) ==
  /\ f \in [0 .. n -> S]
  /\ f[0] = a /\ \A i \in 1 .. n : f[i] = onward[<<i, f[i - 1]>>]

\* A recursion along 1 .. n has a solution.
LEMMA Recursion ==
  ASSUME NEW n \in Nat, NEW S, NEW a \in S, NEW onward \in [(1 .. n) \X S -> S]
  PROVE  \E f : RunOf(f, n, S, a, onward)
<1> DEFINE IsRun(f, m) == RunOf(f, m, S, a, onward)
           Good == {m \in 0 .. n : \E f : IsRun(f, m)}
<1>1. 0 \in Good
  <2>1. IsRun([i \in 0 .. 0 |-> a], 0)
    BY DEF RunOf
  <2> HIDE DEF IsRun
  <2> QED BY <2>1
<1>2. ASSUME NEW m \in 0 .. n - 1, m \in Good PROVE m + 1 \in Good
  <2>1. PICK f : IsRun(f, m)
    BY <1>2
  <2> DEFINE next == onward[<<m + 1, f[m]>>]
             g == [i \in 0 .. m + 1 |-> IF i <= m THEN f[i] ELSE next]
  <2>2. next \in S /\ m \in Nat
    <3>1. f[m] \in S
      BY <2>1 DEF RunOf
    <3>2. <<m + 1, f[m]>> \in (1 .. n) \X S
      BY <3>1
    <3> QED BY <3>2
  <2>3. ASSUME NEW i \in 0 .. m + 1 PROVE g[i] = IF i <= m THEN f[i] ELSE next
    OBVIOUS
  <2>4. g \in [0 .. m + 1 -> S]
    <3>1. ASSUME NEW i \in 0 .. m + 1 PROVE (IF i <= m THEN f[i] ELSE next) \in S
      BY <2>1, <2>2 DEF RunOf
    <3> HIDE DEF next
    <3> QED BY <3>1
  <2>5. ASSUME NEW i \in 1 .. m + 1 PROVE g[i] = onward[<<i, g[i - 1]>>]
    <3>1. g[i - 1] = f[i - 1]
      BY <2>2, <2>3
    <3>2. CASE i <= m
      <4>1. g[i] = f[i]
        BY <2>3, <3>2
      <4> QED BY <2>1, <2>2, <3>1, <3>2, <4>1 DEF RunOf
    <3>3. CASE i = m + 1
      <4>1. g[i] = next /\ i - 1 = m
        BY <2>2, <2>3, <3>3
      <4> QED BY <3>1, <3>3, <4>1
    <3> QED BY <2>2, <3>2, <3>3
  <2>6. g[0] = a
    BY <2>1, <2>2 DEF RunOf
  <2>7. IsRun(g, m + 1)
    <3> HIDE DEF g
    <3> QED BY <2>4, <2>5, <2>6 DEF RunOf
  <2>8. m + 1 \in 0 .. n
    OBVIOUS
  <2> HIDE DEF IsRun, g
  <2> QED BY <2>7, <2>8
<1> HIDE DEF Good
<1>3. n \in Good
  <2>1. 0 .. n \subseteq Good
    BY <1>1, <1>2, UpTo
  <2> QED BY <2>1
<1>4. PICK f : IsRun(f, n)
  BY <1>3 DEF Good
<1> QED BY <1>4

\* What holds at the beginning of a run, and of every step, holds all along.
LEMMA AllAlong ==
  ASSUME NEW n \in Nat, NEW S, NEW run, run[0] \in S,
         \A i \in 1 .. n : run[i - 1] \in S => run[i] \in S
  PROVE  \A i \in 0 .. n : run[i] \in S
<1> DEFINE Good == {i \in 0 .. n : run[i] \in S}
<1>1. 0 \in Good
  OBVIOUS
<1>2. ASSUME NEW m \in 0 .. n - 1, m \in Good PROVE m + 1 \in Good
  <2>1. m + 1 \in 1 .. n /\ (m + 1) - 1 = m
    OBVIOUS
  <2> QED BY <1>2, <2>1
<1> HIDE DEF Good
<1>3. 0 .. n \subseteq Good
  BY <1>1, <1>2, UpTo
<1> QED BY <1>3 DEF Good

\* The same solution, as a function is written.
Solution(f, n, S, a, onward) ==
  /\ f \in [0 .. n -> S]
  /\ f = [i \in 0 .. n |-> IF i = 0 THEN a ELSE onward[<<i, f[i - 1]>>]]

\* ... and so has the recursive function that states it, which CHOOSEs one.
LEMMA RecursiveFunction ==
  ASSUME NEW n \in Nat, NEW S, NEW a \in S, NEW onward \in [(1 .. n) \X S -> S]
  PROVE  \E f : Solution(f, n, S, a, onward)
<1>1. PICK f : RunOf(f, n, S, a, onward)
  BY Recursion
<1> USE <1>1 DEF RunOf
<1>2. ASSUME NEW i \in 0 .. n PROVE f[i] = IF i = 0 THEN a ELSE onward[<<i, f[i - 1]>>]
  BY <1>1
<1>3. f = [i \in 0 .. n |-> f[i]]
  OBVIOUS
<1> QED BY <1>2, <1>3 DEF Solution

\* Texts, over any set of symbols.
LEMMA SymbolIsText ==
  ASSUME NEW C, NEW c \in C, NEW cr \in Seq(C), NEW lf \in Seq(C)
  PROVE  Symbol(c, cr, lf) \in Seq(C)
  BY DEF Symbol

\* Spelling is what its recursion says, at each symbol.
LEMMA SpellingRun ==
  ASSUME NEW C, NEW t \in Seq(C), NEW cr \in Seq(C), NEW lf \in Seq(C)
  PROVE  /\ Spelling(t, cr, lf)[0] = <<>>
         /\ \A n \in 1 .. Len(t) : Spelling(t, cr, lf)[n] =
              Spelling(t, cr, lf)[n - 1] \o Symbol(t[n], cr, lf)
         /\ \A n \in 0 .. Len(t) : Spelling(t, cr, lf)[n] \in Seq(C)
<1> DEFINE Text == Seq(C)
           N == Len(t)
           start == <<>>
           sym == [n \in 1 .. N |-> Symbol(t[n], cr, lf)]
           onward == [p \in (1 .. N) \X Text |-> p[2] \o sym[p[1]]]
           IsRun(f) == f = [n \in 0 .. N |->
                              IF n = 0 THEN start ELSE f[n - 1] \o Symbol(t[n], cr, lf)]
           run == Spelling(t, cr, lf)
<1>a. N \in Nat /\ start \in Text /\ \A x, y \in Text : x \o y \in Text
  OBVIOUS
<1>b. ASSUME NEW n \in 1 .. N PROVE sym[n] = Symbol(t[n], cr, lf) /\ sym[n] \in Text
  <2>1. t[n] \in C
    OBVIOUS
  <2> QED BY <2>1, SymbolIsText
<1> SUFFICES /\ run[0] = start
             /\ \A n \in 1 .. N : run[n] = run[n - 1] \o Symbol(t[n], cr, lf)
             /\ \A n \in 0 .. N : run[n] \in Text
  BY Zenon
<1>1. onward \in [(1 .. N) \X Text -> Text]
  <2> HIDE DEF Text, N, sym
  <2> QED BY <1>a, <1>b
<1>2. \A n \in 1 .. N, x \in Text : onward[<<n, x>>] = x \o sym[n]
  <2> HIDE DEF Text, N, sym
  <2> QED OBVIOUS
<1>3. IsRun(run)
  <2> HIDE DEF Text, N, sym, onward, start
  <2>1. PICK f : Solution(f, N, Text, start, onward)
    BY <1>a, <1>1, RecursiveFunction
  <2> USE <2>1 DEF Solution
  <2>2. ASSUME NEW n \in 0 .. N, n # 0
        PROVE  onward[<<n, f[n - 1]>>] = f[n - 1] \o Symbol(t[n], cr, lf)
    <3>1. n \in 1 .. N /\ f[n - 1] \in Text
      BY <1>a, <2>2
    <3> QED BY <1>b, <1>2, <3>1
  <2>3. IsRun(f)
    BY <2>1, <2>2
  <2> QED BY <2>3, Zenon DEF Spelling, N, start
<1> HIDE DEF run, N, Text, start, sym
<1>7. run[0] = start
  BY <1>3, <1>a
<1>8. ASSUME NEW n \in 1 .. N PROVE run[n] = run[n - 1] \o Symbol(t[n], cr, lf)
  <2>1. n \in 0 .. N /\ n # 0
    BY <1>a
  <2> QED BY <1>3, <2>1
<1>9. \A n \in 0 .. N : run[n] \in Text
  <2>1. ASSUME NEW n \in 1 .. N, run[n - 1] \in Text PROVE run[n] \in Text
    BY <1>a, <1>b, <1>8, <2>1
  <2> QED BY <1>a, <1>7, <2>1, AllAlong
<1> QED BY <1>7, <1>8, <1>9

\* Lines.
LEMMA ChoppedIsText ==
  ASSUME NEW C, NEW l \in Seq(C) PROVE Chopped(l) \in Seq(C)
<1>1. CASE l # <<>> /\ l[Len(l)] = CR
  <2>1. 1 \in Nat /\ Len(l) - 1 \in 0 .. Len(l) - 1 /\ Len(l) # 0
    BY <1>1
  <2>2. SubSeq(l, 1, Len(l) - 1) \in Seq(C)
    BY <2>1
  <2> QED BY <1>1, <2>2 DEF Chopped
<1>2. CASE ~ (l # <<>> /\ l[Len(l)] = CR)
  BY <1>2 DEF Chopped
<1> QED BY <1>1, <1>2

Acc(C) == [done : Seq(Seq(C)), line : Seq(C)]

\* One symbol more: still lines done and a line begun.
LEMMA NextSymbolIsAcc ==
  ASSUME NEW C, NEW c \in C, NEW acc \in Acc(C)
  PROVE  NextSymbol(acc, c) \in Acc(C)
<1> DEFINE T == Seq(C)
           lines == acc.done
           line == acc.line
<1>1. lines \in Seq(T) /\ line \in T
  BY DEF Acc
<1>2. Chopped(line) \in T /\ Append(line, c) \in T /\ <<>> \in T
  BY <1>1, ChoppedIsText
<1>3. Append(lines, Chopped(line)) \in Seq(T)
  <2> HIDE DEF T, lines
  <2> QED BY <1>1, <1>2
<1>4. CASE c = LF
  <2>1. NextSymbol(acc, c) = [done |-> Append(lines, Chopped(line)), line |-> <<>>]
    BY <1>4 DEF NextSymbol
  <2> HIDE DEF lines, line, T
  <2> QED BY <1>2, <1>3, <2>1 DEF Acc, T
<1>5. CASE c # LF
  <2>1. NextSymbol(acc, c) = [done |-> lines, line |-> Append(line, c)]
    BY <1>5 DEF NextSymbol, Acc
  <2> HIDE DEF lines, line, T
  <2> QED BY <1>1, <1>2, <2>1 DEF Acc, T
<1> QED BY <1>4, <1>5

\* So is Split.
LEMMA SplitRun ==
  ASSUME NEW C, NEW t \in Seq(C)
  PROVE  /\ Split(t)[0] = [done |-> <<>>, line |-> <<>>]
         /\ \A n \in 1 .. Len(t) : Split(t)[n] = NextSymbol(Split(t)[n - 1], t[n])
         /\ \A n \in 0 .. Len(t) : Split(t)[n] \in Acc(C)
<1> DEFINE A == Acc(C)
           N == Len(t)
           start == [done |-> <<>>, line |-> <<>>]
           onward == [p \in (1 .. N) \X A |-> NextSymbol(p[2], t[p[1]])]
           IsRun(f) == f = [n \in 0 .. N |-> IF n = 0 THEN start ELSE NextSymbol(f[n - 1], t[n])]
           run == Split(t)
<1>a. N \in Nat /\ start \in A
  <2>1. <<>> \in Seq(C) /\ <<>> \in Seq(Seq(C))
    OBVIOUS
  <2> QED BY <2>1 DEF Acc
<1>b. ASSUME NEW n \in 1 .. N, NEW x \in A PROVE NextSymbol(x, t[n]) \in A
  <2>1. t[n] \in C
    OBVIOUS
  <2> QED BY <2>1, NextSymbolIsAcc
<1> SUFFICES /\ run[0] = start
             /\ \A n \in 1 .. N : run[n] = NextSymbol(run[n - 1], t[n])
             /\ \A n \in 0 .. N : run[n] \in A
  BY Zenon
<1>1. onward \in [(1 .. N) \X A -> A]
  <2> HIDE DEF A, N
  <2> QED BY <1>a, <1>b
<1>2. \A n \in 1 .. N, x \in A : onward[<<n, x>>] = NextSymbol(x, t[n])
  <2> HIDE DEF A, N
  <2> QED OBVIOUS
<1>3. IsRun(run)
  <2> HIDE DEF A, N, onward, start
  <2>1. PICK f : Solution(f, N, A, start, onward)
    BY <1>a, <1>1, RecursiveFunction
  <2> USE <2>1 DEF Solution
  <2>2. ASSUME NEW n \in 0 .. N, n # 0
        PROVE  onward[<<n, f[n - 1]>>] = NextSymbol(f[n - 1], t[n])
    <3>1. n \in 1 .. N /\ f[n - 1] \in A
      BY <1>a, <2>2
    <3> QED BY <1>2, <3>1
  <2>3. IsRun(f)
    BY <2>1, <2>2
  <2> QED BY <2>3, Zenon DEF Split, N, start
<1> HIDE DEF run, N, A, start
<1>7. run[0] = start
  BY <1>3, <1>a
<1>8. ASSUME NEW n \in 1 .. N PROVE run[n] = NextSymbol(run[n - 1], t[n])
  <2>1. n \in 0 .. N /\ n # 0
    BY <1>a
  <2> QED BY <1>3, <2>1
<1>9. \A n \in 0 .. N : run[n] \in A
  <2>1. ASSUME NEW n \in 1 .. N, run[n - 1] \in A PROVE run[n] \in A
    BY <1>a, <1>b, <1>8, <2>1
  <2> QED BY <1>a, <1>7, <2>1, AllAlong
<1> QED BY <1>7, <1>8, <1>9

\* The lines of a text are texts.
LEMMA LinesAreTexts ==
  ASSUME NEW C, NEW t \in Seq(C) PROVE Lines(t) \in Seq(Seq(C))
<1> DEFINE end == Split(t)[Len(t)]
           T == Seq(C)
<1>1. end \in Acc(C)
  <2>1. Len(t) \in 0 .. Len(t)
    OBVIOUS
  <2> QED BY <2>1, SplitRun
<1> HIDE DEF end
<1>2. end.done \in Seq(T) /\ end.line \in T /\ Chopped(end.line) \in T
  BY <1>1, ChoppedIsText DEF Acc
<1> HIDE DEF T
<1>3. Append(end.done, Chopped(end.line)) \in Seq(T)
  BY <1>2
<1>4. (IF end.line = <<>> THEN end.done ELSE Append(end.done, Chopped(end.line))) \in Seq(T)
  BY <1>2, <1>3
<1> QED BY <1>4, Zenon DEF Lines, end, T

\* What is left of a sequence without its end is a beginning of it.
LEMMA WithoutEndIs ==
  ASSUME NEW E, NEW s \in Seq(E), NEW D
  PROVE  \E n \in 0 .. Len(s) :
           /\ WithoutEnd(s, D) = SubSeq(s, 1, n)
           /\ n > 0 => s[n] \notin D
           /\ \A k \in n + 1 .. Len(s) : s[k] \in D
<1> DEFINE N == Len(s)
           K == {0} \cup {k \in DOMAIN s : s[k] \notin D}
<1>1. N \in Nat /\ DOMAIN s = 1 .. N
  OBVIOUS
<1> HIDE DEF N
<1>2. K \subseteq 0 .. N /\ K # {} /\ \A k \in 1 .. N : k \in K <=> s[k] \notin D
  BY <1>1
<1> HIDE DEF K
<1>3. Max(K) \in K /\ \A j \in K : j <= Max(K)
  BY <1>1, <1>2, MaxIsGreatest
<1> DEFINE m == Max(K)
<1>4. WithoutEnd(s, D) = SubSeq(s, 1, m)
  BY DEF WithoutEnd, K
<1> HIDE DEF m
<1>5. m \in 0 .. N /\ m \in K /\ \A j \in K : j <= m
  BY <1>2, <1>3 DEF m
<1>6. m > 0 => s[m] \notin D
  BY <1>1, <1>2, <1>5
<1>7. \A k \in m + 1 .. N : s[k] \in D
  <2> SUFFICES ASSUME NEW k \in m + 1 .. N, s[k] \notin D PROVE FALSE
    OBVIOUS
  <2>1. k \in 1 .. N /\ ~ (k <= m)
    BY <1>1, <1>5
  <2> QED BY <1>2, <1>5, <2>1
<1> QED BY <1>4, <1>5, <1>6, <1>7 DEF N

LEMMA FrontIsText ==
  ASSUME NEW E, NEW s \in Seq(E), NEW n \in 0 .. Len(s)
  PROVE  /\ SubSeq(s, 1, n) \in Seq(E)
         /\ Len(SubSeq(s, 1, n)) = n
         /\ \A i \in 1 .. n : SubSeq(s, 1, n)[i] = s[i]
  OBVIOUS

LEMMA WithoutEndIsText ==
  ASSUME NEW E, NEW s \in Seq(E), NEW D
  PROVE  WithoutEnd(s, D) \in Seq(E)
<1>1. PICK n \in 0 .. Len(s) : WithoutEnd(s, D) = SubSeq(s, 1, n)
  BY WithoutEndIs
<1> QED BY <1>1, FrontIsText

\* Reading the lines' ends in one way.
LEMMA NormalizingRun ==
  ASSUME NEW C, NEW t \in Seq(C)
  PROVE  /\ Normalizing(t)[0] = <<>>
         /\ \A n \in 1 .. Len(t) :
              Normalizing(t)[n] = IF t[n] = CR /\ n < Len(t) /\ t[n + 1] = LF THEN Normalizing(t)[n - 1]
                          ELSE Append(Normalizing(t)[n - 1], t[n])
         /\ \A n \in 0 .. Len(t) : Normalizing(t)[n] \in Seq(C)
<1> DEFINE S == Seq(C)
           N == Len(t)
           start == <<>>
           onward == [p \in (1 .. N) \X S |-> IF t[p[1]] = CR /\ p[1] < Len(t) /\ t[p[1] + 1] = LF THEN p[2]
                          ELSE Append(p[2], t[p[1]])]
           IsRun(f) == f = [n \in 0 .. N |->
                              IF n = 0 THEN start
                              ELSE IF t[n] = CR /\ n < Len(t) /\ t[n + 1] = LF THEN f[n - 1]
                          ELSE Append(f[n - 1], t[n])]
           run == Normalizing(t)
<1>a. N \in Nat /\ start \in S
  OBVIOUS
<1>b. ASSUME NEW n \in 1 .. N, NEW x \in S
      PROVE  (IF t[n] = CR /\ n < Len(t) /\ t[n + 1] = LF THEN x
                          ELSE Append(x, t[n])) \in S
  <2>1. t[n] \in C
    OBVIOUS
  <2>2. Append(x, t[n]) \in Seq(C)
    BY <2>1
  <2> QED BY <2>2
<1> SUFFICES /\ run[0] = start
             /\ \A n \in 1 .. N :
                  run[n] = IF t[n] = CR /\ n < Len(t) /\ t[n + 1] = LF THEN run[n - 1]
                          ELSE Append(run[n - 1], t[n])
             /\ \A n \in 0 .. N : run[n] \in S
  BY Zenon
<1>1. onward \in [(1 .. N) \X S -> S]
  <2> HIDE DEF S, N
  <2> QED BY <1>a, <1>b
<1>2. \A n \in 1 .. N, x \in S : onward[<<n, x>>] = IF t[n] = CR /\ n < Len(t) /\ t[n + 1] = LF THEN x
                          ELSE Append(x, t[n])
  <2> HIDE DEF S, N
  <2> QED OBVIOUS
<1>3. IsRun(run)
  <2> HIDE DEF S, N, onward, start
  <2>1. PICK f : Solution(f, N, S, start, onward)
    BY <1>a, <1>1, RecursiveFunction
  <2> USE <2>1 DEF Solution
  <2>2. ASSUME NEW n \in 0 .. N, n # 0
        PROVE  onward[<<n, f[n - 1]>>] = IF t[n] = CR /\ n < Len(t) /\ t[n + 1] = LF THEN f[n - 1]
                          ELSE Append(f[n - 1], t[n])
    <3>1. n \in 1 .. N /\ f[n - 1] \in S
      BY <1>a, <2>2
    <3> QED BY <1>2, <3>1
  <2>3. IsRun(f)
    BY <2>1, <2>2
  <2> QED BY <2>3, Zenon DEF Normalizing, N, start
<1> HIDE DEF run, N, S, start
<1>4. run[0] = start
  BY <1>3, <1>a
<1>5. ASSUME NEW n \in 1 .. N
      PROVE  run[n] = IF t[n] = CR /\ n < Len(t) /\ t[n + 1] = LF THEN run[n - 1]
                          ELSE Append(run[n - 1], t[n])
  <2>1. n \in 0 .. N /\ n # 0
    BY <1>a
  <2> QED BY <1>3, <2>1
<1>6. \A n \in 0 .. N : run[n] \in S
  <2>1. ASSUME NEW n \in 1 .. N, run[n - 1] \in S PROVE run[n] \in S
    BY <1>a, <1>b, <1>5, <2>1
  <2> QED BY <1>a, <1>4, <2>1, AllAlong
<1> QED BY <1>4, <1>5, <1>6

\* Counting symbols on.
LEMMA AdvancingRun ==
  ASSUME NEW t, NEW from \in Nat, NEW k \in Nat
  PROVE  /\ Advancing(t, from, k)[0] = from
         /\ \A n \in 1 .. k :
              Advancing(t, from, k)[n] = Advancing(t, from, k)[n - 1] + (IF Advancing(t, from, k)[n - 1] < Len(t) /\ t[Advancing(t, from, k)[n - 1] + 1] = CR THEN 2 ELSE 1)
         /\ \A n \in 0 .. k : Advancing(t, from, k)[n] \in Nat
<1> DEFINE S == Nat
           N == k
           start == from
           onward == [p \in (1 .. N) \X S |-> p[2] + (IF p[2] < Len(t) /\ t[p[2] + 1] = CR THEN 2 ELSE 1)]
           IsRun(f) == f = [n \in 0 .. N |->
                              IF n = 0 THEN start
                              ELSE f[n - 1] + (IF f[n - 1] < Len(t) /\ t[f[n - 1] + 1] = CR THEN 2 ELSE 1)]
           run == Advancing(t, from, k)
<1>a. N \in Nat /\ start \in S
  OBVIOUS
<1>b. ASSUME NEW n \in 1 .. N, NEW x \in S
      PROVE  (x + (IF x < Len(t) /\ t[x + 1] = CR THEN 2 ELSE 1)) \in S
  OBVIOUS
<1> SUFFICES /\ run[0] = start
             /\ \A n \in 1 .. N :
                  run[n] = run[n - 1] + (IF run[n - 1] < Len(t) /\ t[run[n - 1] + 1] = CR THEN 2 ELSE 1)
             /\ \A n \in 0 .. N : run[n] \in S
  BY Zenon
<1>1. onward \in [(1 .. N) \X S -> S]
  <2> HIDE DEF S, N
  <2> QED BY <1>a, <1>b
<1>2. \A n \in 1 .. N, x \in S : onward[<<n, x>>] = x + (IF x < Len(t) /\ t[x + 1] = CR THEN 2 ELSE 1)
  <2> HIDE DEF S, N
  <2> QED OBVIOUS
<1>3. IsRun(run)
  <2> HIDE DEF S, N, onward, start
  <2>1. PICK f : Solution(f, N, S, start, onward)
    BY <1>a, <1>1, RecursiveFunction
  <2> USE <2>1 DEF Solution
  <2>2. ASSUME NEW n \in 0 .. N, n # 0
        PROVE  onward[<<n, f[n - 1]>>] = f[n - 1] + (IF f[n - 1] < Len(t) /\ t[f[n - 1] + 1] = CR THEN 2 ELSE 1)
    <3>1. n \in 1 .. N /\ f[n - 1] \in S
      BY <1>a, <2>2
    <3> QED BY <1>2, <3>1
  <2>3. IsRun(f)
    BY <2>1, <2>2
  <2> QED BY <2>3, Zenon DEF Advancing, N, start
<1> HIDE DEF run, N, S, start
<1>4. run[0] = start
  BY <1>3, <1>a
<1>5. ASSUME NEW n \in 1 .. N
      PROVE  run[n] = run[n - 1] + (IF run[n - 1] < Len(t) /\ t[run[n - 1] + 1] = CR THEN 2 ELSE 1)
  <2>1. n \in 0 .. N /\ n # 0
    BY <1>a
  <2> QED BY <1>3, <2>1
<1>6. \A n \in 0 .. N : run[n] \in S
  <2>1. ASSUME NEW n \in 1 .. N, run[n - 1] \in S PROVE run[n] \in S
    BY <1>a, <1>b, <1>5, <2>1
  <2> QED BY <1>a, <1>4, <2>1, AllAlong
<1> QED BY <1>4, <1>5, <1>6

\* Writing lines with their ends.
LEMMA WritingRun ==
  ASSUME NEW C, NEW ls \in Seq(Seq(C)), NEW eol \in Seq(C)
  PROVE  /\ Writing(ls, eol)[0] = <<>>
         /\ \A n \in 1 .. Len(ls) :
              Writing(ls, eol)[n] = Writing(ls, eol)[n - 1] \o Trimmed(ls[n]) \o eol
         /\ \A n \in 0 .. Len(ls) : Writing(ls, eol)[n] \in Seq(C)
<1> DEFINE S == Seq(C)
           N == Len(ls)
           start == <<>>
           onward == [p \in (1 .. N) \X S |-> p[2] \o Trimmed(ls[p[1]]) \o eol]
           IsRun(f) == f = [n \in 0 .. N |->
                              IF n = 0 THEN start
                              ELSE f[n - 1] \o Trimmed(ls[n]) \o eol]
           run == Writing(ls, eol)
<1>a. N \in Nat /\ start \in S
  OBVIOUS
<1>b. ASSUME NEW n \in 1 .. N, NEW x \in S
      PROVE  (x \o Trimmed(ls[n]) \o eol) \in S
  <2>1. ls[n] \in Seq(C)
    OBVIOUS
  <2>2. Trimmed(ls[n]) \in Seq(C)
    BY <2>1, WithoutEndIsText DEF Trimmed
  <2> QED BY <2>2
<1> SUFFICES /\ run[0] = start
             /\ \A n \in 1 .. N :
                  run[n] = run[n - 1] \o Trimmed(ls[n]) \o eol
             /\ \A n \in 0 .. N : run[n] \in S
  BY Zenon
<1>1. onward \in [(1 .. N) \X S -> S]
  <2> HIDE DEF S, N
  <2> QED BY <1>a, <1>b
<1>2. \A n \in 1 .. N, x \in S : onward[<<n, x>>] = x \o Trimmed(ls[n]) \o eol
  <2> HIDE DEF S, N
  <2> QED OBVIOUS
<1>3. IsRun(run)
  <2> HIDE DEF S, N, onward, start
  <2>1. PICK f : Solution(f, N, S, start, onward)
    BY <1>a, <1>1, RecursiveFunction
  <2> USE <2>1 DEF Solution
  <2>2. ASSUME NEW n \in 0 .. N, n # 0
        PROVE  onward[<<n, f[n - 1]>>] = f[n - 1] \o Trimmed(ls[n]) \o eol
    <3>1. n \in 1 .. N /\ f[n - 1] \in S
      BY <1>a, <2>2
    <3> QED BY <1>2, <3>1
  <2>3. IsRun(f)
    BY <2>1, <2>2
  <2> QED BY <2>3, Zenon DEF Writing, N, start
<1> HIDE DEF run, N, S, start
<1>4. run[0] = start
  BY <1>3, <1>a
<1>5. ASSUME NEW n \in 1 .. N
      PROVE  run[n] = run[n - 1] \o Trimmed(ls[n]) \o eol
  <2>1. n \in 0 .. N /\ n # 0
    BY <1>a
  <2> QED BY <1>3, <2>1
<1>6. \A n \in 0 .. N : run[n] \in S
  <2>1. ASSUME NEW n \in 1 .. N, run[n - 1] \in S PROVE run[n] \in S
    BY <1>a, <1>b, <1>5, <2>1
  <2> QED BY <1>a, <1>4, <2>1, AllAlong
<1> QED BY <1>4, <1>5, <1>6

LEMMA SpelledIsText ==
  ASSUME NEW C, NEW t \in Seq(C), NEW cr \in Seq(C), NEW lf \in Seq(C)
  PROVE  Spelled(t, cr, lf) \in Seq(C)
<1>1. Len(t) \in 0 .. Len(t)
  OBVIOUS
<1> QED BY <1>1, SpellingRun DEF Spelled

\* The end of a text is one.
LEMMA BackIsText ==
  ASSUME NEW C, NEW t \in Seq(C), NEW m \in Nat, m > 0
  PROVE  SubSeq(t, m, Len(t)) \in Seq(C)
<1>1. CASE m <= Len(t)
  BY <1>1
<1>2. CASE m > Len(t)
  <2>1. SubSeq(t, m, Len(t)) = <<>>
    BY <1>2, SubSeqEmpty
  <2> QED BY <2>1
<1> QED BY <1>1, <1>2

\* So is what a splice makes.
LEMMA SpliceIsText ==
  ASSUME NEW C, NEW t \in Seq(C), NEW from \in 0 .. Len(t), NEW to \in Nat, NEW r \in Seq(C)
  PROVE  Splice(t, from, to, r) \in Seq(C)
<1>1. SubSeq(t, 1, from) \in Seq(C)
  BY FrontIsText
<1>2. to + 1 \in Nat /\ to + 1 > 0
  OBVIOUS
<1>3. SubSeq(t, to + 1, Len(t)) \in Seq(C)
  BY <1>2, BackIsText
<1> QED BY <1>1, <1>3 DEF Splice

\* The lines done and the one begun.
Begun(acc) == IF acc.line = <<>> THEN 0 ELSE 1
Few(n, acc) == Len(acc.done) + Begun(acc) <= n

\* The lines a text has are not more than its symbols.
LEMMA LinesAreFew ==
  ASSUME NEW C, NEW t \in Seq(C) PROVE Len(Lines(t)) <= Len(t)
<1> DEFINE N == Len(t)
           run == Split(t)
           S == {p \in Nat \X Acc(C) : Few(p[1], p[2])}
           pair == [n \in 0 .. N |-> <<n, run[n]>>]
<1>1. /\ run[0] = [done |-> <<>>, line |-> <<>>]
      /\ \A n \in 1 .. N : run[n] = NextSymbol(run[n - 1], t[n])
      /\ \A n \in 0 .. N : run[n] \in Acc(C)
  BY SplitRun
<1>2. N \in Nat
  OBVIOUS
<1> HIDE DEF run, N
<1>p. ASSUME NEW n \in 0 .. N PROVE pair[n] \in S <=> Few(n, run[n])
  <2>1. n \in Nat /\ run[n] \in Acc(C) /\ pair[n] = <<n, run[n]>>
    BY <1>1, <1>2
  <2> HIDE DEF pair
  <2> QED BY <2>1
<1> HIDE DEF pair, S
<1>3. pair[0] \in S
  <2>1. Few(0, run[0])
    BY <1>1 DEF Few, Begun
  <2> QED BY <1>2, <1>p, <2>1
<1>4. ASSUME NEW n \in 1 .. N, pair[n - 1] \in S PROVE pair[n] \in S
  <2> DEFINE acc == run[n - 1]
             lines == acc.done
             line == acc.line
  <2>1. n - 1 \in 0 .. N /\ n \in 0 .. N
    BY <1>2
  <2>2. acc \in Acc(C) /\ run[n] \in Acc(C) /\ run[n] = NextSymbol(acc, t[n])
    BY <1>1, <2>1
  <2>3. Len(lines) + Begun(acc) <= n - 1
    BY <1>4, <1>p, <2>1 DEF Few
  <2>b. Begun(acc) \in {0, 1}
    BY DEF Begun
  <2>4. lines \in Seq(Seq(C)) /\ line \in Seq(C)
    BY <2>2 DEF Acc
  <2>5. Len(lines) \in Nat /\ n \in Nat
    BY <1>2, <2>4
  <2>6. CASE t[n] = LF
    <3>1. run[n].done = Append(lines, Chopped(line)) /\ run[n].line = <<>>
      BY <2>2, <2>6 DEF NextSymbol
    <3>2. Len(run[n].done) = Len(lines) + 1
      BY <2>4, <3>1, ChoppedIsText
    <3>3. Few(n, run[n])
      <4>1. Begun(run[n]) = 0
        BY <3>1 DEF Begun
      <4> QED BY <2>3, <2>b, <2>5, <3>2, <4>1 DEF Few
    <3> QED BY <1>p, <2>1, <3>3
  <2>7. CASE t[n] # LF
    <3>1. run[n].done = lines
      BY <2>2, <2>7 DEF NextSymbol, Acc
    <3>3. Few(n, run[n])
      <4>1. Begun(run[n]) \in {0, 1}
        BY DEF Begun
      <4> QED BY <2>3, <2>b, <2>5, <3>1, <4>1 DEF Few
    <3> QED BY <1>p, <2>1, <3>3
  <2> QED BY <2>6, <2>7
<1>5. pair[N] \in S
  <2>1. \A n \in 0 .. N : pair[n] \in S
    BY <1>2, <1>3, <1>4, AllAlong
  <2> QED BY <1>2, <2>1
<1> DEFINE end == run[N]
<1>6. Few(N, end) /\ end \in Acc(C)
  BY <1>1, <1>2, <1>5, <1>p
<1>7. Lines(t) = IF end.line = <<>> THEN end.done ELSE Append(end.done, Chopped(end.line))
  BY DEF Lines, run, N
<1> HIDE DEF end
<1>8. end.done \in Seq(Seq(C)) /\ end.line \in Seq(C) /\ Chopped(end.line) \in Seq(C)
  BY <1>6, ChoppedIsText DEF Acc
<1>9. Len(Append(end.done, Chopped(end.line))) = Len(end.done) + 1 /\ Len(end.done) \in Nat
  BY <1>8
<1>10. Len(end.done) + Begun(end) <= N /\ (end.line # <<>> => Begun(end) = 1)
       /\ Begun(end) \in {0, 1}
  BY <1>6 DEF Few, Begun
<1> QED BY <1>2, <1>7, <1>9, <1>10 DEF N

\* Concatenation under a name that the provers leave alone.
Cat(x, y) == x \o y

LEMMA CatIsAssociative ==
  \A C : \A x, y, z \in Seq(C) : Cat(Cat(x, y), z) = Cat(x, Cat(y, z))
  BY ConcatAssociative DEF Cat

\* A piece of a text is spelled as it is within the text.
LEMMA SpelledParts ==
  ASSUME NEW C, NEW t \in Seq(C), NEW cr \in Seq(C), NEW lf \in Seq(C),
         NEW a \in 0 .. Len(t), NEW b \in a .. Len(t)
  PROVE  Spelling(t, cr, lf)[b] = Spelling(t, cr, lf)[a] \o Spelled(SubSeq(t, a + 1, b), cr, lf)
<1> DEFINE N == Len(t)
           v == SubSeq(t, a + 1, b)
           R == Spelling(t, cr, lf)
           V == Spelling(v, cr, lf)
           sym(c) == Symbol(c, cr, lf)
           n == b - a
           Good == {i \in 0 .. n : R[a + i] = R[a] \o V[i]}
<1>1. N \in Nat /\ a \in Nat /\ b \in Nat /\ a <= b /\ b <= N /\ n \in Nat
  OBVIOUS
<1>2. v \in Seq(C) /\ Len(v) = n /\ \A i \in 1 .. n : v[i] = t[a + i]
  BY <1>1
<1>3. /\ \A i \in 1 .. N : R[i] = R[i - 1] \o sym(t[i])
      /\ \A i \in 0 .. N : R[i] \in Seq(C)
  BY SpellingRun, ZenonT(40)
<1> HIDE DEF v
<1>4. /\ V[0] = <<>>
      /\ \A i \in 1 .. Len(v) : V[i] = V[i - 1] \o sym(v[i])
      /\ \A i \in 0 .. Len(v) : V[i] \in Seq(C)
  BY <1>2, SpellingRun
<1>5. \A i \in 1 .. N : t[i] \in C
  OBVIOUS
<1> HIDE DEF N, R, V, n
<1>6. 0 \in Good
  <2>1. R[a] \in Seq(C)
    BY <1>1, <1>3
  <2>2. R[a] \o V[0] = R[a]
    BY <1>4, <2>1
  <2>3. a + 0 = a /\ 0 \in 0 .. n
    BY <1>1
  <2> QED BY <2>2, <2>3
<1>7. ASSUME NEW i \in 0 .. n - 1, i \in Good PROVE i + 1 \in Good
  <2>1. /\ i + 1 \in 1 .. n /\ (i + 1) - 1 = i /\ i \in 0 .. n
        /\ a + (i + 1) \in 1 .. N /\ (a + (i + 1)) - 1 = a + i /\ a \in 0 .. N
    BY <1>1 DEF n
  <2> DEFINE x == sym(t[a + (i + 1)])
  <2>2. R[a + (i + 1)] = R[a + i] \o x
    BY <1>3, <2>1
  <2>3. V[i + 1] = V[i] \o x
    BY <1>2, <1>4, <2>1
  <2>4. x \in Seq(C) /\ R[a] \in Seq(C) /\ V[i] \in Seq(C)
    <3>1. t[a + (i + 1)] \in C
      BY <1>5, <2>1
    <3>2. x \in Seq(C)
      BY <3>1, SymbolIsText
    <3> HIDE DEF x
    <3> QED BY <1>2, <1>3, <1>4, <2>1, <3>2
  <2>5. R[a + i] = R[a] \o V[i]
    BY <1>7
  <2> HIDE DEF x
  <2>6. (R[a] \o V[i]) \o x = R[a] \o (V[i] \o x)
    <3>1. Cat(Cat(R[a], V[i]), x) = Cat(R[a], Cat(V[i], x))
      BY <2>4, CatIsAssociative
    <3> QED BY <3>1, Zenon DEF Cat
  <2>7. R[a + (i + 1)] = R[a] \o V[i + 1]
    BY <2>2, <2>3, <2>5, <2>6
  <2>8. i + 1 \in 0 .. n
    BY <2>1, <1>1
  <2> QED BY <2>7, <2>8
<1>g. \A i \in Good : R[a + i] = R[a] \o V[i]
  OBVIOUS
<1> HIDE DEF Good
<1>8. n \in Good
  <2>1. 0 .. n \subseteq Good
    BY <1>1, <1>6, <1>7, UpTo
  <2> QED BY <1>1, <2>1
<1>9. R[a + n] = R[a] \o V[n] /\ a + n = b
  <2>1. a + n = b
    BY <1>1 DEF n
  <2> QED BY <1>g, <1>8, <2>1
<1>10. V[n] = Spelled(v, cr, lf)
  BY <1>2 DEF Spelled, V
<1>11. R[b] = R[a] \o Spelled(v, cr, lf)
  BY <1>9, <1>10
<1> QED BY <1>11, Zenon DEF R, v

\* What is not CR among the first n symbols: how much, and which piece of it a
\* piece of the text makes.
Held(t, n) == Len(Spelling(t, <<>>, <<LF>>)[n])

\* Each symbol but CR counts one.
LEMMA HeldGrows ==
  ASSUME NEW C, LF \in C, NEW t \in Seq(C)
  PROVE  /\ Held(t, 0) = 0
         /\ \A n \in 0 .. Len(t) : Held(t, n) \in Nat
         /\ \A n \in 1 .. Len(t) :
              Held(t, n) = Held(t, n - 1) + (IF t[n] = CR THEN 0 ELSE 1)
<1> DEFINE N == Len(t)
           none == <<>>
           one == <<LF>>
           R == Spelling(t, none, one)
<1>0. none \in Seq(C) /\ one \in Seq(C) /\ N \in Nat /\ Len(none) = 0 /\ Len(one) = 1
  OBVIOUS
<1>c. \A n \in 1 .. N : t[n] \in C
  OBVIOUS
<1>r. ASSUME NEW cr \in Seq(C), NEW lf \in Seq(C)
      PROVE  LET run == Spelling(t, cr, lf)
             IN  /\ run[0] = <<>>
                 /\ \A n \in 1 .. N : run[n] = run[n - 1] \o Symbol(t[n], cr, lf)
                 /\ \A n \in 0 .. N : run[n] \in Seq(C)
  BY SpellingRun
<1>1. R[0] = none
  <2> HIDE DEF one
  <2> QED BY <1>0, <1>r
<1>2. /\ \A n \in 1 .. N : R[n] = R[n - 1] \o Symbol(t[n], none, one)
      /\ \A n \in 0 .. N : R[n] \in Seq(C)
  <2> HIDE DEF none, one
  <2> QED BY <1>0, <1>r
<1>3. \A n \in 0 .. N : R[n] \in Seq(C)
  BY <1>2
<1>4. \A n \in 0 .. N : Held(t, n) = Len(R[n])
  BY DEF Held
<1> HIDE DEF N, R, none, one
<1>5. \A n \in 0 .. N : Len(R[n]) \in Nat
  BY <1>3
<1>6. ASSUME NEW n \in 1 .. N
      PROVE  Len(R[n]) = Len(R[n - 1]) + (IF t[n] = CR THEN 0 ELSE 1)
  <2> DEFINE c == t[n]
             s == Symbol(c, none, one)
             r == R[n - 1]
  <2>1. c \in C /\ s \in Seq(C)
    BY <1>0, <1>c, SymbolIsText
  <2>2. Len(s) = IF c = CR THEN 0 ELSE 1
    <3>1. c = CR => s = none
      BY DEF Symbol
    <3>2. c # CR => s = <<c>>
      BY DEF Symbol, one
    <3>3. Len(<<c>>) = 1
      OBVIOUS
    <3> HIDE DEF s, c
    <3> QED BY <1>0, <3>1, <3>2, <3>3
  <2>3. r \in Seq(C) /\ R[n] = r \o s
    <3>1. n - 1 \in 0 .. N
      BY <1>0
    <3> QED BY <1>2, <3>1
  <2> HIDE DEF s, r, c
  <2>4. Len(r \o s) = Len(r) + Len(s)
    BY <2>1, <2>3
  <2> QED BY <2>2, <2>3, <2>4 DEF r, c
<1>7. 0 \in 0 .. N /\ \A n \in 1 .. N : n \in 0 .. N /\ n - 1 \in 0 .. N
  BY <1>0
<1>8. Held(t, 0) = 0
  BY <1>0, <1>1, <1>4, <1>7
<1>9. \A n \in 1 .. N : Held(t, n) = Held(t, n - 1) + (IF t[n] = CR THEN 0 ELSE 1)
  BY <1>4, <1>6, <1>7
<1>10. \A n \in 0 .. N : Held(t, n) \in Nat
  BY <1>4, <1>5
<1> QED BY <1>8, <1>9, <1>10 DEF N

LEMMA MiddleOf ==
  ASSUME NEW C, NEW x \in Seq(C), NEW y \in Seq(C), NEW z \in Seq(C)
  PROVE  /\ SubSeq((x \o y) \o z, Len(x) + 1, Len(x) + Len(y)) = y
         /\ Len((x \o y) \o z) = Len(x) + Len(y) + Len(z)
<1> DEFINE all == (x \o y) \o z
           m == SubSeq(all, Len(x) + 1, Len(x) + Len(y))
<1>1. /\ all \in Seq(C) /\ Len(all) = Len(x) + Len(y) + Len(z)
      /\ Len(x) \in Nat /\ Len(y) \in Nat /\ Len(z) \in Nat
  OBVIOUS
<1>2. \A i \in 1 .. Len(y) : all[Len(x) + i] = y[i]
  OBVIOUS
<1> HIDE DEF all
<1>3. m \in Seq(C) /\ Len(m) = Len(y) /\ \A i \in 1 .. Len(y) : m[i] = all[Len(x) + i]
  BY <1>1, SMTT(40)
<1> HIDE DEF m
<1>4. m = y
  BY <1>2, <1>3, SeqEqual
<1> QED BY <1>1, <1>4 DEF m, all

\* A piece without its CRs is a piece of the text without them.
LEMMA HeldPiece ==
  ASSUME NEW C, LF \in C, NEW t \in Seq(C), NEW a \in 0 .. Len(t), NEW b \in a .. Len(t)
  PROVE  /\ StripCR(SubSeq(t, a + 1, b)) = SubSeq(StripCR(t), Held(t, a) + 1, Held(t, b))
         /\ StripCR(SubSeq(t, a + 1, b)) \in Seq(C)
         /\ Len(StripCR(SubSeq(t, a + 1, b))) = Held(t, b) - Held(t, a)
         /\ Held(t, Len(t)) = Len(StripCR(t)) /\ StripCR(t) \in Seq(C)
         /\ Held(t, b) <= Len(StripCR(t))
<1> DEFINE N == Len(t)
           none == <<>>
           one == <<LF>>
           R == Spelling(t, none, one)
           y == StripCR(SubSeq(t, a + 1, b))
           z == StripCR(SubSeq(t, b + 1, N))
<1>0. /\ none \in Seq(C) /\ one \in Seq(C)
      /\ a \in 0 .. N /\ b \in a .. N /\ b \in 0 .. N /\ N \in b .. N /\ N \in 0 .. N
  OBVIOUS
<1> HIDE DEF none, one
<1>p. ASSUME NEW i \in 0 .. N, NEW j \in i .. N
      PROVE  R[j] = R[i] \o Spelled(SubSeq(t, i + 1, j), none, one)
  <2>1. none \in Seq(C) /\ one \in Seq(C)
    BY <1>0
  <2>2. ASSUME NEW cr \in Seq(C), NEW lf \in Seq(C)
        PROVE  Spelling(t, cr, lf)[j] =
                 Spelling(t, cr, lf)[i] \o Spelled(SubSeq(t, i + 1, j), cr, lf)
    BY SpelledParts, ZenonT(40)
  <2> QED BY <2>1, <2>2
<1> HIDE DEF N
<1>s. \A s : StripCR(s) = Spelled(s, none, one)
  BY DEF StripCR, none, one
<1>1. R[b] = R[a] \o y
  <2>1. y = Spelled(SubSeq(t, a + 1, b), none, one)
    BY <1>s
  <2> HIDE DEF y, R
  <2> QED BY <1>0, <2>1, <1>p
<1>2. R[N] = R[b] \o z
  <2>1. z = Spelled(SubSeq(t, b + 1, N), none, one)
    BY <1>s
  <2> HIDE DEF z, R
  <2> QED BY <1>0, <2>1, <1>p
<1>3. R[a] \in Seq(C) /\ R[b] \in Seq(C) /\ R[N] \in Seq(C)
  BY <1>0, SpellingRun DEF N
<1>4. SubSeq(t, a + 1, b) \in Seq(C) /\ SubSeq(t, b + 1, N) \in Seq(C)
  BY DEF N
<1>5. y \in Seq(C) /\ z \in Seq(C)
  BY <1>0, <1>4, <1>s, SpelledIsText
<1>6. StripCR(t) = R[N]
  BY <1>s DEF Spelled, N
<1>7. Held(t, a) = Len(R[a]) /\ Held(t, b) = Len(R[b]) /\ Held(t, N) = Len(R[N])
  BY DEF Held, none, one
<1> DEFINE x == R[a]
<1> HIDE DEF R, y, z
<1>8. R[N] = (x \o y) \o z /\ R[b] = x \o y
  BY <1>1, <1>2
<1>x. x \in Seq(C)
  BY <1>3
<1> HIDE DEF x
<1>9. /\ SubSeq((x \o y) \o z, Len(x) + 1, Len(x) + Len(y)) = y
      /\ Len((x \o y) \o z) = Len(x) + Len(y) + Len(z)
  BY <1>x, <1>5, MiddleOf
<1>10. Len(x \o y) = Len(x) + Len(y) /\ Len(x) \in Nat /\ Len(y) \in Nat /\ Len(z) \in Nat
  BY <1>3, <1>5 DEF x
<1>11. Held(t, a) = Len(x) /\ Held(t, b) = Len(x) + Len(y) /\ Held(t, N) = Len(x) + Len(y) + Len(z)
  BY <1>7, <1>8, <1>9, <1>10 DEF x
<1>12. y = SubSeq(StripCR(t), Held(t, a) + 1, Held(t, b))
  BY <1>6, <1>8, <1>9, <1>11
<1>13. Len(y) = Held(t, b) - Held(t, a) /\ Held(t, b) <= Held(t, N) /\ Held(t, N) = Len(StripCR(t))
  BY <1>6, <1>7, <1>10, <1>11
<1> QED BY <1>3, <1>5, <1>6, <1>12, <1>13 DEF y, N

\* The search for the end of a piece of k symbols finds it.
LEMMA PastReaches ==
  ASSUME NEW C, LF \in C, NEW t \in Seq(C), NEW from \in 0 .. Len(t), NEW k \in Nat,
         Held(t, from) + k <= Len(StripCR(t))
  PROVE  /\ Past(t, from, k) \in from .. Len(t)
         /\ Held(t, Past(t, from, k)) = Held(t, from) + k
         /\ from < Past(t, from, k) => t[Past(t, from, k)] # CR
<1> DEFINE N == Len(t)
           h == [n \in 0 .. N |-> Held(t, n)]
           D == {p \in from .. N : Len(StripCR(SubSeq(t, from + 1, p))) = k}
           E == {p \in from .. N : h[p] >= h[from] + k}
<1>1. N \in Nat /\ from \in 0 .. N /\ N \in from .. N
  OBVIOUS
<1>2. ASSUME NEW n \in from .. N
      PROVE  /\ Len(StripCR(SubSeq(t, from + 1, n))) = Held(t, n) - Held(t, from)
             /\ Held(t, N) = Len(StripCR(t))
  BY HeldPiece
<1>3. \A n \in 0 .. N : h[n] = Held(t, n) /\ h[n] \in Nat
  BY HeldGrows
<1>4. \A n \in 1 .. N : h[n] = h[n - 1] + (IF t[n] = CR THEN 0 ELSE 1)
  <2>1. \A n \in 1 .. N : Held(t, n) = Held(t, n - 1) + (IF t[n] = CR THEN 0 ELSE 1)
    BY HeldGrows
  <2>2. \A n \in 1 .. N : n \in 0 .. N /\ n - 1 \in 0 .. N
    BY <1>1
  <2> HIDE DEF h, N
  <2> QED BY <1>3, <2>1, <2>2
<1> HIDE DEF h
<1>5. D = {p \in from .. N : h[p] = h[from] + k}
  <2>1. ASSUME NEW p \in from .. N
        PROVE  Len(StripCR(SubSeq(t, from + 1, p))) = k <=> h[p] = h[from] + k
    <3>1. p \in 0 .. N /\ from \in 0 .. N
      BY <1>1
    <3> HIDE DEF N
    <3> QED BY <1>2, <1>3, <3>1, SMTT(40)
  <2> QED BY <2>1
<1>6. N \in E
  <2> HIDE DEF N
  <2>1. Held(t, N) = Len(StripCR(t)) /\ N \in 0 .. N
    BY <1>1, <1>2
  <2>2. h[N] = Held(t, N) /\ h[from] = Held(t, from) /\ h[N] \in Nat /\ h[from] \in Nat
    BY <1>1, <1>3, <2>1
  <2> QED BY <1>1, <2>1, <2>2
<1>7. E \subseteq Nat
  OBVIOUS
<1> HIDE DEF D
<1>8. PICK p \in E : \A q \in E : p <= q
  <2> HIDE DEF E
  <2> QED BY <1>6, <1>7, LeastNumber
<1> HIDE DEF N
<1>9. p \in from .. N /\ p \in Nat /\ from \in Nat /\ p \in 0 .. N
  BY <1>1, <1>8
<1>10. h[p] = h[from] + k /\ (from < p => t[p] # CR)
  <2>1. CASE p = from
    BY <1>1, <1>3, <1>8, <2>1
  <2>2. CASE p # from
    <3>1. p - 1 \in from .. N /\ p \in 1 .. N /\ p - 1 \in 0 .. N /\ ~ (p <= p - 1)
      BY <1>1, <1>9, <2>2
    <3>2. ~ (h[p - 1] >= h[from] + k)
      BY <1>8, <3>1
    <3>3. h[p] >= h[from] + k
      BY <1>8
    <3>4. h[p] = h[p - 1] + (IF t[p] = CR THEN 0 ELSE 1)
      BY <1>4, <3>1
    <3>5. h[p - 1] \in Nat /\ h[p] \in Nat /\ h[from] \in Nat
      BY <1>1, <1>3, <1>9, <3>1
    <3> QED BY <3>2, <3>3, <3>4, <3>5
  <2> QED BY <2>1, <2>2
<1>11. Past(t, from, k) = p
  <2> DEFINE M == D \cup {N}
  <2>1. p \in M /\ M \subseteq Nat
    BY <1>1, <1>5, <1>9, <1>10
  <2>2. \A q \in M : p <= q
    <3>1. \A q \in from .. N : q \in Nat /\ q \in 0 .. N
      BY <1>1
    <3>2. D \subseteq E
      BY <1>1, <1>3, <1>5, <3>1
    <3> QED BY <1>8, <1>6, <3>2
  <2>3. Past(t, from, k) = Min(M)
    BY DEF Past, D, N
  <2> HIDE DEF M
  <2>4. Min(M) \in M /\ \A q \in M : Min(M) <= q
    BY <2>1, MinIsLeast
  <2>5. p <= Min(M) /\ Min(M) <= p /\ Min(M) \in Nat
    BY <2>1, <2>2, <2>4
  <2> QED BY <1>9, <2>3, <2>5
<1>12. Held(t, p) = Held(t, from) + k
  BY <1>1, <1>3, <1>9, <1>10
<1> QED BY <1>9, <1>10, <1>11, <1>12 DEF N

\* The first match is where the search stands.
LEMMA FirstMatch ==
  ASSUME NEW C, NEW s \in Seq(C), NEW t \in Seq(C), Matches(s, t) # {}
  PROVE  LET m == Min(Matches(s, t))
         IN  /\ m \in Nat /\ m >= 1 /\ m - 1 + Len(s) <= Len(t)
             /\ SubSeq(t, m, m - 1 + Len(s)) = s
<1> DEFINE M == Matches(s, t)
           m == Min(M)
<1>1. M \subseteq Nat
  BY DEF Matches
<1>2. m \in M
  <2>1. M # {}
    OBVIOUS
  <2> HIDE DEF M
  <2> QED BY <1>1, <2>1, MinIsLeast
<1>3. ASSUME NEW k \in M
      PROVE  k \in Nat /\ k >= 1 /\ k - 1 + Len(s) <= Len(t) /\ SubSeq(t, k, k - 1 + Len(s)) = s
  <2>1. k \in 1 .. Len(t) + 1 - Len(s) /\ SubSeq(t, k, k + Len(s) - 1) = s
    BY DEF Matches
  <2>2. Len(s) \in Nat /\ Len(t) \in Nat
    OBVIOUS
  <2>3. k - 1 + Len(s) = k + Len(s) - 1 /\ k \in Nat /\ k >= 1 /\ k - 1 + Len(s) <= Len(t)
    BY <2>1, <2>2
  <2> QED BY <2>1, <2>3
<1>4. m \in Nat /\ m >= 1 /\ m - 1 + Len(s) <= Len(t) /\ SubSeq(t, m, m - 1 + Len(s)) = s
  <2> HIDE DEF m, M
  <2> QED BY <1>2, <1>3
<1> QED BY <1>4, Zenon

\* What edit_file makes of a text.
LEMMA EditIsOne ==
  ASSUME NEW C, LF \in C, NEW t \in Seq(C), NEW search \in Seq(C), NEW replace \in Seq(C),
         EditText(t, search, replace) # <<>>
  PROVE  \E x \in Seq(C) :
           EditText(t, search, replace) = <<x>> /\ OneReplaced(t, x, search, replace)
<1> DEFINE N == Len(t)
           s == StripCR(search)
           u == StripCR(t)
           K == Len(s)
           places == Matches(s, u)
           m == Min(places)
           from == Past(t, 0, m - 1)
           to == Past(t, from, K)
           x == Splice(t, from, to, replace)
<1>1. places # {} /\ EditText(t, search, replace) = <<x>>
  BY DEF EditText
<1>2. <<>> \in Seq(C) /\ <<LF>> \in Seq(C) /\ N \in Nat
  OBVIOUS
<1>3. s \in Seq(C) /\ u \in Seq(C)
  BY <1>2, SpelledIsText DEF StripCR
<1> HIDE DEF s, u
<1>4. K \in Nat
  BY <1>3
<1>5. m \in Nat /\ m >= 1 /\ m - 1 + K <= Len(u) /\ SubSeq(u, m, m - 1 + K) = s
  BY <1>1, <1>3, FirstMatch
<1> HIDE DEF m, places, K
<1>6. Held(t, 0) = 0 /\ m - 1 \in Nat /\ Len(u) \in Nat
  BY <1>3, <1>5, HeldGrows
<1>7. Held(t, 0) + (m - 1) <= Len(u) /\ 0 + (m - 1) = m - 1
  BY <1>4, <1>5, <1>6
<1>z. 0 \in 0 .. Len(t)
  BY <1>2
<1>8. from \in 0 .. N /\ Held(t, from) = m - 1
  <2>1. from \in 0 .. Len(t) /\ Held(t, from) = Held(t, 0) + (m - 1)
    BY <1>z, <1>6, <1>7, PastReaches DEF u
  <2> QED BY <1>6, <1>7, <2>1
<1> HIDE DEF from
<1>9. Held(t, from) + K <= Len(u)
  BY <1>5, <1>8
<1>10. to \in from .. N /\ Held(t, to) = m - 1 + K /\ (from < to => t[to] # CR)
  <2>1. to \in from .. Len(t) /\ Held(t, to) = Held(t, from) + K /\ (from < to => t[to] # CR)
    BY <1>4, <1>8, <1>9, PastReaches DEF u
  <2> QED BY <1>8, <2>1
<1> HIDE DEF to
<1>11. StripCR(SubSeq(t, from + 1, to)) = s
  <2>1. StripCR(SubSeq(t, from + 1, to)) = SubSeq(u, Held(t, from) + 1, Held(t, to))
    BY <1>8, <1>10, HeldPiece DEF u
  <2>2. Held(t, from) + 1 = m
    BY <1>5, <1>8
  <2> QED BY <1>5, <1>10, <2>1, <2>2
<1> HIDE DEF N
<1>12. from \in 0 .. N /\ to \in 0 .. N /\ to \in Nat /\ from <= to /\ N = Len(t)
  BY <1>2, <1>8, <1>10 DEF N
<1>13. x \in Seq(C)
  BY <1>12, SpliceIsText
<1>14. OneReplaced(t, x, search, replace)
  BY <1>10, <1>11, <1>12 DEF OneReplaced, s
<1> QED BY <1>1, <1>13, <1>14

\* A text whose normalized form has no CR has a CR in front of an LF only, and
\* is normalized by leaving out every CR.
LEMMA NormalizedIsStripped ==
  ASSUME NEW C, LF \in C, NEW t \in Seq(C), ~ Has(Normalized(t), CR)
  PROVE  /\ \A i \in 1 .. Len(t) : t[i] = CR => i < Len(t) /\ t[i + 1] = LF
         /\ Normalized(t) = StripCR(t)
<1> DEFINE N == Len(t)
           M == Normalizing(t)
           none == <<>>
           one == <<LF>>
           R == Spelling(t, none, one)
           Dropped(n) == t[n] = CR /\ n < N /\ t[n + 1] = LF
<1>0. N \in Nat /\ none \in Seq(C) /\ one \in Seq(C) /\ \A n \in 1 .. N : t[n] \in C
  OBVIOUS
<1>1. /\ M[0] = none
      /\ \A n \in 1 .. N : M[n] = IF Dropped(n) THEN M[n - 1] ELSE Append(M[n - 1], t[n])
      /\ \A n \in 0 .. N : M[n] \in Seq(C)
  BY NormalizingRun
<1>r. ASSUME NEW cr \in Seq(C), NEW lf \in Seq(C)
      PROVE  /\ Spelling(t, cr, lf)[0] = <<>>
             /\ \A n \in 1 .. N : Spelling(t, cr, lf)[n] =
                  Spelling(t, cr, lf)[n - 1] \o Symbol(t[n], cr, lf)
             /\ \A n \in 0 .. N : Spelling(t, cr, lf)[n] \in Seq(C)
  BY SpellingRun
<1> HIDE DEF one
<1>2. /\ R[0] = none
      /\ \A n \in 1 .. N : R[n] = R[n - 1] \o Symbol(t[n], none, one)
      /\ \A n \in 0 .. N : R[n] \in Seq(C)
  <2> HIDE DEF N
  <2>1. /\ R[0] = <<>>
        /\ \A n \in 1 .. N : R[n] = R[n - 1] \o Symbol(t[n], none, one)
        /\ \A n \in 0 .. N : R[n] \in Seq(C)
    <3> HIDE DEF none
    <3> QED BY <1>0, <1>r
  <2> QED BY <2>1
<1>3. M[N] = Normalized(t) /\ R[N] = StripCR(t)
  BY DEF Normalized, StripCR, Spelled, one
<1>4. \A n \in 1 .. N : n \in 0 .. N /\ n - 1 \in 0 .. N
  BY <1>0
<1> HIDE DEF M, R, N, Dropped
<1>5. ASSUME NEW n \in 1 .. N, ~ Has(M[n], CR)
      PROVE  ~ Has(M[n - 1], CR) /\ (t[n] = CR => Dropped(n))
  <2> DEFINE a == M[n - 1]
             c == t[n]
  <2>1. a \in Seq(C) /\ M[n] = (IF Dropped(n) THEN a ELSE Append(a, c))
    BY <1>1, <1>4
  <2>2. CASE Dropped(n)
    BY <1>5, <2>1, <2>2
  <2>3. CASE ~ Dropped(n)
    <3>1. ~ Has(Append(a, c), CR)
      BY <1>5, <2>1, <2>3
    <3>2. c \in C
      BY <1>0
    <3> HIDE DEF a, c
    <3>3. /\ DOMAIN a = 1 .. Len(a) /\ Len(a) \in Nat
          /\ DOMAIN Append(a, c) = 1 .. Len(a) + 1
          /\ \A i \in 1 .. Len(a) : Append(a, c)[i] = a[i]
          /\ Append(a, c)[Len(a) + 1] = c
      BY <2>1, <3>2
    <3>4. c # CR
      BY <3>1, <3>3 DEF Has
    <3>5. ~ Has(a, CR)
      BY <3>1, <3>3 DEF Has
    <3> QED BY <3>4, <3>5 DEF a, c
  <2> QED BY <2>2, <2>3
<1>6. ASSUME NEW n \in 0 .. N PROVE ~ Has(M[n], CR)
  <2> DEFINE Good == {i \in 0 .. N : ~ Has(M[N - i], CR)}
  <2>1. 0 \in Good
    <3>1. N - 0 = N /\ 0 \in 0 .. N
      BY <1>0
    <3> QED BY <1>3, <3>1
  <2>2. ASSUME NEW i \in 0 .. N - 1, i \in Good PROVE i + 1 \in Good
    <3>1. N - i \in 1 .. N /\ (N - i) - 1 = N - (i + 1) /\ i + 1 \in 0 .. N
      BY <1>0
    <3>2. ~ Has(M[(N - i) - 1], CR)
      BY <1>5, <2>2, <3>1
    <3> QED BY <3>1, <3>2
  <2>g. \A i \in Good : ~ Has(M[N - i], CR)
    OBVIOUS
  <2> HIDE DEF Good
  <2>3. 0 .. N \subseteq Good
    BY <1>0, <2>1, <2>2, UpTo
  <2>4. N - n \in 0 .. N /\ N - (N - n) = n
    BY <1>0
  <2> QED BY <2>g, <2>3, <2>4
<1>7. ASSUME NEW n \in 1 .. N, t[n] = CR PROVE Dropped(n)
  BY <1>4, <1>5, <1>6, <1>7
<1>8. M[N] = R[N]
  <2> DEFINE Good == {n \in 0 .. N : M[n] = R[n]}
  <2>1. 0 \in Good
    BY <1>0, <1>1, <1>2
  <2>2. ASSUME NEW m \in 0 .. N - 1, m \in Good PROVE m + 1 \in Good
    <3> DEFINE n == m + 1
               a == M[m]
               c == t[n]
    <3>1. n \in 1 .. N /\ n - 1 = m /\ m \in 0 .. N /\ n \in 0 .. N
      BY <1>0
    <3>2. a = R[m] /\ a \in Seq(C) /\ c \in C
      BY <1>0, <1>1, <2>2, <3>1
    <3>3. M[n] = (IF Dropped(n) THEN a ELSE Append(a, c)) /\ R[n] = a \o Symbol(c, none, one)
      BY <1>1, <1>2, <3>1, <3>2
    <3>4. CASE c = CR
      <4>1. Dropped(n)
        BY <1>7, <3>1, <3>4
      <4>2. Symbol(c, none, one) = <<>>
        BY <3>4 DEF Symbol
      <4>3. a \o <<>> = a
        BY <3>2
      <4> QED BY <3>1, <3>3, <4>1, <4>2, <4>3
    <3>5. CASE c # CR
      <4>1. ~ Dropped(n)
        BY <3>5 DEF Dropped
      <4>2. Symbol(c, none, one) = <<c>>
        BY <3>5 DEF Symbol, one
      <4> HIDE DEF a, c
      <4>3. a \o <<c>> = Append(a, c)
        BY <3>2, AppendIsConcat
      <4> QED BY <3>1, <3>3, <4>1, <4>2, <4>3
    <3> QED BY <3>4, <3>5
  <2>g. \A i \in Good : M[i] = R[i]
    OBVIOUS
  <2> HIDE DEF Good
  <2>3. 0 .. N \subseteq Good
    BY <1>0, <2>1, <2>2, UpTo
  <2> QED BY <1>0, <2>g, <2>3
<1>9. \A i \in 1 .. N : t[i] = CR => i < N /\ t[i + 1] = LF
  BY <1>7 DEF Dropped
<1> QED BY <1>3, <1>8, <1>9 DEF N

\* Counting the symbols of the normalized text leads to the same places.
LEMMA AdvanceReaches ==
  ASSUME NEW C, LF \in C, NEW t \in Seq(C),
         \A i \in 1 .. Len(t) : t[i] = CR => i < Len(t) /\ t[i + 1] = LF,
         NEW from \in 0 .. Len(t), NEW k \in Nat,
         Held(t, from) + k <= Len(StripCR(t))
  PROVE  /\ Advance(t, from, k) \in from .. Len(t)
         /\ Held(t, Advance(t, from, k)) = Held(t, from) + k
         /\ from < Advance(t, from, k) => t[Advance(t, from, k)] # CR
<1> DEFINE N == Len(t)
           h == [n \in 0 .. N |-> Held(t, n)]
           pos == Advancing(t, from, k)
           There(p, i) == p \in from .. N /\ h[p] = h[from] + i /\ (from < p => t[p] # CR)
           Good == {i \in 0 .. k : There(pos[i], i)}
<1>1. N \in Nat /\ from \in 0 .. N /\ N \in from .. N /\ from \in Nat /\ N \in 0 .. N
  OBVIOUS
<1>2. Held(t, N) = Len(StripCR(t))
  BY <1>1, HeldPiece
<1>3. \A n \in 0 .. N : h[n] = Held(t, n) /\ h[n] \in Nat
  BY HeldGrows
<1>4. \A n \in 1 .. N : h[n] = h[n - 1] + (IF t[n] = CR THEN 0 ELSE 1)
  <2>1. \A n \in 1 .. N : Held(t, n) = Held(t, n - 1) + (IF t[n] = CR THEN 0 ELSE 1)
    BY HeldGrows
  <2>2. \A n \in 1 .. N : n \in 0 .. N /\ n - 1 \in 0 .. N
    BY <1>1
  <2> HIDE DEF h, N
  <2> QED BY <1>3, <2>1, <2>2
<1>5. \A i \in 1 .. N : t[i] = CR => i < N /\ t[i + 1] = LF
  OBVIOUS
<1>6. /\ pos[0] = from
      /\ \A i \in 1 .. k : pos[i] = pos[i - 1] +
           (IF pos[i - 1] < N /\ t[pos[i - 1] + 1] = CR THEN 2 ELSE 1)
  BY <1>1, AdvancingRun
<1> HIDE DEF h, N, pos
<1>7. h[from] + k <= h[N]
  BY <1>1, <1>2, <1>3
<1>c. CR # LF
  BY DEF CR, LF
<1>8. 0 \in Good
  <2>1. There(pos[0], 0)
    BY <1>1, <1>3, <1>6
  <2> HIDE DEF There
  <2> QED BY <2>1
<1>9. ASSUME NEW i \in 0 .. k - 1, i \in Good PROVE i + 1 \in Good
  <2> DEFINE p == pos[i]
             q == pos[i + 1]
  <2>1. i + 1 \in 1 .. k /\ (i + 1) - 1 = i /\ i \in Nat /\ i < k /\ i + 1 \in 0 .. k
    OBVIOUS
  <2>2. There(p, i)
    BY <1>9
  <2>3. q = p + (IF p < N /\ t[p + 1] = CR THEN 2 ELSE 1)
    BY <1>6, <2>1
  <2> HIDE DEF p, q
  <2>4. p \in Nat /\ from <= p /\ p <= N /\ p \in 0 .. N /\ h[p] = h[from] + i
    BY <1>1, <2>2
  <2>5. h[p] \in Nat /\ h[from] \in Nat /\ h[N] \in Nat
    BY <1>1, <1>3, <2>4
  <2>6. p # N
    BY <1>7, <2>1, <2>4, <2>5
  <2>7. p < N /\ p + 1 \in 1 .. N /\ (p + 1) - 1 = p
    BY <1>1, <2>4, <2>6
  <2>8. h[p + 1] = h[p] + (IF t[p + 1] = CR THEN 0 ELSE 1)
    BY <1>4, <2>7
  <2>9. There(q, i + 1)
    <3>1. CASE t[p + 1] = CR
      <4>1. q = p + 2 /\ p + 1 < N /\ t[(p + 1) + 1] = LF
        BY <1>5, <2>3, <2>7, <3>1
      <4>2. p + 2 \in 1 .. N /\ (p + 1) + 1 = p + 2 /\ (p + 2) - 1 = p + 1
        BY <1>1, <2>4, <4>1
      <4>3. t[q] = LF /\ t[p + 2] # CR
        BY <1>c, <4>1, <4>2
      <4>4. h[p + 2] = h[p + 1] + 1
        BY <1>4, <4>2, <4>3
      <4>5. h[q] = h[from] + (i + 1)
        BY <2>1, <2>4, <2>5, <2>8, <3>1, <4>1, <4>4, SMTT(40)
      <4>6. q \in from .. N
        BY <1>1, <2>4, <4>1, <4>2
      <4> QED BY <1>c, <4>3, <4>5, <4>6
    <3>2. CASE t[p + 1] # CR
      <4>1. q = p + 1
        BY <2>3, <3>2
      <4>0. h[q] = h[p] + 1
        BY <2>8, <3>2, <4>1, Zenon
      <4>2. h[q] = h[from] + (i + 1)
        BY <2>1, <2>4, <2>5, <4>0, SMTT(40)
      <4>3. q \in from .. N
        BY <1>1, <2>4, <2>7, <4>1
      <4> QED BY <3>2, <4>1, <4>2, <4>3
    <3> QED BY <3>1, <3>2
  <2> HIDE DEF There
  <2> QED BY <2>1, <2>9 DEF q
<1>g. \A i \in Good : There(pos[i], i)
  OBVIOUS
<1> HIDE DEF Good, There
<1>10. There(pos[k], k)
  <2>1. 0 .. k \subseteq Good
    BY <1>8, <1>9, UpTo
  <2>2. k \in 0 .. k
    OBVIOUS
  <2> QED BY <1>g, <2>1, <2>2
<1> DEFINE P == Advance(t, from, k)
<1>11. P = pos[k]
  BY DEF Advance, pos
<1> HIDE DEF P
<1>12. P \in from .. N /\ h[P] = h[from] + k /\ (from < P => t[P] # CR)
  BY <1>10, <1>11 DEF There
<1>13. P \in 0 .. N
  BY <1>1, <1>12
<1>14. Held(t, P) = Held(t, from) + k
  BY <1>1, <1>3, <1>12, <1>13
<1> QED BY <1>12, <1>14 DEF P, N

\* A text without CR has no CR in its pieces.
LEMMA PieceHasNone ==
  ASSUME NEW C, NEW t \in Seq(C), ~ Has(t, CR), NEW m \in Nat, m >= 1, NEW n \in Nat, n <= Len(t)
  PROVE  ~ Has(SubSeq(t, m, n), CR)
<1> SUFFICES ASSUME NEW i \in DOMAIN SubSeq(t, m, n), SubSeq(t, m, n)[i] = CR PROVE FALSE
  BY DEF Has
<1>1. \A j \in m .. n : t[j] \in C
  OBVIOUS
<1>2. /\ SubSeq(t, m, n) \in Seq(C)
      /\ Len(SubSeq(t, m, n)) = IF m <= n THEN n - m + 1 ELSE 0
      /\ \A j \in 1 .. n - m + 1 : SubSeq(t, m, n)[j] = t[m + j - 1]
  BY <1>1, SubSeqProperties
<1>3. i \in 1 .. Len(SubSeq(t, m, n))
  BY <1>2
<1>4. i \in 1 .. n - m + 1
  BY <1>2, <1>3
<1>5. t[m + i - 1] = CR /\ m + i - 1 \in DOMAIN t
  BY <1>2, <1>4
<1> QED BY <1>5 DEF Has

\* What md_file makes of a text.
LEMMA MdEditIsOne ==
  ASSUME NEW C, LF \in C, NEW t \in Seq(C), NEW search \in Seq(C), NEW replace \in Seq(C),
         MdEditText(t, search, replace) # <<>>
  PROVE  \E x \in Seq(C) :
           /\ MdEditText(t, search, replace) = <<x>>
           /\ ~ Has(Normalized(t), CR) => OneReplaced(t, x, search, replace)
<1> DEFINE N == Len(t)
           exact == Matches(search, t)
<1>1. N \in Nat /\ Len(search) \in Nat
  OBVIOUS
<1>2. CASE exact # {}
  <2> DEFINE m == Min(exact)
             i == m - 1
             j == i + Len(search)
             x == Splice(t, i, j, replace)
  <2>1. MdEditText(t, search, replace) = <<x>>
    BY <1>2 DEF MdEditText
  <2>2. m \in Nat /\ m >= 1 /\ j <= N /\ SubSeq(t, m, j) = search
    BY <1>2, FirstMatch
  <2> HIDE DEF m, exact, N
  <2>3. i \in 0 .. N /\ j \in 0 .. N /\ j \in Nat /\ i <= j /\ i + 1 = m
    BY <1>1, <2>2
  <2>4. SubSeq(t, i + 1, j) = search
    BY <2>2, <2>3
  <2> HIDE DEF i, j
  <2>5. x \in Seq(C)
    BY <2>3, SpliceIsText DEF N
  <2>6. OneReplaced(t, x, search, replace)
    BY <2>3, <2>4 DEF OneReplaced, N
  <2> QED BY <2>1, <2>5, <2>6
<1>3. CASE exact = {}
  <2> DEFINE ns == Normalized(search)
             nt == Normalized(t)
             K == Len(ns)
             loose == Matches(ns, nt)
             m == Min(loose)
             from == Advance(t, 0, m - 1)
             to == Advance(t, from, K)
             x == Splice(t, from, to, replace)
  <2>1. loose # {} /\ ~ (from > N) /\ MdEditText(t, search, replace) = <<x>>
    <3>1. MdEditText(t, search, replace) =
            IF replace = <<>> THEN <<>>
            ELSE IF exact # {}
            THEN IF Cardinality(exact) > 1 THEN <<>>
                 ELSE << Splice(t, Min(exact) - 1, Min(exact) - 1 + Len(search), replace) >>
            ELSE IF loose = {} \/ from > N THEN <<>> ELSE <<x>>
      BY Zenon DEF MdEditText
    <3> HIDE DEF exact, loose, from, x, N
    <3> QED BY <1>3, <3>1, Zenon
  <2>2. ns \in Seq(C) /\ nt \in Seq(C)
    <3>1. ASSUME NEW s \in Seq(C) PROVE Normalized(s) \in Seq(C)
      <4>1. Len(s) \in 0 .. Len(s)
        OBVIOUS
      <4>2. \A n \in 0 .. Len(s) : Normalizing(s)[n] \in Seq(C)
        BY NormalizingRun
      <4> QED BY <4>1, <4>2 DEF Normalized
    <3> QED BY <3>1
  <2> HIDE DEF ns, nt
  <2>3. m \in Nat /\ m >= 1 /\ m - 1 + K <= Len(nt) /\ SubSeq(nt, m, m - 1 + K) = ns
    <3>1. Matches(ns, nt) # {}
      BY <2>1
    <3> QED BY <2>2, <3>1, FirstMatch
  <2>4. K \in Nat /\ Len(nt) \in Nat
    BY <2>2
  <2> HIDE DEF K, m, loose, exact
  <2>5. m - 1 \in Nat /\ m - 1 + K \in Nat
    BY <2>3, <2>4
  <2>6. from \in Nat
    <3>1. m - 1 \in 0 .. m - 1 /\ 0 \in Nat
      BY <2>5
    <3> QED BY <2>5, <3>1, AdvancingRun DEF Advance
  <2> HIDE DEF from
  <2>7. to \in Nat
    <3>1. K \in 0 .. K
      BY <2>4
    <3> QED BY <2>4, <2>6, <3>1, AdvancingRun DEF Advance
  <2>8. from \in 0 .. N
    BY <1>1, <2>1, <2>6
  <2>9. x \in Seq(C)
    <3> HIDE DEF to
    <3> QED BY <2>7, <2>8, SpliceIsText
  <2>10. ASSUME ~ Has(nt, CR) PROVE OneReplaced(t, x, search, replace)
    <3> DEFINE u == StripCR(t)
    <3>1. nt = u /\ \A i \in 1 .. Len(t) : t[i] = CR => i < Len(t) /\ t[i + 1] = LF
      BY <2>10, NormalizedIsStripped DEF nt
    <3>2. ~ Has(ns, CR)
      BY <2>2, <2>3, <2>5, <2>10, PieceHasNone
    <3>3. ns = StripCR(search)
      BY <3>2, NormalizedIsStripped DEF ns
    <3>4. Held(t, 0) = 0
      BY HeldGrows
    <3>5. Held(t, 0) + (m - 1) <= Len(u) /\ 0 + (m - 1) = m - 1
      BY <2>3, <2>4, <2>5, <3>1, <3>4
    <3>z. 0 \in 0 .. Len(t)
      BY <1>1
    <3>6. Held(t, from) = m - 1
      <4>1. Held(t, from) = Held(t, 0) + (m - 1)
        BY <2>5, <3>1, <3>5, <3>z, AdvanceReaches DEF from, u
      <4> QED BY <3>4, <3>5, <4>1
    <3>7. Held(t, from) + K <= Len(u)
      BY <2>3, <3>1, <3>6
    <3>8. to \in from .. N /\ Held(t, to) = m - 1 + K /\ (from < to => t[to] # CR)
      <4>1. /\ to \in from .. Len(t) /\ Held(t, to) = Held(t, from) + K
            /\ (from < to => t[to] # CR)
        BY <2>4, <2>8, <3>1, <3>7, AdvanceReaches DEF u
      <4> QED BY <3>6, <4>1
    <3> HIDE DEF to
    <3>9. StripCR(SubSeq(t, from + 1, to)) = StripCR(search)
      <4>1. StripCR(SubSeq(t, from + 1, to)) = SubSeq(u, Held(t, from) + 1, Held(t, to))
        BY <2>8, <3>8, HeldPiece DEF u
      <4>2. Held(t, from) + 1 = m
        BY <2>3, <3>6
      <4> HIDE DEF u
      <4> QED BY <2>3, <3>1, <3>3, <3>8, <4>1, <4>2
    <3> HIDE DEF N
    <3>10. from \in 0 .. N /\ to \in 0 .. N /\ from <= to /\ N = Len(t)
      BY <1>1, <2>8, <3>8 DEF N
    <3> QED BY <3>8, <3>9, <3>10 DEF OneReplaced
  <2> QED BY <2>1, <2>9, <2>10 DEF nt
<1> QED BY <1>2, <1>3

\* ---- lines and their ends ----
\* A beginning that ends outside D, with nothing but D behind it.
LEMMA WithoutEndOnly ==
  ASSUME NEW E, NEW s \in Seq(E), NEW D, NEW n \in 0 .. Len(s),
         n > 0 => s[n] \notin D,
         \A k \in n + 1 .. Len(s) : s[k] \in D
  PROVE  WithoutEnd(s, D) = SubSeq(s, 1, n)
<1>1. PICK m \in 0 .. Len(s) :
         /\ WithoutEnd(s, D) = SubSeq(s, 1, m)
         /\ m > 0 => s[m] \notin D
         /\ \A k \in m + 1 .. Len(s) : s[k] \in D
  BY WithoutEndIs
<1>2. Len(s) \in Nat
  OBVIOUS
<1>3. ~ (m < n)
  <2> SUFFICES ASSUME m < n PROVE FALSE
    OBVIOUS
  <2>1. n \in m + 1 .. Len(s) /\ n > 0
    BY <1>2
  <2> QED BY <1>1, <2>1
<1>4. ~ (n < m)
  <2> SUFFICES ASSUME n < m PROVE FALSE
    OBVIOUS
  <2>1. m \in n + 1 .. Len(s) /\ m > 0
    BY <1>2
  <2> QED BY <1>1, <2>1
<1>5. m = n
  BY <1>2, <1>3, <1>4
<1> QED BY <1>1, <1>5

\* Taking away some of the end first makes no difference.
LEMMA WithoutEndOfFront ==
  ASSUME NEW E, NEW s \in Seq(E), NEW D, NEW n \in 0 .. Len(s),
         \A k \in n + 1 .. Len(s) : s[k] \in D
  PROVE  WithoutEnd(SubSeq(s, 1, n), D) = WithoutEnd(s, D)
<1> DEFINE N == Len(s)
           f == SubSeq(s, 1, n)
<1>1. N \in Nat /\ n \in Nat /\ n <= N
  OBVIOUS
<1>2. f \in Seq(E) /\ Len(f) = n /\ \A i \in 1 .. n : f[i] = s[i]
  BY FrontIsText
<1>3. PICK m \in 0 .. Len(f) :
         /\ WithoutEnd(f, D) = SubSeq(f, 1, m)
         /\ m > 0 => f[m] \notin D
         /\ \A k \in m + 1 .. Len(f) : f[k] \in D
  <2> HIDE DEF f
  <2> QED BY <1>2, WithoutEndIs
<1>4. SubSeq(f, 1, m) = SubSeq(s, 1, m)
  <2>1. m \in 0 .. n /\ m \in 0 .. N
    BY <1>1, <1>2
  <2>2. SubSeq(s, 1, m) \in Seq(E) /\ Len(SubSeq(s, 1, m)) = m
        /\ \A i \in 1 .. m : SubSeq(s, 1, m)[i] = s[i]
    BY <2>1, FrontIsText
  <2> HIDE DEF f
  <2>3. SubSeq(f, 1, m) \in Seq(E) /\ Len(SubSeq(f, 1, m)) = m
        /\ \A i \in 1 .. m : SubSeq(f, 1, m)[i] = f[i]
    BY <1>2, <2>1, FrontIsText
  <2>4. \A i \in 1 .. m : SubSeq(f, 1, m)[i] = SubSeq(s, 1, m)[i]
    <3>1. \A i \in 1 .. m : i \in 1 .. n
      BY <1>1, <2>1
    <3> QED BY <1>2, <2>2, <2>3, <3>1
  <2> DEFINE x == SubSeq(f, 1, m)
             y == SubSeq(s, 1, m)
  <2> HIDE DEF x, y
  <2> QED BY <2>2, <2>3, <2>4, SeqEqual DEF x, y
<1>5. m > 0 => s[m] \notin D
  <2>1. m > 0 => m \in 1 .. n
    BY <1>1, <1>2
  <2> QED BY <1>2, <1>3, <2>1
<1>6. \A k \in m + 1 .. N : s[k] \in D
  <2> TAKE k \in m + 1 .. N
  <2>1. k \in Nat /\ m \in Nat /\ m <= n
    BY <1>1, <1>2
  <2>2. CASE k <= n
    <3>1. k \in m + 1 .. n /\ k \in 1 .. n
      BY <1>1, <2>1, <2>2
    <3> QED BY <1>2, <1>3, <3>1
  <2>3. CASE k > n
    <3>1. k \in n + 1 .. Len(s)
      BY <1>1, <2>1, <2>3
    <3> QED BY <3>1
  <2> QED BY <1>1, <2>1, <2>2, <2>3
<1>7. m \in 0 .. Len(s)
  BY <1>1, <1>2
<1>8. WithoutEnd(s, D) = SubSeq(s, 1, m)
  BY <1>5, <1>6, <1>7, WithoutEndOnly
<1> QED BY <1>3, <1>4, <1>8

\* Blanks and CR at the end of a line, which say nothing.
Unsaid == {Blank, CR}

\* Trimming a line, and dropping or adding the CR at its end, leave what it says.
LEMMA TrimmedSays ==
  ASSUME NEW C, NEW l \in Seq(C)
  PROVE  /\ WithoutEnd(Trimmed(l), Unsaid) = WithoutEnd(l, Unsaid)
         /\ Trimmed(l) \in Seq(C)
<1>1. PICK n \in 0 .. Len(l) :
         /\ Trimmed(l) = SubSeq(l, 1, n)
         /\ \A k \in n + 1 .. Len(l) : l[k] \in {Blank}
  BY WithoutEndIs DEF Trimmed
<1>2. \A k \in n + 1 .. Len(l) : l[k] \in Unsaid
  BY <1>1 DEF Unsaid
<1>3. WithoutEnd(SubSeq(l, 1, n), Unsaid) = WithoutEnd(l, Unsaid)
  BY <1>2, WithoutEndOfFront
<1>4. Trimmed(l) \in Seq(C)
  BY WithoutEndIsText DEF Trimmed
<1> QED BY <1>1, <1>3, <1>4

LEMMA ChoppedSays ==
  ASSUME NEW C, NEW l \in Seq(C)
  PROVE  WithoutEnd(Chopped(l), Unsaid) = WithoutEnd(l, Unsaid)
<1>1. CASE l # <<>> /\ l[Len(l)] = CR
  <2>1. Len(l) - 1 \in 0 .. Len(l) /\ \A k \in (Len(l) - 1) + 1 .. Len(l) : k = Len(l)
    BY <1>1
  <2>2. \A k \in (Len(l) - 1) + 1 .. Len(l) : l[k] \in Unsaid
    BY <1>1, <2>1 DEF Unsaid
  <2>3. WithoutEnd(SubSeq(l, 1, Len(l) - 1), Unsaid) = WithoutEnd(l, Unsaid)
    BY <2>1, <2>2, WithoutEndOfFront
  <2> QED BY <1>1, <2>3 DEF Chopped
<1>2. CASE ~ (l # <<>> /\ l[Len(l)] = CR)
  BY <1>2 DEF Chopped
<1> QED BY <1>1, <1>2

LEMMA AppendCRSays ==
  ASSUME NEW C, CR \in C, NEW l \in Seq(C)
  PROVE  /\ WithoutEnd(Append(l, CR), Unsaid) = WithoutEnd(l, Unsaid)
         /\ Append(l, CR) \in Seq(C)
<1> DEFINE s == Append(l, CR)
           n == Len(l)
<1>1. /\ s \in Seq(C) /\ n \in Nat /\ Len(s) = n + 1 /\ s[n + 1] = CR
      /\ \A i \in 1 .. n : s[i] = l[i]
  OBVIOUS
<1>2. SubSeq(s, 1, n) = l
  <2>1. n \in 0 .. Len(s)
    BY <1>1
  <2> HIDE DEF s
  <2> DEFINE x == SubSeq(s, 1, n)
  <2>2. x \in Seq(C) /\ Len(x) = n /\ \A i \in 1 .. n : x[i] = s[i]
    BY <1>1, <2>1, FrontIsText
  <2>3. \A i \in 1 .. n : x[i] = l[i]
    BY <1>1, <2>2
  <2> HIDE DEF x
  <2>4. x = l
    BY <2>2, <2>3, SeqEqual
  <2> QED BY <2>4 DEF x
<1> HIDE DEF s, n
<1>3. n \in 0 .. Len(s) /\ \A k \in n + 1 .. Len(s) : s[k] \in Unsaid
  BY <1>1 DEF Unsaid
<1>4. WithoutEnd(SubSeq(s, 1, n), Unsaid) = WithoutEnd(s, Unsaid)
  BY <1>1, <1>3, WithoutEndOfFront
<1> QED BY <1>1, <1>2, <1>4 DEF s

\* Where the splitting of a whole text ends, and how it goes on.
EndState(t) == Split(t)[Len(t)]

LEMMA EndStateIsAcc ==
  ASSUME NEW C, NEW t \in Seq(C)
  PROVE  /\ EndState(t) \in Acc(C)
         /\ EndState(t).done \in Seq(Seq(C)) /\ EndState(t).line \in Seq(C)
<1>1. Len(t) \in 0 .. Len(t)
  OBVIOUS
<1>2. EndState(t) \in Acc(C)
  BY <1>1, SplitRun DEF EndState
<1> QED BY <1>2 DEF Acc

\* A symbol more at the end of a text is one step more of Split.
LEMMA SplitAppends ==
  ASSUME NEW C, NEW t \in Seq(C), NEW c \in C
  PROVE  EndState(Append(t, c)) = NextSymbol(EndState(t), c)
<1> DEFINE N == Len(t)
           a == Append(t, c)
           S == Split(t)
           A == Split(a)
           start == [done |-> <<>>, line |-> <<>>]
           Good == {i \in 0 .. N : A[i] = S[i]}
<1>1. /\ N \in Nat /\ a \in Seq(C) /\ Len(a) = N + 1 /\ a[N + 1] = c
      /\ \A i \in 1 .. N : a[i] = t[i]
  OBVIOUS
<1>2. S[0] = start /\ \A i \in 1 .. N : S[i] = NextSymbol(S[i - 1], t[i])
  BY SplitRun
<1> HIDE DEF a
<1>3. A[0] = start /\ \A i \in 1 .. Len(a) : A[i] = NextSymbol(A[i - 1], a[i])
  BY <1>1, SplitRun
<1>4. EndState(a) = A[N + 1] /\ EndState(t) = S[N]
  BY <1>1 DEF EndState
<1> HIDE DEF S, A, N, start
<1>5. 0 \in Good
  BY <1>1, <1>2, <1>3
<1>6. ASSUME NEW m \in 0 .. N - 1, m \in Good PROVE m + 1 \in Good
  <2>1. m + 1 \in 1 .. N /\ m + 1 \in 0 .. N /\ m + 1 \in 1 .. Len(a) /\ (m + 1) - 1 = m
    BY <1>1
  <2> QED BY <1>1, <1>2, <1>3, <1>6, <2>1
<1>g. \A i \in Good : A[i] = S[i]
  OBVIOUS
<1> HIDE DEF Good
<1>7. A[N] = S[N]
  <2>1. 0 .. N \subseteq Good
    BY <1>1, <1>5, <1>6, UpTo
  <2> QED BY <1>1, <1>g, <2>1
<1>8. N + 1 \in 1 .. Len(a) /\ (N + 1) - 1 = N
  BY <1>1
<1> QED BY <1>1, <1>3, <1>4, <1>7, <1>8 DEF a

LEMMA AppendOfConcat ==
  ASSUME NEW C, NEW x \in Seq(C), NEW y \in Seq(C), NEW c \in C
  PROVE  x \o Append(y, c) = Append(x \o y, c)
<1> DEFINE l == x \o Append(y, c)
           r == Append(x \o y, c)
<1>1. l \in Seq(C) /\ r \in Seq(C) /\ Len(l) = Len(x) + Len(y) + 1 /\ Len(r) = Len(l)
  OBVIOUS
<1>2. \A i \in 1 .. Len(l) : l[i] = r[i]
  OBVIOUS
<1> HIDE DEF l, r
<1> QED BY <1>1, <1>2, SeqEqual DEF l, r

LEMMA FrontGrows ==
  ASSUME NEW C, NEW l \in Seq(C), NEW i \in 0 .. Len(l) - 1
  PROVE  SubSeq(l, 1, i + 1) = Append(SubSeq(l, 1, i), l[i + 1])
<1> DEFINE x == SubSeq(l, 1, i + 1)
           y == SubSeq(l, 1, i)
           z == Append(y, l[i + 1])
<1>1. /\ Len(l) \in Nat /\ i \in Nat /\ i \in 0 .. Len(l) /\ i + 1 \in 0 .. Len(l)
      /\ l[i + 1] \in C
  OBVIOUS
<1>2. x \in Seq(C) /\ Len(x) = i + 1 /\ \A j \in 1 .. i + 1 : x[j] = l[j]
  BY <1>1, FrontIsText
<1>3. y \in Seq(C) /\ Len(y) = i /\ \A j \in 1 .. i : y[j] = l[j]
  BY <1>1, FrontIsText
<1> HIDE DEF x, y
<1>4. /\ z \in Seq(C) /\ Len(z) = i + 1 /\ z[i + 1] = l[i + 1]
      /\ \A j \in 1 .. i : z[j] = y[j]
  BY <1>1, <1>3
<1>5. \A j \in 1 .. i + 1 : x[j] = z[j]
  <2> TAKE j \in 1 .. i + 1
  <2>1. j = i + 1 \/ j \in 1 .. i
    BY <1>1
  <2> QED BY <1>2, <1>3, <1>4, <2>1
<1> HIDE DEF z
<1>6. x = z
  BY <1>2, <1>4, <1>5, SeqEqual
<1> QED BY <1>6 DEF x, y, z

\* What has no LF becomes a part of the line begun.
LEMMA LineStays ==
  ASSUME NEW C, NEW t \in Seq(C), NEW l \in Seq(C), ~ Has(l, LF)
  PROVE  EndState(t \o l) = [done |-> EndState(t).done, line |-> EndState(t).line \o l]
<1> DEFINE N == Len(l)
           f == [i \in 0 .. N |-> SubSeq(l, 1, i)]
           done == EndState(t).done
           line == EndState(t).line
           Good == {i \in 0 .. N : EndState(t \o f[i]) = [done |-> done, line |-> line \o f[i]]}
<1>1. N \in Nat /\ \A i \in 1 .. N : l[i] \in C /\ l[i] # LF
  BY DEF Has
<1>2. done \in Seq(Seq(C)) /\ line \in Seq(C) /\ EndState(t) = [done |-> done, line |-> line]
  BY EndStateIsAcc DEF Acc
<1>3. f[0] = <<>> /\ f[N] = l
  <2>1. SubSeq(l, 1, 0) = <<>>
    BY SubSeqEmpty
  <2>2. SubSeq(l, 1, N) = l
    BY SubSeqFull
  <2> QED BY <1>1, <2>1, <2>2
<1>4. \A i \in 0 .. N : f[i] \in Seq(C)
  BY FrontIsText
<1>5. \A i \in 0 .. N - 1 : f[i + 1] = Append(f[i], l[i + 1])
  <2> TAKE i \in 0 .. N - 1
  <2>1. i \in 0 .. N /\ i + 1 \in 0 .. N
    BY <1>1
  <2>2. SubSeq(l, 1, i + 1) = Append(SubSeq(l, 1, i), l[i + 1])
    BY FrontGrows
  <2> QED BY <2>1, <2>2
<1> HIDE DEF f, N, done, line
<1>6. 0 \in Good
  <2>1. t \o <<>> = t /\ line \o <<>> = line
    BY <1>2
  <2>2. EndState(t \o f[0]) = [done |-> done, line |-> line \o f[0]]
    BY <1>2, <1>3, <2>1, Zenon
  <2>3. 0 \in 0 .. N
    BY <1>1
  <2> QED BY <2>2, <2>3, Zenon
<1>7. ASSUME NEW i \in 0 .. N - 1, i \in Good PROVE i + 1 \in Good
  <2> DEFINE c == l[i + 1]
             x == f[i]
  <2>1. i \in 0 .. N /\ i + 1 \in 0 .. N /\ i + 1 \in 1 .. N
    BY <1>1
  <2>2. c \in C /\ c # LF /\ x \in Seq(C) /\ f[i + 1] = Append(x, c)
    BY <1>1, <1>4, <1>5, <2>1
  <2>3. EndState(t \o x) = [done |-> done, line |-> line \o x]
    BY <1>7
  <2> HIDE DEF c, x
  <2>4. t \o f[i + 1] = Append(t \o x, c) /\ line \o f[i + 1] = Append(line \o x, c)
    <3>1. t \o Append(x, c) = Append(t \o x, c)
      BY <2>2, AppendOfConcat, SMTT(40)
    <3>2. line \o Append(x, c) = Append(line \o x, c)
      BY <1>2, <2>2, AppendOfConcat, SMTT(40)
    <3> QED BY <2>2, <3>1, <3>2, Zenon
  <2>5. t \o x \in Seq(C)
    BY <2>2
  <2>6. EndState(Append(t \o x, c)) = NextSymbol(EndState(t \o x), c)
    BY <2>2, <2>5, SplitAppends
  <2> DEFINE s == line \o x
  <2> HIDE DEF s
  <2>7. NextSymbol([done |-> done, line |-> s], c) = [done |-> done, line |-> Append(s, c)]
    BY <2>2 DEF NextSymbol
  <2>8. EndState(t \o f[i + 1]) = [done |-> done, line |-> line \o f[i + 1]]
    BY <2>3, <2>4, <2>6, <2>7 DEF s
  <2> QED BY <2>1, <2>8
<1>g. \A i \in Good : EndState(t \o f[i]) = [done |-> done, line |-> line \o f[i]]
  OBVIOUS
<1> HIDE DEF Good
<1>8. EndState(t \o l) = [done |-> done, line |-> line \o l]
  <2>1. 0 .. N \subseteq Good
    BY <1>1, <1>6, <1>7, UpTo
  <2>2. N \in Good
    BY <1>1, <2>1
  <2>3. EndState(t \o f[N]) = [done |-> done, line |-> line \o f[N]]
    BY <1>g, <2>2, Zenon
  <2> QED BY <1>3, <2>3, Zenon
<1> QED BY <1>8 DEF done, line

\* Lines have no LF in them.
LEMMA FrontHasNone ==
  ASSUME NEW C, NEW l \in Seq(C), NEW n \in 0 .. Len(l), NEW e, ~ Has(l, e)
  PROVE  ~ Has(SubSeq(l, 1, n), e)
<1> DEFINE f == SubSeq(l, 1, n)
<1>1. f \in Seq(C) /\ Len(f) = n /\ \A i \in 1 .. n : f[i] = l[i]
  BY FrontIsText
<1>2. DOMAIN f = 1 .. n /\ \A i \in 1 .. n : i \in DOMAIN l
  BY <1>1
<1> HIDE DEF f
<1>3. ~ Has(f, e)
  BY <1>1, <1>2 DEF Has
<1> QED BY <1>3 DEF f

LEMMA ChoppedHasNone ==
  ASSUME NEW C, NEW l \in Seq(C), ~ Has(l, LF)
  PROVE  ~ Has(Chopped(l), LF)
<1>1. CASE l # <<>> /\ l[Len(l)] = CR
  <2>1. Len(l) - 1 \in 0 .. Len(l)
    BY <1>1
  <2> QED BY <1>1, <2>1, FrontHasNone DEF Chopped
<1>2. CASE ~ (l # <<>> /\ l[Len(l)] = CR)
  BY <1>2 DEF Chopped
<1> QED BY <1>1, <1>2

Clean(ls) == \A i \in DOMAIN ls : ~ Has(ls[i], LF)

LEMMA CleanAppends ==
  ASSUME NEW C, NEW ls \in Seq(Seq(C)), Clean(ls), NEW l \in Seq(C), ~ Has(l, LF)
  PROVE  Clean(Append(ls, l))
<1> DEFINE a == Append(ls, l)
           n == Len(ls)
           T == Seq(C)
<1>1. /\ n \in Nat /\ DOMAIN ls = 1 .. n
      /\ DOMAIN a = 1 .. n + 1 /\ a[n + 1] = l /\ \A i \in 1 .. n : a[i] = ls[i]
  <2>1. ls \in Seq(T) /\ l \in T
    OBVIOUS
  <2> HIDE DEF T
  <2> QED BY <2>1
<1> HIDE DEF a, n
<1>2. ASSUME NEW i \in 1 .. n + 1 PROVE ~ Has(a[i], LF)
  <2>1. CASE i = n + 1
    BY <1>1, <2>1
  <2>2. CASE i # n + 1
    <3>1. i \in 1 .. n
      BY <1>1, <2>2
    <3> QED BY <1>1, <3>1 DEF Clean
  <2> QED BY <2>1, <2>2
<1>3. Clean(a)
  BY <1>1, <1>2 DEF Clean
<1> QED BY <1>3 DEF a

\* No line holds an LF.
LEMMA LinesAreClean ==
  ASSUME NEW C, NEW t \in Seq(C) PROVE Clean(Lines(t))
<1> DEFINE N == Len(t)
           run == Split(t)
           S == {acc \in Acc(C) : Clean(acc.done) /\ ~ Has(acc.line, LF)}
<1>1. /\ run[0] = [done |-> <<>>, line |-> <<>>]
      /\ \A n \in 1 .. N : run[n] = NextSymbol(run[n - 1], t[n])
      /\ \A n \in 0 .. N : run[n] \in Acc(C)
  BY SplitRun
<1>2. N \in Nat /\ \A n \in 1 .. N : t[n] \in C
  OBVIOUS
<1> HIDE DEF run, N
<1>3. run[0] \in S
  <2>1. Clean(<<>>) /\ ~ Has(<<>>, LF)
    BY DEF Clean, Has
  <2>2. run[0] \in Acc(C)
    BY <1>1, <1>2
  <2> QED BY <1>1, <2>1, <2>2
<1>4. ASSUME NEW n \in 1 .. N, run[n - 1] \in S PROVE run[n] \in S
  <2> DEFINE acc == run[n - 1]
             lines == acc.done
             line == acc.line
             c == t[n]
  <2>1. /\ acc \in Acc(C) /\ run[n] \in Acc(C) /\ run[n] = NextSymbol(acc, c) /\ c \in C
        /\ Clean(lines) /\ ~ Has(line, LF)
    BY <1>1, <1>2, <1>4
  <2>2. lines \in Seq(Seq(C)) /\ line \in Seq(C)
    BY <2>1 DEF Acc
  <2> HIDE DEF c
  <2>3. CASE c = LF
    <3>1. run[n].done = Append(lines, Chopped(line)) /\ run[n].line = <<>>
      BY <2>1, <2>3 DEF NextSymbol
    <3> HIDE DEF lines, line
    <3>2. Clean(Append(lines, Chopped(line)))
      BY <2>1, <2>2, CleanAppends, ChoppedHasNone, ChoppedIsText
    <3>3. ~ Has(<<>>, LF)
      BY DEF Has
    <3> QED BY <2>1, <3>1, <3>2, <3>3
  <2>4. CASE c # LF
    <3>1. run[n].done = lines /\ run[n].line = Append(line, c)
      BY <2>1, <2>4 DEF NextSymbol, Acc
    <3> HIDE DEF lines, line
    <3>2. ~ Has(Append(line, c), LF)
      <4>1. /\ DOMAIN line = 1 .. Len(line) /\ Len(line) \in Nat
            /\ DOMAIN Append(line, c) = 1 .. Len(line) + 1
            /\ Append(line, c)[Len(line) + 1] = c
            /\ \A i \in 1 .. Len(line) : Append(line, c)[i] = line[i]
        BY <2>1, <2>2
      <4>2. \A i \in 1 .. Len(line) + 1 : i = Len(line) + 1 \/ i \in 1 .. Len(line)
        BY <4>1
      <4> QED BY <2>1, <2>4, <4>1, <4>2 DEF Has
    <3> QED BY <2>1, <3>1, <3>2
  <2> QED BY <2>3, <2>4
<1>5. run[N] \in S
  <2> HIDE DEF S
  <2>1. \A n \in 0 .. N : run[n] \in S
    BY <1>2, <1>3, <1>4, AllAlong
  <2> QED BY <1>2, <2>1
<1> DEFINE end == run[N]
<1>6. end \in Acc(C) /\ Clean(end.done) /\ ~ Has(end.line, LF)
  BY <1>5
<1>7. Lines(t) = IF end.line = <<>> THEN end.done ELSE Append(end.done, Chopped(end.line))
  BY DEF Lines, run, N
<1> HIDE DEF end
<1>8. end.done \in Seq(Seq(C)) /\ end.line \in Seq(C)
  BY <1>6 DEF Acc
<1>9. Clean(Append(end.done, Chopped(end.line)))
  BY <1>6, <1>8, CleanAppends, ChoppedHasNone, ChoppedIsText
<1> QED BY <1>6, <1>7, <1>9

\* A line as it is read again behind the clean-up.
Read(l, eol) == Chopped(IF eol = <<LF>> THEN Trimmed(l) ELSE Append(Trimmed(l), CR))

\* A line that was written and read again says what it said.
LEMMA ReadSays ==
  ASSUME NEW C, CR \in C, NEW l \in Seq(C), NEW eol
  PROVE  /\ Read(l, eol) \in Seq(C)
         /\ WithoutEnd(Read(l, eol), Unsaid) = WithoutEnd(l, Unsaid)
<1> DEFINE s == Trimmed(l)
           r == IF eol = <<LF>> THEN s ELSE Append(s, CR)
<1>1. s \in Seq(C) /\ WithoutEnd(s, Unsaid) = WithoutEnd(l, Unsaid)
  BY TrimmedSays
<1> HIDE DEF s
<1>2. r \in Seq(C) /\ WithoutEnd(r, Unsaid) = WithoutEnd(l, Unsaid)
  BY <1>1, AppendCRSays
<1> HIDE DEF r
<1>3. Chopped(r) \in Seq(C) /\ WithoutEnd(Chopped(r), Unsaid) = WithoutEnd(r, Unsaid)
  BY <1>2, ChoppedIsText, ChoppedSays
<1>4. Read(l, eol) = Chopped(r)
  BY DEF Read, r, s
<1> QED BY <1>2, <1>3, <1>4

\* Writing a line behind finished lines adds that line, and nothing is begun.
LEMMA LineWritten ==
  ASSUME NEW C, CR \in C, LF \in C, NEW t \in Seq(C), NEW l \in Seq(C), ~ Has(l, LF),
         NEW eol, eol = <<LF>> \/ eol = <<CR, LF>>, EndState(t).line = <<>>
  PROVE  EndState((t \o Trimmed(l)) \o eol) =
           [done |-> Append(EndState(t).done, Read(l, eol)), line |-> <<>>]
<1> DEFINE s == Trimmed(l)
           x == t \o s
           done == EndState(t).done
<1>1. s \in Seq(C) /\ ~ Has(s, LF)
  <2>1. PICK n \in 0 .. Len(l) : s = SubSeq(l, 1, n)
    BY WithoutEndIs DEF Trimmed
  <2>2. ~ Has(SubSeq(l, 1, n), LF)
    BY FrontHasNone
  <2>3. s \in Seq(C)
    BY TrimmedSays
  <2> QED BY <2>1, <2>2, <2>3
<1>e. done \in Seq(Seq(C))
  BY EndStateIsAcc
<1>d. CR # LF
  BY DEF CR, LF
<1> HIDE DEF s
<1>2. EndState(x) = [done |-> done, line |-> s]
  <2>1. EndState(x) = [done |-> done, line |-> <<>> \o s]
    BY <1>1, LineStays
  <2>2. <<>> \o s = s
    BY <1>1
  <2> QED BY <2>1, <2>2
<1>3. x \in Seq(C)
  BY <1>1
<1> HIDE DEF x, done
<1>4. CASE eol = <<LF>>
  <2>1. x \o <<LF>> = Append(x, LF)
    BY <1>3, AppendIsConcat
  <2>2. EndState(Append(x, LF)) = NextSymbol(EndState(x), LF)
    BY <1>3, SplitAppends
  <2>3. NextSymbol([done |-> done, line |-> s], LF) =
          [done |-> Append(done, Chopped(s)), line |-> <<>>]
    BY DEF NextSymbol
  <2>4. Read(l, eol) = Chopped(s)
    BY <1>4 DEF Read, s
  <2> QED BY <1>2, <1>4, <2>1, <2>2, <2>3, <2>4, Zenon DEF x, s, done
<1>5. CASE eol = <<CR, LF>>
  <2> DEFINE y == Append(x, CR)
             r == Append(s, CR)
  <2>0. x \o <<CR, LF>> = Append(y, LF)
    <3>1. <<CR, LF>> = Append(<<CR>>, LF) /\ <<CR>> \in Seq(C)
      OBVIOUS
    <3>2. x \o Append(<<CR>>, LF) = Append(x \o <<CR>>, LF)
      BY <1>3, <3>1, AppendOfConcat
    <3>3. x \o <<CR>> = Append(x, CR)
      BY <1>3, AppendIsConcat
    <3> QED BY <3>1, <3>2, <3>3
  <2>1. EndState(y) = NextSymbol(EndState(x), CR)
    BY <1>3, SplitAppends
  <2>2. NextSymbol([done |-> done, line |-> s], CR) = [done |-> done, line |-> r]
    BY <1>d DEF NextSymbol
  <2>3. y \in Seq(C)
    BY <1>3
  <2>4. EndState(Append(y, LF)) = NextSymbol(EndState(y), LF)
    BY <2>3, SplitAppends
  <2> HIDE DEF r
  <2>5. NextSymbol([done |-> done, line |-> r], LF) =
          [done |-> Append(done, Chopped(r)), line |-> <<>>]
    BY DEF NextSymbol
  <2>6. Read(l, eol) = Chopped(r)
    <3>1. <<CR, LF>> # <<LF>>
      BY <1>d
    <3> QED BY <1>5, <3>1 DEF Read, r, s
  <2>7. EndState(x \o eol) = [done |-> Append(done, Read(l, eol)), line |-> <<>>]
    <3> HIDE DEF y
    <3> QED BY <1>2, <1>5, <2>0, <2>1, <2>2, <2>4, <2>5, <2>6, Zenon
  <2> QED BY <2>7, Zenon DEF x, s, done
<1> QED BY <1>4, <1>5

\* The lines of what is written are the lines that were, each trimmed.
LEMMA WrittenLines ==
  ASSUME NEW C, CR \in C, LF \in C, NEW ls \in Seq(Seq(C)), Clean(ls),
         NEW eol, eol = <<LF>> \/ eol = <<CR, LF>>
  PROVE  /\ Lines(Writing(ls, eol)[Len(ls)]) = [i \in 1 .. Len(ls) |-> Read(ls[i], eol)]
         /\ \A i \in 1 .. Len(ls) : Read(ls[i], eol) \in Seq(C)
<1> DEFINE N == Len(ls)
           W == Writing(ls, eol)
           read(n) == [i \in 1 .. n |-> Read(ls[i], eol)]
           Good == {n \in 0 .. N : EndState(W[n]) = [done |-> read(n), line |-> <<>>]}
<1>1. /\ N \in Nat /\ eol \in Seq(C)
      /\ \A n \in 1 .. N : ls[n] \in Seq(C) /\ ~ Has(ls[n], LF)
  <2>1. \A n \in 1 .. N : ls[n] \in Seq(C)
    <3> DEFINE T == Seq(C)
    <3>1. ls \in Seq(T)
      OBVIOUS
    <3> HIDE DEF T
    <3>2. \A n \in 1 .. Len(ls) : ls[n] \in T
      BY <3>1
    <3> QED BY <3>2 DEF T
  <2>2. DOMAIN ls = 1 .. N /\ N \in Nat
    OBVIOUS
  <2>3. eol \in Seq(C)
    <3>1. <<LF>> \in Seq(C) /\ <<CR, LF>> \in Seq(C)
      OBVIOUS
    <3> QED BY <3>1, Zenon
  <2> QED BY <2>1, <2>2, <2>3 DEF Clean
<1>2. /\ W[0] = <<>>
      /\ \A n \in 1 .. N : W[n] = W[n - 1] \o Trimmed(ls[n]) \o eol
      /\ \A n \in 0 .. N : W[n] \in Seq(C)
  BY <1>1, WritingRun
<1>3. \A n \in 1 .. N : Read(ls[n], eol) \in Seq(C)
  BY <1>1, ReadSays
<1>4. \A n \in 0 .. N : read(n) \in Seq(Seq(C))
  <2> TAKE n \in 0 .. N
  <2> DEFINE T == Seq(C)
             r(i) == Read(ls[i], eol)
  <2>1. n \in Nat /\ \A i \in 1 .. n : r(i) \in T
    BY <1>1, <1>3
  <2> HIDE DEF T, r
  <2>2. [i \in 1 .. n |-> r(i)] \in Seq(T)
    BY <2>1, IsASeq
  <2> QED BY <2>2 DEF T, r
<1> HIDE DEF W, N
<1>5. 0 \in Good
  <2>1. EndState(<<>>) = [done |-> <<>>, line |-> <<>>]
    <3>1. <<>> \in Seq(C) /\ Len(<<>>) = 0
      OBVIOUS
    <3>2. Split(<<>>)[0] = [done |-> <<>>, line |-> <<>>]
      BY <3>1, SplitRun
    <3> QED BY <3>1, <3>2 DEF EndState
  <2>2. read(0) = <<>>
    OBVIOUS
  <2>3. 0 \in 0 .. N
    BY <1>1
  <2> QED BY <1>2, <2>1, <2>2, <2>3
<1>6. ASSUME NEW m \in 0 .. N - 1, m \in Good PROVE m + 1 \in Good
  <2> DEFINE n == m + 1
             l == ls[n]
             t == W[m]
  <2>1. n \in 1 .. N /\ n \in 0 .. N /\ n - 1 = m /\ m \in 0 .. N /\ m \in Nat
    BY <1>1
  <2>2. EndState(t) = [done |-> read(m), line |-> <<>>]
    BY <1>6
  <2>3. W[n] = (t \o Trimmed(l)) \o eol /\ t \in Seq(C) /\ l \in Seq(C) /\ ~ Has(l, LF)
    BY <1>1, <1>2, <2>1
  <2>4. EndState(t).line = <<>> /\ EndState(t).done = read(m)
    BY <2>2
  <2> HIDE DEF l, t, read
  <2>5. EndState((t \o Trimmed(l)) \o eol) =
          [done |-> Append(read(m), Read(l, eol)), line |-> <<>>]
    BY <2>3, <2>4, LineWritten
  <2>6. Append(read(m), Read(l, eol)) = read(n)
    <3> DEFINE T == Seq(C)
               a == Append(read(m), Read(l, eol))
    <3>1. read(m) \in Seq(T) /\ read(n) \in Seq(T) /\ Read(l, eol) \in T
      BY <1>3, <1>4, <2>1 DEF l
    <3>2. Len(read(m)) = m /\ Len(read(n)) = n
      BY <2>1 DEF read
    <3>3. \A i \in 1 .. m : read(n)[i] = read(m)[i]
      BY <2>1 DEF read
    <3>4. read(n)[n] = Read(l, eol)
      BY <2>1 DEF read, l
    <3> HIDE DEF T
    <3>5. /\ a \in Seq(T) /\ Len(a) = n /\ a[n] = Read(l, eol)
          /\ \A i \in 1 .. m : a[i] = read(m)[i]
      BY <2>1, <3>1, <3>2
    <3>6. \A i \in 1 .. n : i = n \/ i \in 1 .. m
      BY <2>1
    <3> HIDE DEF a, n
    <3>7. a = read(n)
      BY <3>1, <3>2, <3>3, <3>4, <3>5, <3>6, SeqEqual
    <3> QED BY <3>7 DEF a, n
  <2> QED BY <2>1, <2>3, <2>5, <2>6
<1>g. \A i \in Good : EndState(W[i]) = [done |-> read(i), line |-> <<>>]
  OBVIOUS
<1> HIDE DEF Good, read
<1>7. EndState(W[N]) = [done |-> read(N), line |-> <<>>]
  <2>1. 0 .. N \subseteq Good
    BY <1>1, <1>5, <1>6, UpTo
  <2> QED BY <1>1, <1>g, <2>1
<1>8. Lines(W[N]) = read(N)
  BY <1>7 DEF Lines, EndState
<1> QED BY <1>3, <1>8 DEF W, N, read

\* What a list of lines says: Said is what the lines of a text say.
SaidBy(ls) == WithoutEmptyEnd([i \in DOMAIN ls |-> WithoutEnd(ls[i], Unsaid)])

LEMMA SaidIs == \A t : Said(t) = SaidBy(Lines(t))
  BY DEF Said, SaidBy, Unsaid

LEMMA NothingSays == WithoutEnd(<<>>, Unsaid) = <<>>
<1> DEFINE e == <<>>
           D == Unsaid
           x == WithoutEnd(e, D)
<1>1. e \in Seq({0}) /\ Len(e) = 0
  OBVIOUS
<1> HIDE DEF e, D
<1>2. PICK n \in 0 .. Len(e) : /\ x = SubSeq(e, 1, n)
                               /\ n > 0 => e[n] \notin D
                               /\ \A k \in n + 1 .. Len(e) : e[k] \in D
  BY <1>1, WithoutEndIs
<1> HIDE DEF x
<1>3. n = 0
  BY <1>1, <1>2
<1>4. x = SubSeq(e, 1, 0)
  BY <1>2, <1>3, Zenon
<1>5. SubSeq(e, 1, 0) = <<>>
  BY DEF e
<1> QED BY <1>4, <1>5, Zenon DEF x, e, D

\* What the lines say one by one is a sequence of texts.
LEMMA SaysAreTexts ==
  ASSUME NEW C, NEW ls \in Seq(Seq(C))
  PROVE  LET u == [i \in DOMAIN ls |-> WithoutEnd(ls[i], Unsaid)]
         IN  u \in Seq(Seq(C)) /\ Len(u) = Len(ls)
<1> DEFINE N == Len(ls)
           T == Seq(C)
           w(i) == WithoutEnd(ls[i], Unsaid)
<1>1. DOMAIN ls = 1 .. N /\ N \in Nat
  OBVIOUS
<1>2. \A i \in 1 .. N : ls[i] \in T
  <2>1. ls \in Seq(T)
    OBVIOUS
  <2> HIDE DEF T
  <2> QED BY <2>1
<1>3. \A i \in 1 .. N : w(i) \in T
  BY <1>2, WithoutEndIsText
<1> HIDE DEF N, T, w
<1>4. [i \in 1 .. N |-> w(i)] \in Seq(T) /\ Len([i \in 1 .. N |-> w(i)]) = N
  BY <1>1, <1>3, IsASeq, LenProperties
<1> QED BY <1>1, <1>4 DEF w, T, N

\* Lines that say nothing say nothing together.
LEMMA SaidNothing ==
  ASSUME NEW C, NEW ls \in Seq(Seq(C)),
         \A i \in DOMAIN ls : WithoutEnd(ls[i], Unsaid) = <<>>
  PROVE  SaidBy(ls) = <<>>
<1> DEFINE u == [i \in DOMAIN ls |-> WithoutEnd(ls[i], Unsaid)]
           T == Seq(C)
<1>1. u \in Seq(T) /\ Len(u) = Len(ls)
  BY SaysAreTexts
<1>2. DOMAIN ls = 1 .. Len(ls) /\ Len(ls) \in Nat
  OBVIOUS
<1>3. \A i \in 1 .. Len(ls) : u[i] = <<>>
  BY <1>2
<1> HIDE DEF u, T
<1>4. PICK n \in 0 .. Len(u) : /\ WithoutEnd(u, {<<>>}) = SubSeq(u, 1, n)
                               /\ n > 0 => u[n] \notin {<<>>}
  BY <1>1, WithoutEndIs
<1>5. n = 0
  BY <1>1, <1>2, <1>3, <1>4
<1>6. SubSeq(u, 1, 0) = <<>>
  BY <1>1
<1>7. SaidBy(ls) = WithoutEnd(u, {<<>>})
  BY DEF SaidBy, u, WithoutEmptyEnd
<1> QED BY <1>4, <1>5, <1>6, <1>7

\* Lines behind the last that is not empty say nothing.
LEMMA EmptyEndSaysNothing ==
  ASSUME NEW C, NEW ls \in Seq(Seq(C)), NEW n \in 0 .. Len(ls),
         \A k \in n + 1 .. Len(ls) : ls[k] = <<>>
  PROVE  SaidBy(SubSeq(ls, 1, n)) = SaidBy(ls)
<1> DEFINE T == Seq(C)
           u == [i \in DOMAIN ls |-> WithoutEnd(ls[i], Unsaid)]
           kept == SubSeq(ls, 1, n)
           v == [i \in DOMAIN kept |-> WithoutEnd(kept[i], Unsaid)]
<1>1. ls \in Seq(T)
  OBVIOUS
<1>2. u \in Seq(T) /\ Len(u) = Len(ls) /\ DOMAIN ls = 1 .. Len(ls) /\ Len(ls) \in Nat
  BY SaysAreTexts
<1>3. kept \in Seq(T) /\ Len(kept) = n /\ \A i \in 1 .. n : kept[i] = ls[i]
  BY <1>1, FrontIsText, Zenon
<1>4. v \in Seq(T) /\ Len(v) = n
  BY <1>3, SaysAreTexts
<1>5. DOMAIN kept = 1 .. n
  <2> HIDE DEF kept, T
  <2> QED BY <1>3
<1>6. \A i \in 1 .. n : v[i] = u[i]
  <2> HIDE DEF kept
  <2> QED BY <1>2, <1>3, <1>5
<1>7. \A k \in n + 1 .. Len(u) : u[k] \in {<<>>}
  BY <1>2, NothingSays
<1>8. SaidBy(ls) = WithoutEnd(u, {<<>>}) /\ SaidBy(kept) = WithoutEnd(v, {<<>>})
  <2> HIDE DEF kept
  <2> QED BY Zenon DEF SaidBy, u, v, WithoutEmptyEnd
<1>9. n \in 0 .. Len(u)
  BY <1>2
<1> HIDE DEF u, v, T, kept
<1>10. WithoutEnd(SubSeq(u, 1, n), {<<>>}) = WithoutEnd(u, {<<>>})
  BY <1>2, <1>7, <1>9, WithoutEndOfFront
<1>11. SubSeq(u, 1, n) = v
  <2>1. /\ SubSeq(u, 1, n) \in Seq(T) /\ Len(SubSeq(u, 1, n)) = n
        /\ \A i \in 1 .. n : SubSeq(u, 1, n)[i] = u[i]
    BY <1>2, <1>9, FrontIsText
  <2> DEFINE f == SubSeq(u, 1, n)
  <2> HIDE DEF f
  <2>2. f \in Seq(T) /\ Len(f) = n /\ \A i \in 1 .. n : f[i] = v[i]
    BY <2>1, <1>6 DEF f
  <2>3. f = v
    BY <2>2, <1>4, SeqEqual
  <2> QED BY <2>3 DEF f
<1> QED BY <1>8, <1>10, <1>11 DEF kept

\* Every LF of x has its CR.
Paired(x) == \A i \in 1 .. Len(x) : x[i] = LF => i > 1 /\ x[i - 1] = CR

\* Text in which every LF ends a CR LF stays so with a line more.
LEMMA PairedAppends ==
  ASSUME NEW C, CR \in C, LF \in C, NEW x \in Seq(C), Paired(x), NEW s \in Seq(C), ~ Has(s, LF)
  PROVE  Paired(x \o s \o <<CR, LF>>)
<1> DEFINE y == x \o s
           e == <<CR, LF>>
           z == y \o e
<1>d. CR # LF
  BY DEF CR, LF
<1>1. y \in Seq(C) /\ Len(y) = Len(x) + Len(s)
  OBVIOUS
<1>2. /\ \A i \in 1 .. Len(x) : y[i] = x[i]
      /\ \A i \in Len(x) + 1 .. Len(x) + Len(s) : y[i] = s[i - Len(x)]
  OBVIOUS
<1>3. Len(x) \in Nat /\ Len(s) \in Nat
  OBVIOUS
<1>4. \A i \in 1 .. Len(s) : s[i] # LF
  BY DEF Has
<1>e. e \in Seq(C) /\ Len(e) = 2 /\ e[1] = CR /\ e[2] = LF
  OBVIOUS
<1> HIDE DEF y, e
<1>5. Len(z) = Len(y) + 2 /\ z[Len(y) + 1] = CR /\ z[Len(y) + 2] = LF
  <2>1. Len(y) \in Nat
    BY <1>1
  <2>2. /\ Len(z) = Len(y) + Len(e)
        /\ \A i \in 1 .. Len(y) + Len(e) : z[i] = IF i <= Len(y) THEN y[i] ELSE e[i - Len(y)]
    <3>1. y \in Seq(C) /\ e \in Seq(C)
      BY <1>1, <1>e
    <3> QED BY <3>1, ConcatProperties
  <2> HIDE DEF z
  <2>3. /\ Len(y) + 1 \in 1 .. Len(y) + 2 /\ ~ (Len(y) + 1 <= Len(y)) /\ Len(y) + 1 - Len(y) = 1
        /\ Len(y) + 2 \in 1 .. Len(y) + 2 /\ ~ (Len(y) + 2 <= Len(y)) /\ Len(y) + 2 - Len(y) = 2
    BY <2>1
  <2> QED BY <1>e, <2>2, <2>3
<1>6. \A i \in 1 .. Len(y) : z[i] = y[i]
  BY <1>1
<1> HIDE DEF z
<1>r. ASSUME NEW a \in Nat, NEW b \in Nat, NEW i \in 1 .. a + b + 2
      PROVE  i \in 1 .. a \/ i \in a + 1 .. a + b \/ i = a + b + 1 \/ i = a + b + 2
  OBVIOUS
<1>7. ASSUME NEW i \in 1 .. Len(z), z[i] = LF PROVE i > 1 /\ z[i - 1] = CR
  <2>1. CASE i \in 1 .. Len(x)
    <3>1. x[i] = LF
      BY <1>1, <1>2, <1>3, <1>6, <1>7, <2>1
    <3>2. i > 1 /\ x[i - 1] = CR
      BY <2>1, <3>1 DEF Paired
    <3>3. i - 1 \in 1 .. Len(x) /\ i - 1 \in 1 .. Len(y)
      BY <1>1, <1>3, <2>1, <3>2
    <3> QED BY <1>2, <1>6, <3>2, <3>3
  <2>2. CASE i \in Len(x) + 1 .. Len(x) + Len(s)
    <3>1. i - Len(x) \in 1 .. Len(s) /\ i \in 1 .. Len(y)
      BY <1>1, <1>3, <2>2
    <3>2. z[i] = s[i - Len(x)]
      BY <1>2, <1>6, <2>2, <3>1
    <3> QED BY <1>4, <1>7, <3>1, <3>2
  <2>3. CASE i = Len(y) + 1
    BY <1>d, <1>5, <1>7, <2>3
  <2>4. CASE i = Len(y) + 2
    <3>1. i - 1 = Len(y) + 1 /\ i > 1
      BY <1>1, <1>3, <2>4
    <3> QED BY <1>5, <3>1
  <2>5. i \in 1 .. Len(x) \/ i \in Len(x) + 1 .. Len(x) + Len(s) \/ i = Len(y) + 1 \/ i = Len(y) + 2
    <3>1. Len(z) = Len(x) + Len(s) + 2
      BY <1>1, <1>3, <1>5
    <3>2. i \in 1 .. Len(x) + Len(s) + 2
      BY <3>1
    <3> QED BY <1>1, <1>3, <1>r, <3>2
  <2> QED BY <2>1, <2>2, <2>3, <2>4, <2>5
<1> QED BY <1>7 DEF Paired, z, y, e

LEMMA TrimmedHasNone ==
  ASSUME NEW C, NEW l \in Seq(C), ~ Has(l, LF)
  PROVE  Trimmed(l) \in Seq(C) /\ ~ Has(Trimmed(l), LF)
<1>1. PICK n \in 0 .. Len(l) : Trimmed(l) = SubSeq(l, 1, n)
  BY WithoutEndIs DEF Trimmed
<1>2. ~ Has(SubSeq(l, 1, n), LF)
  BY FrontHasNone
<1>3. Trimmed(l) \in Seq(C)
  BY TrimmedSays
<1> QED BY <1>1, <1>2, <1>3

\* With CR LF at the end of each line, every LF that is written has its CR.
LEMMA WrittenPaired ==
  ASSUME NEW C, CR \in C, LF \in C, NEW ls \in Seq(Seq(C)), Clean(ls)
  PROVE  Paired(Writing(ls, <<CR, LF>>)[Len(ls)])
<1> DEFINE N == Len(ls)
           e == <<CR, LF>>
           W == Writing(ls, e)
           S == {x \in Seq(C) : Paired(x)}
           T == Seq(C)
<1>1. N \in Nat /\ DOMAIN ls = 1 .. N /\ e \in Seq(C)
  OBVIOUS
<1>2. \A n \in 1 .. N : ls[n] \in Seq(C)
  <2>1. ls \in Seq(T)
    OBVIOUS
  <2> HIDE DEF T
  <2>2. \A n \in 1 .. N : ls[n] \in T
    BY <2>1
  <2> QED BY <2>2 DEF T
<1>3. /\ W[0] = <<>>
      /\ \A n \in 1 .. N : W[n] = W[n - 1] \o Trimmed(ls[n]) \o e
  BY <1>1, WritingRun
<1>4. <<>> \in S
  BY DEF Paired
<1> HIDE DEF N, W
<1>5. ASSUME NEW n \in 1 .. N, W[n - 1] \in S PROVE W[n] \in S
  <2> DEFINE x == W[n - 1]
             s == Trimmed(ls[n])
  <2>1. s \in Seq(C) /\ ~ Has(s, LF)
    BY <1>1, <1>2, TrimmedHasNone DEF Clean
  <2>2. x \in Seq(C) /\ Paired(x)
    BY <1>5
  <2>3. W[n] = x \o s \o e
    BY <1>3
  <2> HIDE DEF x, s
  <2>4. Paired(x \o s \o e)
    BY <2>1, <2>2, PairedAppends
  <2>5. x \o s \o e \in Seq(C)
    BY <1>1, <2>1, <2>2
  <2> QED BY <2>3, <2>4, <2>5
<1> HIDE DEF S, e
<1>6. \A n \in 0 .. N : W[n] \in S
  <2>1. \A n \in 1 .. N : W[n - 1] \in S => W[n] \in S
    BY <1>5
  <2> QED BY <1>1, <1>3, <1>4, <2>1, AllAlong
<1>7. W[N] \in S
  BY <1>1, <1>6
<1> QED BY <1>7 DEF S, W, N, e

(* format_file keeps what the lines say, and writes CR LF wherever it      *)
(* writes an LF when the file had any CR LF.                               *)
LEMMA FormattingKeeps ==
  ASSUME NEW C, CR \in C, LF \in C, NEW t \in Seq(C)
  PROVE  LET x == normalizeWhitespace(t)
         IN  /\ x \in Seq(C)
             /\ Said(x) = Said(t)
             /\ HasCRLF(t) => \A i \in DOMAIN x : x[i] = LF => i > 1 /\ x[i - 1] = CR
<1> DEFINE ls == Lines(t)
           eol == EndOfLine(t)
           kept == WithoutEmptyEnd(ls)
           text == Writing(kept, eol)[Len(kept)]
           T == Seq(C)
<1>1. ls \in Seq(T) /\ Clean(ls)
  BY LinesAreTexts, LinesAreClean
<1>2. eol = <<LF>> \/ eol = <<CR, LF>>
  BY DEF EndOfLine
<1>3. eol \in Seq(C)
  <2>1. <<LF>> \in Seq(C) /\ <<CR, LF>> \in Seq(C)
    OBVIOUS
  <2> HIDE DEF eol
  <2> QED BY <1>2, <2>1, Zenon
<1> HIDE DEF ls, T
<1>4. PICK n \in 0 .. Len(ls) : /\ kept = SubSeq(ls, 1, n)
                                /\ \A k \in n + 1 .. Len(ls) : ls[k] \in {<<>>}
  <2>1. \E n \in 0 .. Len(ls) : /\ WithoutEnd(ls, {<<>>}) = SubSeq(ls, 1, n)
                                /\ n > 0 => ls[n] \notin {<<>>}
                                /\ \A k \in n + 1 .. Len(ls) : ls[k] \in {<<>>}
    BY <1>1, WithoutEndIs
  <2> QED BY <2>1 DEF WithoutEmptyEnd
<1>5. SubSeq(ls, 1, n) \in Seq(T) /\ Len(SubSeq(ls, 1, n)) = n /\ \A i \in 1 .. n : SubSeq(ls, 1, n)[i] = ls[i]
  BY <1>1, FrontIsText
<1> HIDE DEF kept
<1>6. kept \in Seq(Seq(C))
  BY <1>4, <1>5 DEF T
<1>7. Len(kept) = n /\ \A i \in 1 .. n : kept[i] = ls[i]
  BY <1>4, <1>5
<1>8. Clean(kept)
  <2>1. DOMAIN kept = 1 .. n
    BY <1>6, <1>7
  <2>2. DOMAIN ls = 1 .. Len(ls) /\ Len(ls) \in Nat
    BY <1>1
  <2>3. \A i \in 1 .. n : i \in 1 .. Len(ls)
    BY <2>2
  <2> QED BY <1>1, <1>7, <2>1, <2>2, <2>3 DEF Clean
<1> HIDE DEF eol
<1>9. SaidBy(kept) = SaidBy(ls)
  <2>1. \A k \in n + 1 .. Len(ls) : ls[k] = <<>>
    BY <1>4
  <2>2. ls \in Seq(Seq(C))
    BY <1>1 DEF T
  <2>3. SaidBy(SubSeq(ls, 1, n)) = SaidBy(ls)
    BY <2>1, <2>2, EmptyEndSaysNothing
  <2> QED BY <1>4, <2>3
<1>10. /\ Lines(text) = [i \in 1 .. Len(kept) |-> Read(kept[i], eol)]
       /\ \A i \in 1 .. Len(kept) : Read(kept[i], eol) \in Seq(C)
  BY <1>2, <1>6, <1>8, WrittenLines
<1>11. text \in Seq(C)
  <2>1. \A m \in 0 .. Len(kept) : Writing(kept, eol)[m] \in Seq(C)
    BY <1>3, <1>6, WritingRun
  <2>2. Len(kept) \in 0 .. Len(kept)
    BY <1>6
  <2> QED BY <2>1, <2>2
<1>12. \A i \in 1 .. n : kept[i] \in Seq(C)
  <2>1. kept \in Seq(T)
    BY <1>6 DEF T
  <2>2. \A i \in 1 .. n : kept[i] \in T
    BY <1>7, <2>1
  <2> QED BY <2>2 DEF T
<1>13. Said(text) = SaidBy(kept)
  <2> DEFINE f == [i \in 1 .. n |-> Read(kept[i], eol)]
             u == [i \in 1 .. n |-> WithoutEnd(f[i], Unsaid)]
             v == [i \in 1 .. n |-> WithoutEnd(kept[i], Unsaid)]
  <2>1. \A i \in 1 .. n : WithoutEnd(Read(kept[i], eol), Unsaid) = WithoutEnd(kept[i], Unsaid)
    BY <1>12, ReadSays
  <2>2. DOMAIN f = 1 .. n /\ \A i \in 1 .. n : f[i] = Read(kept[i], eol)
    OBVIOUS
  <2>3. Lines(text) = f
    BY <1>7, <1>10
  <2>4. DOMAIN kept = 1 .. n
    BY <1>6, <1>7
  <2> HIDE DEF f, text
  <2>5. u = v
    BY <2>1, <2>2
  <2>6. Said(text) = SaidBy(f)
    BY <2>3, SaidIs
  <2>7. SaidBy(f) = WithoutEmptyEnd(u)
    BY <2>2, Zenon DEF SaidBy
  <2>8. SaidBy(kept) = WithoutEmptyEnd(v)
    BY <2>4, Zenon DEF SaidBy
  <2> HIDE DEF u, v
  <2> QED BY <2>5, <2>6, <2>7, <2>8
<1>14. Said(text) = Said(t)
  BY <1>9, <1>13, SaidIs DEF ls
<1>15. Said(<<>>) = <<>> /\ <<>> \in Seq(C)
  <2>1. <<>> \in Seq(C) /\ Len(<<>>) = 0
    OBVIOUS
  <2>2. Split(<<>>)[0] = [done |-> <<>>, line |-> <<>>]
    BY <2>1, SplitRun
  <2>3. Lines(<<>>) = <<>>
    BY <2>1, <2>2 DEF Lines
  <2>4. <<>> \in Seq(Seq(C)) /\ DOMAIN <<>> = {}
    OBVIOUS
  <2>5. SaidBy(<<>>) = <<>>
    BY <2>4, SaidNothing
  <2> QED BY <2>1, <2>3, <2>5, SaidIs
<1>16. ASSUME text = eol PROVE Said(text) = <<>>
  <2> DEFINE one == << <<>> >>
  <2>1. <<>> \in Seq(C) /\ one \in Seq(Seq(C)) /\ Len(one) = 1 /\ one[1] = <<>> /\ DOMAIN one = {1}
    OBVIOUS
  <2> HIDE DEF one, text
  <2>2. Clean(one)
    BY <2>1 DEF Clean, Has
  <2>3. Writing(one, eol)[1] = eol
    <3>0. /\ Writing(one, eol)[0] = <<>>
          /\ \A i \in 1 .. Len(one) :
               Writing(one, eol)[i] = Writing(one, eol)[i - 1] \o Trimmed(one[i]) \o eol
      <4>1. one \in Seq(Seq(C))
        BY <2>1
      <4> QED BY <1>3, <4>1, WritingRun
    <3>1. /\ Writing(one, eol)[0] = <<>>
          /\ Writing(one, eol)[1] = Writing(one, eol)[0] \o Trimmed(one[1]) \o eol
      <4>1. 1 \in 1 .. 1 /\ 1 - 1 = 0
        OBVIOUS
      <4> QED BY <2>1, <3>0, <4>1
    <3>2. Trimmed(<<>>) = <<>>
      <4>1. PICK k \in 0 .. Len(<<>>) : Trimmed(<<>>) = SubSeq(<<>>, 1, k)
        BY <2>1, WithoutEndIs DEF Trimmed
      <4>2. k = 0 /\ SubSeq(<<>>, 1, 0) = <<>>
        BY <4>1
      <4> QED BY <4>1, <4>2
    <3>3. <<>> \o <<>> \o eol = eol
      BY <1>3
    <3>4. Writing(one, eol)[1] = <<>> \o <<>> \o eol
      BY <2>1, <3>1, <3>2, Zenon
    <3> QED BY <3>3, <3>4, Zenon
  <2>4. Lines(Writing(one, eol)[1]) = [i \in 1 .. 1 |-> Read(one[i], eol)]
    <3>1. Lines(Writing(one, eol)[Len(one)]) = [i \in 1 .. Len(one) |-> Read(one[i], eol)]
      <4>1. one \in Seq(Seq(C))
        BY <2>1
      <4> QED BY <1>2, <2>2, <4>1, WrittenLines
    <3> QED BY <2>1, <3>1
  <2> DEFINE f == [i \in 1 .. 1 |-> Read(one[i], eol)]
  <2>5. Lines(text) = f
    BY <1>16, <2>3, <2>4
  <2>6. DOMAIN f = 1 .. 1 /\ \A i \in 1 .. 1 : f[i] = Read(<<>>, eol)
    BY <2>1
  <2>7. f \in Seq(Seq(C))
    <3>1. text \in Seq(C)
      BY <1>11
    <3> QED BY <2>5, <3>1, LinesAreTexts
  <2>8. WithoutEnd(Read(<<>>, eol), Unsaid) = <<>>
    BY <2>1, ReadSays, NothingSays
  <2> HIDE DEF f
  <2>9. SaidBy(f) = <<>>
    BY <2>6, <2>7, <2>8, SaidNothing
  <2> QED BY <2>5, <2>9, SaidIs
<1>17. HasCRLF(t) => Paired(text)
  <2>1. HasCRLF(t) => eol = <<CR, LF>>
    BY DEF eol, EndOfLine
  <2> QED BY <1>6, <1>8, <2>1, WrittenPaired
<1>18. normalizeWhitespace(t) = IF text = eol THEN <<>> ELSE text
  BY Zenon DEF normalizeWhitespace, text, kept, eol, ls
<1> HIDE DEF text
<1>19. CASE text = eol
  BY <1>14, <1>15, <1>16, <1>18, <1>19
<1>20. CASE text # eol
  <2>1. DOMAIN text = 1 .. Len(text)
    BY <1>11
  <2> QED BY <1>11, <1>14, <1>17, <1>18, <1>20, <2>1 DEF Paired
<1> QED BY <1>19, <1>20

\* ---- pages

LEMMA FirstBytes ==
  ASSUME NEW ls, NEW k \in Nat PROVE Bytes(ls, k, k) = Len(ls[k]) + 1
<1> DEFINE Is(f) == f = [i \in k .. k |-> (IF i = k THEN 0 ELSE f[i - 1]) + Len(ls[i]) + 1]
           one == [i \in k .. k |-> 0 + Len(ls[i]) + 1]
           sum == CHOOSE f : Is(f)
<1>1. k .. k = {k}
  OBVIOUS
<1>2. Is(one)
  BY <1>1
<1>3. Is(sum)
  BY <1>2, Zenon
<1>4. Bytes(ls, k, k) = sum[k]
  BY Zenon DEF Bytes
<1> HIDE DEF sum
<1>5. sum[k] = 0 + Len(ls[k]) + 1
  BY <1>1, <1>3
<1> QED BY <1>4, <1>5

(* A page holds the lines from `first` to some `last`, at least one; only  *)
(* a page of one line may hold less than the line, and then the line is    *)
(* longer than a page.                                                     *)
IsPage(p, ls, first, last) ==
  /\ Len(p.lines) = last - first + 1
  /\ \A i \in 1 .. last - first + 1 :
       \/ p.lines[i] = ls[first + i - 1]
       \/ /\ Len(ls[first + i - 1]) >= RangeBytes
          /\ p.lines[i] = SubSeq(ls[first + i - 1], 1, RangeBytes - 1)
  /\ p.next = IF last < Len(ls) THEN last + 1 ELSE 0

\* One page is a run of whole lines, or the beginning of one, and names the next.
LEMMA PageIsPage ==
  ASSUME NEW C, NEW t \in Seq(C), NEW first \in 1 .. Len(Lines(t))
  PROVE  /\ readFileRange(t, first, 0).lines \in Seq(Seq(C))
         /\ \E last \in first .. Len(Lines(t)) :
              IsPage(readFileRange(t, first, 0), Lines(t), first, last)
<1> DEFINE ls == Lines(t)
           N == Len(ls)
           T == Seq(C)
           fit == {n \in first .. N : /\ Bytes(ls, first, n) <= RangeBytes
                                      /\ n - first < RangeLines}
           last == Max(fit \cup {first})
           one == SubSeq(ls[first], 1, RangeBytes - 1)
           p == readFileRange(t, first, 0)
<1>1. ls \in Seq(T)
  BY LinesAreTexts
<1> HIDE DEF ls, T
<1>2. N \in Nat /\ first \in 1 .. N /\ first \in Nat
  BY <1>1 DEF ls
<1>3. p = [lines |-> IF fit = {} THEN <<one>> ELSE SubSeq(ls, first, last),
           next  |-> Continue(last, N)]
  <2>1. ~ (0 > 0) /\ ~ (first > N)
    BY <1>2
  <2> QED BY <2>1 DEF readFileRange, ls, fit, last, one, N
<1>4. fit \subseteq first .. N
  OBVIOUS
<1>r. RangeBytes \in Nat /\ RangeBytes > 1 /\ RangeLines \in Nat \ {0}
  BY TextAssumption
<1>5. first \notin fit => Len(ls[first]) >= RangeBytes
  <2>1. Bytes(ls, first, first) = Len(ls[first]) + 1
    BY <1>2, FirstBytes
  <2>2. first - first < RangeLines /\ first \in first .. N
    BY <1>2, <1>r
  <2>3. ls[first] \in T
    BY <1>1, <1>2
  <2>4. Len(ls[first]) \in Nat
    BY <2>3 DEF T
  <2> QED BY <1>r, <2>1, <2>2, <2>4
<1> HIDE DEF fit, p, N
<1>6. last \in fit \cup {first} /\ \A j \in fit \cup {first} : j <= last
  <2>1. fit \cup {first} \subseteq 0 .. N
    BY <1>2, <1>4
  <2> QED BY <1>2, <2>1, MaxIsGreatest
<1>m. first \in first .. N
  BY <1>2
<1> HIDE DEF last
<1>7. last \in first .. N
  <2>1. last \in fit \/ last = first
    BY <1>6
  <2> QED BY <1>4, <1>m, <2>1
<1>8. p.next = IF last < N THEN last + 1 ELSE 0
  BY <1>3 DEF Continue
<1>9. ls[first] \in T
  BY <1>1, <1>2 DEF N
<1>10. CASE fit = {}
  <2>1. p.lines = <<one>> /\ last = first
    BY <1>3, <1>6, <1>10
  <2>2. one \in T
    <3>1. ls[first] \in Seq(C)
      BY <1>9 DEF T
    <3>2. Len(ls[first]) >= RangeBytes /\ Len(ls[first]) \in Nat
      BY <1>5, <1>10, <3>1
    <3>3. RangeBytes - 1 \in 0 .. Len(ls[first])
      BY <1>r, <3>2
    <3> QED BY <3>1, <3>3, FrontIsText DEF T
  <2>3. p.lines \in Seq(T)
    <3> HIDE DEF one
    <3> QED BY <2>1, <2>2
  <2>4. IsPage(p, ls, first, last)
    <3> HIDE DEF one
    <3>1. Len(p.lines) = 1 /\ p.lines[1] = one /\ last - first + 1 = 1
      BY <1>2, <2>1
    <3>2. \A i \in 1 .. 1 : i = 1 /\ first + i - 1 = first
      BY <1>2
    <3>3. \A i \in 1 .. 1 : /\ Len(ls[first + i - 1]) >= RangeBytes
                            /\ p.lines[i] = SubSeq(ls[first + i - 1], 1, RangeBytes - 1)
      BY <1>5, <1>10, <3>1, <3>2 DEF one
    <3> QED BY <1>8, <3>1, <3>3 DEF IsPage, N
  <2> QED BY <1>7, <2>3, <2>4 DEF p, ls, T, N
<1>11. CASE fit # {}
  <2>1. p.lines = SubSeq(ls, first, last)
    BY <1>3, <1>11
  <2>2. /\ SubSeq(ls, first, last) \in Seq(T)
        /\ Len(SubSeq(ls, first, last)) = last - first + 1
        /\ \A i \in 1 .. last - first + 1 : SubSeq(ls, first, last)[i] = ls[first + i - 1]
    <3>1. \A i \in first .. last : i \in 1 .. Len(ls)
      BY <1>2, <1>7 DEF N
    <3>2. last \in Nat /\ first <= last /\ last <= Len(ls) /\ 1 <= first
      BY <1>2, <1>7 DEF N
    <3> QED BY <1>1, <1>2, <3>1, <3>2, SMTT(40)
  <2>3. IsPage(p, ls, first, last)
    BY <1>8, <2>1, <2>2 DEF IsPage, N
  <2> QED BY <1>7, <2>1, <2>2, <2>3 DEF p, ls, T, N
<1> QED BY <1>10, <1>11

-----------------------------------------------------------------------------
\* The file under its tools.

Texts == Seq(Symbols)
Chunk == [whole : Texts, sent : Nat]

FilesTyped ==
  /\ os \in {"linux", "windows"}
  /\ file \in Seq(Texts) /\ Len(file) <= 1
  /\ file # <<>> => Len(file[1]) <= MaxFile
  /\ Len(card) <= 1
  /\ chunks \in Seq(Chunk) /\ Len(chunks) <= 1
  /\ chunks # <<>> => chunks[1].sent <= Len(chunks[1].whole)
  /\ page \in [got : Seq(Texts), next : Nat]
  /\ by \in {"edit_file", "md_file", "format_file", "tool", "user"}

FilesIInv == FilesTyped /\ ChunksMakeTheWhole /\ PagesAreTheFile

LEMMA LineEnds ==
  /\ CR \in Symbols /\ LF \in Symbols
  /\ <<>> \in Texts /\ <<CR>> \in Texts /\ <<LF>> \in Texts /\ <<CR, LF>> \in Texts
<1>1. CR \in Symbols /\ LF \in Symbols
  BY TextAssumption
<1> QED BY <1>1 DEF Texts

LEMMA OneIsSeq == \A S : \A x \in S : <<x>> \in Seq(S) /\ Len(<<x>>) = 1 /\ <<x>>[1] = x /\ <<x>> # <<>>
  OBVIOUS

LEMMA OneOf ==
  ASSUME NEW S, NEW s \in Seq(S), Len(s) <= 1
  PROVE  s = <<>> \/ (s[1] \in S /\ s = <<s[1]>>)
<1>1. Len(s) = 0 \/ Len(s) = 1
  <2>1. Len(s) \in Nat
    OBVIOUS
  <2>2. \A k \in Nat : k <= 1 => k = 0 \/ k = 1
    OBVIOUS
  <2> QED BY <2>1, <2>2, Zenon
<1>2. CASE Len(s) = 0
  BY <1>2
<1>3. CASE Len(s) = 1
  BY <1>3
<1> QED BY <1>1, <1>2, <1>3

LEMMA DiffIsOne == \A a, b : Len(makeUnifiedDiff(a, b)) <= 1
<1>1. Len(<<>>) = 0 /\ \A x : Len(<<x>>) = 1
  OBVIOUS
<1> TAKE a, b
<1>2. makeUnifiedDiff(a, b) = <<>> \/ \E x : makeUnifiedDiff(a, b) = <<x>>
  BY Zenon DEF makeUnifiedDiff
<1> QED BY <1>1, <1>2, SMTT(40)

LEMMA BeforeIsText == FilesTyped => Before \in Texts
<1> SUFFICES ASSUME FilesTyped PROVE Before \in Texts
  OBVIOUS
<1>1. file \in Seq(Texts) /\ Len(file) <= 1
  BY DEF FilesTyped
<1>2. file = <<>> \/ file[1] \in Texts
  BY <1>1, OneOf
<1> QED BY <1>2, LineEnds DEF Before

LEMMA TranslatedIsText == \A t \in Texts : Translated(t) \in Texts
  BY LineEnds, SpelledIsText DEF Translated, Texts

LEMMA JoinedIsText ==
  FilesTyped => \A t \in Texts : \A append \in BOOLEAN : Joined(append, t) \in Texts
<1>1. \A x, y \in Texts : x \o y \in Texts
  BY DEF Texts
<1> QED BY <1>1, BeforeIsText, LineEnds DEF Joined

Names == {"edit_file", "md_file", "format_file", "tool", "user"}

\* What a stored text leaves, whatever becomes of the pieces.
LEMMA StoredIs ==
  ASSUME FilesTyped, NEW who \in Names, NEW text \in Texts, NEW shown, Store(who, text, shown)
  PROVE  /\ file' = <<text>> /\ file' \in Seq(Texts) /\ Len(file') <= 1 /\ file' # <<>>
         /\ file'[1] = text /\ Len(text) <= MaxFile
         /\ Before' = text /\ os' = os
         /\ os' \in {"linux", "windows"} /\ Len(card') <= 1
         /\ page' \in [got : Seq(Texts), next : Nat] /\ by' \in Names
         /\ PagesAreTheFile'
<1>1. /\ file' = <<text>> /\ Len(text) <= MaxFile /\ os' = os /\ by' = who
      /\ page' = NoReading /\ card' = makeUnifiedDiff(Before, shown)
  BY Zenon DEF Store
<1>2. file' \in Seq(Texts) /\ Len(file') = 1 /\ file'[1] = text /\ file' # <<>>
  BY <1>1, OneIsSeq
<1>3. os' \in {"linux", "windows"}
  BY <1>1 DEF FilesTyped
<1>4. Len(card') <= 1
  BY <1>1, DiffIsOne
<1>5. NoReading \in [got : Seq(Texts), next : Nat]
  BY DEF NoReading
<1>6. Before' = text
  BY <1>2 DEF Before
<1>7. PagesAreTheFile'
  BY <1>1 DEF PagesAreTheFile, NoReading
<1> QED BY <1>1, <1>2, <1>3, <1>4, <1>5, <1>6, <1>7

\* A write that is no piece of a content keeps the invariant.
LEMMA StoredWhole ==
  ASSUME FilesTyped, NEW who \in Names, NEW text \in Texts, NEW shown,
         Store(who, text, shown), chunks' = <<>>
  PROVE  FilesIInv'
<1>1. /\ file' \in Seq(Texts) /\ Len(file') <= 1
      /\ file'[1] = text /\ Len(text) <= MaxFile
      /\ os' \in {"linux", "windows"} /\ Len(card') <= 1
      /\ page' \in [got : Seq(Texts), next : Nat] /\ by' \in Names
      /\ PagesAreTheFile'
  BY StoredIs
<1>2. chunks' \in Seq(Chunk) /\ Len(chunks') <= 1
  OBVIOUS
<1>3. ChunksMakeTheWhole'
  BY DEF ChunksMakeTheWhole
<1> QED BY <1>1, <1>2, <1>3 DEF FilesIInv, FilesTyped, Names

\* A call that changes nothing does.
LEMMA LeftIs ==
  ASSUME FilesIInv, NEW who \in Names, Leave(who), UNCHANGED page
  PROVE  FilesIInv'
<1>1. /\ card' = <<>> /\ by' = who /\ os' = os /\ file' = file /\ chunks' = chunks
      /\ page' = page
  BY DEF Leave
<1>2. Before' = Before /\ (\A t : Translated(t)' = Translated(t))
  BY <1>1 DEF Before, Translated
<1>3. PagesAreTheFile'
  BY <1>1, <1>2 DEF FilesIInv, PagesAreTheFile, NoReading
<1>4. ChunksMakeTheWhole'
  BY <1>1, <1>2 DEF FilesIInv, ChunksMakeTheWhole, Translated
<1>5. FilesTyped'
  BY <1>1 DEF FilesIInv, FilesTyped, Names
<1> QED BY <1>3, <1>4, <1>5 DEF FilesIInv

\* An edit does, whether it refuses or not.
LEMMA RewriteIs ==
  ASSUME FilesIInv, NEW who \in Names, NEW new,
         new = <<>> \/ \E x \in Texts : new = <<x>>, Rewrite(who, new)
  PROVE  FilesIInv'
<1>1. CASE file = <<>> \/ new = <<>>
  BY <1>1, LeftIs DEF Rewrite
<1>2. CASE ~ (file = <<>> \/ new = <<>>)
  <2>1. Store(who, new[1], new[1]) /\ chunks' = <<>>
    BY <1>2 DEF Rewrite
  <2>2. new[1] \in Texts
    BY <1>2, OneIsSeq
  <2> QED BY <2>1, <2>2, StoredWhole DEF FilesIInv
<1> QED BY <1>1, <1>2

\* One page more: what was read is still the lines up to there.
LEMMA PageKept ==
  ASSUME FilesIInv, NEW first, ReadFile(first)
  PROVE  page' \in [got : Seq(Texts), next : Nat] /\ PagesAreTheFile'
<1> DEFINE t == Before
           ls == Lines(t)
           p == readFileRange(t, first, 0)
           g == IF first = 1 THEN <<>> ELSE page.got
<1>1. /\ first \in {1, page.next} \ {0} /\ page' = [got |-> g \o p.lines, next |-> p.next]
      /\ file' = file
  BY DEF ReadFile, Leave
<1>2. t \in Texts /\ page \in [got : Seq(Texts), next : Nat]
  BY BeforeIsText DEF FilesIInv, FilesTyped
<1>3. ls \in Seq(Texts) /\ Before' = t
  BY <1>1, <1>2, LinesAreTexts DEF Texts, Before
<1>4. first \in Nat /\ first # 0
  BY <1>1, <1>2
<1>5. /\ g \in Seq(Texts) /\ Len(g) = first - 1 /\ Len(g) <= Len(ls)
      /\ \A i \in 1 .. Len(g) :
           \/ g[i] = ls[i]
           \/ Len(ls[i]) >= RangeBytes /\ g[i] = SubSeq(ls[i], 1, RangeBytes - 1)
      /\ first # 1 => first <= Len(ls)
  <2>1. CASE first = 1
    <3>1. g = <<>>
      BY <2>1
    <3>2. Len(ls) \in Nat
      BY <1>3
    <3> QED BY <2>1, <3>1, <3>2
  <2>2. CASE first # 1
    <3>1. first = page.next /\ g = page.got
      BY <1>1, <2>2
    <3>2. page # NoReading
      BY <2>2, <3>1 DEF NoReading
    <3>3. /\ Len(g) <= Len(ls)
          /\ \A i \in DOMAIN g :
               \/ g[i] = ls[i]
               \/ Len(ls[i]) >= RangeBytes /\ g[i] = SubSeq(ls[i], 1, RangeBytes - 1)
          /\ first = IF Len(g) = Len(ls) THEN 0 ELSE Len(g) + 1
      BY <3>1, <3>2 DEF FilesIInv, PagesAreTheFile
    <3>4. g \in Seq(Texts)
      BY <1>2, <3>1
    <3> HIDE DEF g, ls
    <3>5. DOMAIN g = 1 .. Len(g) /\ Len(g) \in Nat /\ Len(ls) \in Nat
      BY <1>3, <3>4
    <3>6. first = Len(g) + 1 /\ Len(g) # Len(ls)
      BY <1>4, <3>3
    <3> QED BY <3>3, <3>4, <3>5, <3>6
  <2> QED BY <2>1, <2>2
<1> HIDE DEF g, p, ls
<1>6. CASE first > Len(ls)
  <2>1. first = 1 /\ Len(ls) = 0 /\ Len(ls) \in Nat
    <3>1. Len(ls) \in Nat
      BY <1>3
    <3> QED BY <1>4, <1>5, <1>6, <3>1
  <2>2. p = NoPage
    BY <1>6 DEF p, ls, readFileRange
  <2>3. p.lines = <<>> /\ p.next = 0 /\ g = <<>>
    BY <2>1, <2>2 DEF NoPage, g
  <2>4. page' = [got |-> <<>>, next |-> 0]
    <3>1. <<>> \o <<>> = <<>>
      OBVIOUS
    <3> QED BY <1>1, <2>3, <3>1
  <2>5. page' \in [got : Seq(Texts), next : Nat]
    BY <2>4
  <2>6. PagesAreTheFile'
    <3>1. Lines(Before') = ls
      BY <1>3 DEF ls
    <3>2. page'.got = <<>> /\ page'.next = 0 /\ Len(<<>>) = 0 /\ DOMAIN <<>> = {}
      BY <2>4
    <3> QED BY <2>1, <3>1, <3>2 DEF PagesAreTheFile
  <2> QED BY <2>5, <2>6
<1>7. CASE ~ (first > Len(ls))
  <2>0. Len(ls) \in Nat
    BY <1>3
  <2>1. first \in 1 .. Len(ls)
    BY <1>4, <1>7, <2>0
  <2>2. /\ p.lines \in Seq(Texts)
        /\ \E last \in first .. Len(ls) : IsPage(p, ls, first, last)
    <3>1. t \in Seq(Symbols) /\ first \in 1 .. Len(Lines(t))
      BY <1>2, <2>1 DEF Texts, ls
    <3> QED BY <3>1, PageIsPage DEF Texts, p, ls
  <2>3. PICK last \in first .. Len(ls) : IsPage(p, ls, first, last)
    BY <2>2
  <2> DEFINE all == g \o p.lines
  <2>4. /\ all \in Seq(Texts) /\ Len(all) = Len(g) + Len(p.lines)
        /\ \A i \in 1 .. Len(g) + Len(p.lines) :
             all[i] = IF i <= Len(g) THEN g[i] ELSE p.lines[i - Len(g)]
    <3>1. g \in Seq(Texts) /\ p.lines \in Seq(Texts)
      BY <1>5, <2>2
    <3> QED BY <3>1, ConcatProperties
  <2> HIDE DEF all
  <2>5. Len(all) = last /\ last \in Nat /\ last <= Len(ls) /\ first <= last
    BY <1>4, <1>5, <2>0, <2>3, <2>4 DEF IsPage
  <2>6. p.next = IF last < Len(ls) THEN last + 1 ELSE 0
    BY <2>3 DEF IsPage
  <2>7. page'.got = all /\ page'.next = p.next /\ page' = [got |-> all, next |-> p.next]
    BY <1>1 DEF all
  <2>8. page' \in [got : Seq(Texts), next : Nat]
    BY <2>4, <2>5, <2>6, <2>7
  <2>9. ASSUME NEW i \in 1 .. last
        PROVE  \/ all[i] = ls[i]
               \/ Len(ls[i]) >= RangeBytes /\ all[i] = SubSeq(ls[i], 1, RangeBytes - 1)
    <3>1. i \in 1 .. Len(g) + Len(p.lines)
      BY <2>4, <2>5
    <3>2. CASE i <= Len(g)
      <4>1. i \in 1 .. Len(g) /\ all[i] = g[i]
        BY <1>4, <1>5, <2>4, <3>1, <3>2, SMTT(40)
      <4> QED BY <1>5, <4>1
    <3>3. CASE ~ (i <= Len(g))
      <4> DEFINE k == i - Len(g)
      <4>1. all[i] = p.lines[k]
        BY <2>4, <3>1, <3>3
      <4>2. k \in 1 .. last - first + 1 /\ first + k - 1 = i
        BY <1>4, <1>5, <2>5, <3>3
      <4> HIDE DEF k
      <4>3. \/ p.lines[k] = ls[first + k - 1]
            \/ /\ Len(ls[first + k - 1]) >= RangeBytes
               /\ p.lines[k] = SubSeq(ls[first + k - 1], 1, RangeBytes - 1)
        BY <2>3, <4>2 DEF IsPage
      <4> QED BY <4>1, <4>2, <4>3
    <3> QED BY <3>2, <3>3
  <2>10. PagesAreTheFile'
    <3>1. Lines(Before') = ls
      BY <1>3 DEF ls
    <3>2. DOMAIN all = 1 .. last
      BY <2>4, <2>5
    <3>3. page'.next = IF Len(all) = Len(ls) THEN 0 ELSE Len(all) + 1
      BY <2>0, <2>5, <2>6, <2>7
    <3> QED BY <2>5, <2>7, <2>9, <3>1, <3>2, <3>3 DEF PagesAreTheFile
  <2> QED BY <2>8, <2>10
<1> QED BY <1>6, <1>7

\* A content translated in two pieces is the content translated.
LEMMA ChunkStep ==
  ASSUME NEW w \in Texts, NEW a \in Nat, NEW n \in Nat, a + n <= Len(w)
  PROVE  /\ SubSeq(w, a + 1, a + n) \in Texts
         /\ Translated(SubSeq(w, 1, a)) \in Texts
         /\ Translated(SubSeq(w, 1, a + n)) =
              Translated(SubSeq(w, 1, a)) \o Translated(SubSeq(w, a + 1, a + n))
<1> DEFINE b == a + n
           part(i, j) == SubSeq(w, i, j)
<1>1. w \in Seq(Symbols) /\ Len(w) \in Nat
  BY DEF Texts
<1>2. a \in 0 .. Len(w) /\ b \in a .. Len(w) /\ 0 \in 0 .. Len(w) /\ b \in 0 .. Len(w)
      /\ 0 + 1 = 1 /\ a \in 0 .. a
  BY <1>1
<1>3. part(a + 1, b) \in Seq(Symbols) /\ part(1, a) \in Seq(Symbols) /\ part(1, b) \in Seq(Symbols)
  <2>1. \A i \in 1 .. Len(w) : w[i] \in Symbols
    BY <1>1
  <2>2. /\ \A i \in a + 1 .. b : i \in 1 .. Len(w)
        /\ \A i \in 1 .. a : i \in 1 .. Len(w)
        /\ \A i \in 1 .. b : i \in 1 .. Len(w)
        /\ a + 1 \in Int /\ b \in Int /\ a \in Int /\ 1 \in Int
    BY <1>1, <1>2
  <2> HIDE DEF b
  <2>3. part(a + 1, b) \in Seq(Symbols)
    BY <2>1, <2>2, SubSeqProperties
  <2>4. part(1, a) \in Seq(Symbols)
    BY <2>1, <2>2, SubSeqProperties
  <2>5. part(1, b) \in Seq(Symbols)
    BY <2>1, <2>2, SubSeqProperties
  <2> QED BY <2>3, <2>4, <2>5
<1> HIDE DEF b
<1>4. CASE os = "linux"
  <2>1. part(1, b) = part(1, a) \o part(a + 1, b)
    <3> DEFINE x == part(1, a)
               y == part(a + 1, b)
               z == part(1, b)
    <3>1. /\ x \in Seq(Symbols) /\ Len(x) = a /\ \A i \in 1 .. a : x[i] = w[i]
          /\ z \in Seq(Symbols) /\ Len(z) = b /\ \A i \in 1 .. b : z[i] = w[i]
      BY <1>1, <1>2, FrontIsText
    <3>2. y \in Seq(Symbols) /\ Len(y) = n /\ \A i \in 1 .. n : y[i] = w[a + i]
      BY <1>1, <1>2, <1>3 DEF b
    <3> HIDE DEF x, y, z
    <3>3. /\ x \o y \in Seq(Symbols) /\ Len(x \o y) = Len(x) + Len(y)
          /\ \A i \in 1 .. Len(x) + Len(y) :
               (x \o y)[i] = IF i <= Len(x) THEN x[i] ELSE y[i - Len(x)]
      BY <3>1, <3>2, ConcatProperties
    <3> DEFINE u == x \o y
    <3>4. u \in Seq(Symbols) /\ Len(u) = b
      BY <3>1, <3>2, <3>3 DEF b
    <3>5. ASSUME NEW i \in 1 .. b PROVE u[i] = z[i]
      <4>1. i \in 1 .. Len(x) + Len(y)
        BY <3>1, <3>2 DEF b
      <4>2. CASE i <= a
        <5>1. i \in 1 .. a /\ i \in 1 .. b
          BY <4>2
        <5>2. u[i] = x[i]
          BY <3>1, <3>3, <4>1, <4>2
        <5> HIDE DEF u
        <5> QED BY <3>1, <5>1, <5>2
      <4>3. CASE ~ (i <= a)
        <5>1. i - a \in 1 .. n /\ a + (i - a) = i
          BY <4>3 DEF b
        <5>2. u[i] = y[i - a]
          BY <3>1, <3>3, <4>1, <4>3
        <5> QED BY <3>1, <3>2, <5>1, <5>2
      <4> QED BY <4>2, <4>3
    <3> HIDE DEF u
    <3>6. u = z
      BY <3>1, <3>4, <3>5, SeqEqual
    <3> QED BY <3>6 DEF u, x, y, z
  <2> QED BY <1>3, <1>4, <2>1 DEF Translated, Texts, b
<1>5. CASE os # "linux"
  <2> DEFINE cr == <<CR>>
             lf == <<CR, LF>>
             S == Spelling(w, cr, lf)
             T(x) == Spelled(x, cr, lf)
  <2>1. cr \in Seq(Symbols) /\ lf \in Seq(Symbols)
    BY LineEnds DEF Texts
  <2> HIDE DEF cr, lf
  <2>2. S[0] = <<>>
    BY <1>1, <2>1, SpellingRun
  <2>g. ASSUME NEW i \in 0 .. Len(w), NEW j \in i .. Len(w)
        PROVE  S[j] = S[i] \o T(part(i + 1, j))
    BY <1>1, <2>1, SpelledParts, ZenonT(40)
  <2>3. S[b] = S[a] \o T(part(a + 1, b))
    BY <1>2, <2>g
  <2>4. S[a] = S[0] \o T(part(0 + 1, a)) /\ S[b] = S[0] \o T(part(0 + 1, b))
    <3> HIDE DEF S, T
    <3> QED BY <1>2, <2>g
  <2>5. T(part(1, a)) \in Seq(Symbols) /\ T(part(1, b)) \in Seq(Symbols)
    BY <1>3, <2>1, SpelledIsText
  <2> HIDE DEF S, T
  <2>6. <<>> \o T(part(1, a)) = T(part(1, a)) /\ <<>> \o T(part(1, b)) = T(part(1, b))
    BY <2>5
  <2>7. T(part(1, b)) = T(part(1, a)) \o T(part(a + 1, b))
    BY <1>2, <2>2, <2>3, <2>4, <2>6
  <2> QED BY <1>3, <1>5, <2>5, <2>7 DEF Translated, Texts, T, b, cr, lf
<1> QED BY <1>4, <1>5

\* One piece more: the file is still the content up to there.
LEMMA ChunkKept ==
  ASSUME FilesIInv, NEW n \in 1 .. MaxWrite, WriteChunk(n)
  PROVE  FilesIInv'
<1> DEFINE c == chunks[1]
           part == SubSeq(c.whole, c.sent + 1, c.sent + n)
           text == Joined(c.sent > 0, Translated(part))
           d == [c EXCEPT !.sent = @ + n]
<1>1. /\ chunks # <<>> /\ c.sent + n <= Len(c.whole)
      /\ Store("tool", text, Joined(c.sent > 0, part))
      /\ chunks' = <<d>>
  BY DEF WriteChunk
<1>2. c \in Chunk /\ FilesTyped
  BY <1>1, OneOf DEF FilesIInv, FilesTyped
<1>3. c.whole \in Texts /\ c.sent \in Nat /\ n \in Nat /\ n > 0
  <2>1. MaxWrite \in Nat
    BY FileAssumption
  <2> QED BY <1>2, <2>1 DEF Chunk
<1>4. d = [whole |-> c.whole, sent |-> c.sent + n]
  BY <1>2 DEF Chunk
<1> HIDE DEF c, d
<1>5. /\ part \in Texts
      /\ Translated(SubSeq(c.whole, 1, c.sent)) \in Texts
      /\ Translated(SubSeq(c.whole, 1, c.sent + n)) =
           Translated(SubSeq(c.whole, 1, c.sent)) \o Translated(part)
  BY <1>1, <1>3, ChunkStep
<1> HIDE DEF part
<1>6. Translated(part) \in Texts
  BY <1>5, TranslatedIsText
<1>7. text = Translated(SubSeq(c.whole, 1, c.sent + n))
  <2>1. CASE c.sent > 0
    <3>1. Before = Translated(SubSeq(c.whole, 1, c.sent))
      BY <1>1, <2>1 DEF FilesIInv, ChunksMakeTheWhole, c
    <3> QED BY <1>5, <2>1, <3>1 DEF Joined
  <2>2. CASE ~ (c.sent > 0)
    <3>1. c.sent = 0 /\ 0 + n = n /\ 0 + 1 = 1
      BY <1>3, <2>2
    <3>2. <<>> \o Translated(part) = Translated(part)
      BY <1>6 DEF Texts
    <3> QED BY <2>2, <3>1, <3>2 DEF Joined, part
  <2> QED BY <2>1, <2>2
<1>8. text \in Texts
  <2>1. (c.sent > 0) \in BOOLEAN
    OBVIOUS
  <2> QED BY <1>2, <1>6, <2>1, JoinedIsText, Zenon
<1> HIDE DEF text
<1>9. /\ file' \in Seq(Texts) /\ Len(file') <= 1 /\ Before' = text
      /\ file'[1] = text /\ Len(text) <= MaxFile /\ os' = os
      /\ os' \in {"linux", "windows"} /\ Len(card') <= 1
      /\ page' \in [got : Seq(Texts), next : Nat] /\ by' \in Names
      /\ PagesAreTheFile'
  <2>1. "tool" \in Names
    BY DEF Names
  <2> QED BY <1>1, <1>2, <1>8, <2>1, StoredIs
<1>10. /\ d.whole = c.whole /\ d.sent = c.sent + n /\ d \in Chunk /\ d.sent <= Len(d.whole)
  BY <1>1, <1>3, <1>4 DEF Chunk
<1>11. chunks' \in Seq(Chunk) /\ Len(chunks') <= 1 /\ chunks'[1] = d
  BY <1>1, <1>10, OneIsSeq
<1>12. ChunksMakeTheWhole'
  <2>1. \A t : Translated(t)' = Translated(t)
    BY <1>9 DEF Translated
  <2> QED BY <1>7, <1>9, <1>10, <1>11, <2>1 DEF ChunksMakeTheWhole, Translated
<1>13. FilesTyped'
  BY <1>9, <1>10, <1>11 DEF FilesTyped, Names
<1> QED BY <1>9, <1>12, <1>13 DEF FilesIInv

LEMMA ArgumentsAreTexts ==
  /\ Contents \subseteq Texts /\ Searches \subseteq Texts
  /\ Replaces \subseteq Texts /\ Saves \subseteq Texts
  BY FileAssumption DEF Texts

\* write_file and md_file's write.
LEMMA WritesKept ==
  ASSUME FilesIInv, NEW content \in Contents, NEW append \in BOOLEAN,
         WriteTooLarge(content) \/ WriteFile(content, append) \/ MdWrite(content, append)
  PROVE  FilesIInv'
<1>1. content \in Texts /\ FilesTyped /\ "tool" \in Names
  BY ArgumentsAreTexts DEF FilesIInv, Names
<1>2. Joined(append, content) \in Texts /\ Joined(append, Translated(content)) \in Texts
  <2>1. Translated(content) \in Texts
    BY <1>1, TranslatedIsText
  <2> QED BY <1>1, <2>1, JoinedIsText
<1>3. CASE WriteTooLarge(content)
  <2> DEFINE d == [whole |-> content, sent |-> 0]
  <2>1. /\ chunks' = <<d>> /\ card' = <<>> /\ by' = "tool"
        /\ os' = os /\ file' = file /\ page' = page
    BY <1>3 DEF WriteTooLarge
  <2>2. d \in Chunk /\ d.sent = 0 /\ d.whole = content
    BY <1>1 DEF Chunk
  <2>3. 0 <= Len(content) /\ ~ (0 > 0)
    BY <1>1 DEF Texts
  <2> HIDE DEF d
  <2>4. chunks' \in Seq(Chunk) /\ Len(chunks') <= 1 /\ chunks'[1] = d
    BY <2>1, <2>2, OneIsSeq
  <2>5. ChunksMakeTheWhole'
    BY <2>2, <2>3, <2>4 DEF ChunksMakeTheWhole
  <2>6. PagesAreTheFile'
    <3>1. Before' = Before
      BY <2>1 DEF Before
    <3> QED BY <2>1, <3>1 DEF FilesIInv, PagesAreTheFile, NoReading
  <2>7. FilesTyped'
    BY <2>1, <2>2, <2>3, <2>4 DEF FilesIInv, FilesTyped
  <2> QED BY <2>5, <2>6, <2>7 DEF FilesIInv
<1>4. CASE WriteFile(content, append)
  BY <1>1, <1>2, <1>4, StoredWhole DEF WriteFile
<1>5. CASE MdWrite(content, append)
  <2>1. CASE Len(content) > MaxWrite
    <3>1. Leave("tool") /\ UNCHANGED page
      BY <1>5, <2>1 DEF MdWrite
    <3> QED BY <1>1, <3>1, LeftIs
  <2>2. CASE ~ (Len(content) > MaxWrite)
    <3>1. Store("tool", Joined(append, content), Joined(append, content)) /\ chunks' = <<>>
      BY <1>5, <2>2 DEF MdWrite
    <3> QED BY <1>1, <1>2, <3>1, StoredWhole
  <2> QED BY <2>1, <2>2
<1> QED BY <1>3, <1>4, <1>5

\* The two edits.
LEMMA EditsKept ==
  ASSUME FilesIInv, NEW search \in Searches, NEW replace \in Replaces,
         EditFile(search, replace) \/ MdEdit(search, replace)
  PROVE  FilesIInv'
<1>1. /\ search \in Seq(Symbols) /\ replace \in Seq(Symbols) /\ Before \in Seq(Symbols)
      /\ LF \in Symbols
  BY ArgumentsAreTexts, BeforeIsText, LineEnds DEF FilesIInv, Texts
<1>2. CASE EditFile(search, replace)
  <2> DEFINE new == EditText(Before, search, replace)
  <2>1. new = <<>> \/ \E x \in Seq(Symbols) : new = <<x>>
    BY <1>1, EditIsOne
  <2> HIDE DEF new
  <2>2. Rewrite("edit_file", new) /\ "edit_file" \in Names
    BY <1>2 DEF EditFile, new, Names
  <2> QED BY <2>1, <2>2, RewriteIs DEF Texts
<1>3. CASE MdEdit(search, replace)
  <2> DEFINE new == MdEditText(Before, search, replace)
  <2>1. new = <<>> \/ \E x \in Seq(Symbols) : new = <<x>>
    BY <1>1, MdEditIsOne
  <2> HIDE DEF new
  <2>2. Rewrite("md_file", new) /\ "md_file" \in Names
    BY <1>3 DEF MdEdit, new, Names
  <2> QED BY <2>1, <2>2, RewriteIs DEF Texts
<1> QED BY <1>2, <1>3

\* format_file.
LEMMA FormatKept ==
  ASSUME FilesIInv, FormatFile
  PROVE  FilesIInv'
<1> DEFINE after == normalizeWhitespace(Before)
           new == IF after = Before THEN <<>> ELSE <<after>>
<1>1. Before \in Seq(Symbols) /\ CR \in Symbols /\ LF \in Symbols
  BY BeforeIsText, LineEnds DEF FilesIInv, Texts
<1>2. after \in Texts
  BY <1>1, FormattingKeeps DEF Texts
<1>3. Rewrite("format_file", new) /\ "format_file" \in Names
  BY DEF FormatFile, Names
<1> HIDE DEF after
<1>4. new = <<>> \/ \E x \in Texts : new = <<x>>
  BY <1>2
<1> HIDE DEF new
<1> QED BY <1>3, <1>4, RewriteIs

\* The user's editor.
LEMMA SaveKept ==
  ASSUME FilesIInv, NEW text \in Saves, ClangFormat(text) \/ Save(text)
  PROVE  FilesIInv'
<1>1. text \in Texts /\ Len(text) <= MaxFile
  BY ArgumentsAreTexts, FileAssumption
<1>2. CASE ClangFormat(text)
  <2> DEFINE new == IF text = Before THEN <<>> ELSE <<text>>
  <2>1. new = <<>> \/ \E x \in Texts : new = <<x>>
    BY <1>1
  <2>2. Rewrite("tool", new) /\ "tool" \in Names
    BY <1>2 DEF ClangFormat, Names
  <2> HIDE DEF new
  <2> QED BY <2>1, <2>2, RewriteIs
<1>3. CASE Save(text)
  <2>1. /\ file' = <<text>> /\ page' = NoReading /\ chunks' = <<>> /\ card' = <<>>
        /\ by' = "user" /\ os' = os
    BY <1>3 DEF Save
  <2>2. file' \in Seq(Texts) /\ Len(file') = 1 /\ file'[1] = text
    BY <1>1, <2>1, OneIsSeq
  <2>3. chunks' \in Seq(Chunk) /\ Len(chunks') <= 1 /\ Len(card') <= 1
    BY <2>1
  <2>4. page' \in [got : Seq(Texts), next : Nat]
    BY <2>1 DEF NoReading
  <2>5. ChunksMakeTheWhole' /\ PagesAreTheFile'
    BY <2>1 DEF ChunksMakeTheWhole, PagesAreTheFile, NoReading
  <2>6. FilesTyped'
    BY <1>1, <2>1, <2>2, <2>3, <2>4 DEF FilesIInv, FilesTyped
  <2> QED BY <2>5, <2>6 DEF FilesIInv
<1> QED BY <1>2, <1>3

\* list_dir and grep_files.
LEMMA LooksKept ==
  ASSUME FilesIInv, by' = "tool", card' = <<>>, UNCHANGED <<os, file, page, chunks>>
  PROVE  FilesIInv'
<1>1. Before' = Before
  BY DEF Before
<1>2. PagesAreTheFile'
  BY <1>1 DEF FilesIInv, PagesAreTheFile, NoReading
<1>3. ChunksMakeTheWhole'
  BY <1>1 DEF FilesIInv, ChunksMakeTheWhole, Translated
<1>4. FilesTyped'
  BY DEF FilesIInv, FilesTyped
<1> QED BY <1>2, <1>3, <1>4 DEF FilesIInv

\* read_file.
LEMMA ReadKept ==
  ASSUME FilesIInv, NEW first, ReadFile(first)
  PROVE  FilesIInv'
<1>1. page' \in [got : Seq(Texts), next : Nat] /\ PagesAreTheFile'
  BY PageKept
<1>2. card' = <<>> /\ by' = "tool" /\ os' = os /\ file' = file /\ chunks' = chunks
  BY DEF ReadFile, Leave
<1>3. Before' = Before
  BY <1>2 DEF Before
<1>4. ChunksMakeTheWhole'
  BY <1>2, <1>3 DEF FilesIInv, ChunksMakeTheWhole, Translated
<1>5. FilesTyped'
  BY <1>1, <1>2 DEF FilesIInv, FilesTyped
<1> QED BY <1>1, <1>4, <1>5 DEF FilesIInv

LEMMA FilesBegin == FilesInit => FilesIInv
<1> SUFFICES ASSUME FilesInit PROVE FilesIInv
  OBVIOUS
<1>1. /\ os \in {"linux", "windows"} /\ card = <<>> /\ page = NoReading /\ chunks = <<>>
      /\ by = "user" /\ file \in {<<>>} \cup {<<t>> : t \in Saves}
  BY DEF FilesInit
<1>2. file \in Seq(Texts) /\ Len(file) <= 1 /\ (file # <<>> => Len(file[1]) <= MaxFile)
  <2>1. <<>> \in Seq(Texts) /\ Len(<<>>) = 0
    OBVIOUS
  <2>2. CASE file = <<>>
    BY <2>1, <2>2
  <2>3. CASE file # <<>>
    <3>1. PICK t \in Saves : file = <<t>>
      BY <1>1, <2>3
    <3>2. t \in Texts /\ Len(t) <= MaxFile
      BY ArgumentsAreTexts, FileAssumption
    <3> QED BY <3>1, <3>2, OneIsSeq
  <2> QED BY <2>2, <2>3
<1>3. chunks \in Seq(Chunk) /\ Len(chunks) <= 1 /\ Len(card) <= 1
  BY <1>1
<1>4. page \in [got : Seq(Texts), next : Nat]
  BY <1>1 DEF NoReading
<1>5. ChunksMakeTheWhole /\ PagesAreTheFile
  BY <1>1 DEF ChunksMakeTheWhole, PagesAreTheFile, NoReading
<1> QED BY <1>1, <1>2, <1>3, <1>4, <1>5 DEF FilesIInv, FilesTyped

\* Every step of the file tools keeps the invariant.
LEMMA FilesKept == FilesIInv /\ [FilesNext]_files => FilesIInv'
<1> SUFFICES ASSUME FilesIInv, [FilesNext]_files PROVE FilesIInv'
  OBVIOUS
<1>1. ASSUME NEW content \in Contents, NEW append \in BOOLEAN,
             WriteTooLarge(content) \/ WriteFile(content, append) \/ MdWrite(content, append)
      PROVE  FilesIInv'
  BY <1>1, WritesKept
<1>2. ASSUME NEW n \in 1 .. MaxWrite, WriteChunk(n) PROVE FilesIInv'
  BY <1>2, ChunkKept
<1>3. ASSUME NEW search \in Searches, NEW replace \in Replaces,
             EditFile(search, replace) \/ MdEdit(search, replace)
      PROVE  FilesIInv'
  BY <1>3, EditsKept
<1>4. ASSUME FormatFile PROVE FilesIInv'
  BY <1>4, FormatKept
<1>5. ASSUME NEW text \in Saves, ClangFormat(text) \/ Save(text) PROVE FilesIInv'
  BY <1>5, SaveKept
<1>6. ASSUME NEW first, ReadFile(first) PROVE FilesIInv'
  BY <1>6, ReadKept
<1>7. ASSUME Looks PROVE FilesIInv'
  <2>1. by' = "tool" /\ card' = <<>> /\ UNCHANGED <<os, file, page, chunks>>
    BY <1>7 DEF Looks, ListDir, GrepFiles
  <2> QED BY <2>1, LooksKept
<1>8. ASSUME UNCHANGED files PROVE FilesIInv'
  BY <1>8 DEF FilesIInv, FilesTyped, ChunksMakeTheWhole, PagesAreTheFile, files, Before,
              Translated, NoReading
<1>9. Writes \/ (\E n \in 1 .. MaxWrite : WriteChunk(n)) \/ Edits \/ FormatFile
      \/ (\E text \in Saves : ClangFormat(text) \/ Save(text))
      \/ (\E first \in 1 .. MaxFile : ReadFile(first)) \/ Looks \/ UNCHANGED files
  BY Zenon DEF FilesNext
<1>10. CASE Writes
  BY <1>1, <1>10 DEF Writes
<1>11. CASE Edits
  BY <1>3, <1>11 DEF Edits
<1> QED BY <1>2, <1>4, <1>5, <1>6, <1>7, <1>8, <1>9, <1>10, <1>11, Zenon

\* Only Rewrite leaves a name of an editing tool, and it stores what was made.
LEMMA RewriteBy ==
  ASSUME NEW who, NEW new, Rewrite(who, new), file' # file
  PROVE  file' = <<new[1]>> /\ new # <<>>
<1>1. ~ (file = <<>> \/ new = <<>>)
  BY DEF Rewrite, Leave
<1> QED BY <1>1 DEF Rewrite, Store

\* format_file stored the text cleaned up.
LEMMA FormatBy ==
  ASSUME FilesNext, by' = "format_file", file' # file
  PROVE  FormatFile
<1>1. ASSUME NEW content \in Contents, NEW append \in BOOLEAN,
             WriteTooLarge(content) \/ WriteFile(content, append) \/ MdWrite(content, append)
      PROVE  FALSE
  BY <1>1 DEF WriteTooLarge, WriteFile, MdWrite, Store, Leave
<1>2. ASSUME NEW n \in 1 .. MaxWrite, WriteChunk(n) PROVE FALSE
  BY <1>2 DEF WriteChunk, Store
<1>3. ASSUME NEW search \in Searches, NEW replace \in Replaces,
             EditFile(search, replace) \/ MdEdit(search, replace)
      PROVE  FALSE
  <2>1. by' \in {"edit_file", "md_file"}
    BY <1>3 DEF EditFile, MdEdit, Rewrite, Store, Leave
  <2> QED BY <2>1
<1>5. ASSUME NEW text \in Saves, ClangFormat(text) \/ Save(text) PROVE FALSE
  <2>1. by' \in {"tool", "user"}
    BY <1>5 DEF ClangFormat, Save, Rewrite, Store, Leave
  <2> QED BY <2>1
<1>6. ASSUME NEW first, ReadFile(first) PROVE FALSE
  BY <1>6 DEF ReadFile, Leave
<1>7. ASSUME Looks PROVE FALSE
  <2>1. by' = "tool"
    BY <1>7 DEF Looks, ListDir, GrepFiles
  <2> QED BY <2>1
<1>9. Writes \/ (\E n \in 1 .. MaxWrite : WriteChunk(n)) \/ Edits \/ FormatFile
      \/ (\E text \in Saves : ClangFormat(text) \/ Save(text))
      \/ (\E first \in 1 .. MaxFile : ReadFile(first)) \/ Looks
  BY Zenon DEF FilesNext
<1>10. ~ Writes
  BY <1>1 DEF Writes
<1>11. ~ Edits
  BY <1>3 DEF Edits
<1> QED BY <1>2, <1>5, <1>6, <1>7, <1>9, <1>10, <1>11, Zenon

\* The three facts of OnlyWhatWasAsked, step by step.
EditStep ==
  \A search \in Searches, replace \in Replaces :
    by' = "edit_file" /\ file' # file /\ EditText(Before, search, replace) = file'
    => OneReplaced(Before, file'[1], search, replace)

MdEditStep ==
  \A search \in Searches, replace \in Replaces :
    /\ by' = "md_file" /\ MdEditText(Before, search, replace) = file'
    /\ file' # file /\ ~ Has(Normalized(Before), CR)
    => OneReplaced(Before, file'[1], search, replace)

FormatStep ==
  by' = "format_file" /\ file' # file =>
    /\ Said(file'[1]) = Said(Before)
    /\ HasCRLF(Before) => \A i \in DOMAIN file'[1] :
                            file'[1][i] = LF => i > 1 /\ file'[1][i - 1] = CR

\* No step of a tool takes the file away.
LEMMA FileStays == [FilesNext]_files /\ file' # file => file' # <<>>
<1> SUFFICES ASSUME [FilesNext]_files, file' # file PROVE file' # <<>>
  OBVIOUS
<1>0. \A who, text, shown : Store(who, text, shown) => file' # <<>>
  BY DEF Store
<1>1. ASSUME NEW content \in Contents, NEW append \in BOOLEAN,
             WriteTooLarge(content) \/ WriteFile(content, append) \/ MdWrite(content, append)
      PROVE  file' # <<>>
  BY <1>0, <1>1 DEF WriteTooLarge, WriteFile, MdWrite, Leave
<1>2. ASSUME NEW n \in 1 .. MaxWrite, WriteChunk(n) PROVE file' # <<>>
  BY <1>0, <1>2 DEF WriteChunk
<1>3. ASSUME NEW who, NEW new, Rewrite(who, new) PROVE file' # <<>>
  BY <1>3, RewriteBy
<1>5. ASSUME NEW text \in Saves, Save(text) PROVE file' # <<>>
  BY <1>5 DEF Save
<1>6. ASSUME NEW first, ReadFile(first) PROVE file' # <<>>
  BY <1>6 DEF ReadFile, Leave
<1>7. ASSUME Looks PROVE file' # <<>>
  BY <1>7 DEF Looks, ListDir, GrepFiles
<1>9. Writes \/ (\E n \in 1 .. MaxWrite : WriteChunk(n)) \/ Edits \/ FormatFile
      \/ (\E text \in Saves : ClangFormat(text) \/ Save(text))
      \/ (\E first \in 1 .. MaxFile : ReadFile(first)) \/ Looks \/ UNCHANGED files
  BY Zenon DEF FilesNext
<1>10. CASE Writes
  BY <1>1, <1>10 DEF Writes
<1>11. CASE Edits
  BY <1>3, <1>11 DEF Edits, EditFile, MdEdit
<1>12. CASE FormatFile
  BY <1>3, <1>12, Zenon DEF FormatFile
<1>13. CASE \E text \in Saves : ClangFormat(text) \/ Save(text)
  BY <1>3, <1>5, <1>13, Zenon DEF ClangFormat
<1>14. CASE UNCHANGED files
  BY <1>14 DEF files
<1> QED BY <1>2, <1>6, <1>7, <1>9, <1>10, <1>11, <1>12, <1>13, <1>14, Zenon

\* Every step of the file tools does only what was asked.
LEMMA AskedSteps == FilesIInv /\ [FilesNext]_files => EditStep /\ MdEditStep /\ FormatStep
<1> SUFFICES ASSUME FilesIInv, [FilesNext]_files PROVE EditStep /\ MdEditStep /\ FormatStep
  OBVIOUS
<1>1. Before \in Seq(Symbols) /\ CR \in Symbols /\ LF \in Symbols
  BY BeforeIsText, LineEnds DEF FilesIInv, Texts
<1>2. Searches \subseteq Seq(Symbols) /\ Replaces \subseteq Seq(Symbols)
  BY ArgumentsAreTexts DEF Texts
<1>3. EditStep
  <2>1. ASSUME NEW search \in Searches, NEW replace \in Replaces,
               file' # file, EditText(Before, search, replace) = file'
        PROVE  OneReplaced(Before, file'[1], search, replace)
    <3>1. EditText(Before, search, replace) # <<>>
      BY <2>1, FileStays
    <3>2. search \in Seq(Symbols) /\ replace \in Seq(Symbols)
      BY <1>2
    <3>3. PICK x \in Seq(Symbols) :
            EditText(Before, search, replace) = <<x>> /\ OneReplaced(Before, x, search, replace)
      BY <1>1, <3>1, <3>2, EditIsOne
    <3>4. file'[1] = x
      BY <2>1, <3>3
    <3> QED BY <3>3, <3>4
  <2> QED BY <2>1 DEF EditStep
<1>4. MdEditStep
  <2>1. ASSUME NEW search \in Searches, NEW replace \in Replaces, ~ Has(Normalized(Before), CR),
               file' # file, MdEditText(Before, search, replace) = file'
        PROVE  OneReplaced(Before, file'[1], search, replace)
    <3>1. MdEditText(Before, search, replace) # <<>>
      BY <2>1, FileStays
    <3>2. search \in Seq(Symbols) /\ replace \in Seq(Symbols)
      BY <1>2
    <3>3. PICK x \in Seq(Symbols) :
            /\ MdEditText(Before, search, replace) = <<x>>
            /\ ~ Has(Normalized(Before), CR) => OneReplaced(Before, x, search, replace)
      BY <1>1, <3>1, <3>2, MdEditIsOne
    <3>4. file'[1] = x
      BY <2>1, <3>3
    <3> QED BY <2>1, <3>3, <3>4
  <2> QED BY <2>1 DEF MdEditStep
<1>5. FormatStep
  <2>1. SUFFICES ASSUME by' = "format_file", file' # file
                 PROVE  /\ Said(file'[1]) = Said(Before)
                        /\ HasCRLF(Before) => \A i \in DOMAIN file'[1] :
                             file'[1][i] = LF => i > 1 /\ file'[1][i - 1] = CR
    BY DEF FormatStep
  <2>2. FilesNext
    BY <2>1 DEF files
  <2>3. FormatFile
    BY <2>1, <2>2, FormatBy
  <2> DEFINE after == normalizeWhitespace(Before)
             new == IF after = Before THEN <<>> ELSE <<after>>
  <2>4. Rewrite("format_file", new)
    BY <2>3 DEF FormatFile
  <2> HIDE DEF after
  <2>5. file' = <<new[1]>> /\ new # <<>>
    <3> HIDE DEF new
    <3> QED BY <2>1, <2>4, RewriteBy
  <2>6. file'[1] = after
    BY <2>5
  <2>7. /\ Said(after) = Said(Before)
        /\ HasCRLF(Before) => \A i \in DOMAIN after : after[i] = LF => i > 1 /\ after[i - 1] = CR
    BY <1>1, FormattingKeeps DEF after
  <2> QED BY <2>6, <2>7
<1> QED BY <1>3, <1>4, <1>5

\* The types that the run checks.
LEMMA FilesTypes == FilesIInv => FilesTypeOK
<1> SUFFICES ASSUME FilesIInv PROVE FilesTypeOK
  OBVIOUS
<1>1. /\ os \in {"linux", "windows"} /\ Len(file) <= 1 /\ Len(card) <= 1 /\ Len(chunks) <= 1
      /\ (file # <<>> => Len(file[1]) <= MaxFile)
      /\ by \in {"edit_file", "md_file", "format_file", "tool", "user"}
      /\ page \in [got : Seq(Texts), next : Nat] /\ file \in Seq(Texts)
  BY DEF FilesIInv, FilesTyped
<1>2. MaxFile \in Nat
  BY FileAssumption
<1>3. page.next \in 0 .. MaxFile + 1
  <2>1. CASE page = NoReading
    BY <1>2, <2>1 DEF NoReading
  <2>2. CASE page # NoReading
    <3> DEFINE t == Before
               ls == Lines(t)
    <3>1. t \in Seq(Symbols) /\ Len(t) <= MaxFile
      <4>1. CASE file = <<>>
        BY <1>2, <4>1 DEF Before
      <4>2. CASE file # <<>>
        <5>1. Before = file[1]
          BY <4>2 DEF Before
        <5> QED BY <1>1, <4>2, <5>1, BeforeIsText DEF FilesIInv, Texts
      <4> QED BY <4>1, <4>2
    <3>2. Len(t) \in Nat
      BY <3>1
    <3>3. ls \in Seq(Seq(Symbols)) /\ Len(ls) <= Len(t)
      BY <3>1, LinesAreTexts, LinesAreFew
    <3>4. Len(page.got) <= Len(ls) /\ page.next = IF Len(page.got) = Len(ls) THEN 0 ELSE Len(page.got) + 1
      BY <2>2 DEF FilesIInv, PagesAreTheFile
    <3> DEFINE g == page.got
    <3>5. g \in Seq(Texts)
      BY <1>1
    <3> HIDE DEF t, ls, g
    <3>6. Len(g) \in Nat /\ Len(ls) \in Nat
      BY <3>3, <3>5
    <3> QED BY <1>2, <3>1, <3>2, <3>3, <3>4, <3>6 DEF g
  <2> QED BY <2>1, <2>2
<1> QED BY <1>1, <1>3 DEF FilesTypeOK

-----------------------------------------------------------------------------
\* Places in an order.

Rank(S, key, x) == Cardinality({y \in S : key[y] < key[x]})

\* A greater key has a greater rank.
LEMMA RanksGrow ==
  ASSUME NEW S, IsFiniteSet(S), NEW key, \A x \in S : key[x] \in Nat,
         NEW x \in S, NEW y \in S, key[x] < key[y]
  PROVE  Rank(S, key, x) < Rank(S, key, y)
<1> DEFINE A == {z \in S : key[z] < key[x]}
           B == {z \in S : key[z] < key[y]}
           D == B \ {x}
<1>1. A \subseteq D /\ B \subseteq S /\ x \in B
  <2>1. \A z \in A : key[z] < key[y] /\ z # x
    <3>1. \A a, b, c \in Nat : a < b /\ b < c => a < c
      OBVIOUS
    <3>2. \A a \in Nat : ~ (a < a)
      OBVIOUS
    <3> QED BY <3>1, <3>2
  <2> QED BY <2>1
<1> HIDE DEF A, B
<1>2. IsFiniteSet(B)
  BY <1>1, FS_Subset
<1>3. IsFiniteSet(D) /\ Cardinality(D) = Cardinality(B) - 1
  BY <1>1, <1>2, FS_RemoveElement
<1> HIDE DEF D
<1>4. IsFiniteSet(A) /\ Cardinality(A) <= Cardinality(D)
  BY <1>1, <1>3, FS_Subset
<1>5. Cardinality(A) \in Nat /\ Cardinality(B) \in Nat
  BY <1>2, <1>4, FS_CardinalityType
<1>6. Cardinality(A) < Cardinality(B)
  BY <1>3, <1>4, <1>5
<1> QED BY <1>6 DEF Rank, A, B

(* Among finitely many with different keys, each has its own place, and    *)
(* every place is taken.                                                   *)
Ranked(S, key) ==
  /\ Cardinality(S) \in Nat
  /\ \A x \in S : Rank(S, key, x) \in 0 .. Cardinality(S) - 1
  /\ \A x, y \in S : Rank(S, key, x) = Rank(S, key, y) => x = y
  /\ \A k \in 0 .. Cardinality(S) - 1 : \E x \in S : Rank(S, key, x) = k

\* The ranks of n elements with different keys are 0 .. n - 1.
LEMMA RanksAreAll ==
  ASSUME NEW S, IsFiniteSet(S), NEW key, \A x \in S : key[x] \in Nat,
         \A x, y \in S : key[x] = key[y] => x = y
  PROVE  Ranked(S, key)
<1> DEFINE n == Cardinality(S)
           T == 0 .. n - 1
           r == [x \in S |-> Rank(S, key, x)]
<1>1. n \in Nat
  BY FS_CardinalityType
<1>2. ASSUME NEW x \in S PROVE Rank(S, key, x) \in T
  <2> DEFINE A == {y \in S : key[y] < key[x]}
             D == S \ {x}
  <2>1. A \subseteq D
    <3>1. \A a \in Nat : ~ (a < a)
      OBVIOUS
    <3> QED BY <3>1
  <2> HIDE DEF A
  <2>2. IsFiniteSet(D) /\ Cardinality(D) = n - 1
    BY FS_RemoveElement
  <2> HIDE DEF D
  <2>3. IsFiniteSet(A) /\ Cardinality(A) <= Cardinality(D)
    BY <2>1, <2>2, FS_Subset
  <2>4. Cardinality(A) \in Nat
    BY <2>3, FS_CardinalityType
  <2> HIDE DEF n
  <2> QED BY <1>1, <2>2, <2>3, <2>4 DEF Rank, A
<1>3. ASSUME NEW x \in S, NEW y \in S, Rank(S, key, x) = Rank(S, key, y) PROVE x = y
  <2>1. key[x] \in Nat /\ key[y] \in Nat
    OBVIOUS
  <2>2. key[x] < key[y] \/ key[y] < key[x] \/ key[x] = key[y]
    BY <2>1
  <2>3. Rank(S, key, x) \in Nat /\ ~ (Rank(S, key, x) < Rank(S, key, x))
    BY <1>1, <1>2
  <2>4. ~ (key[x] < key[y]) /\ ~ (key[y] < key[x])
    BY <1>3, <2>3, RanksGrow
  <2> QED BY <2>2, <2>4
<1> HIDE DEF n
<1>4. r \in Injection(S, T)
  BY <1>2, <1>3 DEF Injection, IsInjective
<1>5. IsFiniteSet(T) /\ Cardinality(T) = n
  BY <1>1, FS_Interval
<1> HIDE DEF T
<1>6. r \in Surjection(S, T)
  <2> HIDE DEF r
  <2>1. Cardinality(S) = Cardinality(T)
    BY <1>5 DEF n
  <2> QED BY <1>4, <1>5, <2>1, FS_Injection
<1>7. \A k \in T : \E x \in S : Rank(S, key, x) = k
  BY <1>6 DEF Surjection
<1> QED BY <1>1, <1>2, <1>3, <1>7 DEF n, T, Ranked

-----------------------------------------------------------------------------
\* grep_files.

LEMMA TreeNodes ==
  \A p \in DOMAIN Tree : Tree[p].hits \in Nat /\ Tree[p].dir \in BOOLEAN /\ Tree[p].junk \in BOOLEAN
  BY SearchAssumption DEF Node

LEMMA PairsCount ==
  ASSUME NEW p, NEW m \in Nat
  PROVE  IsFiniteSet({<<p, l>> : l \in 1 .. m}) /\ Cardinality({<<p, l>> : l \in 1 .. m}) = m
<1> DEFINE X == {<<p, l>> : l \in 1 .. m}
           f == [l \in 1 .. m |-> <<p, l>>]
           D == 1 .. m
<1>1. f \in Injection(D, X) /\ f \in Surjection(D, X)
  BY DEF Injection, IsInjective, Surjection
<1>2. IsFiniteSet(D) /\ Cardinality(D) = m
  BY FS_Interval
<1> HIDE DEF f, X, D
<1>3. ExistsBijection(D, X)
  BY <1>1 DEF ExistsBijection, Bijection
<1>4. IsFiniteSet(X) /\ Cardinality(X) = Cardinality(D)
  BY <1>2, <1>3, FS_Bijection
<1> QED BY <1>2, <1>4 DEF X

(* The first k matching lines of a file: never more than k, and fewer than *)
(* k only when that is all.                                                *)
LEMMA FirstHitsAre ==
  ASSUME NEW p \in DOMAIN Tree, NEW k \in Nat
  PROVE  /\ FirstHits(p, k) \subseteq Hits(p) /\ IsFiniteSet(FirstHits(p, k))
         /\ Cardinality(FirstHits(p, k)) \in 0 .. k
         /\ Cardinality(FirstHits(p, k)) < k => FirstHits(p, k) = Hits(p)
<1> DEFINE m == Tree[p].hits
           P(n) == {<<p, l>> : l \in 1 .. n}
<1>1. m \in Nat
  BY TreeNodes
<1>2. Hits(p) = P(m)
  BY DEF Hits
<1> HIDE DEF m
<1>3. FirstHits(p, k) = {h \in P(m) : h[2] <= k}
  BY <1>2 DEF FirstHits
<1>4. CASE m <= k
  <2>1. {h \in P(m) : h[2] <= k} = P(m)
    BY <1>1, <1>4
  <2>2. IsFiniteSet(P(m)) /\ Cardinality(P(m)) = m
    BY <1>1, PairsCount
  <2> HIDE DEF P
  <2> QED BY <1>1, <1>2, <1>3, <1>4, <2>1, <2>2
<1>5. CASE k < m
  <2>1. {h \in P(m) : h[2] <= k} = P(k) /\ P(k) \subseteq P(m)
    BY <1>1, <1>5
  <2>2. IsFiniteSet(P(k)) /\ Cardinality(P(k)) = k
    BY PairsCount
  <2> DEFINE F == FirstHits(p, k)
  <2>3. F = P(k)
    BY <1>3, <2>1
  <2> HIDE DEF P, F
  <2>4. F \subseteq Hits(p) /\ IsFiniteSet(F) /\ Cardinality(F) = k
    BY <1>2, <2>1, <2>2, <2>3
  <2>5. k \in 0 .. k /\ ~ (k < k)
    OBVIOUS
  <2> QED BY <2>4, <2>5 DEF F
<1> QED BY <1>1, <1>4, <1>5

HitsOf(D) == UNION {Hits(p) : p \in D}

\* What is known of an answer when the files of D have been looked into.
Sees(r, D, max) ==
  /\ r.hits \subseteq HitsOf(D) /\ IsFiniteSet(r.hits)
  /\ Cardinality(r.hits) <= max
  /\ r.note = "none" => r.hits = HitsOf(D)

\* The hits of a file are none of another's.
LEMMA HitsAreApart ==
  ASSUME NEW D, NEW p, p \notin D
  PROVE  /\ HitsOf(D) \cap Hits(p) = {}
         /\ HitsOf(D \cup {p}) = HitsOf(D) \cup Hits(p)
<1>1. \A q : \A h \in Hits(q) : h[1] = q
  BY DEF Hits
<1>2. \A h : h \in HitsOf(D) <=> \E q \in D : h \in Hits(q)
  BY DEF HitsOf
<1>3. \A h : h \in HitsOf(D \cup {p}) <=> \E q \in D \cup {p} : h \in Hits(q)
  BY DEF HitsOf
<1>4. HitsOf(D) \cap Hits(p) = {}
  BY <1>1, <1>2
<1>5. HitsOf(D \cup {p}) = HitsOf(D) \cup Hits(p)
  BY <1>2, <1>3
<1> QED BY <1>4, <1>5

\* One file more: the answer has the hits so far up to the limit, or a note.
LEMMA ScanSees ==
  ASSUME NEW D, NEW p \in DOMAIN Tree, p \notin D, NEW max \in Nat, NEW r, Sees(r, D, max)
  PROVE  Sees(Scan(r, p, max), D \cup {p}, max)
<1> DEFINE A == r.hits
           E == D \cup {p}
<1>1. /\ A \subseteq HitsOf(D) /\ IsFiniteSet(A) /\ Cardinality(A) <= max
      /\ r.note = "none" => A = HitsOf(D)
  BY DEF Sees
<1>2. HitsOf(D) \cap Hits(p) = {} /\ HitsOf(E) = HitsOf(D) \cup Hits(p)
  BY HitsAreApart
<1>3. Cardinality(A) \in Nat
  BY <1>1, FS_CardinalityType
<1> HIDE DEF E
<1>4. CASE r.note # "none"
  <2>1. Scan(r, p, max) = r
    BY <1>4 DEF Scan
  <2> QED BY <1>1, <1>2, <1>4, <2>1 DEF Sees, E
<1>5. CASE r.note = "none"
  <2> DEFINE k == max - Cardinality(A)
             F == FirstHits(p, k)
             hits == A \cup F
             so == Scan(r, p, max)
  <2>1. so = [hits |-> hits, files |-> r.files + 1,
              note |-> IF Cardinality(hits) >= max THEN "results"
                       ELSE IF r.files + 1 >= ScanFiles THEN "files" ELSE "none"]
    BY <1>5 DEF Scan
  <2>2. k \in Nat
    BY <1>1, <1>3
  <2> HIDE DEF so, k, A
  <2>3. /\ F \subseteq Hits(p) /\ IsFiniteSet(F) /\ Cardinality(F) \in 0 .. k
        /\ Cardinality(F) < k => F = Hits(p)
    BY <2>2, FirstHitsAre
  <2> HIDE DEF F
  <2>4. A \cap F = {}
    BY <1>1, <1>2, <2>3
  <2>5. IsFiniteSet(hits) /\ Cardinality(hits) = Cardinality(A) + Cardinality(F) - Cardinality(A \cap F)
    BY <1>1, <2>3, FS_Union
  <2>6. Cardinality(A \cap F) = 0
    BY <2>4, FS_EmptySet
  <2> HIDE DEF hits
  <2>7. Cardinality(hits) = Cardinality(A) + Cardinality(F) /\ Cardinality(hits) <= max
    BY <1>3, <2>2, <2>3, <2>5, <2>6 DEF k
  <2>8. hits \subseteq HitsOf(E)
    BY <1>1, <1>2, <2>3 DEF hits
  <2>9. so.hits = hits /\ (so.note = "none" => ~ (Cardinality(hits) >= max))
    BY <2>1
  <2>10. so.note = "none" => hits = HitsOf(E)
    <3>1. ASSUME so.note = "none" PROVE F = Hits(p)
      <4>1. Cardinality(F) < k
        BY <1>3, <2>2, <2>3, <2>7, <2>9, <3>1 DEF k
      <4> QED BY <2>3, <4>1
    <3> QED BY <1>1, <1>2, <1>5, <3>1 DEF hits
  <2>11. Sees(so, E, max)
    BY <2>5, <2>7, <2>8, <2>9, <2>10 DEF Sees
  <2> QED BY <2>11 DEF so, E
<1> QED BY <1>4, <1>5

Answer == [hits : SUBSET ((DOMAIN Tree) \X Nat), files : Nat, note : {"none", "results", "files"}]

LEMMA PairIsIn == ASSUME NEW D, NEW a \in D, NEW b \in Nat PROVE <<a, b>> \in D \X Nat
  OBVIOUS

LEMMA HitsArePairs ==
  ASSUME NEW p \in DOMAIN Tree
  PROVE  \A k : FirstHits(p, k) \subseteq (DOMAIN Tree) \X Nat
<1> DEFINE D == DOMAIN Tree
<1>0. p \in D
  OBVIOUS
<1>1. Tree[p].hits \in Nat
  BY TreeNodes
<1> HIDE DEF D
<1>2. \A l \in 1 .. Tree[p].hits : <<p, l>> \in D \X Nat
  BY <1>0, <1>1, PairIsIn
<1>3. Hits(p) \subseteq D \X Nat
  BY <1>2, Zenon DEF Hits
<1>4. \A k : FirstHits(p, k) \subseteq Hits(p)
  BY DEF FirstHits
<1>5. \A k : FirstHits(p, k) \subseteq D \X Nat
  BY <1>3, <1>4, Zenon
<1> QED BY <1>5 DEF D

LEMMA ScanIsAnswer ==
  ASSUME NEW r \in Answer, NEW p \in DOMAIN Tree, NEW max
  PROVE  Scan(r, p, max) \in Answer
<1>1. \A k : FirstHits(p, k) \subseteq (DOMAIN Tree) \X Nat
  BY HitsArePairs
<1>2. r.hits \subseteq (DOMAIN Tree) \X Nat /\ r.files \in Nat
  BY DEF Answer
<1>3. CASE r.note # "none"
  BY <1>3 DEF Scan
<1>4. CASE r.note = "none"
  <2> DEFINE hits == r.hits \cup FirstHits(p, max - Cardinality(r.hits))
             note == IF Cardinality(hits) >= max THEN "results"
                     ELSE IF r.files + 1 >= ScanFiles THEN "files" ELSE "none"
  <2>1. Scan(r, p, max) = [hits |-> hits, files |-> r.files + 1, note |-> note]
    BY <1>4 DEF Scan
  <2>2. hits \subseteq (DOMAIN Tree) \X Nat
    BY <1>1, <1>2
  <2>3. note \in {"none", "results", "files"}
    OBVIOUS
  <2> HIDE DEF hits, note
  <2> QED BY <1>2, <2>1, <2>2, <2>3 DEF Answer
<1> QED BY <1>3, <1>4

\* Scanning is what its recursion says.
LEMMA ScanningRun ==
  ASSUME NEW max, NEW order \in Seq(DOMAIN Tree)
  PROVE  /\ Scanning(max, order)[0] = [hits |-> {}, files |-> 0, note |-> "none"]
         /\ \A n \in 1 .. Len(order) :
              Scanning(max, order)[n] = Scan(Scanning(max, order)[n - 1], order[n], max)
<1> DEFINE N == Len(order)
           start == [hits |-> {}, files |-> 0, note |-> "none"]
           onward == [p \in (1 .. N) \X Answer |-> Scan(p[2], order[p[1]], max)]
           IsRun(f) == f = [n \in 0 .. N |-> IF n = 0 THEN start
                                             ELSE Scan(f[n - 1], order[n], max)]
           run == Scanning(max, order)
<1>1. N \in Nat /\ start \in Answer /\ \A n \in 1 .. N : order[n] \in DOMAIN Tree
  BY DEF Answer
<1> HIDE DEF N, start
<1>2. onward \in [(1 .. N) \X Answer -> Answer]
  <2>1. \A p \in (1 .. N) \X Answer : Scan(p[2], order[p[1]], max) \in Answer
    BY <1>1, ScanIsAnswer
  <2> QED BY <2>1
<1>3. \A n \in 1 .. N, x \in Answer : onward[<<n, x>>] = Scan(x, order[n], max)
  OBVIOUS
<1> HIDE DEF onward
<1>4. IsRun(run)
  <2>1. PICK f : Solution(f, N, Answer, start, onward)
    BY <1>1, <1>2, RecursiveFunction
  <2> USE <2>1 DEF Solution
  <2>2. ASSUME NEW n \in 0 .. N, n # 0
        PROVE  onward[<<n, f[n - 1]>>] = Scan(f[n - 1], order[n], max)
    <3>1. n \in 1 .. N /\ f[n - 1] \in Answer
      BY <1>1, <2>2
    <3> QED BY <1>3, <3>1
  <2>3. IsRun(f)
    BY <2>1, <2>2
  <2> QED BY <2>3, Zenon DEF Scanning, N, start
<1> HIDE DEF run
<1>5. run[0] = start
  BY <1>1, <1>4
<1>6. ASSUME NEW n \in 1 .. N PROVE run[n] = Scan(run[n - 1], order[n], max)
  <2>1. n \in 0 .. N /\ n # 0
    BY <1>1
  <2> QED BY <1>4, <2>1
<1> QED BY <1>5, <1>6 DEF N, run, start

\* An order of a finite set is a sequence that holds each element once.
LEMMA OrderHoldsAll ==
  ASSUME NEW S, IsFiniteSet(S), NEW order \in SetToSeqs(S)
  PROVE  /\ order \in Seq(S)
         /\ \A i, j \in 1 .. Len(order) : i # j => order[i] # order[j]
         /\ {order[i] : i \in 1 .. Len(order)} = S
<1> DEFINE n == Cardinality(S)
           D == 1 .. n
<1>1. n \in Nat
  BY FS_CardinalityType
<1>2. order \in [D -> S] /\ \A i, j \in D : i # j => order[i] # order[j]
  BY DEF SetToSeqs
<1>3. order \in Injection(D, S)
  BY <1>2 DEF Injection, IsInjective
<1>4. Cardinality(D) = n
  BY <1>1, FS_Interval
<1> HIDE DEF n
<1>5. order \in Seq(S) /\ Len(order) = n
  BY <1>1, <1>2
<1> HIDE DEF D
<1>6. order \in Surjection(D, S)
  BY <1>3, <1>4, FS_Injection DEF n
<1>7. \A x \in S : \E i \in D : order[i] = x
  BY <1>6 DEF Surjection
<1>8. \A i \in D : order[i] \in S
  BY <1>2
<1> QED BY <1>2, <1>5, <1>7, <1>8 DEF D

\* Behind the whole walk the answer has all hits or a note.
LEMMA GrepTreeSees ==
  ASSUME NEW root, NEW max \in Nat, NEW order \in SetToSeqs(Searched(root))
  PROVE  Sees(GrepTree(max, order), Searched(root), max)
<1> DEFINE S == Searched(root)
           N == Len(order)
           run == Scanning(max, order)
           D(n) == {order[i] : i \in 1 .. n}
           Good == {n \in 0 .. N : Sees(run[n], D(n), max)}
<1>1. S \subseteq DOMAIN Tree /\ IsFiniteSet(DOMAIN Tree)
  BY SearchAssumption DEF Searched, Below
<1> HIDE DEF S
<1>2. IsFiniteSet(S)
  BY <1>1, FS_Subset
<1>3. /\ order \in Seq(S)
      /\ \A i, j \in 1 .. N : i # j => order[i] # order[j]
      /\ D(N) = S
  BY <1>2, OrderHoldsAll DEF S
<1>4. N \in Nat /\ order \in Seq(DOMAIN Tree) /\ \A n \in 1 .. N : order[n] \in DOMAIN Tree
  BY <1>1, <1>3
<1>5. /\ run[0] = [hits |-> {}, files |-> 0, note |-> "none"]
      /\ \A n \in 1 .. N : run[n] = Scan(run[n - 1], order[n], max)
  BY <1>4, ScanningRun
<1> HIDE DEF run, N
<1>6. 0 \in Good
  <2>1. D(0) = {}
    OBVIOUS
  <2>2. HitsOf({}) = {}
    BY DEF HitsOf
  <2>3. IsFiniteSet({}) /\ Cardinality({}) = 0
    BY FS_EmptySet
  <2>4. Sees(run[0], {}, max)
    BY <1>5, <2>2, <2>3 DEF Sees
  <2>5. 0 \in 0 .. N
    BY <1>4
  <2> HIDE DEF D
  <2> QED BY <2>1, <2>4, <2>5
<1>7. ASSUME NEW m \in 0 .. N - 1, m \in Good PROVE m + 1 \in Good
  <2> DEFINE n == m + 1
  <2>1. n \in 1 .. N /\ n \in 0 .. N /\ n - 1 = m /\ m \in 0 .. N
    BY <1>4
  <2>2. D(n) = D(m) \cup {order[n]}
    <3>1. \A i : i \in 1 .. n <=> i \in 1 .. m \/ i = n
      BY <1>4
    <3> QED BY <3>1
  <2>3. order[n] \notin D(m)
    <3>1. \A i \in 1 .. m : i \in 1 .. N /\ i # n
      BY <1>4
    <3> QED BY <1>3, <2>1, <3>1
  <2>4. run[n] = Scan(run[m], order[n], max) /\ Sees(run[m], D(m), max)
    BY <1>5, <1>7, <2>1
  <2> HIDE DEF D
  <2>5. Sees(Scan(run[m], order[n], max), D(m) \cup {order[n]}, max)
    BY <1>4, <2>1, <2>3, <2>4, ScanSees
  <2> QED BY <2>1, <2>2, <2>4, <2>5
<1>g. \A n \in Good : Sees(run[n], D(n), max)
  OBVIOUS
<1> HIDE DEF Good, D
<1>8. 0 .. N \subseteq Good
  BY <1>4, <1>6, <1>7, UpTo
<1>9. Sees(run[N], D(N), max)
  BY <1>4, <1>8, <1>g
<1> QED BY <1>3, <1>9 DEF GrepTree, S, N, run

(* An answer of grep_files holds matches only, no more than were asked     *)
(* for, and all there are unless it says that it was cut short.            *)
LEMMA GrepSees ==
  ASSUME NEW path \in DOMAIN Tree, NEW max \in Nat, NEW out \in grepFiles(path, max)
  PROVE  Sees(out, IF Tree[path].dir THEN Searched(path) ELSE {path}, max)
<1>1. CASE Tree[path].dir
  <2>1. PICK order \in SetToSeqs(Searched(path)) : out = GrepTree(max, order)
    BY <1>1 DEF grepFiles
  <2> QED BY <1>1, <2>1, GrepTreeSees
<1>2. CASE ~ Tree[path].dir
  <2>1. out = GrepOne(path, max)
    BY <1>2 DEF grepFiles
  <2> DEFINE F == FirstHits(path, max)
  <2>2. /\ F \subseteq Hits(path) /\ IsFiniteSet(F) /\ Cardinality(F) \in 0 .. max
        /\ Cardinality(F) < max => F = Hits(path)
    BY FirstHitsAre
  <2>3. HitsOf({path}) = Hits(path)
    BY DEF HitsOf
  <2>4. out.hits = F /\ (out.note = "none" => ~ (Cardinality(F) >= max))
    BY <2>1 DEF GrepOne
  <2> HIDE DEF F
  <2>5. out.note = "none" => Cardinality(F) < max
    BY <2>2, <2>4
  <2> QED BY <1>2, <2>2, <2>3, <2>4, <2>5 DEF Sees
<1> QED BY <1>1, <1>2

\* The result of a search is right from the step that leaves it.
LEMMA GrepKept ==
  ASSUME NEW path \in DOMAIN Tree, NEW max \in Nat, GrepFiles(path, max)
  PROVE  GrepSaysWhenCut'
<1>1. PICK out \in grepFiles(path, max) :
        found' = [tool |-> "grep", path |-> path, max |-> max, out |-> out]
  BY DEF GrepFiles
<1>2. Sees(out, IF Tree[path].dir THEN Searched(path) ELSE {path}, max)
  BY GrepSees
<1> DEFINE all == IF Tree[path].dir THEN UNION {Hits(p) : p \in Searched(path)} ELSE Hits(path)
<1>3. out.hits \subseteq all /\ Cardinality(out.hits) <= max /\ (out.note = "none" => out.hits = all)
  <2>1. HitsOf({path}) = Hits(path)
    BY DEF HitsOf
  <2>2. HitsOf(Searched(path)) = UNION {Hits(p) : p \in Searched(path)}
    BY DEF HitsOf
  <2>3. CASE Tree[path].dir
    BY <1>2, <2>2, <2>3 DEF Sees
  <2>4. CASE ~ Tree[path].dir
    BY <1>2, <2>1, <2>4 DEF Sees
  <2> QED BY <2>3, <2>4
<1>4. found'.out = out /\ found'.path = path /\ found'.max = max
  BY <1>1
<1> QED BY <1>3, <1>4 DEF GrepSaysWhenCut

-----------------------------------------------------------------------------
\* The task list.

(* The names a merged entry keeps are the first ones: all of them, or as   *)
(* many as an entry names, and then what is left out comes behind them.    *)
LEMMA FirstNames ==
  ASSUME NEW S, S \subseteq Nat, IsFiniteSet(S), NEW N \in Nat
  PROVE  LET X == {f \in S : Cardinality({g \in S : g < f}) < N}
         IN  /\ N <= Cardinality(S) => Cardinality(X) = N
             /\ \A f \in S \ X : Cardinality(X) = N /\ \A g \in X : g < f
<1> DEFINE key == [f \in S |-> f]
           X == {f \in S : Cardinality({g \in S : g < f}) < N}
           n == Cardinality(S)
<1>1. \A f \in S : Cardinality({g \in S : g < f}) = Rank(S, key, f)
  <2> TAKE f \in S
  <2>1. {g \in S : g < f} = {g \in S : key[g] < key[f]}
    OBVIOUS
  <2> QED BY <2>1 DEF Rank
<1>2. X = {f \in S : Rank(S, key, f) < N}
  BY <1>1
<1>3. \A f \in S : key[f] = f /\ key[f] \in Nat
  OBVIOUS
<1> HIDE DEF key
<1>4. /\ n \in Nat
      /\ \A x \in S : Rank(S, key, x) \in 0 .. n - 1
      /\ \A x, y \in S : Rank(S, key, x) = Rank(S, key, y) => x = y
      /\ \A k \in 0 .. n - 1 : \E x \in S : Rank(S, key, x) = k
  <2>1. \A x, y \in S : key[x] = key[y] => x = y
    BY <1>3
  <2>2. \A x \in S : key[x] \in Nat
    BY <1>3
  <2>3. Ranked(S, key)
    BY <2>1, <2>2, RanksAreAll
  <2> QED BY <2>3 DEF Ranked
<1> HIDE DEF n, X
<1>5. ASSUME N <= n PROVE Cardinality(X) = N
  <2> DEFINE D == 0 .. N - 1
             r == [f \in X |-> Rank(S, key, f)]
  <2>1. \A f \in X : f \in S /\ Rank(S, key, f) \in D
    BY <1>2, <1>4
  <2>2. \A k \in D : \E f \in X : Rank(S, key, f) = k
    <3> TAKE k \in D
    <3>1. k \in 0 .. n - 1 /\ k < N
      BY <1>4, <1>5
    <3>2. PICK x \in S : Rank(S, key, x) = k
      BY <1>4, <3>1
    <3>3. x \in X
      BY <1>2, <3>1, <3>2
    <3> QED BY <3>2, <3>3
  <2> HIDE DEF D
  <2>3. r \in Injection(X, D) /\ r \in Surjection(X, D)
    BY <1>4, <2>1, <2>2 DEF Injection, IsInjective, Surjection
  <2>4. IsFiniteSet(X)
    <3>1. X \subseteq S
      BY <1>2
    <3> QED BY <3>1, FS_Subset
  <2> HIDE DEF r
  <2>5. Cardinality(D) = Cardinality(X)
    <3>1. ExistsBijection(X, D)
      BY <2>3 DEF ExistsBijection, Bijection
    <3> QED BY <2>4, <3>1, FS_Bijection
  <2>6. Cardinality(D) = N
    BY FS_Interval DEF D
  <2> QED BY <2>5, <2>6
<1>6. ASSUME NEW f \in S \ X PROVE Cardinality(X) = N /\ \A g \in X : g < f
  <2>1. Rank(S, key, f) \in 0 .. n - 1 /\ ~ (Rank(S, key, f) < N)
    BY <1>2, <1>4
  <2>2. N <= n
    BY <1>4, <2>1
  <2>3. ASSUME NEW g \in X PROVE g < f
    <3>1. g \in S /\ Rank(S, key, g) < N /\ Rank(S, key, g) \in 0 .. n - 1
      BY <1>2, <1>4
    <3>2. ~ (Rank(S, key, f) < Rank(S, key, g)) /\ Rank(S, key, f) # Rank(S, key, g)
      BY <1>4, <2>1, <3>1
    <3>3. ~ (key[f] < key[g])
      BY <1>3, <3>1, <3>2, RanksGrow
    <3>4. key[f] = f /\ key[g] = g /\ f \in Nat /\ g \in Nat /\ f # g
      BY <1>3, <3>1, <3>2
    <3> QED BY <3>3, <3>4
  <2> QED BY <1>5, <2>2, <2>3
<1> QED BY <1>5, <1>6 DEF n, X

TaskLines == [says : SUBSET Tasks, mark : Statuses \cup {"none"}]
Briefs    == Seq(SUBSET FileNames)
Asked     == Prompts \cup {NoPrompt}

TurnTyped ==
  /\ stage \in {"idle", "launched", "between", "calling"}
  /\ raised \in BOOLEAN /\ left \in BOOLEAN /\ begun \in BOOLEAN
  /\ strays \in 0 .. 2

TodoTyped ==
  /\ TurnTyped
  /\ tasks \in Seq(TaskLines)
  /\ briefs \in Briefs /\ overview \in Briefs
  /\ archived \subseteq FileNames
  /\ archived # {} => overview # <<>>
  /\ incoming \in Asked /\ active \in Asked

\* Where a turn stands whose conversation was left.
TodoStands ==
  /\ stage = "launched" => ~ begun /\ strays = 0
  /\ begun /\ left /\ stage # "idle" => raised
  /\ begun /\ strays # 0 =>
       /\ strays = 1 /\ stage \in {"idle", "between"}
       /\ stage = "between" => left /\ raised

TodoIInv == TodoTyped /\ OverviewNamesFiles /\ TodoStands

\* What the overview `o` still says of the file `f`, or of its place.
Recalled(o, f) ==
  \/ \E k \in DOMAIN o : f \in o[k]
  \/ Cardinality(o[1]) = NamedFiles /\ \A g \in o[1] : g < f

(* A file behind a full oldest entry is behind the entry it is merged to.  *)
LEMMA MergedStaysFull ==
  ASSUME NEW U, U \subseteq Nat, IsFiniteSet(U), NEW first, first \subseteq U,
         Cardinality(first) = NamedFiles,
         NEW f \in Nat, f \notin U, \A g \in first : g < f
  PROVE  Cardinality(extractFilePaths(U)) = NamedFiles /\ \A g \in extractFilePaths(U) : g < f
<1> DEFINE X == {h \in U : Cardinality({g \in U : g < h}) < NamedFiles}
<1>1. extractFilePaths(U) = X
  BY DEF extractFilePaths
<1>2. NamedFiles \in Nat
  BY TodoAssumption
<1>3. IsFiniteSet(first) /\ Cardinality(first) <= Cardinality(U)
  BY FS_Subset
<1>4. Cardinality(X) = NamedFiles
  BY <1>2, <1>3, FirstNames, ZenonT(40)
<1>5. ASSUME NEW g \in X, ~ (g < f) PROVE FALSE
  <2> DEFINE B == {h \in U : h < g}
  <2>1. g \in U /\ Cardinality(B) < NamedFiles
    OBVIOUS
  <2>2. B \subseteq U
    OBVIOUS
  <2>3. \A h \in Nat : h < f => h < g
    <3>1. g \in Nat /\ g # f
      BY <2>1
    <3> HIDE DEF X, B
    <3> QED BY <1>5, <3>1
  <2>4. first \subseteq B
    <3>1. \A h \in first : h \in U /\ h \in Nat /\ h < f
      OBVIOUS
    <3> QED BY <2>3, <3>1
  <2> HIDE DEF B, X
  <2>5. IsFiniteSet(B)
    BY <2>2, FS_Subset
  <2>6. NamedFiles <= Cardinality(B) /\ Cardinality(B) \in Nat
    BY <2>4, <2>5, FS_Subset, FS_CardinalityType
  <2> QED BY <1>2, <2>1, <2>6
<1> HIDE DEF X
<1> QED BY <1>1, <1>4, <1>5

\* A pruned overview is short, and says of every file it said it of.
LEMMA PruneRecalls ==
  ASSUME NEW o \in Briefs, Len(o) < PruneThreshold, NEW named \in SUBSET FileNames,
         NEW done \in SUBSET FileNames, done # {} => o # <<>>,
         \A f \in done : Recalled(o, f)
  PROVE  LET n == pruneOverview(Append(o, named))
         IN  /\ n \in Briefs /\ Len(n) < PruneThreshold /\ n # <<>>
             /\ \A f \in done \cup named : Recalled(n, f)
<1> DEFINE e == Append(o, named)
           L == Len(o)
           U == UNION {e[k] : k \in 1 .. MergeCount}
           X == extractFilePaths(U)
           rest == SubSeq(e, MergeCount + 1, Len(e))
           n == pruneOverview(e)
<1>1. /\ L \in Nat /\ PruneThreshold \in Nat /\ MergeCount \in Nat /\ MergeCount > 1
      /\ MergeCount < PruneThreshold /\ FileNames \subseteq Nat /\ IsFiniteSet(FileNames)
      /\ NamedFiles \in Nat
  BY TodoAssumption DEF Briefs
<1>2. /\ e \in Briefs /\ Len(e) = L + 1 /\ e[L + 1] = named
      /\ \A k \in 1 .. L : e[k] = o[k]
  BY DEF Briefs
<1>3. DOMAIN o = 1 .. L /\ DOMAIN e = 1 .. L + 1
  BY <1>2 DEF Briefs
<1> HIDE DEF e
<1>4. ASSUME NEW f \in done PROVE \/ \E k \in 1 .. L + 1 : f \in e[k]
                                  \/ /\ o # <<>> /\ L >= 1
                                     /\ Cardinality(e[1]) = NamedFiles /\ \A g \in e[1] : g < f
  <2>1. o # <<>> /\ L >= 1 /\ 1 \in 1 .. L
    BY <1>1 DEF Briefs
  <2>2. e[1] = o[1] /\ \A k \in 1 .. L : k \in 1 .. L + 1 /\ e[k] = o[k]
    BY <1>1, <1>2, <2>1
  <2> HIDE DEF L
  <2> QED BY <1>3, <2>1, <2>2 DEF Recalled
<1> HIDE DEF L
<1>5. ASSUME NEW f \in named PROVE \E k \in 1 .. L + 1 : f \in e[k]
  BY <1>1, <1>2
<1>6. CASE Len(e) < PruneThreshold
  <2>1. n = e
    BY <1>6 DEF pruneOverview
  <2>2. e # <<>>
    BY <1>1, <1>2 DEF Briefs
  <2>3. ASSUME NEW f \in done \cup named PROVE Recalled(e, f)
    BY <1>3, <1>4, <1>5 DEF Recalled
  <2> QED BY <1>2, <1>6, <2>1, <2>2, <2>3 DEF e
<1>7. CASE ~ (Len(e) < PruneThreshold)
  <2>1. n = <<X>> \o rest
    BY <1>7 DEF pruneOverview
  <2>2. L + 1 = PruneThreshold /\ MergeCount <= L /\ Len(e) = L + 1
    BY <1>1, <1>2, <1>7 DEF L
  <2>3. U \subseteq FileNames /\ U \subseteq Nat /\ IsFiniteSet(U) /\ X \in SUBSET FileNames
    <3>1. \A k \in 1 .. MergeCount : e[k] \subseteq FileNames
      BY <1>1, <1>2, <1>3, <2>2 DEF Briefs
    <3>2. U \subseteq FileNames
      BY <3>1
    <3> HIDE DEF U
    <3>3. X \subseteq U
      BY DEF extractFilePaths
    <3> QED BY <1>1, <3>2, <3>3, FS_Subset
  <2>4. /\ rest \in Briefs /\ Len(rest) = L + 1 - MergeCount
        /\ \A k \in 1 .. L + 1 - MergeCount : rest[k] = e[MergeCount + k]
    <3> DEFINE a == MergeCount + 1
    <3>1. a \in 1 .. Len(e) + 1 /\ a \in Nat
      BY <1>1, <2>2
    <3> QED BY <1>1, <1>2, <2>2, <3>1 DEF Briefs
  <2>5. <<X>> \in Briefs /\ Len(<<X>>) = 1 /\ <<X>>[1] = X
    BY <2>3, OneIsSeq DEF Briefs
  <2> HIDE DEF X, rest, n
  <2>6. /\ n \in Briefs /\ Len(n) = L + 2 - MergeCount
        /\ n[1] = X
        /\ \A k \in 1 .. L + 1 - MergeCount : n[k + 1] = e[MergeCount + k]
    <3>1. n \in Briefs
      BY <2>1, <2>4, <2>5 DEF Briefs
    <3>2. /\ Len(n) = 1 + (L + 1 - MergeCount)
          /\ \A i \in 1 .. Len(n) : n[i] = IF i <= 1 THEN X ELSE rest[i - 1]
      <4> HIDE DEF Briefs
      <4>1. <<X>> \in Seq(SUBSET FileNames) /\ rest \in Seq(SUBSET FileNames)
        BY <2>4, <2>5 DEF Briefs
      <4> QED BY <2>1, <2>4, <2>5, <4>1
    <3>3. ASSUME NEW k \in 1 .. L + 1 - MergeCount PROVE n[k + 1] = e[MergeCount + k]
      <4>1. k + 1 \in 1 .. Len(n) /\ ~ (k + 1 <= 1) /\ (k + 1) - 1 = k
        BY <1>1, <2>2, <3>2
      <4> QED BY <2>4, <3>2, <4>1
    <3>4. 1 \in 1 .. Len(n)
      BY <1>1, <2>2, <3>2
    <3> QED BY <1>1, <2>2, <3>1, <3>2, <3>3, <3>4
  <2>7. Len(n) < PruneThreshold /\ n # <<>> /\ DOMAIN n = 1 .. L + 2 - MergeCount
    BY <1>1, <2>2, <2>6 DEF Briefs
  <2>8. ASSUME NEW f \in FileNames, NEW k \in 1 .. L + 1, f \in e[k]
        PROVE  Recalled(n, f)
    <3>1. CASE k <= MergeCount
      <4>1. f \in U
        BY <1>1, <2>8, <3>1
      <4>2. CASE f \in X
        <5>1. 1 \in DOMAIN n
          BY <1>1, <2>2, <2>7
        <5> QED BY <2>6, <4>2, <5>1 DEF Recalled
      <4>3. CASE f \notin X
        <5> HIDE DEF U
        <5> DEFINE Y == {h \in U : Cardinality({g \in U : g < h}) < NamedFiles}
        <5>1. X = Y
          BY DEF X, extractFilePaths
        <5>2. /\ NamedFiles <= Cardinality(U) => Cardinality(Y) = NamedFiles
              /\ \A z \in U \ Y : Cardinality(Y) = NamedFiles /\ \A g \in Y : g < z
          BY <1>1, <2>3, FirstNames
        <5> HIDE DEF Y
        <5> QED BY <2>6, <4>1, <4>3, <5>1, <5>2 DEF Recalled
      <4> QED BY <4>2, <4>3
    <3>2. CASE ~ (k <= MergeCount)
      <4> DEFINE j == k - MergeCount
      <4>1. j \in 1 .. L + 1 - MergeCount /\ MergeCount + j = k /\ j + 1 \in 1 .. L + 2 - MergeCount
        BY <1>1, <2>2, <3>2
      <4> HIDE DEF j
      <4>2. n[j + 1] = e[k] /\ j + 1 \in DOMAIN n
        BY <2>6, <2>7, <4>1
      <4> QED BY <2>8, <4>2 DEF Recalled
    <3> QED BY <3>1, <3>2
  <2>9. ASSUME NEW f \in done \cup named PROVE Recalled(n, f)
    <3>1. f \in FileNames /\ f \in Nat
      BY <1>1
    <3>2. CASE \E k \in 1 .. L + 1 : f \in e[k]
      BY <2>8, <3>1, <3>2
    <3>3. CASE ~ \E k \in 1 .. L + 1 : f \in e[k]
      <4>1. f \in done
        BY <1>5, <3>3
      <4>2. Cardinality(e[1]) = NamedFiles /\ \A g \in e[1] : g < f
        BY <1>4, <3>3, <4>1
      <4>3. f \notin U /\ e[1] \subseteq U
        <5>1. \A k \in 1 .. MergeCount : k \in 1 .. L + 1
          BY <1>1, <2>2
        <5>2. 1 \in 1 .. MergeCount
          BY <1>1
        <5> QED BY <3>3, <5>1, <5>2
      <4> HIDE DEF U
      <4>4. Cardinality(X) = NamedFiles /\ \A g \in X : g < f
        BY <2>3, <3>1, <4>2, <4>3, MergedStaysFull DEF X
      <4> QED BY <2>6, <4>4 DEF Recalled
    <3> QED BY <3>2, <3>3
  <2> QED BY <2>6, <2>7, <2>9 DEF n, e
<1> QED BY <1>6, <1>7

LEMMA TodoBegins == TodoInit => TodoIInv
<1> SUFFICES ASSUME TodoInit PROVE TodoIInv
  OBVIOUS
<1>1. <<>> \in Seq(TaskLines) /\ <<>> \in Briefs
  BY DEF Briefs
<1>2. TodoTyped
  <2>1. TurnTyped
    <3>1. strays \in 0 .. 2
      BY DEF TodoInit
    <3> QED BY <3>1, Zenon DEF TodoInit, TurnTyped
  <2>2. archived \subseteq FileNames /\ archived = {} /\ incoming \in Asked /\ active \in Asked
    BY DEF TodoInit, Asked
  <2>3. tasks \in Seq(TaskLines) /\ briefs \in Briefs /\ overview \in Briefs
    BY <1>1 DEF TodoInit
  <2> QED BY <2>1, <2>2, <2>3 DEF TodoTyped
<1>3. OverviewNamesFiles
  <2>1. Len(overview) = 0 /\ PruneThreshold \in Nat /\ MergeCount < PruneThreshold /\ MergeCount \in Nat
    BY TodoAssumption DEF TodoInit
  <2> QED BY <2>1 DEF TodoInit, OverviewNamesFiles
<1>4. TodoStands
  BY DEF TodoInit, TodoStands
<1> QED BY <1>2, <1>3, <1>4 DEF TodoIInv

\* A step of the threads that leaves the list alone.
LEMMA TurnStep ==
  ASSUME TodoIInv, UNCHANGED listVars,
         TurnTyped', TodoStands'
  PROVE  TodoIInv'
<1>1. TodoTyped'
  BY DEF TodoIInv, TodoTyped, listVars
<1>2. OverviewNamesFiles'
  BY DEF TodoIInv, OverviewNamesFiles, listVars
<1> QED BY <1>1, <1>2 DEF TodoIInv

\* The other steps of a turn.
LEMMA TurnsKept ==
  ASSUME TodoIInv, NewTurn \/ StartCall \/ EndTurn \/ Escape
  PROVE  TodoIInv'
<1>1. TurnTyped /\ TodoStands
  BY DEF TodoIInv, TodoTyped
<1>2. CASE NewTurn
  BY <1>1, <1>2, TurnStep DEF NewTurn, TodoStands, TurnTyped
<1>3. CASE StartCall
  BY <1>1, <1>3, TurnStep DEF StartCall, MayCall, TodoStands, TurnTyped
<1>4. CASE EndTurn
  BY <1>1, <1>4, TurnStep DEF EndTurn, TodoStands, TurnTyped
<1>5. CASE Escape
  BY <1>1, <1>5, TurnStep DEF Escape, TodoStands, TurnTyped
<1> QED BY <1>2, <1>3, <1>4, <1>5

\* A new turn.
LEMMA StartKept == TodoIInv /\ StartTurn => TodoIInv'
<1> SUFFICES ASSUME TodoIInv, StartTurn PROVE TodoIInv'
  OBVIOUS
<1>1. TodoTyped'
  <2>1. TurnTyped'
    <3>1. strays' \in 0 .. 2
      BY DEF StartTurn
    <3> QED BY <3>1, Zenon DEF StartTurn, TurnTyped
  <2>2. incoming' \in Asked
    BY DEF StartTurn, Asked
  <2> QED BY <2>1, <2>2 DEF TodoIInv, TodoTyped, StartTurn
<1>2. OverviewNamesFiles'
  BY DEF TodoIInv, OverviewNamesFiles, StartTurn
<1>3. TodoStands'
  BY DEF StartTurn, TodoStands
<1> QED BY <1>1, <1>2, <1>3 DEF TodoIInv

\* clearSession, in a turn or between two.
LEMMA ClearKept == TodoIInv /\ ClearSession => TodoIInv'
<1> SUFFICES ASSUME TodoIInv, ClearSession PROVE TodoIInv'
  OBVIOUS
<1>1. <<>> \in Seq(TaskLines) /\ <<>> \in Briefs /\ Len(<<>>) = 0
  BY DEF Briefs
<1>2. TodoTyped'
  BY <1>1 DEF TodoIInv, TodoTyped, TurnTyped, Asked, ClearSession
<1>3. OverviewNamesFiles'
  <2>1. Len(overview') = 0 /\ PruneThreshold \in Nat /\ MergeCount < PruneThreshold /\ MergeCount \in Nat
    BY TodoAssumption DEF ClearSession
  <2> QED BY <2>1 DEF ClearSession, OverviewNamesFiles
<1>4. TodoStands'
  BY DEF TodoIInv, TodoTyped, TurnTyped, TodoStands, ClearSession
<1> QED BY <1>2, <1>3, <1>4 DEF TodoIInv

LEMMA ReturnsStands == TodoIInv /\ Returns => TodoStands' /\ TurnTyped'
  BY DEF TodoIInv, TodoTyped, TurnTyped, TodoStands, Returns

\* update_todo with init or update.
LEMMA UpdatesKept ==
  ASSUME TodoIInv,
         \/ \E list \in Lists : TodoStarted(list)
         \/ \E task \in Tasks, status \in Statuses, named \in SUBSET FileNames :
              TodoUpdated(task, status, named)
  PROVE  TodoIInv'
<1>1. Returns /\ UNCHANGED <<overview, incoming, archived>>
  BY DEF TodoStarted, TodoUpdated
<1>2. TodoStands' /\ TurnTyped'
  BY <1>1, ReturnsStands
<1>3. OverviewNamesFiles'
  BY <1>1 DEF TodoIInv, OverviewNamesFiles
<1>4. tasks \in Seq(TaskLines) /\ briefs \in Briefs
  BY DEF TodoIInv, TodoTyped
<1>5. tasks' \in Seq(TaskLines) /\ briefs' \in Briefs /\ active' \in {incoming, active}
  <2>1. ASSUME NEW list \in Lists, TodoStarted(list)
        PROVE  tasks' \in Seq(TaskLines) /\ briefs' \in Briefs /\ active' = incoming
    <3>1. list \in Seq(TaskLines)
      BY TodoAssumption DEF TaskLines
    <3>2. <<>> \in Briefs
      BY DEF Briefs
    <3> QED BY <2>1, <3>1, <3>2 DEF TodoStarted
  <2>2. ASSUME NEW task \in Tasks, NEW status \in Statuses, NEW named \in SUBSET FileNames,
               TodoUpdated(task, status, named)
        PROVE  tasks' \in Seq(TaskLines) /\ briefs' \in Briefs /\ active' = active
    <3>1. briefs' \in Briefs
      BY <1>4, <2>2 DEF TodoUpdated, Briefs
    <3> DEFINE marks(k) == k \in Open(task) /\ \A j \in Open(task) : k <= j
               new(k) == IF marks(k) THEN [tasks[k] EXCEPT !.mark = status] ELSE tasks[k]
    <3>2. tasks' = [k \in DOMAIN tasks |-> new(k)] /\ active' = active
      BY <2>2 DEF TodoUpdated
    <3>3. \A k \in 1 .. Len(tasks) : new(k) \in TaskLines
      <4> HIDE DEF marks
      <4> TAKE k \in 1 .. Len(tasks)
      <4>1. tasks[k] \in TaskLines /\ status \in Statuses \cup {"none"}
        BY <1>4
      <4> QED BY <4>1 DEF TaskLines
    <3>4. DOMAIN tasks = 1 .. Len(tasks) /\ Len(tasks) \in Nat
      BY <1>4
    <3> HIDE DEF new
    <3>5. [k \in 1 .. Len(tasks) |-> new(k)] \in Seq(TaskLines)
      BY <3>3, <3>4, IsASeq
    <3> QED BY <3>1, <3>2, <3>4, <3>5
  <2> QED BY <2>1, <2>2
<1>6. TodoTyped'
  BY <1>1, <1>2, <1>5 DEF TodoIInv, TodoTyped
<1> QED BY <1>2, <1>3, <1>6 DEF TodoIInv

\* update_todo with done: the files of the finished work go into the overview.
LEMMA DoneKept == TodoIInv /\ TodoDone => TodoIInv'
<1> SUFFICES ASSUME TodoIInv, TodoDone PROVE TodoIInv'
  OBVIOUS
<1> DEFINE named == UNION {briefs[k] : k \in DOMAIN briefs}
           n == pruneOverview(Append(overview, named))
<1>1. /\ Returns /\ UNCHANGED incoming /\ active' = NoPrompt
      /\ tasks' = <<>> /\ briefs' = <<>> /\ overview' = n /\ archived' = archived \cup named
  BY DEF TodoDone
<1>2. TodoStands' /\ TurnTyped'
  BY <1>1, ReturnsStands
<1>3. named \in SUBSET FileNames
  BY DEF TodoIInv, TodoTyped, Briefs
<1>4. overview \in Briefs /\ Len(overview) < PruneThreshold
  BY DEF TodoIInv, TodoTyped, OverviewNamesFiles
<1>5. archived \in SUBSET FileNames /\ (archived # {} => overview # <<>>)
  BY DEF TodoIInv, TodoTyped
<1>6. \A f \in archived : Recalled(overview, f)
  BY DEF TodoIInv, OverviewNamesFiles, Recalled
<1> HIDE DEF named
<1>7. /\ n \in Briefs /\ Len(n) < PruneThreshold /\ n # <<>>
      /\ \A f \in archived \cup named : Recalled(n, f)
  BY <1>3, <1>4, <1>5, <1>6, PruneRecalls
<1> HIDE DEF n
<1>8. OverviewNamesFiles'
  BY <1>1, <1>7 DEF OverviewNamesFiles, Recalled
<1>9. TodoTyped'
  <2>1. <<>> \in Seq(TaskLines) /\ <<>> \in Briefs
    BY DEF Briefs
  <2>2. archived' \subseteq FileNames /\ (archived' # {} => overview' # <<>>)
    BY <1>1, <1>3, <1>5, <1>7
  <2>3. incoming' \in Asked /\ active' \in Asked
    BY <1>1 DEF TodoIInv, TodoTyped, Asked
  <2> QED BY <1>1, <1>2, <1>7, <2>1, <2>2, <2>3 DEF TodoTyped
<1> QED BY <1>2, <1>8, <1>9 DEF TodoIInv

\* Every step on the task list does.
LEMMA TodoKept == TodoIInv /\ [TodoNext]_todoVars => TodoIInv'
<1> SUFFICES ASSUME TodoIInv, [TodoNext]_todoVars PROVE TodoIInv'
  OBVIOUS
<1>1. CASE StartTurn
  BY <1>1, StartKept
<1>2. CASE NewTurn \/ StartCall \/ EndTurn \/ Escape
  BY <1>2, TurnsKept
<1>3. CASE ClearSession
  BY <1>3, ClearKept
<1>4. CASE \/ \E list \in Lists : TodoStarted(list)
           \/ \E task \in Tasks, status \in Statuses, named \in SUBSET FileNames :
                TodoUpdated(task, status, named)
  BY <1>4, UpdatesKept
<1>5. CASE TodoDone
  BY <1>5, DoneKept
<1>6. CASE UNCHANGED todoVars
  <2>1. UNCHANGED <<stage, raised, left, begun, strays>> /\ UNCHANGED listVars
    BY <1>6 DEF todoVars, turnVars
  <2>2. TodoTyped'
    BY <2>1 DEF TodoIInv, TodoTyped, TurnTyped, listVars
  <2>3. OverviewNamesFiles' /\ TodoStands'
    BY <2>1 DEF TodoIInv, OverviewNamesFiles, TodoStands, listVars
  <2> QED BY <2>2, <2>3 DEF TodoIInv
<1> QED BY <1>1, <1>2, <1>3, <1>4, <1>5, <1>6 DEF TodoNext

\* The invariant gives the property.
LEMMA TodoIsSafe == TodoIInv => TodoInv
<1> SUFFICES ASSUME TodoIInv PROVE TodoInv
  OBVIOUS
<1>1. StrayIsLast
  BY DEF TodoIInv, TodoTyped, TurnTyped, TodoStands, StrayIsLast
<1>2. TodoTypeOK
  <2>1. TurnTyped /\ {incoming, active} \subseteq Prompts \cup {NoPrompt}
    BY DEF TodoIInv, TodoTyped, Asked
  <2>2. tasks \in Seq(TaskLines) /\ briefs \in Seq(SUBSET FileNames)
    BY DEF TodoIInv, TodoTyped, Briefs
  <2>3. \A k \in DOMAIN tasks : tasks[k].mark \in Statuses \cup {"none"}
    <3>1. \A k \in DOMAIN tasks : tasks[k] \in TaskLines
      BY <2>2
    <3> QED BY <3>1 DEF TaskLines
  <2>4. \A k \in DOMAIN briefs : briefs[k] \subseteq FileNames
    BY <2>2
  <2> QED BY <2>1, <2>3, <2>4 DEF TurnTyped, TodoTypeOK
<1> QED BY <1>1, <1>2 DEF TodoIInv, TodoInv

-----------------------------------------------------------------------------
\* Paths, and what a listing shows.

Paths == DOMAIN Tree

\* `p` begins with `q`, name by name.
Begins(q, p) == Len(q) <= Len(p) /\ \A i \in 1 .. Len(q) : q[i] = p[i]

LEMMA PathsAreSeqs ==
  ASSUME NEW p \in Paths PROVE p \in Seq(Nat) /\ Len(p) \in Nat /\ DOMAIN p = 1 .. Len(p)
  BY SearchAssumption DEF Paths

LEMMA SamePath ==
  ASSUME NEW p \in Seq(Nat), NEW q \in Seq(Nat), Len(p) = Len(q),
         \A i \in 1 .. Len(p) : p[i] = q[i]
  PROVE  p = q
  BY SeqEqual

\* The prefixes of the library, place by place.
LEMMA PrefixIs ==
  ASSUME NEW q \in Seq(Nat), NEW p \in Seq(Nat)
  PROVE  IsPrefix(q, p) <=> Begins(q, p)
<1>1. Len(p) \in Nat /\ Len(q) \in Nat
  OBVIOUS
<1>2. CASE ~ (Len(q) <= Len(p))
  BY <1>2 DEF IsPrefix, Begins
<1>3. CASE Len(q) <= Len(p)
  <2> DEFINE a == SubSeq(q, 1, Len(q))
             b == SubSeq(p, 1, Len(q))
  <2>1. Len(q) \in 0 .. Len(q) /\ Len(q) \in 0 .. Len(p)
    BY <1>1, <1>3
  <2>2. a \in Seq(Nat) /\ Len(a) = Len(q) /\ \A i \in 1 .. Len(q) : a[i] = q[i]
    BY <2>1, FrontIsText
  <2>3. b \in Seq(Nat) /\ Len(b) = Len(q) /\ \A i \in 1 .. Len(q) : b[i] = p[i]
    BY <2>1, FrontIsText
  <2>4. IsPrefix(q, p) <=> a = b
    BY <1>3 DEF IsPrefix
  <2> HIDE DEF a, b
  <2>5. ASSUME a = b PROVE \A i \in 1 .. Len(q) : q[i] = p[i]
    <3> TAKE i \in 1 .. Len(q)
    <3>1. a[i] = q[i] /\ b[i] = p[i]
      BY <2>2, <2>3
    <3> QED BY <2>5, <3>1
  <2>6. ASSUME \A i \in 1 .. Len(q) : q[i] = p[i] PROVE a = b
    <3>1. \A i \in 1 .. Len(a) : a[i] = b[i]
      BY <2>2, <2>3, <2>6
    <3> QED BY <2>2, <2>3, <3>1, SamePath
  <2> QED BY <1>3, <2>4, <2>5, <2>6 DEF Begins
<1> QED BY <1>2, <1>3

LEMMA BelowIs ==
  ASSUME NEW d \in Paths, NEW p
  PROVE  p \in Below(d) <=> p \in Paths /\ Begins(d, p) /\ Len(d) < Len(p)
<1>1. CASE p \notin Paths
  BY <1>1 DEF Below, Paths
<1>2. CASE p \in Paths
  <2>1. /\ p \in Seq(Nat) /\ d \in Seq(Nat) /\ Len(p) \in Nat /\ Len(d) \in Nat
    BY <1>2, PathsAreSeqs
  <2>2. p \in Below(d) <=> Begins(d, p) /\ d # p
    BY <1>2, <2>1, PrefixIs DEF Below, IsStrictPrefix, Paths
  <2>3. ASSUME Begins(d, p), d # p PROVE Len(d) < Len(p)
    <3>1. CASE Len(d) = Len(p)
      BY <2>1, <2>3, <3>1, SamePath DEF Begins
    <3> QED BY <2>1, <2>3, <3>1 DEF Begins
  <2>4. Len(d) < Len(p) => d # p
    BY <2>1
  <2> QED BY <1>2, <2>2, <2>3, <2>4
<1> QED BY <1>1, <1>2

LEMMA FrontIs ==
  ASSUME NEW p \in Paths, p # <<>>
  PROVE  /\ Front(p) \in Paths /\ Tree[Front(p)].dir
         /\ Len(p) > 0 /\ Len(Front(p)) = Len(p) - 1
         /\ \A i \in 1 .. Len(p) - 1 : Front(p)[i] = p[i]
         /\ Last(p) = p[Len(p)] /\ Last(p) \in Nat
<1>1. p \in Seq(Nat) /\ Len(p) \in Nat
  BY PathsAreSeqs
<1>2. Len(p) > 0 /\ Len(p) - 1 \in 0 .. Len(p) /\ Len(p) \in 1 .. Len(p)
  BY <1>1
<1>3. Len(Front(p)) = Len(p) - 1 /\ \A i \in 1 .. Len(p) - 1 : Front(p)[i] = p[i]
  BY <1>1, <1>2, FrontIsText DEF Front
<1>4. Front(p) \in Paths /\ Tree[Front(p)].dir
  BY SearchAssumption DEF Paths
<1>5. Last(p) = p[Len(p)] /\ Last(p) \in Nat
  BY <1>1, <1>2 DEF Last
<1> QED BY <1>2, <1>3, <1>4, <1>5

\* Every beginning of a path is a directory.
LEMMA BeginningsArePaths ==
  ASSUME NEW p \in Paths, NEW n \in 0 .. Len(p)
  PROVE  \E q \in Paths : Len(q) = n /\ Begins(q, p) /\ (n < Len(p) => Tree[q].dir)
<1> DEFINE L == Len(p)
           Cut(q, m) == q \in Paths /\ Len(q) = L - m /\ Begins(q, p) /\ (m > 0 => Tree[q].dir)
           Good == {m \in 0 .. L : \E q : Cut(q, m)}
<1>1. L \in Nat /\ p \in Seq(Nat)
  BY PathsAreSeqs
<1>2. 0 \in Good
  <2>1. Cut(p, 0)
    BY <1>1 DEF Begins
  <2> HIDE DEF Cut, L
  <2> QED BY <1>1, <2>1
<1>3. ASSUME NEW m \in 0 .. L - 1, m \in Good PROVE m + 1 \in Good
  <2>1. PICK q : Cut(q, m)
    BY <1>3
  <2>2. q \in Paths /\ Len(q) = L - m /\ Begins(q, p)
    BY <2>1
  <2>3. q # <<>> /\ Len(q) \in Nat
    <3> HIDE DEF L
    <3>1. L - m > 0 /\ Len(<<>>) = 0
      BY <1>1
    <3> QED BY <1>1, <2>2, <3>1
  <2>4. /\ Front(q) \in Paths /\ Tree[Front(q)].dir
        /\ Len(Front(q)) = Len(q) - 1
        /\ \A i \in 1 .. Len(q) - 1 : Front(q)[i] = q[i]
    BY <2>2, <2>3, FrontIs
  <2>5. Begins(Front(q), p)
    <3>1. Len(q) <= L /\ \A i \in 1 .. Len(q) : q[i] = p[i]
      BY <2>2 DEF Begins
    <3> HIDE DEF L
    <3>2. Len(Front(q)) <= L
      BY <1>1, <2>3, <2>4, <3>1
    <3>3. \A i \in 1 .. Len(q) - 1 : Front(q)[i] = p[i]
      BY <2>3, <2>4, <3>1
    <3> QED BY <2>4, <3>2, <3>3 DEF Begins, L
  <2> HIDE DEF L
  <2>6. Len(Front(q)) = L - (m + 1) /\ m + 1 \in 0 .. L
    BY <1>1, <2>2, <2>4
  <2>7. Cut(Front(q), m + 1)
    BY <2>4, <2>5, <2>6
  <2> HIDE DEF Cut
  <2> QED BY <2>6, <2>7
<1> HIDE DEF Good
<1>4. L - n \in 0 .. L
  BY <1>1
<1>5. L - n \in Good
  <2> HIDE DEF L
  <2>1. 0 .. L \subseteq Good
    BY <1>1, <1>2, <1>3, UpTo
  <2> QED BY <1>4, <2>1
<1>6. PICK q : Cut(q, L - n)
  BY <1>5 DEF Good
<1>7. L - (L - n) = n /\ (n < L => L - n > 0)
  BY <1>1
<1> QED BY <1>6, <1>7

LEMMA ChildIs ==
  ASSUME NEW d \in Paths, NEW c \in Children(d)
  PROVE  /\ c \in Paths /\ c # <<>> /\ c \in Below(d) /\ Len(c) = Len(d) + 1 /\ Tree[d].dir
         /\ Last(c) = c[Len(c)] /\ Last(c) \in Nat
         /\ \A i \in 1 .. Len(d) : c[i] = d[i]
<1>1. c \in Paths /\ c # <<>> /\ Front(c) = d
  BY DEF Children, Paths
<1>2. /\ Len(c) > 0 /\ Len(d) = Len(c) - 1 /\ Tree[d].dir
      /\ \A i \in 1 .. Len(c) - 1 : d[i] = c[i]
      /\ Last(c) = c[Len(c)] /\ Last(c) \in Nat
  BY <1>1, FrontIs
<1>3. Len(c) \in Nat /\ Len(d) \in Nat
  BY <1>1, PathsAreSeqs
<1>4. Begins(d, c) /\ Len(d) < Len(c)
  BY <1>2, <1>3 DEF Begins
<1> QED BY <1>1, <1>2, <1>3, <1>4, BelowIs

\* Two entries of a directory have two names.
LEMMA ChildrenDiffer ==
  ASSUME NEW d \in Paths, NEW b \in Children(d), NEW c \in Children(d), Last(b) = Last(c)
  PROVE  b = c
<1>1. /\ b \in Seq(Nat) /\ c \in Seq(Nat) /\ Len(d) \in Nat
      /\ Len(b) = Len(d) + 1 /\ Len(c) = Len(d) + 1
      /\ b[Len(b)] = c[Len(c)]
      /\ \A i \in 1 .. Len(d) : b[i] = d[i] /\ c[i] = d[i]
  BY ChildIs, PathsAreSeqs
<1>2. \A i \in 1 .. Len(b) : b[i] = c[i]
  <2> TAKE i \in 1 .. Len(b)
  <2>1. i \in 1 .. Len(d) \/ i = Len(d) + 1
    BY <1>1
  <2> QED BY <1>1, <2>1
<1> QED BY <1>1, <1>2, SamePath

\* What is below a directory is one of its entries, or below one.
LEMMA BelowAChild ==
  ASSUME NEW d \in Paths, NEW p \in Below(d)
  PROVE  \E c \in Children(d) : Begins(c, p) /\ (p = c \/ (p \in Below(c) /\ Tree[c].dir))
<1>1. p \in Paths /\ Begins(d, p) /\ Len(d) < Len(p)
  BY BelowIs
<1>2. Len(d) \in Nat /\ Len(p) \in Nat /\ d \in Seq(Nat) /\ p \in Seq(Nat)
  BY <1>1, PathsAreSeqs
<1> DEFINE n == Len(d) + 1
<1>3. n \in 0 .. Len(p)
  BY <1>1, <1>2
<1>4. PICK c \in Paths : Len(c) = n /\ Begins(c, p) /\ (n < Len(p) => Tree[c].dir)
  BY <1>1, <1>3, BeginningsArePaths
<1>5. c \in Seq(Nat) /\ c # <<>>
  BY <1>2, <1>4, PathsAreSeqs
<1>6. c \in Children(d)
  <2>1. /\ Front(c) \in Paths /\ Len(Front(c)) = Len(c) - 1
        /\ \A i \in 1 .. Len(c) - 1 : Front(c)[i] = c[i]
    BY <1>5, FrontIs
  <2>2. Front(c) \in Seq(Nat) /\ Len(Front(c)) = Len(d) /\ Len(c) - 1 = Len(d)
    BY <1>2, <1>4, <2>1, PathsAreSeqs
  <2>3. \A i \in 1 .. Len(d) : Front(c)[i] = d[i]
    <3> TAKE i \in 1 .. Len(d)
    <3>1. i \in 1 .. Len(c) /\ i \in 1 .. Len(c) - 1
      BY <1>2, <1>4
    <3>2. c[i] = p[i] /\ d[i] = p[i]
      BY <1>1, <1>4, <3>1 DEF Begins
    <3> QED BY <2>1, <3>1, <3>2
  <2>4. Front(c) = d
    BY <1>2, <2>2, <2>3, SamePath
  <2> QED BY <1>5, <2>4 DEF Children, Paths
<1>7. CASE Len(p) = n
  <2>1. \A i \in 1 .. Len(c) : c[i] = p[i]
    BY <1>4 DEF Begins
  <2>2. c = p
    BY <1>2, <1>4, <1>5, <1>7, <2>1, SamePath
  <2> QED BY <1>4, <1>6, <2>2
<1>8. CASE Len(p) # n
  <2>1. n < Len(p)
    BY <1>2, <1>3, <1>8
  <2>2. p \in Below(c)
    BY <1>1, <1>4, <2>1, BelowIs
  <2> QED BY <1>4, <1>6, <2>1, <2>2
<1> QED BY <1>7, <1>8

LEMMA BeginsTransitive ==
  ASSUME NEW a \in Paths, NEW b \in Paths, NEW c \in Paths, Begins(a, b), Begins(b, c)
  PROVE  Begins(a, c)
<1>1. Len(a) \in Nat /\ Len(b) \in Nat /\ Len(c) \in Nat
  BY PathsAreSeqs
<1>2. Len(a) <= Len(c) /\ Len(a) <= Len(b)
  BY <1>1 DEF Begins
<1>3. \A i \in 1 .. Len(a) : a[i] = c[i]
  <2> TAKE i \in 1 .. Len(a)
  <2>1. i \in 1 .. Len(b)
    BY <1>1, <1>2
  <2> QED BY <2>1 DEF Begins
<1> QED BY <1>2, <1>3 DEF Begins

\* Of two beginnings of a path, the shorter one is a beginning of the other.
LEMMA BeginsLinear ==
  ASSUME NEW a \in Paths, NEW b \in Paths, NEW c \in Paths, Begins(a, c), Begins(b, c),
         Len(a) <= Len(b)
  PROVE  Begins(a, b)
<1>1. Len(a) \in Nat /\ Len(b) \in Nat
  BY PathsAreSeqs
<1>2. \A i \in 1 .. Len(a) : a[i] = b[i]
  <2> TAKE i \in 1 .. Len(a)
  <2>1. i \in 1 .. Len(b)
    BY <1>1
  <2> QED BY <2>1 DEF Begins
<1> QED BY <1>2 DEF Begins

LEMMA BeginsSameLength ==
  ASSUME NEW a \in Paths, NEW b \in Paths, Begins(a, b), Len(a) = Len(b)
  PROVE  a = b
<1>1. a \in Seq(Nat) /\ b \in Seq(Nat)
  BY PathsAreSeqs
<1> QED BY <1>1, SamePath DEF Begins

Admitted(p, hidden) == ~ (Tree[p].dir /\ Tree[p].junk) /\ Last(p) \notin hidden

\* What is below `d` as far as n levels, with no directory left out on the way.
Visible(d, n, hidden) ==
  {p \in Below(d) : /\ Len(p) - Len(d) <= n
                    /\ \A q \in Below(d) : IsPrefix(q, p) => Admitted(q, hidden)}

Entries(d, hidden) == {p \in Children(d) : Admitted(p, hidden)}

LEMMA VisibleIs ==
  ASSUME NEW d \in Paths, NEW n \in Nat, NEW hidden, NEW p
  PROVE  p \in Visible(d, n, hidden) <=>
           /\ p \in Below(d) /\ Len(p) <= Len(d) + n
           /\ \A q \in Below(d) : Begins(q, p) => Admitted(q, hidden)
<1>1. CASE p \notin Below(d)
  BY <1>1 DEF Visible
<1>2. CASE p \in Below(d)
  <2>1. p \in Paths /\ p \in Seq(Nat) /\ Len(p) \in Nat /\ Len(d) \in Nat
    BY <1>2, BelowIs, PathsAreSeqs
  <2>2. ASSUME NEW q \in Below(d) PROVE IsPrefix(q, p) <=> Begins(q, p)
    <3>1. q \in Seq(Nat)
      BY BelowIs, PathsAreSeqs
    <3> QED BY <2>1, <3>1, PrefixIs
  <2>3. Len(p) - Len(d) <= n <=> Len(p) <= Len(d) + n
    BY <2>1
  <2> QED BY <1>2, <2>2, <2>3 DEF Visible
<1> QED BY <1>1, <1>2

LEMMA NothingAtOnce ==
  ASSUME NEW d \in Paths, NEW hidden PROVE Visible(d, 0, hidden) = {}
<1> SUFFICES ASSUME NEW p \in Visible(d, 0, hidden) PROVE FALSE
  OBVIOUS
<1>1. 0 \in Nat
  OBVIOUS
<1>2. p \in Below(d) /\ Len(p) <= Len(d) + 0
  BY <1>1, VisibleIs
<1>3. p \in Paths /\ Len(d) < Len(p)
  BY <1>2, BelowIs
<1>4. Len(d) \in Nat /\ Len(p) \in Nat
  BY <1>3, PathsAreSeqs
<1> QED BY <1>2, <1>3, <1>4

LEMMA NothingInAFile ==
  ASSUME NEW d \in Paths, ~ Tree[d].dir PROVE Below(d) = {}
<1> SUFFICES ASSUME NEW p \in Below(d) PROVE FALSE
  OBVIOUS
<1>1. PICK c \in Children(d) : Begins(c, p)
  BY BelowAChild
<1> QED BY ChildIs

\* One level more: the entries, and what can be seen below them.
LEMMA OneLevelMore ==
  ASSUME NEW d \in Paths, NEW n \in Nat, NEW hidden, NEW p
  PROVE  p \in Visible(d, n + 1, hidden) <=>
           \E c \in Entries(d, hidden) : p = c \/ p \in Visible(c, n, hidden)
<1>0. n + 1 \in Nat /\ Len(d) \in Nat
  BY PathsAreSeqs
<1>1. ASSUME p \in Visible(d, n + 1, hidden)
      PROVE  \E c \in Entries(d, hidden) : p = c \/ p \in Visible(c, n, hidden)
  <2>1. /\ p \in Below(d) /\ Len(p) <= Len(d) + (n + 1)
        /\ \A q \in Below(d) : Begins(q, p) => Admitted(q, hidden)
    BY <1>0, <1>1, VisibleIs
  <2>2. PICK c \in Children(d) : Begins(c, p) /\ (p = c \/ (p \in Below(c) /\ Tree[c].dir))
    BY <2>1, BelowAChild
  <2>3. c \in Paths /\ c \in Below(d) /\ Len(c) = Len(d) + 1
    BY ChildIs
  <2>4. c \in Entries(d, hidden)
    BY <2>1, <2>2, <2>3 DEF Entries
  <2>5. CASE p # c
    <3>1. p \in Below(c) /\ p \in Paths /\ Len(p) \in Nat
      BY <2>1, <2>2, <2>5, BelowIs, PathsAreSeqs
    <3>2. Len(p) <= Len(c) + n
      BY <1>0, <2>1, <2>3, <3>1
    <3>3. ASSUME NEW q \in Below(c), Begins(q, p) PROVE Admitted(q, hidden)
      <4>1. q \in Paths /\ Begins(c, q) /\ Len(c) < Len(q) /\ Begins(d, c)
        BY <2>3, BelowIs
      <4>2. Begins(d, q) /\ Len(d) < Len(q)
        <5>1. Len(q) \in Nat
          BY <4>1, PathsAreSeqs
        <5>2. Begins(d, q)
          BY <2>3, <4>1, BeginsTransitive
        <5> QED BY <1>0, <2>3, <4>1, <5>1, <5>2
      <4>3. q \in Below(d)
        BY <4>1, <4>2, BelowIs
      <4> QED BY <2>1, <3>3, <4>3
    <3>4. p \in Visible(c, n, hidden)
      BY <2>3, <3>1, <3>2, <3>3, VisibleIs
    <3> QED BY <2>4, <3>4
  <2> QED BY <2>4, <2>5
<1>2. ASSUME NEW c \in Entries(d, hidden), p = c \/ p \in Visible(c, n, hidden)
      PROVE  p \in Visible(d, n + 1, hidden)
  <2>1. c \in Children(d) /\ Admitted(c, hidden)
    BY DEF Entries
  <2>2. c \in Paths /\ c \in Below(d) /\ Len(c) = Len(d) + 1 /\ Begins(d, c)
    BY <2>1, ChildIs, BelowIs
  <2>3. /\ p \in Paths /\ Begins(c, p) /\ Len(p) <= Len(c) + n
        /\ \A q \in Below(c) : Begins(q, p) => Admitted(q, hidden)
    <3>1. CASE p = c
      <4>1. Begins(c, c) /\ Len(c) <= Len(c) + n
        BY <2>2, PathsAreSeqs DEF Begins
      <4>2. ASSUME NEW q \in Below(c) PROVE ~ Begins(q, c)
        <5>1. q \in Paths /\ Len(c) < Len(q)
          BY <2>2, BelowIs
        <5>2. Len(c) \in Nat /\ Len(q) \in Nat
          BY <2>2, <5>1, PathsAreSeqs
        <5> QED BY <5>1, <5>2 DEF Begins
      <4> QED BY <2>2, <3>1, <4>1, <4>2
    <3>2. CASE p \in Visible(c, n, hidden)
      BY <2>2, <3>2, VisibleIs, BelowIs
    <3> QED BY <1>2, <3>1, <3>2
  <2>4. Len(p) \in Nat /\ Len(c) \in Nat
    BY <2>2, <2>3, PathsAreSeqs
  <2>5. p \in Below(d)
    <3>1. Begins(d, p)
      BY <2>2, <2>3, BeginsTransitive
    <3>2. Len(c) <= Len(p)
      BY <2>3 DEF Begins
    <3>3. Len(d) < Len(p)
      BY <1>0, <2>2, <2>4, <3>2
    <3> QED BY <2>3, <3>1, <3>3, BelowIs
  <2>6. Len(p) <= Len(d) + (n + 1)
    BY <1>0, <2>2, <2>3, <2>4
  <2>7. ASSUME NEW q \in Below(d), Begins(q, p) PROVE Admitted(q, hidden)
    <3>1. q \in Paths /\ Len(d) < Len(q) /\ Len(q) \in Nat
      BY BelowIs, PathsAreSeqs
    <3>2. Len(c) <= Len(q)
      BY <1>0, <2>2, <3>1
    <3>3. Begins(c, q)
      BY <2>2, <2>3, <2>7, <3>1, <3>2, BeginsLinear
    <3>4. CASE Len(c) = Len(q)
      <4>1. c = q
        BY <2>2, <3>1, <3>3, <3>4, BeginsSameLength
      <4> QED BY <2>1, <4>1
    <3>5. CASE Len(c) # Len(q)
      <4>1. Len(c) < Len(q)
        BY <2>4, <3>1, <3>2, <3>5
      <4>2. q \in Below(c)
        BY <2>2, <3>1, <3>3, <4>1, BelowIs
      <4> QED BY <2>3, <2>7, <4>2
    <3> QED BY <3>4, <3>5
  <2> QED BY <1>0, <2>5, <2>6, <2>7, VisibleIs
<1> QED BY <1>1, <1>2

\* What can be seen below two entries is apart.
LEMMA BranchesAreApart ==
  ASSUME NEW d \in Paths, NEW n \in Nat, NEW hidden, NEW b \in Children(d), NEW c \in Children(d),
         NEW p, p = b \/ p \in Visible(b, n, hidden), p = c \/ p \in Visible(c, n, hidden)
  PROVE  b = c
<1>1. /\ b \in Paths /\ c \in Paths /\ Len(b) = Len(c)
      /\ Len(b) \in Nat /\ Len(c) \in Nat
  BY ChildIs, PathsAreSeqs
<1>2. p \in Paths /\ Begins(b, p)
  <2>1. Begins(b, b)
    BY <1>1 DEF Begins
  <2>2. p \in Visible(b, n, hidden) => p \in Paths /\ Begins(b, p)
    BY <1>1, VisibleIs, BelowIs
  <2> QED BY <1>1, <2>1, <2>2
<1>3. Begins(c, p)
  <2>1. Begins(c, c)
    BY <1>1 DEF Begins
  <2>2. p \in Visible(c, n, hidden) => Begins(c, p)
    BY <1>1, VisibleIs, BelowIs
  <2> QED BY <2>1, <2>2
<1>4. Begins(b, c)
  BY <1>1, <1>2, <1>3, BeginsLinear
<1> QED BY <1>1, <1>4, BeginsSameLength

\* `s` has every member of S in it, once.
Enumerates(s, S) ==
  /\ s \in Seq(S)
  /\ \A i, j \in DOMAIN s : s[i] = s[j] => i = j
  /\ \A x \in S : \E i \in DOMAIN s : s[i] = x

\* ByName lists the entries of a directory once each: their names differ.
LEMMA ByNameEnumerates ==
  ASSUME NEW d \in Paths, NEW ps, ps \subseteq Children(d)
  PROVE  Enumerates(ByName(ps), ps)
<1> DEFINE key == [p \in ps |-> Last(p)]
           n == Cardinality(ps)
           at(k) == CHOOSE p \in ps : Cardinality({q \in ps : Last(q) < Last(p)}) = k - 1
           s == ByName(ps)
<1>1. IsFiniteSet(ps)
  <2>1. ps \subseteq DOMAIN Tree
    BY DEF Children
  <2> QED BY <2>1, SearchAssumption, FS_Subset
<1>2. \A p \in ps : key[p] = Last(p) /\ key[p] \in Nat
  BY ChildIs
<1>3. \A p, q \in ps : key[p] = key[q] => p = q
  BY <1>2, ChildrenDiffer
<1>4. s = [k \in 1 .. n |-> at(k)]
  BY DEF ByName
<1>5. \A p \in ps : Cardinality({q \in ps : Last(q) < Last(p)}) = Rank(ps, key, p)
  <2> TAKE p \in ps
  <2>1. {q \in ps : Last(q) < Last(p)} = {q \in ps : key[q] < key[p]}
    BY <1>2
  <2> QED BY <2>1 DEF Rank
<1> HIDE DEF key
<1>6. Ranked(ps, key)
  <2>1. \A p \in ps : key[p] \in Nat
    BY <1>2
  <2> QED BY <1>1, <1>3, <2>1, RanksAreAll
<1>7. n \in Nat
  BY <1>6 DEF Ranked
<1>8. ASSUME NEW k \in 1 .. n PROVE at(k) \in ps /\ Rank(ps, key, at(k)) = k - 1
  <2> DEFINE Is(p) == Cardinality({q \in ps : Last(q) < Last(p)}) = k - 1
  <2>1. k - 1 \in 0 .. n - 1
    BY <1>7
  <2>2. \E p \in ps : Rank(ps, key, p) = k - 1
    BY <1>6, <2>1 DEF Ranked
  <2>3. \E p \in ps : Is(p)
    BY <1>5, <2>2
  <2>4. at(k) = CHOOSE p \in ps : Is(p)
    OBVIOUS
  <2> HIDE DEF Is, at
  <2>5. at(k) \in ps /\ Is(at(k))
    BY <2>3, <2>4
  <2> QED BY <1>5, <2>5 DEF Is
<1> HIDE DEF at, s
<1>9. s \in Seq(ps)
  <2> HIDE DEF n
  <2>1. \A k \in 1 .. n : at(k) \in ps
    BY <1>8
  <2>2. [k \in 1 .. n |-> at(k)] \in Seq(ps)
    BY <1>7, <2>1, IsASeq
  <2> QED BY <1>4, <2>2
<1>10. DOMAIN s = 1 .. n /\ \A k \in 1 .. n : s[k] = at(k)
  BY <1>4
<1> HIDE DEF n
<1>11. ASSUME NEW i \in 1 .. n, NEW j \in 1 .. n, s[i] = s[j] PROVE i = j
  <2>1. i - 1 = j - 1
    BY <1>8, <1>10, <1>11
  <2> QED BY <1>7, <2>1
<1>12. ASSUME NEW p \in ps PROVE \E i \in 1 .. n : s[i] = p
  <2> DEFINE i == Rank(ps, key, p) + 1
  <2>1. Rank(ps, key, p) \in 0 .. n - 1
    BY <1>6 DEF Ranked, n
  <2>2. i \in 1 .. n /\ i - 1 = Rank(ps, key, p)
    BY <1>7, <2>1
  <2> HIDE DEF i
  <2>3. at(i) \in ps /\ Rank(ps, key, at(i)) = Rank(ps, key, p)
    BY <1>8, <2>2
  <2>4. at(i) = p
    BY <1>6, <2>3 DEF Ranked
  <2> QED BY <1>10, <2>2, <2>4
<1> QED BY <1>9, <1>10, <1>11, <1>12 DEF Enumerates, s

\* Two lists of different things, one behind the other, list both.
LEMMA TwoEnumerate ==
  ASSUME NEW A, NEW B, NEW a, NEW b, Enumerates(a, A), Enumerates(b, B), A \cap B = {}
  PROVE  Enumerates(a \o b, A \cup B)
<1> DEFINE S == A \cup B
           s == a \o b
<1>1. a \in Seq(S) /\ b \in Seq(S)
  <2>1. a \in Seq(A) /\ b \in Seq(B) /\ A \subseteq S /\ B \subseteq S
    BY DEF Enumerates
  <2> HIDE DEF S
  <2> QED BY <2>1, SeqMonotonic
<1> HIDE DEF S
<1>2. /\ Len(a) \in Nat /\ Len(b) \in Nat /\ DOMAIN a = 1 .. Len(a) /\ DOMAIN b = 1 .. Len(b)
      /\ \A i \in 1 .. Len(a) : a[i] \in A
      /\ \A i \in 1 .. Len(b) : b[i] \in B
  BY DEF Enumerates
<1>3. s \in Seq(S) /\ Len(s) = Len(a) + Len(b) /\ DOMAIN s = 1 .. Len(a) + Len(b)
  BY <1>1, ConcatProperties
<1>4. /\ \A i \in 1 .. Len(a) : s[i] = a[i]
      /\ \A i \in 1 .. Len(b) : s[Len(a) + i] = b[i]
  <2>1. \A i \in 1 .. Len(a) + Len(b) : s[i] = IF i <= Len(a) THEN a[i] ELSE b[i - Len(a)]
    BY <1>1, ConcatProperties
  <2> HIDE DEF s
  <2>2. ASSUME NEW i \in 1 .. Len(a) PROVE s[i] = a[i]
    <3>1. i \in 1 .. Len(a) + Len(b) /\ i <= Len(a)
      BY <1>2
    <3> QED BY <2>1, <3>1
  <2>3. ASSUME NEW i \in 1 .. Len(b) PROVE s[Len(a) + i] = b[i]
    <3>1. /\ Len(a) + i \in 1 .. Len(a) + Len(b) /\ ~ (Len(a) + i <= Len(a))
          /\ (Len(a) + i) - Len(a) = i
      BY <1>2
    <3> QED BY <2>1, <3>1
  <2> QED BY <2>2, <2>3
<1> HIDE DEF s
<1>5. ASSUME NEW i \in DOMAIN s
      PROVE  \/ i \in 1 .. Len(a) /\ s[i] = a[i] /\ s[i] \in A
             \/ \E j \in 1 .. Len(b) : i = Len(a) + j /\ s[i] = b[j] /\ s[i] \in B
  <2>1. CASE i <= Len(a)
    <3>1. i \in 1 .. Len(a)
      BY <1>2, <1>3, <2>1
    <3> QED BY <1>2, <1>4, <3>1
  <2>2. CASE ~ (i <= Len(a))
    <3>1. i - Len(a) \in 1 .. Len(b) /\ i = Len(a) + (i - Len(a))
      BY <1>2, <1>3, <2>2
    <3> QED BY <1>2, <1>4, <3>1
  <2> QED BY <2>1, <2>2
<1>6. ASSUME NEW i \in DOMAIN s, NEW j \in DOMAIN s, s[i] = s[j] PROVE i = j
  <2>1. CASE s[i] \in A
    <3>1. i \in 1 .. Len(a) /\ s[i] = a[i] /\ j \in 1 .. Len(a) /\ s[j] = a[j]
      BY <1>5, <1>6, <2>1
    <3> QED BY <1>2, <1>6, <3>1 DEF Enumerates
  <2>2. CASE s[i] \notin A
    <3>1. PICK k \in 1 .. Len(b) : i = Len(a) + k /\ s[i] = b[k]
      BY <1>5, <2>2
    <3>2. PICK m \in 1 .. Len(b) : j = Len(a) + m /\ s[j] = b[m]
      BY <1>5, <1>6, <2>2
    <3>3. k = m
      BY <1>2, <1>6, <3>1, <3>2 DEF Enumerates
    <3> QED BY <3>1, <3>2, <3>3
  <2> QED BY <2>1, <2>2
<1>7. ASSUME NEW x \in A PROVE \E i \in DOMAIN s : s[i] = x
  <2>1. PICK i \in 1 .. Len(a) : a[i] = x
    BY <1>2 DEF Enumerates
  <2>2. i \in DOMAIN s
    BY <1>2, <1>3
  <2> QED BY <1>4, <2>1, <2>2
<1>8. ASSUME NEW x \in B PROVE \E i \in DOMAIN s : s[i] = x
  <2>1. PICK i \in 1 .. Len(b) : b[i] = x
    BY <1>2 DEF Enumerates
  <2>2. Len(a) + i \in DOMAIN s
    BY <1>2, <1>3
  <2> QED BY <1>4, <2>1, <2>2
<1> QED BY <1>3, <1>6, <1>7, <1>8 DEF Enumerates, S, s

\* A directory shows each entry it admits once.
LEMMA ShownEnumerates ==
  ASSUME NEW d \in Paths, NEW hidden
  PROVE  Enumerates(Shown(d, hidden), Entries(d, hidden))
<1> DEFINE E == {p \in Children(d) : /\ ~ (Tree[p].dir /\ Tree[p].junk)
                                     /\ Last(p) \notin hidden}
           A == {p \in E : Tree[p].dir}
           B == {p \in E : ~ Tree[p].dir}
<1>1. E = Entries(d, hidden)
  BY DEF Entries, Admitted
<1>2. Shown(d, hidden) = ByName(A) \o ByName(B)
  BY DEF Shown
<1>3. A \subseteq Children(d) /\ B \subseteq Children(d) /\ A \cap B = {} /\ A \cup B = E
  OBVIOUS
<1> HIDE DEF A, B, E
<1>4. Enumerates(ByName(A), A) /\ Enumerates(ByName(B), B)
  BY <1>3, ByNameEnumerates
<1>5. Enumerates(ByName(A) \o ByName(B), A \cup B)
  BY <1>3, <1>4, TwoEnumerate
<1> QED BY <1>1, <1>2, <1>3, <1>5

\* `s` is what the first n of some sequences have in them, one behind the other.
Joins(s, parts, n, R) ==
  /\ s \in Seq(R)
  /\ \A x \in DOMAIN s : \E k \in 1 .. n : \E j \in DOMAIN parts[k] : s[x] = parts[k][j]
  /\ \A k \in 1 .. n : \A j \in DOMAIN parts[k] : \E x \in DOMAIN s : s[x] = parts[k][j]

\* Two members of the first n sequences with one key are the same one.
Apart(parts, key, n) ==
  \A k, l \in 1 .. n : \A i \in DOMAIN parts[k] : \A j \in DOMAIN parts[l] :
    key[parts[k][i]] = key[parts[l][j]] => k = l /\ i = j

Single(s, key) == \A i, j \in DOMAIN s : key[s[i]] = key[s[j]] => i = j

\* One part more at the end of joined parts.
LEMMA JoinOneMore ==
  ASSUME NEW R, NEW key, NEW n \in Nat, NEW parts, \A k \in 1 .. n + 1 : parts[k] \in Seq(R),
         NEW s, Joins(s, parts, n, R)
  PROVE  /\ Joins(s \o parts[n + 1], parts, n + 1, R)
         /\ Apart(parts, key, n + 1) /\ Single(s, key) => Single(s \o parts[n + 1], key)
<1> DEFINE b == parts[n + 1]
           t == s \o b
           N == Len(s)
           M == Len(b)
<1>0. n + 1 \in 1 .. n + 1 /\ \A k \in 1 .. n : k \in 1 .. n + 1 /\ k # n + 1
  OBVIOUS
<1>1. s \in Seq(R) /\ b \in Seq(R)
  <2>1. b \in Seq(R)
    BY <1>0
  <2> QED BY <2>1 DEF Joins
<1> HIDE DEF b
<1>2. N \in Nat /\ M \in Nat /\ DOMAIN s = 1 .. N /\ DOMAIN b = 1 .. M
  BY <1>1
<1>3. t \in Seq(R) /\ Len(t) = N + M /\ DOMAIN t = 1 .. N + M
  BY <1>1, ConcatProperties
<1>4. \A i \in 1 .. N + M : t[i] = IF i <= N THEN s[i] ELSE b[i - N]
  BY <1>1, ConcatProperties
<1> HIDE DEF t, N, M
<1>5. ASSUME NEW i \in 1 .. N PROVE i \in 1 .. N + M /\ t[i] = s[i]
  <2>1. i \in 1 .. N + M /\ i <= N
    BY <1>2
  <2> QED BY <1>4, <2>1
<1>6. ASSUME NEW i \in 1 .. M PROVE N + i \in 1 .. N + M /\ t[N + i] = b[i]
  <2>1. N + i \in 1 .. N + M /\ ~ (N + i <= N) /\ (N + i) - N = i
    BY <1>2
  <2> QED BY <1>4, <2>1
<1>7. ASSUME NEW i \in 1 .. N + M PROVE i \in 1 .. N \/ \E j \in 1 .. M : i = N + j
  <2>1. CASE i <= N
    BY <1>2, <2>1
  <2>2. CASE ~ (i <= N)
    <3>1. i - N \in 1 .. M /\ i = N + (i - N)
      BY <1>2, <2>2
    <3> QED BY <3>1
  <2> QED BY <2>1, <2>2
<1>8. Joins(t, parts, n + 1, R)
  <2>1. ASSUME NEW x \in DOMAIN t
        PROVE  \E k \in 1 .. n + 1 : \E j \in DOMAIN parts[k] : t[x] = parts[k][j]
    <3>1. CASE x \in 1 .. N
      <4>1. t[x] = s[x] /\ x \in DOMAIN s
        BY <1>2, <1>5, <3>1
      <4>2. PICK k \in 1 .. n : \E j \in DOMAIN parts[k] : s[x] = parts[k][j]
        BY <4>1 DEF Joins
      <4> QED BY <1>0, <4>1, <4>2
    <3>2. CASE x \notin 1 .. N
      <4>1. PICK j \in 1 .. M : x = N + j
        BY <1>3, <1>7, <3>2
      <4>2. t[x] = parts[n + 1][j] /\ j \in DOMAIN parts[n + 1]
        BY <1>2, <1>6, <4>1 DEF b
      <4> QED BY <1>0, <4>2
    <3> QED BY <3>1, <3>2
  <2>2. ASSUME NEW k \in 1 .. n + 1, NEW j \in DOMAIN parts[k]
        PROVE  \E x \in DOMAIN t : t[x] = parts[k][j]
    <3>1. CASE k = n + 1
      <4>1. j \in 1 .. M /\ parts[k][j] = b[j]
        BY <1>2, <3>1 DEF b
      <4> QED BY <1>3, <1>6, <4>1
    <3>2. CASE k # n + 1
      <4>1. k \in 1 .. n
        BY <3>2
      <4>2. PICK x \in DOMAIN s : s[x] = parts[k][j]
        BY <4>1 DEF Joins
      <4> QED BY <1>2, <1>3, <1>5, <4>2
    <3> QED BY <3>1, <3>2
  <2> QED BY <1>3, <2>1, <2>2 DEF Joins
<1>9. ASSUME Apart(parts, key, n + 1), Single(s, key) PROVE Single(t, key)
  <2>1. ASSUME NEW i \in DOMAIN s PROVE \E k \in 1 .. n : \E j \in DOMAIN parts[k] : s[i] = parts[k][j]
    BY DEF Joins
  <2>2. ASSUME NEW i \in 1 .. N, NEW j \in 1 .. M PROVE key[s[i]] # key[b[j]]
    <3>1. PICK k \in 1 .. n : \E l \in DOMAIN parts[k] : s[i] = parts[k][l]
      BY <1>2, <2>1
    <3>2. PICK l \in DOMAIN parts[k] : s[i] = parts[k][l]
      BY <3>1
    <3>3. j \in DOMAIN parts[n + 1] /\ b[j] = parts[n + 1][j]
      BY <1>2 DEF b
    <3> QED BY <1>0, <1>9, <3>2, <3>3 DEF Apart
  <2>3. ASSUME NEW i \in 1 .. M, NEW j \in 1 .. M, key[b[i]] = key[b[j]] PROVE i = j
    <3>1. /\ i \in DOMAIN parts[n + 1] /\ b[i] = parts[n + 1][i]
          /\ j \in DOMAIN parts[n + 1] /\ b[j] = parts[n + 1][j]
      BY <1>2 DEF b
    <3> QED BY <1>0, <1>9, <2>3, <3>1 DEF Apart
  <2>4. ASSUME NEW i \in 1 .. N + M, NEW j \in 1 .. N + M, key[t[i]] = key[t[j]] PROVE i = j
    <3>1. CASE i \in 1 .. N /\ j \in 1 .. N
      <4>1. i \in DOMAIN s /\ j \in DOMAIN s /\ key[s[i]] = key[s[j]]
        BY <1>2, <1>5, <2>4, <3>1
      <4> QED BY <1>9, <4>1 DEF Single
    <3>2. CASE i \in 1 .. N /\ j \notin 1 .. N
      <4>1. PICK l \in 1 .. M : j = N + l
        BY <1>7, <3>2
      <4> QED BY <1>5, <1>6, <2>2, <2>4, <3>2, <4>1
    <3>3. CASE i \notin 1 .. N /\ j \in 1 .. N
      <4>1. PICK l \in 1 .. M : i = N + l
        BY <1>7, <3>3
      <4> QED BY <1>5, <1>6, <2>2, <2>4, <3>3, <4>1
    <3>4. CASE i \notin 1 .. N /\ j \notin 1 .. N
      <4>1. PICK l \in 1 .. M : i = N + l
        BY <1>7, <3>4
      <4>2. PICK m \in 1 .. M : j = N + m
        BY <1>7, <3>4
      <4> QED BY <1>6, <2>3, <2>4, <4>1, <4>2
    <3> QED BY <3>1, <3>2, <3>3, <3>4
  <2> QED BY <1>3, <2>4 DEF Single
<1> QED BY <1>8, <1>9 DEF t, b

\* FlattenSeq joins the parts, and rows that are apart stay single.
LEMMA FlattenSeqIs ==
  ASSUME NEW R, NEW key, NEW parts \in Seq(Seq(R))
  PROVE  /\ Joins(FlattenSeq(parts), parts, Len(parts), R)
         /\ Apart(parts, key, Len(parts)) => Single(FlattenSeq(parts), key)
<1> DEFINE T == Seq(R)
           n == Len(parts)
           body(f, i) == IF i = 1 THEN parts[i] ELSE f[i - 1] \o parts[i]
           h == CHOOSE f : f = [i \in 1 .. n |-> body(f, i)]
<1>1. n \in Nat /\ \A k \in 1 .. n : parts[k] \in T
  <2>1. parts \in Seq(T)
    OBVIOUS
  <2> HIDE DEF T
  <2> QED BY <2>1
<1>2. CASE n = 0
  <2>1. FlattenSeq(parts) = parts /\ parts = <<>>
    BY <1>2 DEF FlattenSeq
  <2>2. <<>> \in Seq(R) /\ DOMAIN <<>> = {} /\ 1 .. n = {}
    BY <1>2
  <2> HIDE DEF n
  <2>3. Joins(<<>>, parts, n, R) /\ Single(<<>>, key)
    BY <2>2 DEF Joins, Single
  <2> QED BY <2>1, <2>3 DEF n
<1>3. CASE n # 0
  <2> DEFINE N == 1 .. n
             onward == [x \in N \X T |-> x[2] \o parts[x[1]]]
  <2>1. <<>> \in T
    OBVIOUS
  <2>2. onward \in [N \X T -> T]
    <3>1. ASSUME NEW x \in N \X T PROVE x[2] \o parts[x[1]] \in T
      <4>1. x[1] \in N /\ x[2] \in Seq(R)
        OBVIOUS
      <4> HIDE DEF N
      <4>2. parts[x[1]] \in Seq(R)
        BY <1>1, <4>1 DEF N
      <4> QED BY <4>1, <4>2, ConcatProperties
    <3> HIDE DEF T, N
    <3> QED BY <3>1
  <2>3. PICK g : RunOf(g, n, T, <<>>, onward)
    <3> HIDE DEF T, onward
    <3> QED BY <1>1, <2>1, <2>2, Recursion DEF N
  <2>4. \A i \in 1 .. n : i \in 0 .. n /\ i - 1 \in 0 .. n
    BY <1>1
  <2>5. \A i \in 1 .. n : g[i] = g[i - 1] \o parts[i]
    <3> TAKE i \in 1 .. n
    <3>1. g[i] = onward[<<i, g[i - 1]>>] /\ g[i - 1] \in T
      BY <2>3, <2>4 DEF RunOf
    <3>2. <<i, g[i - 1]>> \in N \X T
      BY <3>1
    <3> HIDE DEF T, N
    <3> QED BY <3>1, <3>2
  <2> HIDE DEF onward, N
  <2> DEFINE f0 == [i \in 1 .. n |-> g[i]]
  <2>6. f0 = [i \in 1 .. n |-> body(f0, i)]
    <3>1. ASSUME NEW i \in 1 .. n PROVE g[i] = body(f0, i)
      <4>1. CASE i = 1
        <5>1. g[0] = <<>> /\ g[1] = g[0] \o parts[1]
          <6>1. i - 1 = 0
            BY <4>1
          <6> QED BY <2>3, <2>5, <4>1, <6>1 DEF RunOf
        <5>2. parts[1] \in Seq(R)
          BY <1>1, <4>1
        <5> QED BY <4>1, <5>1, <5>2, ConcatEmptySeq
      <4>2. CASE i # 1
        <5>1. i - 1 \in 1 .. n
          BY <1>1, <4>2
        <5>2. f0[i - 1] = g[i - 1]
          BY <5>1
        <5> HIDE DEF f0
        <5> QED BY <2>5, <4>2, <5>2
      <4> QED BY <4>1, <4>2
    <3> HIDE DEF body
    <3> DEFINE e(i) == body(f0, i)
    <3>2. \A i \in 1 .. n : g[i] = e(i)
      BY <3>1
    <3> HIDE DEF e
    <3>3. [i \in 1 .. n |-> g[i]] = [i \in 1 .. n |-> e(i)]
      BY <3>2
    <3> QED BY <3>3 DEF e
  <2>7. h = [i \in 1 .. n |-> body(h, i)]
    <3> DEFINE Sol(f) == f = [i \in 1 .. n |-> body(f, i)]
    <3>1. h = CHOOSE f : Sol(f)
      OBVIOUS
    <3>2. Sol(f0)
      BY <2>6
    <3> HIDE DEF Sol, h, f0
    <3>3. Sol(h)
      BY <3>1, <3>2
    <3> QED BY <3>3 DEF Sol
  <2>8. FlattenSeq(parts) = h[n]
    BY <1>3 DEF FlattenSeq
  <2> HIDE DEF h
  <2>9. \A i \in 1 .. n : h[i] = IF i = 1 THEN parts[i] ELSE h[i - 1] \o parts[i]
    BY <2>7
  <2> HIDE DEF body
  <2> DEFINE Fine(s, i) == Joins(s, parts, i, R) /\ (Apart(parts, key, i) => Single(s, key))
             Good == {i \in 0 .. n : i = 0 \/ Fine(h[i], i)}
  <2>10. 0 \in Good
    BY <1>1
  <2>11. ASSUME NEW m \in 0 .. n - 1, m \in Good PROVE m + 1 \in Good
    <3>1. m \in Nat /\ m + 1 \in 1 .. n /\ m + 1 \in 0 .. n /\ (m + 1) - 1 = m
      BY <1>1
    <3> DEFINE s == IF m = 0 THEN <<>> ELSE h[m]
    <3>2. h[m + 1] = s \o parts[m + 1]
      <4>1. CASE m = 0
        <5>1. h[m + 1] = parts[m + 1] /\ parts[m + 1] \in Seq(R)
          BY <1>1, <2>9, <3>1, <4>1
        <5> QED BY <4>1, <5>1, ConcatEmptySeq
      <4>2. CASE m # 0
        <5>1. m + 1 # 1
          BY <3>1, <4>2
        <5> QED BY <2>9, <3>1, <4>2, <5>1
      <4> QED BY <4>1, <4>2
    <3>3. Fine(s, m)
      <4>1. CASE m = 0
        <5>1. <<>> \in Seq(R) /\ DOMAIN <<>> = {} /\ 1 .. m = {}
          BY <4>1
        <5>2. Joins(<<>>, parts, m, R) /\ Single(<<>>, key)
          BY <5>1 DEF Joins, Single
        <5> QED BY <4>1, <5>2
      <4>2. CASE m # 0
        BY <2>11, <4>2
      <4> QED BY <4>1, <4>2
    <3>4. \A k \in 1 .. m + 1 : parts[k] \in Seq(R)
      <4>1. \A k \in 1 .. m + 1 : k \in 1 .. n
        BY <1>1, <3>1
      <4> QED BY <1>1, <4>1
    <3> HIDE DEF s
    <3>5. /\ Joins(s \o parts[m + 1], parts, m + 1, R)
          /\ Apart(parts, key, m + 1) /\ Single(s, key) => Single(s \o parts[m + 1], key)
      BY <3>1, <3>3, <3>4, JoinOneMore
    <3>6. Apart(parts, key, m + 1) => Apart(parts, key, m)
      <4>1. \A k \in 1 .. m : k \in 1 .. m + 1
        BY <3>1
      <4> QED BY <4>1 DEF Apart
    <3>7. Fine(h[m + 1], m + 1)
      BY <3>2, <3>3, <3>5, <3>6
    <3> HIDE DEF Fine
    <3> QED BY <3>1, <3>7
  <2>12. n \in Good
    <3> HIDE DEF Good, n
    <3>1. 0 .. n \subseteq Good
      BY <1>1, <2>10, <2>11, UpTo
    <3> QED BY <1>1, <3>1
  <2>13. Fine(h[n], n)
    BY <1>3, <2>12
  <2> QED BY <2>8, <2>13
<1> QED BY <1>2, <1>3

Row     == [path : Paths, closed : BOOLEAN, entries : Nat]
RowKey  == [r \in Row |-> r.path]
Opening(r, at) == Tree[r.path].dir /\ Len(r.path) = at => r.entries = Cardinality(Children(r.path))

\* `s` has a row for every path of S, and marks the directories it does not open.
CoversSet(s, S, at) ==
  /\ s \in Seq(Row)
  /\ Single(s, RowKey)
  /\ \A i \in DOMAIN s : s[i].path \in S /\ Opening(s[i], at)
  /\ \A p \in S : \E i \in DOMAIN s : s[i].path = p

Covers(s, d, n, hidden)       == CoversSet(s, Visible(d, n, hidden), Len(d) + n)
BranchCovers(s, c, n, hidden) == CoversSet(s, {c} \cup Visible(c, n, hidden), Len(c) + n)

LEMMA ChildrenCount ==
  ASSUME NEW p PROVE IsFiniteSet(Children(p)) /\ Cardinality(Children(p)) \in Nat
<1>1. Children(p) \subseteq DOMAIN Tree
  BY DEF Children
<1>2. IsFiniteSet(Children(p))
  BY <1>1, SearchAssumption, FS_Subset
<1> QED BY <1>2, FS_CardinalityType

LEMMA EntryIsRow ==
  ASSUME NEW p \in Paths, NEW shut \in BOOLEAN
  PROVE  /\ Entry(p, shut) \in Row
         /\ Entry(p, shut).path = p
         /\ shut => Entry(p, shut).entries = Cardinality(Children(p))
  BY ChildrenCount DEF Entry, Row

LEMMA BranchIsRows ==
  ASSUME NEW c \in Paths, NEW n, NEW inner \in [Paths -> Seq(Row)]
  PROVE  Branch(c, n, inner) \in Seq(Row)
<1>1. Entry(c, TRUE) \in Row /\ Entry(c, FALSE) \in Row
  BY EntryIsRow
<1>2. <<Entry(c, TRUE)>> \in Seq(Row) /\ <<Entry(c, FALSE)>> \in Seq(Row)
  BY <1>1, OneIsSeq
<1>3. inner[c] \in Seq(Row)
  OBVIOUS
<1>4. <<Entry(c, FALSE)>> \o inner[c] \in Seq(Row)
  BY <1>2, <1>3, ConcatProperties
<1> QED BY <1>2, <1>4 DEF Branch

LEMMA OneCovers ==
  ASSUME NEW r \in Row, NEW at, Opening(r, at)
  PROVE  CoversSet(<<r>>, {r.path}, at)
<1>1. <<r>> \in Seq(Row) /\ DOMAIN <<r>> = {1} /\ <<r>>[1] = r
  BY OneIsSeq
<1>2. Single(<<r>>, RowKey)
  BY <1>1 DEF Single
<1> QED BY <1>1, <1>2 DEF CoversSet

LEMMA FirstCovers ==
  ASSUME NEW r \in Row, NEW at, Opening(r, at), NEW s, NEW S, CoversSet(s, S, at), r.path \notin S
  PROVE  CoversSet(<<r>> \o s, {r.path} \cup S, at)
<1> DEFINE t == <<r>> \o s
           N == Len(s)
<1>1. s \in Seq(Row) /\ <<r>> \in Seq(Row) /\ Len(<<r>>) = 1 /\ <<r>>[1] = r
  BY OneIsSeq DEF CoversSet
<1>2. N \in Nat /\ DOMAIN s = 1 .. N /\ \A i \in 1 .. N : s[i] \in Row
  BY <1>1
<1>3. t \in Seq(Row) /\ Len(t) = 1 + N /\ DOMAIN t = 1 .. 1 + N
  BY <1>1, ConcatProperties
<1>4. \A i \in 1 .. 1 + N : t[i] = IF i <= 1 THEN r ELSE s[i - 1]
  <2>1. \A i \in 1 .. 1 + N : t[i] = IF i <= 1 THEN <<r>>[i] ELSE s[i - 1]
    BY <1>1, ConcatProperties
  <2> HIDE DEF t
  <2>2. ASSUME NEW i \in 1 .. 1 + N, i <= 1 PROVE i = 1
    BY <2>2
  <2> QED BY <1>1, <2>1, <2>2
<1> HIDE DEF t, N
<1>5. 1 \in 1 .. 1 + N /\ t[1] = r
  <2>1. 1 \in 1 .. 1 + N /\ 1 <= 1
    BY <1>2
  <2> QED BY <1>4, <2>1
<1>6. ASSUME NEW i \in 1 .. N PROVE i + 1 \in 1 .. 1 + N /\ t[i + 1] = s[i]
  <2>1. i + 1 \in 1 .. 1 + N /\ ~ (i + 1 <= 1) /\ (i + 1) - 1 = i
    BY <1>2
  <2> QED BY <1>4, <2>1
<1>7. ASSUME NEW i \in 1 .. 1 + N PROVE i = 1 \/ \E j \in 1 .. N : i = j + 1
  <2>1. CASE i # 1
    <3>1. i - 1 \in 1 .. N /\ i = (i - 1) + 1
      BY <1>2, <2>1
    <3> QED BY <3>1
  <2> QED BY <2>1
<1>8. \A i \in 1 .. N : s[i].path \in S /\ Opening(s[i], at)
  BY <1>2 DEF CoversSet
<1>9. Single(t, RowKey)
  <2>1. RowKey[r] = r.path /\ \A i \in 1 .. N : RowKey[s[i]] = s[i].path
    BY <1>2 DEF RowKey
  <2>2. ASSUME NEW i \in 1 .. 1 + N, NEW j \in 1 .. 1 + N, RowKey[t[i]] = RowKey[t[j]] PROVE i = j
    <3>1. CASE i = 1 /\ j # 1
      <4>1. PICK l \in 1 .. N : j = l + 1
        BY <1>7, <3>1
      <4> QED BY <1>5, <1>6, <1>8, <2>1, <2>2, <3>1, <4>1
    <3>2. CASE i # 1 /\ j = 1
      <4>1. PICK l \in 1 .. N : i = l + 1
        BY <1>7, <3>2
      <4> QED BY <1>5, <1>6, <1>8, <2>1, <2>2, <3>2, <4>1
    <3>3. CASE i # 1 /\ j # 1
      <4>1. PICK l \in 1 .. N : i = l + 1
        BY <1>7, <3>3
      <4>2. PICK m \in 1 .. N : j = m + 1
        BY <1>7, <3>3
      <4>3. RowKey[s[l]] = RowKey[s[m]]
        BY <1>6, <2>2, <4>1, <4>2
      <4>4. l = m
        BY <1>2, <4>3 DEF CoversSet, Single
      <4> QED BY <4>1, <4>2, <4>4
    <3> QED BY <3>1, <3>2, <3>3
  <2> QED BY <1>3, <2>2 DEF Single
<1>10. ASSUME NEW i \in DOMAIN t PROVE t[i].path \in {r.path} \cup S /\ Opening(t[i], at)
  <2>1. CASE i = 1
    BY <1>5, <2>1
  <2>2. CASE i # 1
    <3>1. PICK l \in 1 .. N : i = l + 1
      BY <1>3, <1>7, <2>2
    <3> QED BY <1>6, <1>8, <3>1
  <2> QED BY <2>1, <2>2
<1>11. ASSUME NEW p \in {r.path} \cup S PROVE \E i \in DOMAIN t : t[i].path = p
  <2>1. CASE p = r.path
    BY <1>3, <1>5, <2>1
  <2>2. CASE p \in S
    <3>1. PICK i \in 1 .. N : s[i].path = p
      BY <1>2, <2>2 DEF CoversSet
    <3> QED BY <1>3, <1>6, <3>1
  <2> QED BY <2>1, <2>2
<1> QED BY <1>3, <1>9, <1>10, <1>11 DEF CoversSet, t

\* A branch covers its entry and what is below it, n levels down.
LEMMA BranchCoversIt ==
  ASSUME NEW c \in Paths, NEW n \in Nat, NEW hidden, NEW inner \in [Paths -> Seq(Row)],
         Covers(inner[c], c, n, hidden)
  PROVE  BranchCovers(Branch(c, n + 1, inner), c, n, hidden)
<1> DEFINE S == Visible(c, n, hidden)
           at == Len(c) + n
           open == Entry(c, FALSE)
           shut == Entry(c, TRUE)
<1>1. /\ open \in Row /\ open.path = c /\ shut \in Row /\ shut.path = c
      /\ shut.entries = Cardinality(Children(c))
  BY EntryIsRow
<1>2. Len(c) \in Nat
  BY PathsAreSeqs
<1>3. c \notin S
  <2>1. c \notin Below(c)
    BY <1>2, BelowIs
  <2> QED BY <2>1 DEF Visible
<1> HIDE DEF open, shut
<1>4. CASE ~ Tree[c].dir
  <2>1. S = {}
    BY <1>4, NothingInAFile DEF Visible
  <2>2. Opening(open, at)
    BY <1>1, <1>4 DEF Opening
  <2>3. CoversSet(<<open>>, {c}, at)
    BY <1>1, <2>2, OneCovers
  <2>4. Branch(c, n + 1, inner) = <<open>> /\ {c} \cup S = {c}
    BY <1>4, <2>1 DEF Branch, open
  <2> QED BY <2>3, <2>4 DEF BranchCovers
<1>5. CASE Tree[c].dir /\ n = 0
  <2>1. S = {}
    BY <1>5, NothingAtOnce
  <2>2. Opening(shut, at)
    BY <1>1 DEF Opening
  <2>3. CoversSet(<<shut>>, {c}, at)
    BY <1>1, <2>2, OneCovers
  <2>4. Branch(c, n + 1, inner) = <<shut>> /\ {c} \cup S = {c}
    <3>1. n + 1 = 1
      BY <1>5
    <3>2. Branch(c, n + 1, inner) = <<shut>>
      BY <1>5, <3>1, Zenon DEF Branch, shut
    <3> QED BY <2>1, <3>2
  <2> QED BY <2>3, <2>4 DEF BranchCovers
<1>6. CASE Tree[c].dir /\ n # 0
  <2>1. CoversSet(inner[c], S, at)
    BY DEF Covers
  <2>2. Opening(open, at)
    <3>1. Len(c) # Len(c) + n
      BY <1>2, <1>6
    <3> QED BY <1>1, <3>1 DEF Opening
  <2> DEFINE rows == inner[c]
  <2>3. Branch(c, n + 1, inner) = <<open>> \o rows
    <3>1. n + 1 # 1
      BY <1>6
    <3> QED BY <1>6, <3>1 DEF Branch, open
  <2> HIDE DEF S, at, rows
  <2>4. CoversSet(<<open>> \o rows, {c} \cup S, at)
    <3>1. CoversSet(rows, S, at)
      BY <2>1 DEF rows
    <3>2. open.path \notin S
      BY <1>1, <1>3
    <3>3. CoversSet(<<open>> \o rows, {open.path} \cup S, at)
      BY <1>1, <2>2, <3>1, <3>2, FirstCovers
    <3> QED BY <1>1, <3>3
  <2> QED BY <2>3, <2>4 DEF BranchCovers, S, at
<1> QED BY <1>4, <1>5, <1>6

\* One level of a listing, from the levels below.
Level(d, n, hidden, inner) ==
  [k \in DOMAIN Shown(d, hidden) |-> Branch(Shown(d, hidden)[k], n, inner)]

LEMMA ShownIs ==
  ASSUME NEW d \in Paths, NEW hidden
  PROVE  LET s == Shown(d, hidden)
         IN  /\ Len(s) \in Nat /\ DOMAIN s = 1 .. Len(s)
             /\ \A k \in 1 .. Len(s) : s[k] \in Entries(d, hidden) /\ s[k] \in Children(d)
                                       /\ s[k] \in Paths
             /\ \A i, j \in 1 .. Len(s) : s[i] = s[j] => i = j
             /\ \A c \in Entries(d, hidden) : \E k \in 1 .. Len(s) : s[k] = c
<1> DEFINE s == Shown(d, hidden)
<1>1. Enumerates(s, Entries(d, hidden))
  BY ShownEnumerates
<1> HIDE DEF s
<1>2. s \in Seq(Entries(d, hidden)) /\ Len(s) \in Nat /\ DOMAIN s = 1 .. Len(s)
  BY <1>1 DEF Enumerates
<1>3. \A k \in 1 .. Len(s) : s[k] \in Entries(d, hidden)
  BY <1>2
<1>4. \A c \in Entries(d, hidden) : c \in Children(d) /\ c \in Paths
  BY ChildIs DEF Entries
<1> QED BY <1>1, <1>2, <1>3, <1>4 DEF Enumerates, s

LEMMA LevelIs ==
  ASSUME NEW d \in Paths, NEW n, NEW hidden, NEW inner \in [Paths -> Seq(Row)]
  PROVE  /\ Level(d, n, hidden, inner) \in Seq(Seq(Row))
         /\ Len(Level(d, n, hidden, inner)) = Len(Shown(d, hidden))
         /\ \A k \in 1 .. Len(Shown(d, hidden)) :
              Level(d, n, hidden, inner)[k] = Branch(Shown(d, hidden)[k], n, inner)
<1> DEFINE s == Shown(d, hidden)
           T == Seq(Row)
           b(k) == Branch(s[k], n, inner)
           L == Level(d, n, hidden, inner)
<1>1. Len(s) \in Nat /\ DOMAIN s = 1 .. Len(s) /\ \A k \in 1 .. Len(s) : s[k] \in Paths
  BY ShownIs
<1>2. L = [k \in 1 .. Len(s) |-> b(k)]
  BY <1>1 DEF Level
<1>3. \A k \in 1 .. Len(s) : b(k) \in T
  BY <1>1, BranchIsRows
<1> HIDE DEF s, T, b, L
<1>4. L \in Seq(T)
  <2>1. [k \in 1 .. Len(s) |-> b(k)] \in Seq(T)
    BY <1>1, <1>3, IsASeq
  <2> QED BY <1>2, <2>1
<1>5. Len(L) = Len(s)
  BY <1>1, <1>2
<1>6. \A k \in 1 .. Len(s) : L[k] = b(k)
  BY <1>2
<1> QED BY <1>4, <1>5, <1>6 DEF s, T, b, L

\* The branches of a directory cover what is below it, a level more.
LEMMA LevelCovers ==
  ASSUME NEW d \in Paths, NEW n \in Nat, NEW hidden, NEW inner \in [Paths -> Seq(Row)],
         \A c \in Paths : Covers(inner[c], c, n, hidden)
  PROVE  Covers(FlattenSeq(Level(d, n + 1, hidden, inner)), d, n + 1, hidden)
<1> DEFINE s == Shown(d, hidden)
           parts == Level(d, n + 1, hidden, inner)
           N == Len(s)
           flat == FlattenSeq(parts)
           at == Len(d) + (n + 1)
           W(c) == {c} \cup Visible(c, n, hidden)
<1>1. /\ N \in Nat
      /\ \A k \in 1 .. N : s[k] \in Entries(d, hidden) /\ s[k] \in Children(d) /\ s[k] \in Paths
      /\ \A i, j \in 1 .. N : s[i] = s[j] => i = j
      /\ \A c \in Entries(d, hidden) : \E k \in 1 .. N : s[k] = c
  BY ShownIs
<1>2. /\ parts \in Seq(Seq(Row)) /\ Len(parts) = N
      /\ \A k \in 1 .. N : parts[k] = Branch(s[k], n + 1, inner)
  BY LevelIs
<1> HIDE DEF s, parts, N, flat
<1>3. ASSUME NEW k \in 1 .. N PROVE CoversSet(parts[k], W(s[k]), at)
  <2> DEFINE c == s[k]
  <2>1. c \in Paths /\ Covers(inner[c], c, n, hidden) /\ Len(c) = Len(d) + 1
    BY <1>1, ChildIs
  <2> HIDE DEF c
  <2>2. BranchCovers(Branch(c, n + 1, inner), c, n, hidden)
    BY <2>1, BranchCoversIt
  <2>3. Len(c) + n = at
    <3>1. Len(d) \in Nat
      BY PathsAreSeqs
    <3> QED BY <2>1, <3>1
  <2> QED BY <1>2, <2>2, <2>3 DEF BranchCovers, c
<1>4. Apart(parts, RowKey, N)
  <2> SUFFICES ASSUME NEW k \in 1 .. N, NEW l \in 1 .. N,
                      NEW i \in DOMAIN parts[k], NEW j \in DOMAIN parts[l],
                      RowKey[parts[k][i]] = RowKey[parts[l][j]]
               PROVE  k = l /\ i = j
    BY DEF Apart
  <2> HIDE DEF W, at
  <2>1. CoversSet(parts[k], W(s[k]), at) /\ CoversSet(parts[l], W(s[l]), at)
    BY <1>3
  <2>2. parts[k] \in Seq(Row) /\ parts[l] \in Seq(Row)
    BY <2>1 DEF CoversSet
  <2>3. parts[k][i] \in Row /\ parts[l][j] \in Row
    BY <2>2
  <2>4. parts[k][i].path = parts[l][j].path
    BY <2>3 DEF RowKey
  <2> DEFINE p == parts[k][i].path
  <2>5. p \in W(s[k]) /\ p \in W(s[l])
    BY <2>1, <2>4 DEF CoversSet
  <2> HIDE DEF p
  <2>6. (p = s[k] \/ p \in Visible(s[k], n, hidden)) /\ (p = s[l] \/ p \in Visible(s[l], n, hidden))
    BY <2>5 DEF W
  <2>7. s[k] \in Children(d) /\ s[l] \in Children(d)
    BY <1>1
  <2>8. s[k] = s[l]
    BY <2>6, <2>7, BranchesAreApart
  <2>9. k = l
    BY <1>1, <2>8
  <2>10. i = j
    BY <2>1, <2>9 DEF CoversSet, Single
  <2> QED BY <2>9, <2>10
<1>5. Joins(flat, parts, N, Row) /\ Single(flat, RowKey)
  <2>1. /\ Joins(FlattenSeq(parts), parts, Len(parts), Row)
        /\ Apart(parts, RowKey, Len(parts)) => Single(FlattenSeq(parts), RowKey)
    BY <1>2, FlattenSeqIs
  <2> QED BY <1>2, <1>4, <2>1 DEF flat
<1>6. ASSUME NEW x \in DOMAIN flat
      PROVE  flat[x].path \in Visible(d, n + 1, hidden) /\ Opening(flat[x], at)
  <2> HIDE DEF at
  <2>1. PICK k \in 1 .. N : \E j \in DOMAIN parts[k] : flat[x] = parts[k][j]
    BY <1>5 DEF Joins
  <2>2. PICK j \in DOMAIN parts[k] : flat[x] = parts[k][j]
    BY <2>1
  <2> HIDE DEF W
  <2>3. flat[x].path \in W(s[k]) /\ Opening(flat[x], at)
    BY <1>3, <2>2 DEF CoversSet
  <2> DEFINE p == flat[x].path
             c == s[k]
  <2>4. c \in Entries(d, hidden) /\ (p = c \/ p \in Visible(c, n, hidden))
    BY <1>1, <2>3 DEF W
  <2> HIDE DEF p, c
  <2>5. p \in Visible(d, n + 1, hidden)
    BY <2>4, OneLevelMore
  <2> QED BY <2>3, <2>5 DEF p
<1>7. ASSUME NEW p \in Visible(d, n + 1, hidden) PROVE \E x \in DOMAIN flat : flat[x].path = p
  <2>1. PICK c \in Entries(d, hidden) : p = c \/ p \in Visible(c, n, hidden)
    BY <1>7, OneLevelMore
  <2>2. PICK k \in 1 .. N : s[k] = c
    BY <1>1
  <2>3. p \in W(s[k])
    BY <2>1, <2>2
  <2> HIDE DEF W, at
  <2>4. PICK j \in DOMAIN parts[k] : parts[k][j].path = p
    BY <1>3, <2>3 DEF CoversSet
  <2>5. PICK x \in DOMAIN flat : flat[x] = parts[k][j]
    BY <1>5, <2>4 DEF Joins
  <2> QED BY <2>4, <2>5
<1>8. flat \in Seq(Row)
  BY <1>5 DEF Joins
<1>9. CoversSet(flat, Visible(d, n + 1, hidden), at)
  <2> HIDE DEF at
  <2> QED BY <1>5, <1>6, <1>7, <1>8 DEF CoversSet
<1> QED BY <1>9 DEF Covers, flat, parts

\* The rows of every directory with n levels, from those with n - 1.
Deeper(n, hidden, inner) == [d \in Paths |-> FlattenSeq(Level(d, n, hidden, inner))]

LEMMA DeeperIs ==
  ASSUME NEW n, NEW hidden, NEW inner \in [Paths -> Seq(Row)]
  PROVE  Deeper(n, hidden, inner) \in [Paths -> Seq(Row)]
<1>1. ASSUME NEW d \in Paths PROVE FlattenSeq(Level(d, n, hidden, inner)) \in Seq(Row)
  <2> DEFINE parts == Level(d, n, hidden, inner)
  <2>1. parts \in Seq(Seq(Row))
    BY LevelIs
  <2> HIDE DEF parts
  <2>2. Joins(FlattenSeq(parts), parts, Len(parts), Row)
    BY <2>1, FlattenSeqIs
  <2> QED BY <2>2 DEF Joins, parts
<1> QED BY <1>1 DEF Deeper

\* Walking is what its recursion says.
LEMMA WalkingRun ==
  ASSUME NEW depth \in Nat, NEW hidden
  PROVE  LET rows == Walking(depth, hidden)
         IN  /\ \A n \in 0 .. depth : rows[n] \in [Paths -> Seq(Row)]
             /\ rows[0] = [d \in Paths |-> <<>>]
             /\ \A n \in 1 .. depth : rows[n] = Deeper(n, hidden, rows[n - 1])
<1> DEFINE S == [Paths -> Seq(Row)]
           a == [d \in Paths |-> <<>>]
           D == (1 .. depth) \X S
           onward == [x \in D |-> Deeper(x[1], hidden, x[2])]
           body(f, n) == IF n = 0 THEN a ELSE Deeper(n, hidden, f[n - 1])
           Sol(f) == f = [n \in 0 .. depth |-> body(f, n)]
           rows == Walking(depth, hidden)
<1>1. a \in S
  <2>1. <<>> \in Seq(Row)
    OBVIOUS
  <2> QED BY <2>1
<1>2. onward \in [D -> S]
  <2>1. ASSUME NEW x \in D PROVE Deeper(x[1], hidden, x[2]) \in S
    <3>1. x[2] \in [Paths -> Seq(Row)]
      OBVIOUS
    <3> QED BY <3>1, DeeperIs
  <2> HIDE DEF S, D
  <2> QED BY <2>1
<1>3. rows = CHOOSE f : Sol(f)
  BY Zenon DEF Walking, Deeper, Level, Paths
<1> HIDE DEF a, S
<1>4. PICK f : Solution(f, depth, S, a, onward)
  <2> HIDE DEF onward
  <2> QED BY <1>1, <1>2, RecursiveFunction DEF D
<1>5. f \in [0 .. depth -> S]
  BY <1>4 DEF Solution
<1>6. Sol(f)
  <2> DEFINE e1(n) == IF n = 0 THEN a ELSE onward[<<n, f[n - 1]>>]
             e2(n) == body(f, n)
  <2>1. f = [n \in 0 .. depth |-> e1(n)]
    BY <1>4 DEF Solution
  <2>2. ASSUME NEW n \in 0 .. depth PROVE e1(n) = e2(n)
    <3>1. CASE n = 0
      BY <3>1
    <3>2. CASE n # 0
      <4>1. n \in 1 .. depth /\ n - 1 \in 0 .. depth
        BY <3>2
      <4>2. f[n - 1] \in S
        BY <1>5, <4>1
      <4>3. <<n, f[n - 1]>> \in D
        BY <4>1, <4>2
      <4> QED BY <3>2, <4>3
    <3> QED BY <3>1, <3>2
  <2> HIDE DEF e1, e2
  <2>3. [n \in 0 .. depth |-> e1(n)] = [n \in 0 .. depth |-> e2(n)]
    BY <2>2
  <2> QED BY <2>1, <2>3 DEF e2
<1> HIDE DEF onward, D
<1>7. Sol(rows)
  <2> HIDE DEF Sol, rows
  <2> QED BY <1>3, <1>6
<1> HIDE DEF rows
<1>8. rows = [n \in 0 .. depth |-> body(rows, n)]
  BY <1>7
<1>9. ASSUME NEW n \in 0 .. depth PROVE rows[n] = body(rows, n)
  <2> HIDE DEF body
  <2> DEFINE e(k) == body(rows, k)
  <2>1. rows = [k \in 0 .. depth |-> e(k)]
    BY <1>8
  <2> HIDE DEF e
  <2>2. rows[n] = e(n)
    BY <2>1
  <2> QED BY <2>2 DEF e
<1>10. rows[0] = a
  <2>1. 0 \in 0 .. depth
    OBVIOUS
  <2> QED BY <1>9, <2>1
<1>11. ASSUME NEW n \in 1 .. depth PROVE rows[n] = Deeper(n, hidden, rows[n - 1])
  <2>1. n \in 0 .. depth /\ n # 0
    OBVIOUS
  <2> QED BY <1>9, <2>1
<1>12. \A n \in 0 .. depth : rows[n] \in S
  <2>1. rows[0] \in S
    BY <1>1, <1>10
  <2>2. ASSUME NEW n \in 1 .. depth, rows[n - 1] \in S PROVE rows[n] \in S
    <3> DEFINE inner == rows[n - 1]
    <3>1. inner \in [Paths -> Seq(Row)]
      BY <2>2 DEF S
    <3> HIDE DEF inner
    <3>2. Deeper(n, hidden, inner) \in S
      BY <3>1, DeeperIs DEF S
    <3> QED BY <1>11, <3>2 DEF inner
  <2> QED BY <2>1, <2>2, AllAlong
<1> QED BY <1>10, <1>11, <1>12 DEF S, a, rows

\* A walk of n levels prints each visible path of them once.
LEMMA WalkCovers ==
  ASSUME NEW depth \in Nat, NEW hidden, NEW d \in Paths
  PROVE  Covers(Walk(d, depth, hidden), d, depth, hidden)
<1> DEFINE rows == Walking(depth, hidden)
           Good == {n \in 0 .. depth : \A c \in Paths : Covers(rows[n][c], c, n, hidden)}
<1>1. /\ \A n \in 0 .. depth : rows[n] \in [Paths -> Seq(Row)]
      /\ rows[0] = [c \in Paths |-> <<>>]
      /\ \A n \in 1 .. depth : rows[n] = Deeper(n, hidden, rows[n - 1])
  BY WalkingRun
<1>2. Walk(d, depth, hidden) = rows[depth][d]
  BY DEF Walk
<1> HIDE DEF rows
<1>3. ASSUME NEW c \in Paths PROVE Covers(rows[0][c], c, 0, hidden)
  <2>1. rows[0][c] = <<>> /\ Visible(c, 0, hidden) = {}
    BY <1>1, NothingAtOnce
  <2>2. <<>> \in Seq(Row) /\ DOMAIN <<>> = {}
    OBVIOUS
  <2>3. CoversSet(<<>>, {}, Len(c) + 0)
    BY <2>2 DEF CoversSet, Single
  <2> QED BY <2>1, <2>3 DEF Covers
<1>4. 0 \in Good
  BY <1>3
<1>5. ASSUME NEW m \in 0 .. depth - 1, m \in Good PROVE m + 1 \in Good
  <2>1. m \in Nat /\ m \in 0 .. depth /\ m + 1 \in 1 .. depth /\ m + 1 \in 0 .. depth /\ (m + 1) - 1 = m
    OBVIOUS
  <2> DEFINE inner == rows[m]
  <2>2. inner \in [Paths -> Seq(Row)] /\ \A c \in Paths : Covers(inner[c], c, m, hidden)
    BY <1>1, <1>5, <2>1
  <2>3. rows[m + 1] = Deeper(m + 1, hidden, inner)
    BY <1>1, <2>1
  <2> HIDE DEF inner
  <2>4. ASSUME NEW c \in Paths PROVE Covers(rows[m + 1][c], c, m + 1, hidden)
    <3>1. Covers(FlattenSeq(Level(c, m + 1, hidden, inner)), c, m + 1, hidden)
      BY <2>1, <2>2, LevelCovers
    <3>2. rows[m + 1][c] = FlattenSeq(Level(c, m + 1, hidden, inner))
      BY <2>3 DEF Deeper
    <3> QED BY <3>1, <3>2
  <2> QED BY <2>1, <2>4
<1> HIDE DEF Good
<1>6. depth \in Good
  <2>1. 0 .. depth \subseteq Good
    BY <1>4, <1>5, UpTo
  <2> QED BY <2>1
<1> QED BY <1>2, <1>6 DEF Good

\* A listing is right from the step that leaves it.
LEMMA ListKept ==
  ASSUME NEW dir \in DOMAIN Tree, NEW asked \in Nat, NEW exclude, ListDir(dir, asked, exclude)
  PROVE  ListingSaysWhenCut'
<1> DEFINE depth == Depth(asked)
           all == Walk(dir, depth, exclude)
           at == Len(dir) + depth
           cut == Min({ListEntries, Len(all)})
           rows == SubSeq(all, 1, cut)
           V == Visible(dir, depth, exclude)
           R == ToSet(rows)
<1>1. depth \in Nat /\ dir \in Paths /\ ListEntries \in Nat
  <2>1. ListDepth \in Nat /\ ListEntries \in Nat
    BY SearchAssumption
  <2>2. asked # 0 => Min({asked, ListDepth}) \in {asked, ListDepth}
    BY <2>1, MinIsLeast
  <2> QED BY <2>1, <2>2 DEF Depth, Paths
<1> HIDE DEF depth
<1>2. CoversSet(all, V, at)
  BY <1>1, WalkCovers DEF Covers
<1> HIDE DEF all, V, at
<1>3. all \in Seq(Row) /\ Len(all) \in Nat /\ DOMAIN all = 1 .. Len(all)
  BY <1>2 DEF CoversSet
<1>4. cut \in 0 .. Len(all) /\ (~ (Len(all) > ListEntries) => cut = Len(all))
  <2>1. cut \in {ListEntries, Len(all)} /\ \A j \in {ListEntries, Len(all)} : cut <= j
    BY <1>1, <1>3, MinIsLeast
  <2> HIDE DEF cut
  <2>2. cut <= ListEntries /\ cut <= Len(all) /\ (cut = ListEntries \/ cut = Len(all))
    BY <2>1
  <2>3. ListEntries \in Nat /\ Len(all) \in Nat
    BY <1>1, <1>3
  <2>4. \A a, b, c \in Nat : a <= b /\ a <= c /\ (a = b \/ a = c) =>
                             a \in 0 .. c /\ (~ (c > b) => a = c)
    OBVIOUS
  <2>5. cut \in Nat
    BY <2>2, <2>3, ZenonT(40)
  <2> QED BY <2>2, <2>3, <2>4, <2>5, Zenon
<1> HIDE DEF cut
<1>5. rows \in Seq(Row) /\ Len(rows) = cut /\ \A i \in 1 .. cut : rows[i] = all[i]
  BY <1>3, <1>4, FrontIsText
<1> HIDE DEF rows
<1>6. DOMAIN rows = 1 .. cut /\ cut \in Nat /\ \A i \in 1 .. cut : i \in DOMAIN all
  <2>1. cut \in Nat /\ 1 .. cut \subseteq 1 .. Len(all)
    <3>1. Len(all) \in Nat /\ cut \in 0 .. Len(all)
      BY <1>3, <1>4, Zenon
    <3>2. \A a \in Nat : \A b \in 0 .. a : b \in Nat /\ 1 .. b \subseteq 1 .. a
      OBVIOUS
    <3> QED BY <3>1, <3>2, Zenon
  <2>2. rows \in Seq(Row)
    BY <1>5
  <2>3. DOMAIN rows = 1 .. Len(rows)
    BY <2>2, LenProperties
  <2> QED BY <1>3, <1>5, <2>1, <2>3, Zenon
<1>7. /\ found' = [tool |-> "list", dir |-> dir, depth |-> depth, hidden |-> exclude,
                   out |-> [rows |-> rows, truncated |-> Len(all) > ListEntries]]
  BY DEF ListDir, listDir, all, depth, rows, cut
<1>8. \A r : r \in R <=> \E i \in 1 .. cut : r = all[i]
  BY <1>5, <1>6 DEF ToSet
<1>9. Cardinality(R) = Len(rows)
  <2> DEFINE D == 1 .. cut
             f == [i \in D |-> rows[i]]
  <2>1. \A i, j \in D : rows[i] = rows[j] => i = j
    BY <1>2, <1>5, <1>6 DEF CoversSet, Single
  <2>2. \A i \in D : rows[i] \in R
    BY <1>6 DEF ToSet
  <2>3. \A r \in R : \E i \in D : rows[i] = r
    BY <1>6 DEF ToSet
  <2> HIDE DEF D, R
  <2>4. f \in Injection(D, R) /\ f \in Surjection(D, R)
    BY <2>1, <2>2, <2>3 DEF Injection, IsInjective, Surjection
  <2> HIDE DEF f
  <2>5. ExistsBijection(D, R)
    BY <2>4 DEF ExistsBijection, Bijection
  <2>6. IsFiniteSet(D) /\ Cardinality(D) = cut
    BY <1>6, FS_Interval DEF D
  <2>7. Cardinality(R) = Cardinality(D)
    BY <2>5, <2>6, FS_Bijection
  <2> QED BY <1>5, <2>6, <2>7
<1> HIDE DEF R
<1>10. ASSUME NEW r \in R PROVE r.path \in V /\ Opening(r, at)
  BY <1>2, <1>6, <1>8 DEF CoversSet
<1>11. ASSUME ~ (Len(all) > ListEntries), NEW p \in V PROVE \E r \in R : r.path = p
  <2>1. PICK i \in DOMAIN all : all[i].path = p
    BY <1>2 DEF CoversSet
  <2>2. i \in 1 .. cut
    BY <1>3, <1>4, <1>11
  <2>3. all[i] \in R
    BY <1>8, <2>2
  <2> QED BY <2>1, <2>3
<1>12. ASSUME NEW r \in R, Tree[r.path].dir, Children(r.path) # {}, Len(r.path) - Len(dir) = depth
       PROVE  r.entries > 0
  <2>1. r.path \in Paths
    BY <1>1, <1>10, VisibleIs, BelowIs DEF V
  <2>2. Len(r.path) \in Nat /\ Len(dir) \in Nat
    BY <1>1, <2>1, PathsAreSeqs
  <2>3. Len(r.path) = at
    BY <1>1, <1>12, <2>2 DEF at
  <2>4. r.entries = Cardinality(Children(r.path))
    BY <1>10, <1>12, <2>3 DEF Opening
  <2>5. IsFiniteSet(Children(r.path)) /\ Cardinality(Children(r.path)) \in Nat
    BY ChildrenCount
  <2>6. Cardinality(Children(r.path)) # 0
    BY <1>12, <2>5, FS_EmptySet
  <2> QED BY <2>4, <2>5, <2>6
<1> DEFINE o == found'
<1>13. o.out.rows = rows /\ o.out.truncated = (Len(all) > ListEntries)
       /\ o.dir = dir /\ o.depth = depth /\ o.hidden = exclude
  BY <1>7
<1>14. {p \in Below(dir) :
          /\ Len(p) - Len(dir) <= depth
          /\ \A q \in Below(dir) :
               IsPrefix(q, p) => /\ ~ (Tree[q].dir /\ Tree[q].junk)
                                 /\ Last(q) \notin exclude} = V
  BY DEF V, Visible, Admitted
<1> DEFINE shown == {r.path : r \in R}
<1>15. /\ Cardinality(R) = Len(rows)
       /\ shown \subseteq V
       /\ ~ (Len(all) > ListEntries) => shown = V
       /\ \A r \in R : Tree[r.path].dir /\ Children(r.path) # {}
                         /\ Len(r.path) - Len(dir) = depth => r.entries > 0
  <2>1. shown \subseteq V
    BY <1>10
  <2>2. ~ (Len(all) > ListEntries) => V \subseteq shown
    BY <1>11
  <2> HIDE DEF shown
  <2> QED BY <1>9, <1>12, <2>1, <2>2
<1> QED BY <1>13, <1>14, <1>15, Zenon DEF ListingSaysWhenCut, R

FoundInv == GrepSaysWhenCut /\ ListingSaysWhenCut

LEMMA FoundBegins == FilesInit => FoundInv
<1>1. FilesInit => found.tool = "none"
  BY DEF FilesInit, NoResult
<1>2. "none" # "grep" /\ "none" # "list"
  OBVIOUS
<1> QED BY <1>1, <1>2, Zenon DEF FoundInv, GrepSaysWhenCut, ListingSaysWhenCut

\* An answer stands until the next call.
LEMMA FoundKept == FoundInv /\ [FilesNext]_files => FoundInv'
<1> SUFFICES ASSUME FoundInv, [FilesNext]_files PROVE FoundInv'
  OBVIOUS
<1>1. ASSUME found' = NoResult PROVE FoundInv'
  <2>1. found'.tool = "none" /\ "none" # "grep" /\ "none" # "list"
    BY <1>1 DEF NoResult
  <2> QED BY <2>1, Zenon DEF FoundInv, GrepSaysWhenCut, ListingSaysWhenCut
<1>2. ASSUME UNCHANGED found PROVE FoundInv'
  BY <1>2 DEF FoundInv, GrepSaysWhenCut, ListingSaysWhenCut
<1>3. ASSUME Looks PROVE FoundInv'
  <2>1. PICK path \in DOMAIN Tree, n \in 0 .. 3, exclude \in {{}, {2}} :
          ListDir(path, n, exclude) \/ (n > 0 /\ GrepFiles(path, n))
    BY <1>3 DEF Looks
  <2>2. n \in Nat
    OBVIOUS
  <2>3. CASE ListDir(path, n, exclude)
    <3>1. ListingSaysWhenCut'
      BY <2>2, <2>3, ListKept
    <3>2. found'.tool = "list" /\ "list" # "grep"
      BY <2>3 DEF ListDir
    <3>3. GrepSaysWhenCut'
      BY <3>2, Zenon DEF GrepSaysWhenCut
    <3> QED BY <3>1, <3>3 DEF FoundInv
  <2>4. CASE GrepFiles(path, n)
    <3>1. GrepSaysWhenCut'
      BY <2>2, <2>4, GrepKept
    <3>2. found'.tool = "grep" /\ "list" # "grep"
      BY <2>4 DEF GrepFiles
    <3>3. ListingSaysWhenCut'
      BY <3>2, Zenon DEF ListingSaysWhenCut
    <3> QED BY <3>1, <3>3 DEF FoundInv
  <2> QED BY <2>1, <2>3, <2>4
<1>4. ASSUME NEW who, NEW text, NEW shown, Store(who, text, shown) PROVE found' = NoResult
  BY <1>4 DEF Store
<1>5. ASSUME NEW who, Leave(who) PROVE found' = NoResult
  BY <1>5 DEF Leave
<1>6. ASSUME NEW who, NEW new, Rewrite(who, new) PROVE found' = NoResult
  BY <1>4, <1>5, <1>6 DEF Rewrite
<1>7. Writes => found' = NoResult
  <2>1. ASSUME NEW content \in Contents, NEW append \in BOOLEAN,
               WriteTooLarge(content) \/ WriteFile(content, append) \/ MdWrite(content, append)
        PROVE  found' = NoResult
    BY <1>4, <1>5, <2>1 DEF WriteTooLarge, WriteFile, MdWrite
  <2> QED BY <2>1 DEF Writes
<1>8. (\E n \in 1 .. MaxWrite : WriteChunk(n)) => found' = NoResult
  BY <1>4 DEF WriteChunk
<1>9. Edits => found' = NoResult
  BY <1>6 DEF Edits, EditFile, MdEdit
<1>10. FormatFile => found' = NoResult
  BY <1>6 DEF FormatFile
<1>11. ASSUME NEW text \in Saves, ClangFormat(text) \/ Save(text)
       PROVE  found' = NoResult \/ UNCHANGED found
  BY <1>6, <1>11 DEF ClangFormat, Save
<1>12. (\E first \in 1 .. MaxFile : ReadFile(first)) => found' = NoResult
  BY <1>5 DEF ReadFile
<1>13. UNCHANGED files => UNCHANGED found
  BY DEF files
<1>14. Writes \/ (\E n \in 1 .. MaxWrite : WriteChunk(n)) \/ Edits \/ FormatFile
       \/ (\E text \in Saves : ClangFormat(text) \/ Save(text))
       \/ (\E first \in 1 .. MaxFile : ReadFile(first)) \/ Looks \/ UNCHANGED files
  BY Zenon DEF FilesNext
<1> QED BY <1>1, <1>2, <1>3, <1>7, <1>8, <1>9, <1>10, <1>11, <1>12, <1>13, <1>14, Zenon

-----------------------------------------------------------------------------
\* The tools together.

ToolsIInv == FilesIInv /\ FoundInv /\ TodoIInv

LEMMA ToolsSteps ==
  [ToolsNext]_<<files, todoVars>> => [FilesNext]_files /\ [TodoNext]_todoVars
  BY DEF ToolsNext

(* The inductive invariant of the tools: what is stored of a content sent  *)
(* in pieces, how far a reading has come and in what text, the last answer *)
(* of a search or a listing, and of the task list what the overview still  *)
(* names and where a turn stands that was left.                            *)
THEOREM ToolsInvariant == ToolsSpec => []ToolsIInv
<1>1. ToolsInit => ToolsIInv
  BY FilesBegin, FoundBegins, TodoBegins DEF ToolsInit, ToolsIInv
<1>2. ToolsIInv /\ [ToolsNext]_<<files, todoVars>> => ToolsIInv'
  BY ToolsSteps, FilesKept, FoundKept, TodoKept DEF ToolsIInv
<1> QED BY <1>1, <1>2, PTL DEF ToolsSpec

(* In every state: a content sent in pieces is on disk what one call would *)
(* have stored; what a search or a listing does not call cut short is all  *)
(* there is; the overview forgets no file of the finished work but by its  *)
(* count; of a turn that was left, one call at most still writes the list. *)
THEOREM ToolsTheorem == ToolsSpec => []ToolsInv
<1>1. ToolsIInv => ToolsInv
  BY FilesTypes, TodoIsSafe DEF ToolsIInv, FilesIInv, FoundInv, ToolsInv, FilesInv
<1> QED BY <1>1, ToolsInvariant, PTL

(* The pages of a reading are the lines of the file, each once and in      *)
(* order, whatever text the file has and wherever a page ends.             *)
THEOREM PagesTheorem == ToolsSpec => []PagesAreTheFile
<1>1. ToolsIInv => PagesAreTheFile
  BY DEF ToolsIInv, FilesIInv
<1> QED BY <1>1, ToolsInvariant, PTL

(* An edit replaces one piece that reads like what was searched for and    *)
(* leaves every other byte alone; the clean-up of a file keeps what its    *)
(* lines say, their order and the kind of their ends.                      *)
THEOREM AskedTheorem == ToolsSpec => OnlyWhatWasAsked
<1>1. ToolsIInv /\ [ToolsNext]_<<files, todoVars>> => EditStep /\ MdEditStep /\ FormatStep
  BY ToolsSteps, AskedSteps DEF ToolsIInv
<1>2. ToolsSpec => [][EditStep /\ MdEditStep /\ FormatStep]_files
  BY <1>1, ToolsInvariant, PTL DEF ToolsSpec
<1>3. EditTouchesOneMatch <=> [][EditStep]_files
  BY DEF EditTouchesOneMatch, EditStep
<1>4. MdEditTouchesOneMatch <=> [][MdEditStep]_files
  BY DEF MdEditTouchesOneMatch, MdEditStep
<1>5. FormatKeepsText <=> [][FormatStep]_files
  BY DEF FormatKeepsText, FormatStep
<1> QED BY <1>2, <1>3, <1>4, <1>5, PTL DEF OnlyWhatWasAsked


-----------------------------------------------------------------------------
(***************************************************************************)
(* Processes.  Between Start and Join one caller holds the lock, and the   *)
(* place it is at says what there is of child, reader and descriptors; so  *)
(* a free lock means there is nothing.  The output is an account of units: *)
(* written is drained plus what the pipes hold, and a stream the reader    *)
(* has left is empty and has no writer any more, which nothing brings back *)
(* during the run.                                                         *)
(***************************************************************************)

\* Places at which a caller holds the lock.
Holding == {"stdin", "polling", "joining"}

\* SIGPIPE has ended the program.
Killed == \E c \in Callers : At(c, "killed")

\* Who is past Start holds the lock, until it is released or the program is killed.
LockHeld ==
  /\ \A c \in Callers : runAt[c] \in Holding => mutex = c
  /\ Killed => \A c \in Callers : At(c, "killed")
  /\ mutex # "free" /\ ~ Killed => runAt[mutex] \in Holding

\* What there is of the run at each place of its caller.
RunIsThere ==
  /\ mutex = "free" /\ ~ Killed =>
       child = "none" /\ reader = "none" /\ ~readOpen /\ ~inOpen
  /\ \A c \in Callers :
       /\ At(c, "stdin") => child \in {"runs", "exited"} /\ reader = "none"
       /\ At(c, "polling") =>
            /\ child \in {"runs", "exited"} /\ reader # "none" /\ ~inOpen
            /\ cancelledFlag => cancelsNow
       /\ At(c, "joining") =>
            reader # "none" /\ ~inOpen /\ (outcome[c] = "cancelled" => cancelsNow)

\* What was written was drained or is in a pipe, and a stream the reader is done with
\* is empty for good.
NothingIsLost ==
  /\ written = drained + pipe["out"] + pipe["err"]
  /\ platform = "win" => pipe["err"] = 0
  /\ reader = "err" => platform = "linux" /\ pipe["out"] = 0 /\ WriterGone
  /\ reader = "done" => WriterGone /\ pipe["out"] = 0 /\ pipe["err"] = 0

RunnerIInv == RunnerTypeOK /\ LockHeld /\ RunIsThere /\ NothingIsLost

LEMMA RunnerBegins == RunnerInit => RunnerIInv
  BY RunnerAssumption
  DEF RunnerInit, RunnerIInv, RunnerTypeOK, LockHeld, RunIsThere, NothingIsLost, Killed, Holding,
      At, Streams, Platforms, CallerPlaces

\* The types: a pipe takes no more than its capacity, and gives no more than it has.
LEMMA RunnerTypesKept ==
  ASSUME RunnerTypeOK, [RunnerNext]_runnerState
  PROVE  RunnerTypeOK'
<1> USE RunnerAssumption DEF At, Go, childVars, pipeVars, Streams, RunnerTypeOK, CallerPlaces, Platforms
<1>1. ASSUME NEW c \in Callers, Call(c) PROVE RunnerTypeOK'
  BY <1>1 DEF Call
<1>2. ASSUME NEW c \in Callers, Start(c) PROVE RunnerTypeOK'
  BY <1>2 DEF Start
<1>3. ASSUME NEW c \in Callers, WriteStdin(c) PROVE RunnerTypeOK'
  BY <1>3 DEF WriteStdin
<1>4. ASSUME NEW c \in Callers, WriteFails(c) PROVE RunnerTypeOK'
  BY <1>4 DEF WriteFails
<1>5. ASSUME NEW c \in Callers, StartReader(c) PROVE RunnerTypeOK'
  BY <1>5 DEF StartReader
<1>6. ASSUME NEW c \in Callers, Reap(c) PROVE RunnerTypeOK'
  BY <1>6 DEF Reap, Ends
<1>7. ASSUME NEW c \in Callers, StopCancelled(c) PROVE RunnerTypeOK'
  BY <1>7 DEF StopCancelled, Ends, KillAll
<1>8. ASSUME NEW c \in Callers, StopTimedOut(c) PROVE RunnerTypeOK'
  BY <1>8 DEF StopTimedOut, Ends, KillAll
<1>9. ASSUME NEW c \in Callers, StopSilent(c) PROVE RunnerTypeOK'
  BY <1>9 DEF StopSilent, Ends, KillAll
<1>10. ASSUME NEW c \in Callers, Join(c) PROVE RunnerTypeOK'
  BY <1>10 DEF Join
<1>11. ASSUME Drain PROVE RunnerTypeOK'
  BY <1>11 DEF Drain, Source
<1>12. ASSUME EndOfStream PROVE RunnerTypeOK'
  BY <1>12 DEF EndOfStream, Source
<1>13. ASSUME ChildReads PROVE RunnerTypeOK'
  BY <1>13 DEF ChildReads, Upcoming, Done
<1>14. ASSUME ChildWrites PROVE RunnerTypeOK'
  BY <1>14 DEF ChildWrites, Write, Into, Upcoming, Done
<1>15. ASSUME ChildTurns PROVE RunnerTypeOK'
  BY <1>15 DEF ChildTurns, Upcoming, Done
<1>16. ASSUME ChildExits PROVE RunnerTypeOK'
  BY <1>16 DEF ChildExits
<1>17. ASSUME BackgroundWrites PROVE RunnerTypeOK'
  BY <1>17 DEF BackgroundWrites, Write, Into
<1>18. ASSUME BackgroundExits PROVE RunnerTypeOK'
  BY <1>18 DEF BackgroundExits
<1>19. ASSUME CancelRunner PROVE RunnerTypeOK'
  BY <1>19 DEF CancelRunner
<1>20. ASSUME UNCHANGED runnerState PROVE RunnerTypeOK'
  BY <1>20 DEF runnerState
<1> QED
  BY <1>1, <1>2, <1>3, <1>4, <1>5, <1>6, <1>7, <1>8, <1>9, <1>10,
     <1>11, <1>12, <1>13, <1>14, <1>15, <1>16, <1>17, <1>18, <1>19, <1>20
  DEF RunnerNext, Parent, Reader, Child, RunnerRest, Wedged

\* The lock: Start takes it when it is free, Join gives it back.
LEMMA LockKept ==
  ASSUME RunnerTypeOK, LockHeld, [RunnerNext]_runnerState
  PROVE  LockHeld'
<1> USE RunnerAssumption DEF At, Go, childVars, pipeVars, RunnerTypeOK, LockHeld, Killed, Holding
<1>1. ASSUME NEW c \in Callers, Call(c) PROVE LockHeld'
  BY <1>1 DEF Call
<1>2. ASSUME NEW c \in Callers, Start(c) PROVE LockHeld'
  BY <1>2 DEF Start
<1>3. ASSUME NEW c \in Callers, WriteStdin(c) PROVE LockHeld'
  BY <1>3 DEF WriteStdin
<1>4. ASSUME NEW c \in Callers, WriteFails(c) PROVE LockHeld'
  BY <1>4 DEF WriteFails
<1>5. ASSUME NEW c \in Callers, StartReader(c) PROVE LockHeld'
  BY <1>5 DEF StartReader
<1>6. ASSUME NEW c \in Callers, Reap(c) PROVE LockHeld'
  BY <1>6 DEF Reap, Ends
<1>7. ASSUME NEW c \in Callers, StopCancelled(c) PROVE LockHeld'
  BY <1>7 DEF StopCancelled, Ends, KillAll
<1>8. ASSUME NEW c \in Callers, StopTimedOut(c) PROVE LockHeld'
  BY <1>8 DEF StopTimedOut, Ends, KillAll
<1>9. ASSUME NEW c \in Callers, StopSilent(c) PROVE LockHeld'
  BY <1>9 DEF StopSilent, Ends, KillAll
<1>10. ASSUME NEW c \in Callers, Join(c) PROVE LockHeld'
  BY <1>10 DEF Join
<1>11. ASSUME Drain PROVE LockHeld'
  BY <1>11 DEF Drain, Source
<1>12. ASSUME EndOfStream PROVE LockHeld'
  BY <1>12 DEF EndOfStream, Source
<1>13. ASSUME ChildReads PROVE LockHeld'
  BY <1>13 DEF ChildReads, Upcoming, Done
<1>14. ASSUME ChildWrites PROVE LockHeld'
  BY <1>14 DEF ChildWrites, Write, Into, Upcoming, Done
<1>15. ASSUME ChildTurns PROVE LockHeld'
  BY <1>15 DEF ChildTurns, Upcoming, Done
<1>16. ASSUME ChildExits PROVE LockHeld'
  BY <1>16 DEF ChildExits
<1>17. ASSUME BackgroundWrites PROVE LockHeld'
  BY <1>17 DEF BackgroundWrites, Write, Into
<1>18. ASSUME BackgroundExits PROVE LockHeld'
  BY <1>18 DEF BackgroundExits
<1>19. ASSUME CancelRunner PROVE LockHeld'
  BY <1>19 DEF CancelRunner
<1>20. ASSUME UNCHANGED runnerState PROVE LockHeld'
  BY <1>20 DEF runnerState
<1> QED
  BY <1>1, <1>2, <1>3, <1>4, <1>5, <1>6, <1>7, <1>8, <1>9, <1>10,
     <1>11, <1>12, <1>13, <1>14, <1>15, <1>16, <1>17, <1>18, <1>19, <1>20
  DEF RunnerNext, Parent, Reader, Child, RunnerRest, Wedged

\* The run: only its caller moves it on, the child may exit, and a cancel is of now.
LEMMA RunKept ==
  ASSUME RunnerTypeOK, LockHeld, RunIsThere, [RunnerNext]_runnerState
  PROVE  RunIsThere'
<1> USE RunnerAssumption DEF At, Go, childVars, pipeVars, RunnerTypeOK, LockHeld, Killed, Holding, RunIsThere
<1>1. ASSUME NEW c \in Callers, Call(c) PROVE RunIsThere'
  BY <1>1 DEF Call
<1>2. ASSUME NEW c \in Callers, Start(c) PROVE RunIsThere'
  BY <1>2 DEF Start
<1>3. ASSUME NEW c \in Callers, WriteStdin(c) PROVE RunIsThere'
  BY <1>3 DEF WriteStdin
<1>4. ASSUME NEW c \in Callers, WriteFails(c) PROVE RunIsThere'
  BY <1>4 DEF WriteFails
<1>5. ASSUME NEW c \in Callers, StartReader(c) PROVE RunIsThere'
  BY <1>5 DEF StartReader
<1>6. ASSUME NEW c \in Callers, Reap(c) PROVE RunIsThere'
  BY <1>6 DEF Reap, Ends
<1>7. ASSUME NEW c \in Callers, StopCancelled(c) PROVE RunIsThere'
  BY <1>7 DEF StopCancelled, Ends, KillAll
<1>8. ASSUME NEW c \in Callers, StopTimedOut(c) PROVE RunIsThere'
  BY <1>8 DEF StopTimedOut, Ends, KillAll
<1>9. ASSUME NEW c \in Callers, StopSilent(c) PROVE RunIsThere'
  BY <1>9 DEF StopSilent, Ends, KillAll
<1>10. ASSUME NEW c \in Callers, Join(c) PROVE RunIsThere'
  BY <1>10 DEF Join
<1>11. ASSUME Drain PROVE RunIsThere'
  BY <1>11 DEF Drain, Source
<1>12. ASSUME EndOfStream PROVE RunIsThere'
  BY <1>12 DEF EndOfStream, Source
<1>13. ASSUME ChildReads PROVE RunIsThere'
  BY <1>13 DEF ChildReads, Upcoming, Done
<1>14. ASSUME ChildWrites PROVE RunIsThere'
  BY <1>14 DEF ChildWrites, Write, Into, Upcoming, Done
<1>15. ASSUME ChildTurns PROVE RunIsThere'
  BY <1>15 DEF ChildTurns, Upcoming, Done
<1>16. ASSUME ChildExits PROVE RunIsThere'
  BY <1>16 DEF ChildExits
<1>17. ASSUME BackgroundWrites PROVE RunIsThere'
  BY <1>17 DEF BackgroundWrites, Write, Into
<1>18. ASSUME BackgroundExits PROVE RunIsThere'
  BY <1>18 DEF BackgroundExits
<1>19. ASSUME CancelRunner PROVE RunIsThere'
  BY <1>19 DEF CancelRunner
<1>20. ASSUME UNCHANGED runnerState PROVE RunIsThere'
  BY <1>20 DEF runnerState
<1> QED
  BY <1>1, <1>2, <1>3, <1>4, <1>5, <1>6, <1>7, <1>8, <1>9, <1>10,
     <1>11, <1>12, <1>13, <1>14, <1>15, <1>16, <1>17, <1>18, <1>19, <1>20
  DEF RunnerNext, Parent, Reader, Child, RunnerRest, Wedged

\* The account: who writes is a child that runs and has not closed its output or an open
\* background process, so no writer is gone then.
LEMMA AccountKept ==
  ASSUME RunnerTypeOK, LockHeld, RunIsThere, NothingIsLost, [RunnerNext]_runnerState
  PROVE  NothingIsLost'
<1> USE DEF At, Go, childVars, pipeVars, RunnerTypeOK, LockHeld, Holding, RunIsThere, NothingIsLost,
         WriterGone, Platforms, Streams
<1>1. ASSUME NEW c \in Callers, Call(c) PROVE NothingIsLost'
  BY <1>1 DEF Call
<1>2. ASSUME NEW c \in Callers, Start(c) PROVE NothingIsLost'
  BY <1>2 DEF Start
<1>3. ASSUME NEW c \in Callers, WriteStdin(c) PROVE NothingIsLost'
  BY <1>3 DEF WriteStdin
<1>4. ASSUME NEW c \in Callers, WriteFails(c) PROVE NothingIsLost'
  BY <1>4 DEF WriteFails
<1>5. ASSUME NEW c \in Callers, StartReader(c) PROVE NothingIsLost'
  BY <1>5 DEF StartReader
<1>6. ASSUME NEW c \in Callers, Reap(c) PROVE NothingIsLost'
  BY <1>6 DEF Reap, Ends
<1>7. ASSUME NEW c \in Callers, StopCancelled(c) PROVE NothingIsLost'
  BY <1>7 DEF StopCancelled, Ends, KillAll
<1>8. ASSUME NEW c \in Callers, StopTimedOut(c) PROVE NothingIsLost'
  BY <1>8 DEF StopTimedOut, Ends, KillAll
<1>9. ASSUME NEW c \in Callers, StopSilent(c) PROVE NothingIsLost'
  BY <1>9 DEF StopSilent, Ends, KillAll
<1>10. ASSUME NEW c \in Callers, Join(c) PROVE NothingIsLost'
  BY <1>10 DEF Join
<1>11. ASSUME Drain PROVE NothingIsLost'
  BY <1>11 DEF Drain, Source
<1>12. ASSUME EndOfStream PROVE NothingIsLost'
  BY <1>12 DEF EndOfStream, Source
<1>13. ASSUME ChildReads PROVE NothingIsLost'
  BY <1>13 DEF ChildReads, Upcoming, Done
<1>14. ASSUME ChildWrites PROVE NothingIsLost'
  BY <1>14 DEF ChildWrites, Write, Into, Upcoming, Done
<1>15. ASSUME ChildTurns PROVE NothingIsLost'
  BY <1>15 DEF ChildTurns, Upcoming, Done
<1>16. ASSUME ChildExits PROVE NothingIsLost'
  BY <1>16 DEF ChildExits
<1>17. ASSUME BackgroundWrites PROVE NothingIsLost'
  BY <1>17 DEF BackgroundWrites, Write, Into
<1>18. ASSUME BackgroundExits PROVE NothingIsLost'
  BY <1>18 DEF BackgroundExits
<1>19. ASSUME CancelRunner PROVE NothingIsLost'
  BY <1>19 DEF CancelRunner
<1>20. ASSUME UNCHANGED runnerState PROVE NothingIsLost'
  BY <1>20 DEF runnerState
<1> QED
  BY <1>1, <1>2, <1>3, <1>4, <1>5, <1>6, <1>7, <1>8, <1>9, <1>10,
     <1>11, <1>12, <1>13, <1>14, <1>15, <1>16, <1>17, <1>18, <1>19, <1>20
  DEF RunnerNext, Parent, Reader, Child, RunnerRest, Wedged

\* Types, lock, what there is of a run and the account of its output are kept together.
THEOREM RunnerInvariant == RunnerSpec => []RunnerIInv
<1>1. RunnerIInv /\ [RunnerNext]_runnerState => RunnerIInv'
  BY RunnerTypesKept, LockKept, RunKept, AccountKept DEF RunnerIInv
<1> QED BY <1>1, RunnerBegins, PTL DEF RunnerSpec

\* No cancel meant for an earlier run ends the next one, and when the lock is free there is
\* no child, no reader and no descriptor left of the last run (Run, iprocess_runner.h).
THEOREM RunnerTheorem == RunnerSpec => []RunnerInv
<1>1. RunnerIInv => RunnerInv
  BY DEF RunnerIInv, RunnerInv, CancelIsOwn, NothingLeftOpen, RunIsThere, Killed
<1> QED BY <1>1, RunnerInvariant, PTL

\* A run that reports a normal exit has drained both streams, whatever blocked, closed
\* or lived on in the background meanwhile (the join of the reader in Run).
THEOREM OutputTheorem == RunnerSpec => []OutputIsWhole
<1>1. RunnerIInv => OutputIsWhole
  BY DEF RunnerIInv, OutputIsWhole, NothingIsLost, RunnerTypeOK, Streams
<1> QED BY <1>1, RunnerInvariant, PTL
=============================================================================
