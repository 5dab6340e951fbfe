------------------------------ MODULE FileText ------------------------------
(***************************************************************************)
(* What the file tools do to a text: the splitting into lines, the         *)
(* searching and replacing of edit_file and md_file, the clean-up of       *)
(* format_file, the pages of read_file, and the unified diff that goes     *)
(* with a changing call.  Translated from tools/file_tool.cpp,             *)
(* edit_file_tool.cpp, md_file_tool.cpp, format_tool.cpp and               *)
(* diff_capture.cpp.                                                       *)
(*                                                                         *)
(* A text is a sequence of symbols; only the ones the tools treat          *)
(* specially are named.  An operator that may refuse returns <<t>> for the *)
(* text t and <<>> for an error.                                           *)
(***************************************************************************)
EXTENDS Naturals, Sequences, FiniteSetsExt, SequencesExt

CONSTANTS
  Symbols,      \* what a text is made of
  RangeBytes,   \* kRangeMaxBytes, the header taken off
  RangeLines,   \* kRangeMaxLines
  MaxCells,     \* kMaxDpCells
  Context,      \* contextLines of a diff
  DiffLines     \* maxLines of a diff, its three header lines taken off

CR == "\r"
LF == "\n"
NUL == "0"
Blank == " "

ASSUME TextAssumption ==
  /\ {CR, LF, NUL, Blank} \subseteq Symbols
  /\ RangeBytes \in Nat /\ RangeBytes > 1
  /\ RangeLines \in Nat \ {0}
  /\ {MaxCells, Context} \subseteq Nat
  /\ DiffLines \in Nat \ {0}

Has(t, c) == \E i \in DOMAIN t : t[i] = c

Chopped(l) == IF l # <<>> /\ l[Len(l)] = CR THEN SubSeq(l, 1, Len(l) - 1) ELSE l

(* splitLines, and std::getline: a last line without LF counts when it is  *)
(* not empty, and one CR at the end of a line is dropped.                  *)
NextSymbol(acc, c) ==
  IF c = LF THEN [done |-> Append(acc.done, Chopped(acc.line)), line |-> <<>>]
  ELSE [acc EXCEPT !.line = Append(@, c)]

\* The lines that are done, and the one begun, behind the first n symbols.
Split(t) ==
  LET run[n \in 0 .. Len(t)] ==
        IF n = 0 THEN [done |-> <<>>, line |-> <<>>] ELSE NextSymbol(run[n - 1], t[n])
  IN  run

Lines(t) ==
  LET end == Split(t)[Len(t)]
  IN  IF end.line = <<>> THEN end.done ELSE Append(end.done, Chopped(end.line))

\* The first n symbols of t with every CR and every LF written as given.
Symbol(c, cr, lf) == IF c = CR THEN cr ELSE IF c = LF THEN lf ELSE <<c>>
Spelling(t, cr, lf) ==
  LET run[n \in 0 .. Len(t)] == IF n = 0 THEN <<>> ELSE run[n - 1] \o Symbol(t[n], cr, lf)
  IN  run

Spelled(t, cr, lf) == Spelling(t, cr, lf)[Len(t)]

StripCR(t) == Spelled(t, <<>>, <<LF>>)

Matches(s, t) == {i \in 1 .. Len(t) + 1 - Len(s) : SubSeq(t, i, i + Len(s) - 1) = s}

(* t with what stands behind position `from`, up to `to`, replaced by r.   *)
Splice(t, from, to, r) == SubSeq(t, 1, from) \o r \o SubSeq(t, to + 1, Len(t))

(* ---- edit_file: search and replace without regard to CR -------------- *)

(* The end of the shortest piece behind `from` that holds k symbols other  *)
(* than CR.                                                                *)
PastWithCR(t, from, k) ==
  Max({p \in from .. Len(t) : Len(StripCR(SubSeq(t, from + 1, p))) = k} \cup {from})

Past(t, from, k) ==
  Min({p \in from .. Len(t) : Len(StripCR(SubSeq(t, from + 1, p))) = k} \cup {Len(t)})

EditText(t, search, replace) ==
  LET found == Matches(StripCR(search), StripCR(t))
      from  == Past(t, 0, Min(found) - 1)
  IN  IF found = {} \/ from >= Len(t)
      THEN <<>>
      ELSE << Splice(t, from, Past(t, from, Len(StripCR(search))), replace) >>

(* ---- md_file, action edit -------------------------------------------- *)

(* Every CR LF turned into LF.                                             *)
Normalizing(t) ==
  LET run[n \in 0 .. Len(t)] ==
        IF n = 0 THEN <<>>
        ELSE IF t[n] = CR /\ n < Len(t) /\ t[n + 1] = LF THEN run[n - 1]
        ELSE Append(run[n - 1], t[n])
  IN  run

Normalized(t) == Normalizing(t)[Len(t)]

(* k symbols of the normalized text further: a CR stands for two.          *)
Advancing(t, from, k) ==
  LET pos[i \in 0 .. k] ==
        IF i = 0 THEN from
        ELSE pos[i - 1] + (IF pos[i - 1] < Len(t) /\ t[pos[i - 1] + 1] = CR THEN 2 ELSE 1)
  IN  pos

Advance(t, from, k) == Advancing(t, from, k)[k]

(* An exact match must be the only one; without one the normalized texts   *)
(* are searched and the first match is taken.  replace() throws when the   *)
(* start lies behind the end, before the file is opened.                   *)
MdEditText(t, search, replace) ==
  LET exact == Matches(search, t)
      loose == Matches(Normalized(search), Normalized(t))
      from  == Advance(t, 0, Min(loose) - 1)
  IN  IF replace = <<>> THEN <<>>
      ELSE IF exact # {}
      THEN IF Cardinality(exact) > 1 THEN <<>>
           ELSE << Splice(t, Min(exact) - 1, Min(exact) - 1 + Len(search), replace) >>
      ELSE IF loose = {} \/ from > Len(t) THEN <<>>
      ELSE << Splice(t, from, Advance(t, from, Len(Normalized(search))), replace) >>

(* ---- format_file, mode whitespace ------------------------------------ *)

\* s up to its last element that is not one of C.
WithoutEnd(s, C) == SubSeq(s, 1, Max({0} \cup {k \in DOMAIN s : s[k] \notin C}))

Trimmed(l) == WithoutEnd(l, {Blank})
WithoutEmptyEnd(ls) == WithoutEnd(ls, {<<>>})

HasCRLF(t) == \E i \in 1 .. Len(t) - 1 : t[i] = CR /\ t[i + 1] = LF

EndOfLine(t) == IF HasCRLF(t) THEN <<CR, LF>> ELSE <<LF>>

\* The first n lines, trimmed, each with its end.
Writing(ls, eol) ==
  LET run[n \in 0 .. Len(ls)] ==
        IF n = 0 THEN <<>> ELSE run[n - 1] \o Trimmed(ls[n]) \o eol
  IN  run

(* Empty lines at the end are dropped before the blanks are trimmed; when  *)
(* nothing but one blank line is left the file becomes empty.              *)
normalizeWhitespace(t) ==
  LET kept == WithoutEmptyEnd(Lines(t))
      text == Writing(kept, EndOfLine(t))[Len(kept)]
  IN  IF text = EndOfLine(t) THEN <<>> ELSE text

(* ---- read_file, a range of lines ------------------------------------- *)

(* What lines first .. n take in the answer.                               *)
Bytes(ls, first, n) ==
  LET sum[k \in first .. n] == (IF k = first THEN 0 ELSE sum[k - 1]) + Len(ls[k]) + 1 IN sum[n]

(* One page from line `first`: as many whole lines as fit, at least the    *)
(* beginning of one.  `next` is the line to continue with, 0 at the end.   *)
NoPage == [lines |-> <<>>, next |-> 0]

ContinueAtLast(last, upTo) == IF last < upTo THEN last ELSE 0
Continue(last, upTo)       == IF last < upTo THEN last + 1 ELSE 0

readFileRange(t, first, end) ==
  LET ls    == Lines(t)
      upTo  == IF end > 0 THEN Min({end, Len(ls)}) ELSE Len(ls)
      fit   == {n \in first .. upTo : /\ Bytes(ls, first, n) <= RangeBytes
                                      /\ n - first < RangeLines}
      last  == Max(fit \cup {first})
      lines == IF fit = {} THEN << SubSeq(ls[first], 1, RangeBytes - 1) >>
                           ELSE SubSeq(ls, first, last)
  IN  IF first > Len(ls) \/ (end > 0 /\ end < first) THEN NoPage
      ELSE [lines |-> lines, next |-> Continue(last, upTo)]

(* ---- the diff -------------------------------------------------------- *)

Common(a, b) ==
  Max({k \in 0 .. Min({Len(a), Len(b)}) : SubSeq(a, 1, k) = SubSeq(b, 1, k)})

Op(tag, l) == [tag |-> tag, text |-> l]
Ops(tag, ls) == [k \in DOMAIN ls |-> Op(tag, ls[k])]

(* at(i, j): the longest common subsequence of what stands behind i lines  *)
(* of a and j lines of b; ops: the walk through the table from (i, j).     *)
lcsOps(a, b) ==
  LET at[i \in 0 .. Len(a), j \in 0 .. Len(b)] ==
        IF i = Len(a) \/ j = Len(b) THEN 0
        ELSE IF a[i + 1] = b[j + 1] THEN at[i + 1, j + 1] + 1
        ELSE Max({at[i + 1, j], at[i, j + 1]})
      ops[i \in 0 .. Len(a), j \in 0 .. Len(b)] ==
        IF i = Len(a) \/ j = Len(b)
        THEN Ops("-", SubSeq(a, i + 1, Len(a))) \o Ops("+", SubSeq(b, j + 1, Len(b)))
        ELSE IF a[i + 1] = b[j + 1] THEN <<Op(" ", a[i + 1])>> \o ops[i + 1, j + 1]
        ELSE IF at[i + 1, j] >= at[i, j + 1] THEN <<Op("-", a[i + 1])>> \o ops[i + 1, j]
        ELSE <<Op("+", b[j + 1])>> \o ops[i, j + 1]
  IN  ops[0, 0]

(* What stands between the common head and tail, line by line.            *)
Changes(a, b) ==
  IF Len(a) * Len(b) > MaxCells THEN Ops("-", a) \o Ops("+", b) ELSE lcsOps(a, b)

Capped(hunk) == SubSeq(hunk, 1, Min({DiffLines, Len(hunk)}))

(* One hunk: head and tail common to both sides are cut off but for the    *)
(* context.  <<>> when there is nothing to show.  `more` counts the lines  *)
(* the cap took away; the cap on characters takes lines away likewise.     *)
Hunk(a, b, head, tail) ==
  LET lead  == Min({Context, head})
      trail == Min({Context, tail})
      hunk  == Ops(" ", SubSeq(a, head - lead + 1, head))
                 \o Changes(SubSeq(a, head + 1, Len(a) - tail),
                            SubSeq(b, head + 1, Len(b) - tail))
                 \o Ops(" ", SubSeq(a, Len(a) - tail + 1, Len(a) - tail + trail))
  IN  [from     |-> head - lead,
       oldCount |-> lead + (Len(a) - tail - head) + trail,
       newCount |-> lead + (Len(b) - tail - head) + trail,
       lines    |-> Capped(hunk),
       more     |-> Len(hunk) - Len(Capped(hunk))]

Behind(s, n) == Reverse(SubSeq(s, n + 1, Len(s)))

OneHunk(a, b, head) == Hunk(a, b, head, Common(Behind(a, head), Behind(b, head)))

makeUnifiedDiff(before, after) ==
  IF Has(before, NUL) \/ Has(after, NUL) \/ Lines(before) = Lines(after) THEN <<>>
  ELSE << OneHunk(Lines(before), Lines(after), Common(Lines(before), Lines(after))) >>
=============================================================================
