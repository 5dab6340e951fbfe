----------------------------- MODULE FileSearch -----------------------------
(***************************************************************************)
(* list_dir and grep_files (tools/file_tool.cpp) over a directory tree     *)
(* that does not change while they run.                                    *)
(*                                                                         *)
(* The tree is a function from paths to nodes; a path is the sequence of   *)
(* names below the workspace root, a name a number so that it sorts.  Of a *)
(* file the model keeps how many of its lines match and whether            *)
(* grep_files looks into it (size, extension, workspace guard).            *)
(***************************************************************************)
EXTENDS Naturals, Sequences, FiniteSets, FiniteSetsExt, SequencesExt

CONSTANTS
  Tree,         \* [path -> [dir, junk, hits, searched]]
  ListEntries,  \* kListMaxEntries
  ListDepth,    \* kListMaxDepth
  ScanFiles     \* kMaxFilesToScan

Node == [dir: BOOLEAN, junk: BOOLEAN, hits: Nat, searched: BOOLEAN]

ASSUME SearchAssumption ==
  /\ {ListEntries, ListDepth, ScanFiles} \subseteq Nat \ {0}
  /\ IsFiniteSet(DOMAIN Tree) /\ DOMAIN Tree \subseteq Seq(Nat)
  /\ \A p \in DOMAIN Tree :
       /\ Tree[p] \in Node
       /\ p # <<>> => Front(p) \in DOMAIN Tree /\ Tree[Front(p)].dir

Children(dir) == {p \in DOMAIN Tree : p # <<>> /\ Front(p) = dir}
Below(dir)    == {p \in DOMAIN Tree : IsStrictPrefix(dir, p)}

\* Entries of one directory in the order of their names: k - 1 come before the k-th.
ByName(ps) ==
  [k \in 1 .. Cardinality(ps) |->
     CHOOSE p \in ps : Cardinality({q \in ps : Last(q) < Last(p)}) = k - 1]

(* ---- list_dir -------------------------------------------------------- *)

(* Directories first, then files, each sorted by name; a directory with a  *)
(* junk name and an entry the caller excludes are left out.                *)
Shown(dir, exclude) ==
  LET seen == {p \in Children(dir) : /\ ~ (Tree[p].dir /\ Tree[p].junk)
                                     /\ Last(p) \notin exclude}
  IN  ByName({p \in seen : Tree[p].dir}) \o ByName({p \in seen : ~ Tree[p].dir})

Entry(p, closed) ==
  [path |-> p, closed |-> closed, entries |-> IF closed THEN Cardinality(Children(p)) ELSE 0]

\* An entry, and what is below it as far as `left` levels go.
Branch(p, left, inner) ==
  IF ~ Tree[p].dir THEN <<Entry(p, FALSE)>>
  ELSE IF left = 1 THEN <<Entry(p, TRUE)>>
  ELSE <<Entry(p, FALSE)>> \o inner[p]

\* What walk() would print with no cap; with `left` levels it is at level depth - left.
Walking(depth, exclude) ==
  LET rows[left \in 0 .. depth] ==
        IF left = 0 THEN [dir \in DOMAIN Tree |-> <<>>]
        ELSE [dir \in DOMAIN Tree |->
                LET shown == Shown(dir, exclude)
                IN  FlattenSeq([k \in DOMAIN shown |-> Branch(shown[k], left, rows[left - 1])])]
  IN  rows

Walk(root, depth, exclude) == Walking(depth, exclude)[depth][root]

Depth(asked) == IF asked = 0 THEN 2 ELSE Min({asked, ListDepth})

\* truncated is set only when an entry is left to print.
listDir(dir, asked, exclude) ==
  LET all == Walk(dir, Depth(asked), exclude)
  IN  [rows      |-> SubSeq(all, 1, Min({ListEntries, Len(all)})),
       truncated |-> Len(all) > ListEntries]

(* ---- grep_files ------------------------------------------------------ *)

\* The files looked into: none of the directories between root and file is junk.
Searched(root) ==
  {p \in Below(root) :
     /\ ~ Tree[p].dir /\ Tree[p].searched
     /\ \A q \in Below(root) : IsStrictPrefix(q, p) => ~ Tree[q].junk}

Hits(p) == {<<p, line>> : line \in 1 .. Tree[p].hits}

\* The first n matching lines of a file.
FirstHits(p, n) == {h \in Hits(p) : h[2] <= n}

ScanQuiet(so, p, max) ==
  IF so.note # "none" \/ so.files >= ScanFiles THEN so
  ELSE LET hits == so.hits \cup FirstHits(p, max - Cardinality(so.hits))
       IN  [hits  |-> hits,
            files |-> so.files + 1,
            note  |-> IF Cardinality(hits) >= max THEN "results" ELSE "none"]

(* One file more.  The note is set when a limit is reached, whether or not *)
(* something is left to find.                                              *)
Scan(so, p, max) ==
  IF so.note # "none" THEN so
  ELSE LET hits == so.hits \cup FirstHits(p, max - Cardinality(so.hits))
       IN  [hits  |-> hits,
            files |-> so.files + 1,
            note  |-> IF Cardinality(hits) >= max THEN "results"
                      ELSE IF so.files + 1 >= ScanFiles THEN "files" ELSE "none"]

(* A file as the path means that one file, whatever its size and name; a   *)
(* directory is walked in the order the system returns it.                 *)
GrepOne(path, max) ==
  LET hits == FirstHits(path, max)
  IN  [hits |-> hits, files |-> 1,
       note |-> IF Cardinality(hits) >= max THEN "results" ELSE "none"]

\* Behind the first n files of a walk.
Scanning(max, order) ==
  LET run[n \in 0 .. Len(order)] ==
        IF n = 0 THEN [hits |-> {}, files |-> 0, note |-> "none"]
        ELSE Scan(run[n - 1], order[n], max)
  IN  run

GrepTree(max, order) == Scanning(max, order)[Len(order)]

\* The answers there may be.
grepFiles(path, max) ==
  IF Tree[path].dir THEN {GrepTree(max, order) : order \in SetToSeqs(Searched(path))}
                    ELSE {GrepOne(path, max)}
=============================================================================
