------------------------------ MODULE MCTools -------------------------------
(***************************************************************************)
(* Tools on a small instance.  The texts are chosen so that there are      *)
(* both kinds of line ends, blanks at a line's end, a search that spans a  *)
(* line end, a line longer than a page, a content larger than one write,   *)
(* and a CR that is no line end.  The task list has a task that two lines  *)
(* name and a line that has a mark from the beginning.                     *)
(***************************************************************************)
EXTENDS Tools

X == "x"
Y == "y"

MCSymbols == {X, Y, CR, LF, NUL, Blank}
MCContents == {<<X, LF>>, <<X, CR, LF>>, <<X, LF, Y, X>>}
MCSearches == {<<X>>, <<X, LF>>, <<LF, X>>, <<Y, CR>>}
MCReplaces == {<<>>, <<Y>>}
MCSaves ==
  { <<>>, <<X, CR, LF, X>>, <<X, Blank, LF, Blank, LF>>, <<X, NUL>>,
    <<X, CR, Blank>>, <<Y, CR, X, LF, X>>, <<Y, LF, Y, LF, X>> }

File(hits, searched) == [dir |-> FALSE, junk |-> FALSE, hits |-> hits, searched |-> searched]
Dir(junk) == [dir |-> TRUE, junk |-> junk, hits |-> 0, searched |-> FALSE]

\* A source tree with a build directory, a binary, and three levels.
MCTree ==
  [p \in {<<>>, <<1>>, <<2>>, <<3>>, <<4>>, <<1, 1>>, <<1, 2>>, <<1, 2, 1>>, <<2, 1>>} |->
     CASE p \in {<<>>, <<1>>, <<1, 2>>} -> Dir(FALSE)
       [] p = <<2>> -> Dir(TRUE)
       [] p = <<3>> -> File(2, TRUE)
       [] p = <<4>> -> File(1, FALSE)
       [] p = <<1, 1>> -> File(1, TRUE)
       [] p = <<1, 2, 1>> -> File(0, TRUE)
       [] OTHER -> File(1, TRUE)]

Line(says, mark) == [says |-> says, mark |-> mark]
MCLists == {<<Line({"a"}, "none"), Line({"a"}, "none")>>, <<Line({"a"}, "pending")>>}
=============================================================================
