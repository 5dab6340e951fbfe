-------------------------- MODULE MCStreamClient ---------------------------
(***************************************************************************)
(* StreamClient on a small instance: a plain answer with a DSML block cut  *)
(* over two chunks, one with two tool calls whose arguments come in turn,  *)
(* one whose deltas break the format, and one that ends without a finish   *)
(* reason in the middle of a block.                                        *)
(***************************************************************************)
EXTENDS StreamClient

txt(s) == [kind |-> "text", text |-> s]
callOf(i, p) == [kind |-> "call", index |-> i, part |-> p]
argsOf(i, p) == [kind |-> "args", index |-> i, part |-> p]
ev(k) == [kind |-> k]

MCAnswers == {
  <<txt(<<"a", "open">>), txt(<<"x">>), txt(<<"close", "b">>), ev("finish"), ev("done")>>,
  <<callOf(0, "p"), argsOf(0, "q"), callOf(1, "r"), argsOf(0, "s"), argsOf(1, "t"), ev("finish")>>,
  <<argsOf(0, "p"), callOf(0, "q"), argsOf(1, "r"), callOf(0, "s")>>,
  <<ev("ping"), ev("think"), txt(<<"a", "dsml", "b">>), txt(<<"c">>)>> }
=============================================================================
