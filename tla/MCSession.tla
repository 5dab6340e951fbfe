----------------------------- MODULE MCSession -------------------------------
(***************************************************************************)
(* Session on every list of a few messages, and Shrinking on three         *)
(* conversations: a finished round, one a crash cut off in the middle, and *)
(* one of texts, beside the one that F3 begins.  The windows leave room,   *)
(* hardly any, and less than the answer needs.                             *)
(***************************************************************************)
EXTENDS Messages

sized(m, text, reasoning, args) ==
  [role |-> m.role, calls |-> m.calls, id |-> m.id, marked |-> m.marked,
   text |-> text, reasoning |-> reasoning, args |-> args, summary |-> FALSE]
prompt == sized(Text("system"), 2, 0, 0)
ask(n) == sized(Text("user"), n, 0, 0)
tell(n, r) == sized(Text("assistant"), n, r, 0)
failure(n) == sized(Failure("assistant"), n, 0, 0)
callFor(ids) == sized(Calling(ids), 1, 1, Cardinality(ids))
result(id, failed, n) == sized(Result(id, failed), n, 0, 0)

MCSaid ==
  {<<ask(3)>>, <<tell(2, 4)>>}
  \cup {<<callFor({1, 2}), result(1, FALSE, n), result(2, FALSE, 4)>> : n \in {1, 3}}
MCStarted ==
  { <<prompt, ask(1), callFor({3, 4}), result(3, FALSE, 1), result(4, FALSE, 3), tell(3, 0)>>,
    <<prompt, ask(3), callFor({3, 4}), result(3, TRUE, 5), ask(4)>>,
    <<prompt, ask(2), failure(1), tell(5, 2), ask(4), tell(1, 0)>> }
MCWindows ==
  {[window |-> 24, maxTokens |-> 0], [window |-> 11, maxTokens |-> 8],
   [window |-> 16, maxTokens |-> 14]}
=============================================================================
