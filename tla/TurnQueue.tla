------------------------------ MODULE TurnQueue ------------------------------
(***************************************************************************)
(* What the user is promised of the messages typed (TuiApp::sendMessage,   *)
(* src/src/tui/app_tui.cpp): one message is served at a time, from its     *)
(* dispatch to the end of everything it set going; a message typed         *)
(* meanwhile waits, the waiting ones are served in the order typed, none   *)
(* twice, and only the user's Esc drops them.                              *)
(***************************************************************************)
EXTENDS Integers, Sequences

CONSTANT Message   \* records; n is the number of the message

VARIABLES
  typed,     \* how many messages the user has typed
  waiting,   \* messages typed while another one was served
  serving    \* the message being served, as a set of at most one

vars == <<typed, waiting, serving>>

Init == typed = 0 /\ waiting = <<>> /\ serving = {}

Types(m) ==
  /\ m.n = typed + 1
  /\ typed' = typed + 1

\* A message typed while nothing runs.  A quick command is served on the spot.
\* Typed in the short time between the end of a message and the next frame, it
\* goes ahead of those that wait.
Dispatch(m) ==
  /\ Types(m)
  /\ serving = {}
  /\ serving' \in {{}, {m}}
  /\ UNCHANGED waiting

Enqueue(m) ==
  /\ Types(m)
  /\ serving # {}
  /\ waiting' = Append(waiting, m)
  /\ UNCHANGED serving

DispatchNext ==
  /\ serving = {} /\ waiting # <<>>
  /\ serving' \in {{}, {Head(waiting)}}
  /\ waiting' = Tail(waiting)
  /\ UNCHANGED typed

Served ==
  /\ serving # {}
  /\ serving' = {}
  /\ UNCHANGED <<typed, waiting>>

Drop == waiting' = <<>> /\ UNCHANGED <<typed, serving>>

Next == (\E m \in Message : Dispatch(m) \/ Enqueue(m)) \/ DispatchNext \/ Served \/ Drop

Spec == Init /\ [][Next]_vars
=============================================================================
