--------------------------- MODULE TerminalStatus ---------------------------
(***************************************************************************)
(* The status records proJV sends to the hosting terminal                  *)
(* (src/src/core/terminal_status.cpp): any thread reports, the UI thread   *)
(* writes, the last record of a run says how it ended.                     *)
(*                                                                         *)
(* A report, a flush and the two ways to end each hold the mutex, but      *)
(* flushIfDirty, shutdown and abandon write behind it: what a thread has   *)
(* still to write is in `writing`.  The host keeps the last record only.   *)
(***************************************************************************)
EXTENDS Naturals

CONSTANTS
  Records,   \* what may be reported: a state and a text
  Silence    \* no record

States == {"working", "blocked", "done", "error", "idle", "clear"}

Clear == [state |-> "clear", text |-> 0]
Interrupted == [state |-> "error", text |-> 0]

ASSUME StatusAssumption ==
  /\ Records \subseteq [state: States, text: Nat]
  /\ Silence \notin [state: States, text: Nat]

\* The threads that write: the loop of FTXUI, and the exit handler of the system.
Writers == {"ui", "exit"}

VARIABLES
  enabled,     \* enabled and available, which the code changes together
  pending,     \* the newest state, Silence before the first
  dirty,
  lastSent,
  writing,     \* per writer, the sequence it took out of the lock
  host,        \* what the terminal shows
  endedBy      \* history: the writer whose shutdown or abandon came first

status == <<enabled, pending, dirty, lastSent, writing, host, endedBy>>

Shown == Records \cup {Clear, Interrupted}

StatusTypeOK ==
  /\ enabled \in BOOLEAN /\ dirty \in BOOLEAN
  /\ pending \in Records \cup {Silence}
  /\ lastSent \in Shown \cup {Silence}
  /\ writing \in [Writers -> Shown \cup {Silence}]
  /\ host \in Shown \cup {Silence}
  /\ endedBy \in Writers \cup {"nobody"}

\* init: off by configuration, by environment, or without a terminal.
StatusInit ==
  /\ enabled \in BOOLEAN
  /\ pending = Silence /\ dirty = FALSE /\ lastSent = Silence
  /\ writing = [t \in Writers |-> Silence]
  /\ host = Silence
  /\ endedBy = "nobody"

\* encode: a final record carries no text.
Encoded(r) == IF r.state = "clear" THEN Clear ELSE r

\* setState, by any thread.
Report(r) ==
  /\ IF enabled THEN pending' = r /\ dirty' = TRUE ELSE UNCHANGED <<pending, dirty>>
  /\ UNCHANGED <<enabled, lastSent, writing, host, endedBy>>

FlushByState(t) ==
  /\ writing[t] = Silence /\ enabled /\ dirty
  /\ dirty' = FALSE
  /\ lastSent' = Encoded(pending)
  /\ writing' = [writing EXCEPT
                   ![t] = IF lastSent # Silence /\ lastSent.state = pending.state THEN Silence
                          ELSE Encoded(pending)]
  /\ UNCHANGED <<enabled, pending, host, endedBy>>

\* flushIfDirty, inside the lock: the same record twice is not written.
FlushIfDirty(t) ==
  /\ writing[t] = Silence /\ enabled /\ dirty
  /\ dirty' = FALSE
  /\ lastSent' = Encoded(pending)
  /\ writing' = [writing EXCEPT ![t] = IF Encoded(pending) = lastSent THEN Silence
                                       ELSE Encoded(pending)]
  /\ UNCHANGED <<enabled, pending, host, endedBy>>

\* emit, behind the lock.
Emit(t) ==
  /\ writing[t] # Silence
  /\ host' = writing[t]
  /\ writing' = [writing EXCEPT ![t] = Silence]
  /\ UNCHANGED <<enabled, pending, dirty, lastSent, endedBy>>

\* shutdown and abandon, inside the lock: nothing is reported any more.
EndWith(t, record) ==
  /\ writing[t] = Silence
  /\ enabled' = FALSE
  /\ pending' = Silence /\ dirty' = FALSE
  /\ IF enabled THEN /\ writing' = [writing EXCEPT ![t] = record]
                     /\ lastSent' = Silence
                     /\ endedBy' = t
                ELSE UNCHANGED <<writing, lastSent, endedBy>>
  /\ UNCHANGED host

StatusShutdown == EndWith("ui", Clear)
Abandon == EndWith("exit", Interrupted)

\* The end of the process takes what was not written with it.
Vanish ==
  /\ writing' = [t \in Writers |-> Silence]
  /\ enabled' = FALSE /\ pending' = Silence /\ dirty' = FALSE
  /\ endedBy' = IF \E t \in Writers : endedBy = t /\ writing[t] # Silence THEN "nobody"
                ELSE endedBy
  /\ UNCHANGED <<lastSent, host>>

\* init at the next start of the program, under the same terminal.
StatusRestart ==
  /\ writing = [t \in Writers |-> Silence]
  /\ enabled' \in BOOLEAN
  /\ pending' = Silence /\ dirty' = FALSE /\ lastSent' = Silence
  /\ endedBy' = "nobody"
  /\ UNCHANGED <<writing, host>>

StatusNext ==
  \/ \E r \in Records : Report(r)
  \/ FlushIfDirty("ui")
  \/ \E t \in Writers : Emit(t)
  \/ StatusShutdown
  \/ Abandon
  \/ Vanish
  \/ StatusRestart

StatusSpec == StatusInit /\ [][StatusNext]_status

-----------------------------------------------------------------------------
(* What the host may rely on *)

\* While reports are on, and none is due or under way, the host shows the newest one:
\* the memory of what was sent last never makes the flush drop a record the host has
\* not got.
HostIsCurrent ==
  enabled /\ ~dirty /\ pending # Silence /\ writing["ui"] = Silence => host = Encoded(pending)

\* The thread that ends the reports leaves nothing of its own behind them: once the
\* UI's shutdown has written, the host shows the end, whatever was reported before.
CleanExitClears == endedBy = "ui" /\ writing["ui"] = Silence => host = Clear

\* terminal_status.h: "An abrupt exit must stay visible in the host's list."
AbruptExitStays ==
  endedBy = "exit" /\ writing = [t \in Writers |-> Silence] => host = Interrupted
=============================================================================
