---------------------------- MODULE Application ----------------------------
(***************************************************************************)
(* The life of the program around Storage and TerminalStatus: TuiApp's     *)
(* turns, F3, /clear, F5, the regular way out (TuiApp::shutdown) and the   *)
(* one of the exit handler (TuiApp::emergencyShutdown), crashes, and the   *)
(* next start on the files that are left.                                  *)
(*                                                                         *)
(* Of a turn there is what it writes and what it reports; AgentLoop has    *)
(* the rest.  The exit handler is a thread of its own on Windows; on Linux *)
(* it is a signal handler on top of the UI thread, which never goes on.    *)
(***************************************************************************)
EXTENDS Store, TerminalStatus

CONSTANTS MaxMessages, MaxKeys

ASSUME ApplicationAssumption == {MaxMessages, MaxKeys} \subseteq Nat

VARIABLES
  platform,    \* where the program runs
  agent,       \* the agent thread: off or running a turn
  cancelled,   \* its cancel flag
  ui,          \* the UI thread: in its loop, at a place of TuiApp::shutdown, or down
  exit,        \* the exit handler: at a place of TuiApp::emergencyShutdown
  due,         \* a frame is due
  keys,        \* bound: what the user did
  named        \* the id the server gives the next tool call (external)

app == <<platform, agent, cancelled, ui, exit, due, keys, named>>
vars == <<store, status, app>>

AppTypeOK ==
  /\ StoreTypeOK /\ StatusTypeOK
  /\ platform \in {"linux", "windows"}
  /\ agent \in {"off", "running"}
  /\ cancelled \in BOOLEAN /\ due \in BOOLEAN
  /\ ui \in {"loop", "sending", "clearing", "launching", "joining", "closing", "saying", "down",
             "off"}
  /\ exit \in {"none", "joining", "closing", "saying", "left"}
  /\ keys \in Nat /\ named \in Nat

AppInit ==
  /\ StoreInit /\ StatusInit
  /\ platform \in {"linux", "windows"}
  /\ agent = "off" /\ cancelled = FALSE
  /\ ui = "loop" /\ exit = "none" /\ due = TRUE /\ keys = 0
  /\ named = 5

\* The UI thread is at the place p of the code and in none of its own writes; under
\* the signal handler of Linux it is nowhere.
UIAt(p) ==
  /\ ui = p /\ writing["ui"] = Silence /\ inserting["ui"] = NoMessage
  /\ exit = "none" \/ platform = "windows"

Key == keys < MaxKeys /\ keys' = keys + 1

Room == next <= 2 * MaxMessages

\* The message some thread is writing.
InFlight == inserting["ui"] \o inserting["agent"]

\* A report asks for a frame, the frame flushes it.
Posts(r) == Report(r) /\ due' = TRUE

-----------------------------------------------------------------------------
(* A turn *)

\* sendMessage, when no turn runs: the file first ...
EnsureFile ==
  /\ UIAt("loop") /\ Key /\ agent = "off" /\ Room
  /\ EnsureStorage
  /\ ui' \in {"sending", "clearing"}
  /\ UNCHANGED <<status, platform, named, agent, cancelled, exit, due>>

\* ... startTurn writes the message ...
SayUser ==
  /\ UIAt("sending")
  /\ AddPersisted("ui", Text("user"))
  /\ ui' = "launching"
  /\ UNCHANGED <<disk, open, holder, attached, file, faults, status, platform, agent, cancelled,
                 exit, due, keys, named>>

LaunchAtOnce ==
  /\ ui = "launching"
  /\ ui' = "loop" /\ agent' = "running" /\ cancelled' = FALSE
  /\ \E r \in Records : r.state = "working" /\ Posts(r)
  /\ UNCHANGED <<store, platform, named, exit, keys>>

\* ... and behind it launchAgentThread; the turn reports that it works.
Launch ==
  /\ UIAt("launching")
  /\ ui' = "loop" /\ agent' = "running" /\ cancelled' = FALSE
  /\ \E r \in Records : r.state = "working" /\ Posts(r)
  /\ UNCHANGED <<store, platform, named, exit, keys>>

\* "/clear", reinitConversation(true): the file stays, and keeps what the session
\* forgets.
ClearChat ==
  /\ UIAt("clearing")
  /\ ui' = "loop" /\ cancelled' = TRUE
  /\ conv' = Prompt /\ next' = 4
  /\ inserting' = [inserting EXCEPT !["ui"] = IF attached /\ open # Closed THEN <<Text("system")>>
                                             ELSE @]
  /\ parted' = TRUE /\ due' = TRUE
  /\ UNCHANGED <<disk, open, holder, attached, file, faults, status, platform, agent, exit, keys,
                 named>>

\* The call of the last round that has no result yet.
Unfinished(log) ==
  IF Callers(log) = {} THEN {}
  ELSE LET last == Latest(Callers(log))
       IN  IF \E i \in DOMAIN log \ Followers(log, last) : i > last THEN {}
           ELSE log[last].calls \ {log[j].id : j \in Followers(log, last)}

\* What the agent writes next: calls of one or two tools, their results in order, text.
NextMessages ==
  IF Unfinished(conv) = {} THEN {Text("assistant"), Calling({named, named + 1})}
  ELSE {Result(CHOOSE id \in Unfinished(conv) : \A other \in Unfinished(conv) : id <= other, FALSE)}

Speak ==
  /\ agent = "running" /\ Room
  /\ \E m \in NextMessages :
       /\ AddPersisted("agent", m)
       /\ named' = IF m.calls = {} THEN named ELSE named + 2
  /\ UNCHANGED <<disk, open, holder, attached, file, faults, status, platform, agent, cancelled,
                 ui, exit, due, keys>>

\* A tool that needs consent, a retry, a stream: the phase callback reports it.
ReportPhase ==
  /\ agent = "running" /\ ~ cancelled /\ inserting["agent"] = NoMessage
  /\ \E r \in Records : r.state \in {"working", "blocked"} /\ r # pending /\ Posts(r)
  /\ UNCHANGED <<store, platform, named, agent, cancelled, ui, exit, keys>>

\* Idle or Error: between two messages once cancelled, else when no call is open.
TurnEnds ==
  /\ agent = "running" /\ inserting["agent"] = NoMessage
  /\ cancelled \/ Unfinished(conv) = {} \/ ~ Room
  /\ agent' = "off"
  /\ \E r \in Records : r.state \in {"done", "error"} /\ Posts(r)
  /\ UNCHANGED <<store, platform, named, cancelled, ui, exit, keys>>

InsertStep ==
  /\ \E t \in Writing :
       /\ t = "ui" => platform = "windows" \/ exit = "none"
       /\ Begin(t) \/ Refuse(t) \/ Commit(t) \/ CommitInPart(t) \/ RollBack(t)
  /\ UNCHANGED <<status, app>>

-----------------------------------------------------------------------------
(* F3 and F5, which cancel a running turn and do not wait for its thread *)

\* reinitConversation(false).
NewChat ==
  /\ UIAt("loop") /\ Key
  /\ cancelled' = TRUE
  /\ Torn
  /\ open' = Closed /\ attached' = FALSE
  /\ conv' = Prompt /\ next' = 4
  /\ file' = Closed /\ parted' = FALSE
  /\ due' = TRUE
  /\ UNCHANGED <<disk, faults, status, platform, named, agent, ui, exit>>

\* switchToDialog: the file, else the one before, else recovery.db, or none at all.  A
\* file that is not a database throws in the first PRAGMA.  Before the first message
\* currentPath() is empty, and opening "" succeeds.
Before == IF open = Closed THEN Temporary ELSE open

Reached(f) ==
  \/ /\ open' = IF f \in Foreign THEN Before ELSE f
     /\ UNCHANGED <<disk, faults>>
  \/ /\ Fault
     /\ open' \in {Before, Recovery, Closed}
     /\ disk' = IF open' = Recovery THEN Created(Recovery, <<>>) ELSE disk

\* queryMessages returns what it had read when an exception stopped it.
Read(rows) ==
  \E n \in {Len(rows), Len(rows) - 1} \cap Nat :
    /\ n < Len(rows) => faults' > faults
    /\ conv' = Loaded(SubSeq(rows, 1, n)) /\ next' = 2 + 2 * n
    /\ parted' = (n < Len(rows) \/ open' = Temporary \/ InFlight # <<>>)

SwitchToDialog ==
  /\ UIAt("loop") /\ Key
  /\ \E f \in Range(Files) \cap DOMAIN disk : Reached(f)
  /\ Read(Rows(disk', open'))
  /\ file' = IF open' \in Known THEN open' ELSE Closed
  /\ cancelled' = TRUE
  /\ Torn /\ attached' = TRUE
  /\ due' = TRUE
  /\ UNCHANGED <<status, platform, named, agent, ui, exit>>

-----------------------------------------------------------------------------
(* Drawing and leaving *)

\* A frame begins with the flush (main_tui.cpp); what it takes is written by Emit.
Frame ==
  /\ UIAt("loop") /\ due
  /\ due' = FALSE
  /\ IF enabled /\ dirty THEN FlushIfDirty("ui") ELSE UNCHANGED status
  /\ UNCHANGED <<store, platform, named, agent, cancelled, ui, exit, keys>>

EmitStep ==
  /\ \E t \in Writers :
       /\ t = "ui" => platform = "windows" \/ exit = "none"
       /\ Emit(t)
  /\ UNCHANGED <<store, app>>

Quit ==
  /\ UIAt("loop")
  /\ ui' = "joining" /\ cancelled' = TRUE
  /\ UNCHANGED <<store, status, platform, named, agent, exit, due, keys>>

\* TuiApp::shutdown, step by step.
CloseFile == Torn /\ open' = Closed /\ parted' = (parted \/ holder # Nobody)

JoinedAtOnce == UIAt("joining") /\ ui' = "closing" /\ UNCHANGED <<store, status>>
Joined == UIAt("joining") /\ agent = "off" /\ ui' = "closing" /\ UNCHANGED <<store, status>>
CloseOnQuit ==
  /\ UIAt("closing") /\ ui' = "saying"
  /\ CloseFile /\ UNCHANGED <<disk, attached, conv, next, file, faults, status>>
SayClear == UIAt("saying") /\ ui' = "down" /\ StatusShutdown /\ UNCHANGED store

Shutdown ==
  /\ Joined \/ CloseOnQuit \/ SayClear
  /\ UNCHANGED <<platform, named, agent, cancelled, exit, due, keys>>

\* Ctrl-C or the window closed: emergencyShutdown, beside the UI thread or on top of it.
Interrupt ==
  /\ exit = "none" /\ ui # "off"
  /\ exit' = "joining" /\ cancelled' = TRUE
  /\ UNCHANGED <<store, status, platform, named, agent, ui, due, keys>>

ExitJoined ==
  exit = "joining" /\ agent # "running" /\ exit' = "closing" /\ UNCHANGED <<store, status>>
ExitCloses ==
  /\ exit = "closing" /\ exit' = "saying"
  /\ CloseFile /\ UNCHANGED <<disk, attached, conv, next, file, faults, status>>
ExitAbandons ==
  /\ exit = "saying" /\ exit' = "left"
  /\ Abandon /\ UNCHANGED store

EmergencyShutdown ==
  /\ ExitJoined \/ ExitCloses \/ ExitAbandons
  /\ UNCHANGED <<platform, named, agent, cancelled, ui, due, keys>>

\* The program is over: at its end, by the handler, or by a crash at any moment.  The
\* disk and what the host shows stay.
Dies ==
  /\ ui' = "off" /\ exit' = "none" /\ agent' = "off"
  /\ cancelled' = FALSE /\ due' = FALSE
  /\ Vanish
  /\ open' = Closed /\ holder' = Nobody /\ attached' = FALSE
  /\ inserting' = [t \in Writing |-> NoMessage]
  /\ conv' = Prompt /\ next' = 4 /\ file' = Closed /\ parted' = FALSE
  /\ UNCHANGED <<disk, faults, platform, named, keys>>

Exits ==
  /\ \/ ui = "down" /\ writing["ui"] = Silence /\ exit = "none"
     \/ exit = "left" /\ writing["exit"] = Silence
  /\ Dies

Crashes == ui # "off" /\ Dies

Over == ui = "off" /\ UNCHANGED vars

\* The next start: initialize on the same disk, under the same terminal.
Start ==
  /\ ui = "off" /\ Key
  /\ StatusRestart
  /\ ui' = "loop" /\ due' = TRUE
  /\ UNCHANGED <<store, platform, named, agent, cancelled, exit>>

-----------------------------------------------------------------------------
UI == SayUser \/ Launch \/ ClearChat \/ Shutdown

User == EnsureFile \/ NewChat \/ SwitchToDialog \/ Quit \/ Interrupt

Agent == Speak \/ ReportPhase \/ TurnEnds

Threads == UI \/ Agent \/ InsertStep \/ EmitStep \/ EmergencyShutdown \/ Exits

AppNext == User \/ Threads \/ Frame \/ Crashes \/ Over \/ Start

AppSpec == AppInit /\ [][AppNext]_vars

-----------------------------------------------------------------------------
(* What the program promises *)

\* Storage has no lock: no two threads are ever in insertMessage.
OneWriter == \E t \in Writing : inserting[t] = NoMessage

\* While every write succeeds the file holds the conversation, but for the message being
\* written: what a crash at this point would leave, loaded and repaired, is what the
\* session holds.  F3 closes the file of the old conversation, the file made for the
\* first message begins with the prompt, F5 goes on in the file it has read.
FileKeepsAll ==
  file # Closed /\ ~ parted =>
    Messages(Repair(conv)) = Messages(Loaded(Rows(disk, file) \o InFlight))

\* Whatever a crash, a torn write or a failed insert left in a file, the conversation it
\* is opened as is one the API accepts.
LoadedIsPaired == [][SwitchToDialog => WellPaired(conv')]_vars

\* When the host is told of the regular end, everything is on the disk.
ClearMeansSaved ==
  endedBy = "ui" => open = Closed /\ holder = Nobody /\ InFlight = <<>> /\ agent = "off"

\* No report waits without a frame: it is flushed with the frame it asks for, or one
\* that a later report asks for.
ReportIsDue == enabled /\ dirty => due

\* The types, the one writer and the frame that is due.
AppInv == AppTypeOK /\ OneWriter /\ ReportIsDue

\* docs: "Every conversation is a SQLite database in `projv_files/sessions/`".
EveryConversationKept == Of(conv, "user") # {} => open # Temporary

\* storage.h: "single writer, no queue needed": the file is not closed under a writer.
ClosedBetweenWrites == [][open' # open /\ ui' # "off" => holder = Nobody]_vars
=============================================================================
