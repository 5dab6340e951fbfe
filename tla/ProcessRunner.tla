--------------------------- MODULE ProcessRunner ---------------------------
(***************************************************************************)
(* The one process runner (platform/process_runner_linux.cpp and _win.cpp) *)
(* and the tools that use it: exec_shell, python tools and format_file,    *)
(* from the agent's thread or from the threads of a skill.  Run holds the  *)
(* runner's lock for the whole life of a child; a reader thread drains the *)
(* child's pipes; Cancel comes from the UI thread.  The child, and what it *)
(* leaves in the background, is the environment.                           *)
(***************************************************************************)
EXTENDS Integers, Sequences, FiniteSets

CONSTANTS Callers,   \* threads that run one command each
          Commands,  \* what a command may do: its steps, and the bytes of its stdin
          Cap,       \* capacity of a pipe, in units
          MaxWritten \* bound: units of a run, past which a background process is quiet

(* A command reads a unit of stdin, writes a unit to a stream, starts a    *)
(* background process that shares its pipes, hangs, closes its output, or  *)
(* deafens itself to SIGTERM; behind its last step it exits.               *)
ChildSteps == {"read", "out", "err", "spawn", "hang", "deafen", "close"}

ASSUME RunnerAssumption ==
  /\ Cap \in Nat \ {0} /\ MaxWritten \in Nat
  /\ "free" \notin Callers
  /\ \A c \in Commands : c.stdin \in Nat /\ \A k \in DOMAIN c.steps : c.steps[k] \in ChildSteps

Platforms == {"linux", "win"}
Streams == {"in", "out", "err"}

VARIABLES
  platform,
  runAt,      \* the place of each caller
  mutex,      \* mutex_: its holder or "free"
  command,    \* the command of the run
  child,      \* "none", "runs", "exited", "reaped"
  step,       \* steps the child has made
  deaf,       \* the group ignores SIGTERM
  closed,     \* the child has closed its output
  background, \* a background process: "none", "silent" (holds the child's end of stdin), or
              \* "open" (of stdout and stderr too)
  pipe,       \* units in each pipe
  toWrite,    \* units of stdin not yet written
  inOpen,     \* the parent's end of stdin is open
  readOpen,   \* the parent's ends of stdout and stderr are open
  reader,     \* the reader thread
  cancelledFlag,
  outcome,    \* what each run returned
  written, drained, \* history: units the child wrote, units that were read
  cancelsNow  \* history: a cancel has come since the run was started

childVars == <<child, step, deaf, closed, background>>
pipeVars == <<pipe, toWrite, inOpen, readOpen, reader, written, drained>>
runnerState == <<platform, runAt, mutex, command, childVars, pipeVars, cancelledFlag,
                 outcome, cancelsNow>>

NoCommand == [steps |-> <<>>, stdin |-> 0]
RunnerInit ==
  /\ platform \in Platforms
  /\ runAt = [c \in Callers |-> "idle"] /\ mutex = "free"
  /\ command = NoCommand
  /\ child = "none" /\ step = 0 /\ deaf = FALSE /\ closed = FALSE
  /\ background = "none"
  /\ pipe = [s \in Streams |-> 0] /\ toWrite = 0 /\ inOpen = FALSE /\ readOpen = FALSE
  /\ reader = "none" /\ written = 0 /\ drained = 0
  /\ cancelledFlag = FALSE /\ cancelsNow = FALSE
  /\ outcome = [c \in Callers |-> "none"]

At(c, place) == runAt[c] = place
Go(c, place) == runAt' = [runAt EXCEPT ![c] = place]

----------------------------------------------------------------------------
(* The parent *)

Call(c) ==
  /\ At(c, "idle")
  /\ Go(c, "locking")
  /\ UNCHANGED <<platform, mutex, command, childVars, pipeVars, cancelledFlag, outcome,
                 cancelsNow>>

(* The lock, the pipes, the fork.  A pipe or the fork may fail. *)
Start(c) ==
  /\ At(c, "locking") /\ mutex = "free"
  /\ \/ /\ Go(c, "done") /\ outcome' = [outcome EXCEPT ![c] = "failed"]
        /\ UNCHANGED <<mutex, command, childVars, pipeVars, cancelsNow>>
     \/ /\ Go(c, "stdin") /\ mutex' = c
        /\ command' \in Commands
        /\ child' = "runs" /\ step' = 0 /\ deaf' = FALSE /\ closed' = FALSE
        /\ background' = "none"
        /\ pipe' = [s \in Streams |-> 0] /\ toWrite' = command'.stdin
        /\ inOpen' = TRUE /\ readOpen' = TRUE /\ reader' = "none"
        /\ written' = 0 /\ drained' = 0 /\ cancelsNow' = FALSE
        /\ UNCHANGED outcome
  /\ UNCHANGED <<platform, cancelledFlag>>

(* Somebody may still read the child's stdin. *)
StdinHeld == child = "runs" \/ background # "none"

(* One write of the whole of stdin, which blocks while the pipe is full.   *)
(* When nobody reads any more it fails on Windows; on Linux SIGPIPE, which *)
(* is not handled, ends the program.                                       *)
WriteStdin(c) ==
  /\ At(c, "stdin") /\ toWrite > 0 /\ StdinHeld /\ pipe["in"] < Cap
  /\ toWrite' = toWrite - 1
  /\ pipe' = [pipe EXCEPT !["in"] = @ + 1]
  /\ UNCHANGED <<platform, runAt, mutex, command, childVars, inOpen, readOpen, reader,
                 written, drained, cancelledFlag, outcome, cancelsNow>>

WriteFails(c) ==
  /\ At(c, "stdin") /\ toWrite > 0 /\ ~StdinHeld
  /\ toWrite' = 0
  /\ IF platform = "linux" THEN runAt' = [d \in Callers |-> "killed"] ELSE UNCHANGED runAt
  /\ UNCHANGED <<platform, mutex, command, childVars, pipe, inOpen, readOpen, reader,
                 written, drained, cancelledFlag, outcome, cancelsNow>>

StartReaderOnly(c) ==
  /\ At(c, "stdin") /\ toWrite = 0
  /\ Go(c, "polling")
  /\ inOpen' = FALSE
  /\ reader' = "out"
  /\ UNCHANGED <<platform, mutex, command, childVars, pipe, toWrite, readOpen, written,
                 drained, cancelledFlag, outcome, cancelsNow>>

(* Behind the write: the cancel flag is lowered and the reader starts. *)
StartReader(c) ==
  /\ At(c, "stdin") /\ toWrite = 0
  /\ Go(c, "polling")
  /\ inOpen' = FALSE
  /\ cancelledFlag' = FALSE
  /\ reader' = "out"
  /\ UNCHANGED <<platform, mutex, command, childVars, pipe, toWrite, readOpen, written,
                 drained, outcome, cancelsNow>>

(* The group (Linux) or the job (Windows) is killed, background included.  *)
KillAll == child' = "reaped" /\ background' = "none" /\ UNCHANGED <<step, deaf, closed>>

Ends(c, how) ==
  /\ Go(c, "joining")
  /\ outcome' = [outcome EXCEPT ![c] = how]

Reap(c) ==
  /\ At(c, "polling") /\ child = "exited"
  /\ child' = "reaped"
  /\ Ends(c, "exited")
  /\ UNCHANGED <<platform, mutex, command, step, deaf, closed, background, pipeVars, cancelledFlag,
                 cancelsNow>>

(* On Linux SIGTERM comes first: a child that heeds it is reaped, and what *)
(* it left in the background is not killed if it does not heed it.         *)
StopCancelled(c) ==
  /\ At(c, "polling") /\ child # "exited" /\ cancelledFlag
  /\ \/ KillAll
     \/ /\ platform = "linux" /\ background # "none" /\ ~deaf
        /\ child' = "reaped" /\ UNCHANGED <<step, deaf, closed, background>>
  /\ Ends(c, "cancelled")
  /\ readOpen' = FALSE
  /\ UNCHANGED <<platform, mutex, command, pipe, toWrite, inOpen, reader, written, drained,
                 cancelledFlag, cancelsNow>>

StopDrained(c) ==
  /\ At(c, "polling") /\ child # "exited" /\ ~cancelledFlag
  /\ pipe["out"] = 0 /\ pipe["err"] = 0
  /\ KillAll
  /\ Ends(c, "timedOut")
  /\ readOpen' = FALSE
  /\ UNCHANGED <<platform, mutex, command, pipe, toWrite, inOpen, reader, written, drained,
                 cancelledFlag, cancelsNow>>

(* The deadline or the idle limit. *)
StopTimedOut(c) ==
  /\ At(c, "polling") /\ child # "exited" /\ ~cancelledFlag
  /\ KillAll
  /\ Ends(c, "timedOut")
  /\ readOpen' = FALSE
  /\ UNCHANGED <<platform, mutex, command, pipe, toWrite, inOpen, reader, written, drained,
                 cancelledFlag, cancelsNow>>

(* Windows: the pipe has ended but the process has not, for two seconds. *)
StopSilent(c) ==
  /\ platform = "win" /\ At(c, "polling") /\ child # "exited" /\ ~cancelledFlag
  /\ reader = "done"
  /\ KillAll
  /\ Ends(c, "exited")
  /\ readOpen' = FALSE
  /\ UNCHANGED <<platform, mutex, command, pipe, toWrite, inOpen, reader, written, drained,
                 cancelledFlag, cancelsNow>>

(* The reader is joined, the descriptors are closed, the lock is released. *)
Join(c) ==
  /\ At(c, "joining") /\ reader = "done"
  /\ Go(c, "done")
  /\ mutex' = "free" /\ readOpen' = FALSE /\ reader' = "none" /\ child' = "none"
  /\ background' = "none"
  /\ UNCHANGED <<platform, command, step, deaf, closed, pipe, toWrite, inOpen, written, drained,
                 cancelledFlag, outcome, cancelsNow>>

----------------------------------------------------------------------------
(* The reader thread.  A read blocks while its pipe is empty and somebody  *)
(* holds the other end; a descriptor closed meanwhile does not wake it.    *)
(* On Windows both streams are one pipe.                                   *)

WriterGone == (child # "runs" \/ closed) /\ background # "open"
Source == IF platform = "win" THEN "out" ELSE reader

Drain ==
  /\ reader \in {"out", "err"} /\ pipe[Source] > 0
  /\ pipe' = [pipe EXCEPT ![Source] = @ - 1]
  /\ drained' = drained + 1
  /\ UNCHANGED <<platform, runAt, mutex, command, childVars, toWrite, inOpen, readOpen,
                 reader, written, cancelledFlag, outcome, cancelsNow>>

EndOfFirst ==
  /\ reader \in {"out", "err"} /\ pipe[Source] = 0 /\ WriterGone
  /\ reader' = "done"
  /\ UNCHANGED <<platform, runAt, mutex, command, childVars, pipe, toWrite, inOpen,
                 readOpen, written, drained, cancelledFlag, outcome, cancelsNow>>

EndOfStream ==
  /\ reader \in {"out", "err"} /\ pipe[Source] = 0 /\ WriterGone
  /\ reader' = IF reader = "out" /\ platform = "linux" THEN "err" ELSE "done"
  /\ UNCHANGED <<platform, runAt, mutex, command, childVars, pipe, toWrite, inOpen,
                 readOpen, written, drained, cancelledFlag, outcome, cancelsNow>>

----------------------------------------------------------------------------
(* The child: external *)

Upcoming(s) == child = "runs" /\ step < Len(command.steps) /\ command.steps[step + 1] = s
Done == step' = step + 1

ChildReads ==
  /\ Upcoming("read")
  /\ \/ pipe["in"] > 0 /\ pipe' = [pipe EXCEPT !["in"] = @ - 1]
     \/ pipe["in"] = 0 /\ ~inOpen /\ UNCHANGED pipe
  /\ Done
  /\ UNCHANGED <<platform, runAt, mutex, command, child, deaf, closed, background, toWrite, inOpen,
                 readOpen, reader, written, drained, cancelledFlag, outcome, cancelsNow>>

Into(s) == IF platform = "win" THEN "out" ELSE s
Write(s) ==
  /\ pipe[Into(s)] < Cap
  /\ pipe' = [pipe EXCEPT ![Into(s)] = @ + 1]
  /\ written' = written + 1

(* A write to a stream it has closed fails. *)
ChildWrites ==
  \E s \in {"out", "err"} :
    /\ Upcoming(s)
    /\ IF closed THEN UNCHANGED <<pipe, written>> ELSE Write(s)
    /\ Done
    /\ UNCHANGED <<platform, runAt, mutex, command, child, deaf, closed, background, toWrite,
                   inOpen, readOpen, reader, drained, cancelledFlag, outcome, cancelsNow>>

ChildTurns ==
  /\ \/ /\ Upcoming("spawn") /\ UNCHANGED <<deaf, closed>>
        /\ background' = IF closed /\ background # "open" THEN "silent" ELSE "open"
     \/ Upcoming("deafen") /\ deaf' = TRUE /\ UNCHANGED <<background, closed>>
     \/ Upcoming("close") /\ closed' = TRUE /\ UNCHANGED <<background, deaf>>
  /\ Done
  /\ UNCHANGED <<platform, runAt, mutex, command, child, pipeVars, cancelledFlag, outcome,
                 cancelsNow>>

ChildExits ==
  /\ child = "runs" /\ step = Len(command.steps)
  /\ child' = "exited"
  /\ UNCHANGED <<platform, runAt, mutex, command, step, deaf, closed, background, pipeVars,
                 cancelledFlag, outcome, cancelsNow>>

BackgroundWrites ==
  /\ background = "open" /\ written < MaxWritten
  /\ \E s \in {"out", "err"} : Write(s)
  /\ UNCHANGED <<platform, runAt, mutex, command, childVars, toWrite, inOpen, readOpen,
                 reader, drained, cancelledFlag, outcome, cancelsNow>>

BackgroundExits ==
  /\ background # "none"
  /\ background' = "none"
  /\ UNCHANGED <<platform, runAt, mutex, command, child, step, deaf, closed, pipeVars,
                 cancelledFlag, outcome, cancelsNow>>

----------------------------------------------------------------------------
(* Cancel, on the UI thread. *)
CancelRunner ==
  /\ ~cancelledFlag \/ ~cancelsNow
  /\ \E c \in Callers : runAt[c] \notin {"done", "killed"}
  /\ cancelledFlag' = TRUE /\ cancelsNow' = TRUE
  /\ UNCHANGED <<platform, runAt, mutex, command, childVars, pipeVars, outcome>>

(* Nobody calls any more. *)
RunnerRest ==
  /\ \A c \in Callers : runAt[c] \in {"done", "killed"}
  /\ UNCHANGED runnerState

(* The parent writes stdin to a child that waits until somebody reads what *)
(* it wrote, which nobody does before stdin is written.                    *)
Wedged ==
  /\ \E c \in Callers : At(c, "stdin")
  /\ toWrite > 0 /\ pipe["in"] = Cap
  /\ \E s \in {"out", "err"} : Upcoming(s) /\ pipe[Into(s)] = Cap
  /\ UNCHANGED runnerState

Parent(c) ==
  \/ Start(c) \/ WriteStdin(c) \/ WriteFails(c) \/ StartReader(c) \/ Reap(c)
  \/ StopCancelled(c) \/ StopTimedOut(c) \/ StopSilent(c) \/ Join(c)
Reader == Drain \/ EndOfStream
Child == ChildReads \/ ChildWrites \/ ChildTurns \/ ChildExits \/ BackgroundWrites
         \/ BackgroundExits

RunnerNext ==
  \/ \E c \in Callers : Call(c) \/ Parent(c)
  \/ Reader \/ Child \/ CancelRunner \/ RunnerRest \/ Wedged

RunnerSpec == RunnerInit /\ [][RunnerNext]_runnerState

(* Threads and timers run; the child owes nothing. *)
FairRunnerSpec ==
  /\ RunnerSpec
  /\ \A c \in Callers : WF_runnerState(Parent(c))
  /\ WF_runnerState(Reader)

----------------------------------------------------------------------------
CallerPlaces == {"idle", "locking", "stdin", "polling", "joining", "done", "killed"}

(* The variables have their types. *)
RunnerTypeOK ==
  /\ platform \in Platforms
  /\ runAt \in [Callers -> CallerPlaces]
  /\ mutex \in Callers \cup {"free"}
  /\ child \in {"none", "runs", "exited", "reaped"}
  /\ pipe \in [Streams -> 0 .. Cap]
  /\ reader \in {"none", "out", "err", "done"}
  /\ outcome \in [Callers -> {"none", "failed", "exited", "cancelled", "timedOut"}]
  /\ toWrite \in Nat /\ written \in Nat /\ drained \in Nat /\ step \in Nat

(* A run that reports a normal exit has read every byte the child and its  *)
(* background wrote, on both streams (reader.join in Run), before it cuts  *)
(* the text to its limit.                                                  *)
OutputIsWhole ==
  \A c \in Callers : At(c, "joining") /\ outcome[c] = "exited" /\ reader = "done" =>
    drained = written

(* A run ends as cancelled only by a cancel of its own time: one meant for *)
(* an earlier run does not end the next (cancelled_ in Run).               *)
CancelIsOwn ==
  \A c \in Callers : At(c, "joining") /\ outcome[c] = "cancelled" => cancelsNow

(* When the lock is free no child, reader or descriptor of the last run is *)
(* left, so the next run cannot meet them (iprocess_runner.h).             *)
NothingLeftOpen ==
  mutex = "free" /\ (\A c \in Callers : ~At(c, "killed")) =>
    child = "none" /\ reader = "none" /\ ~readOpen /\ ~inOpen

(* The types, whose cancel it was, and what a run leaves behind. *)
RunnerInv == RunnerTypeOK /\ CancelIsOwn /\ NothingLeftOpen

(* A polled child is given up: the deadline bounds every wait for it, a    *)
(* child that fills a pipe nobody reads included.                          *)
PollingEnds == \A c \in Callers : At(c, "polling") ~> ~At(c, "polling")

(* "a hung command must never be able to wedge a second caller": one that  *)
(* waits for the runner is let in.                                         *)
SecondCallerGetsIn == \A c \in Callers : At(c, "locking") ~> ~At(c, "locking")
=============================================================================
