------------------------------ MODULE AgentLoop -----------------------------
(***************************************************************************)
(* One Agent (src/src/core/agent.cpp): the turn loop on the worker thread, *)
(* Agent::run, against the calls the UI thread makes while it runs, i.e.   *)
(* startTurn, approveTool, cancel and clearSession.                        *)
(*                                                                         *)
(* A step is what a thread does between two points where the other one can *)
(* be seen: a blocking call (a stream, a tool, the wait for the user), a   *)
(* test of a flag the other thread sets, a store the other thread reads.   *)
(* cancel() is two steps, because it raises the agent's flag first and the *)
(* registry's flag and the approval verdict later.                         *)
(***************************************************************************)
EXTENDS Conversation, Sequences

CONSTANTS
  MaxDepth,     \* maxToolCallsPerRound_ (30): rounds between two reminders
  MaxBatch,     \* most tool calls in one answer of the model
  MaxCalls,     \* most tool calls in a behaviour
  MaxTurns,     \* most turns in a behaviour
  MaxClears,    \* most session resets in a behaviour
  MaxShrinks,   \* most compactions or prunings in a behaviour
  Outcomes,     \* how a stream may end
  ToolOutcomes  \* how a tool may end

ASSUME AgentLoopAssumption ==
  /\ {MaxDepth, MaxBatch, MaxCalls, MaxTurns, MaxClears, MaxShrinks} \subseteq Nat
  /\ "text" \in Outcomes
  /\ Outcomes \subseteq {"text", "calls", "length", "reasoning", "empty",
                         "http4", "tooLong", "broken"}
  /\ ToolOutcomes \subseteq {"ok", "failed", "outside", "endTurn"}

VARIABLES
  log, next,          \* Session::messages, and the position of the next one
  phase,              \* phase_
  pc,                 \* where the worker thread is
  batch,              \* pendingToolCalls_: first id, size, any destructive call
  results,            \* toolResults_, as tool outcomes
  answer,             \* how the stream just read ended
  depth,              \* toolCallDepth_
  lengthRetries,      \* reasoningLengthRetries_
  httpRetry,          \* httpRetry of the stream under way
  cancelRequested,    \* Agent::cancelRequested_
  toolCancel,         \* ToolRegistry::cancelRequested_
  turnEnd,            \* ToolRegistry::turnEndRequested_
  followUp,           \* pendingSkill_ or pendingImages_ of the worker's owner
  nudge,              \* turnNudge_ is set
  compactRequested,   \* compactRequested_
  approvalDone, approvalGranted, alwaysApproved,
  ui,                 \* where the UI thread is in cancel() or clearSession()
  dialog,             \* the approval dialog is on the screen
  lastId, shrinks,    \* tool call ids handed out, shrinks spent (bounds)
  turn, epoch,        \* newTurn() calls, session resets
  grantTurn,          \* history: the turn of the user's last YES, 0 if none
  alwaysEpoch,        \* history: the epoch of the last ALWAYS, -1 if none
  asked,              \* history: the user was asked about the batch in `batch`
  escaped             \* history: the user pressed Esc since the last message sent

conversation == <<log, next>>
round == <<batch, results, lastId, asked>>
reply == <<answer, httpRetry>>
counters == <<depth, lengthRetries, shrinks>>
requests == <<turnEnd, followUp, nudge, compactRequested>>
approval == <<approvalDone, approvalGranted, alwaysApproved, grantTurn, alwaysEpoch>>
cancels == <<cancelRequested, toolCancel>>
screen == <<ui, dialog, escaped>>
clocks == <<turn, epoch>>
vars == <<conversation, phase, pc, round, reply, counters, requests, approval, cancels, screen,
          clocks>>

Phases == {"Idle", "Streaming", "ExecutingTools", "AwaitApproval", "Error"}

\* off: no worker.  All others: inside runAgentTurnLoop.
Points == {"off", "launched", "entered", "compress", "loop", "stream", "answered",
           "approval", "tools", "tool", "leaving", "returned", "images", "skill"}

NoBatch == [first |-> 1, size |-> 0, destructive |-> FALSE]

Ids(b) == b.first .. (b.first + b.size - 1)

TypeOK ==
  /\ Fits(log, next)
  /\ phase \in Phases /\ pc \in Points
  /\ batch \in [first: Nat, size: Nat, destructive: BOOLEAN]
  /\ results \in Seq(ToolOutcomes) /\ Len(results) <= batch.size
  /\ answer \in Outcomes
  /\ depth \in Nat /\ lengthRetries \in 0..2 /\ httpRetry \in 0..3
  /\ {cancelRequested, toolCancel, turnEnd, followUp, nudge, compactRequested} \subseteq BOOLEAN
  /\ {approvalDone, approvalGranted, alwaysApproved, dialog, asked, escaped} \subseteq BOOLEAN
  /\ ui \in {"ready", "cancelling", "clearing", "prompting"}
  /\ lastId \in Nat /\ shrinks \in Nat /\ turn \in Nat /\ epoch \in Nat
  /\ grantTurn \in Nat /\ alwaysEpoch \in Int

\* After TuiApp::initialize: the system prompt is the first message.
Init ==
  /\ log = Put(Empty, 2, Text("system")) /\ next = 4
  /\ phase = "Idle" /\ pc = "off"
  /\ batch = NoBatch /\ results = <<>> /\ answer = "text" /\ lastId = 0 /\ asked = FALSE
  /\ depth = 0 /\ lengthRetries = 0 /\ httpRetry = 0 /\ shrinks = 0
  /\ turnEnd = FALSE /\ followUp = FALSE /\ nudge = FALSE /\ compactRequested = FALSE
  /\ approvalDone = FALSE /\ approvalGranted = FALSE /\ alwaysApproved = FALSE
  /\ cancelRequested = FALSE /\ toolCancel = FALSE
  /\ ui = "ready" /\ dialog = FALSE /\ escaped = FALSE
  /\ turn = 0 /\ epoch = 0 /\ grantTurn = 0 /\ alwaysEpoch = -1

-----------------------------------------------------------------------------
(* Session writes *)

\* addPersistedMessage for each message of ms, after the session became l.
Write(l, ms) == log' = Say(l, next, ms) /\ next' = next + 2 * Len(ms)

\* What doCompaction(force) makes of l, and how many shrinks it takes.  A cancelled
\* agent skips it; in a conversation that fits it only repairs.
Shrinking(l, force) ==
  IF cancelRequested THEN {<<l, 0>>}
  ELSE {<<Repair(l), 0>>}
       \cup (IF shrinks < MaxShrinks THEN {<<s, 1>> : s \in Shrunk(l, force)} ELSE {})

\* doCompaction(force) on l, then the messages ms.
ShrinkAndWrite(l, force, ms) ==
  \E after \in Shrinking(l, force) :
    /\ shrinks' = shrinks + after[2]
    /\ Write(after[1], ms)

\* approvalDone_ = false, in startTurn and in newTurn.
KeepVerdict == UNCHANGED approvalDone
ResetVerdict == approvalDone' = FALSE

\* newTurn consumes a turn-end request nobody honoured.
KeepTurnEnd == UNCHANGED turnEnd
ConsumeTurnEnd == turnEnd' = FALSE

\* clearSession takes ALWAYS back.
KeepAlways == UNCHANGED alwaysApproved
ForgetAlways == alwaysApproved' = FALSE

\* The locals of the Streaming case go out of scope.
ForgetReply == answer' = "text" /\ httpRetry' = 0

-----------------------------------------------------------------------------
(* The UI thread *)

\* sendMessage -> startTurn -> launchAgentThread, only when no worker runs.
StartTurn ==
  /\ ui = "ready" /\ ~ dialog /\ pc = "off" /\ turn < MaxTurns
  /\ cancelRequested' = FALSE
  /\ toolCancel' = (toolCancel \/ phase # "Idle")
  /\ approvalGranted' = (approvalGranted /\ phase = "Idle")
  /\ ResetVerdict
  /\ Write(log, <<Text("user")>>)
  /\ escaped' = FALSE
  /\ pc' = "launched"
  /\ UNCHANGED <<phase, round, reply, counters, requests, alwaysApproved, grantTurn, alwaysEpoch,
                 ui, dialog, clocks>>

\* sendMessage("/compress"): the request is served by run().
StartCompress ==
  /\ ui = "ready" /\ ~ dialog /\ pc = "off" /\ turn < MaxTurns
  /\ Write(log, <<Text("user")>>)
  /\ compactRequested' = TRUE
  /\ escaped' = FALSE
  /\ pc' = "launched"
  /\ UNCHANGED <<phase, round, reply, counters, turnEnd, followUp, nudge, approval, cancels,
                 ui, dialog, clocks>>

\* The render callback shows and hides the approval dialog by the phase.
Render ==
  /\ ui = "ready"
  /\ dialog' = (phase = "AwaitApproval") /\ dialog' # dialog
  /\ UNCHANGED <<conversation, phase, pc, round, reply, counters, requests, approval, cancels,
                 ui, escaped, clocks>>

\* A button of the dialog: approveTool(0 | 1 | 2), then the dialog closes.
ApproveTool(action) ==
  /\ ui = "ready" /\ dialog
  /\ dialog' = FALSE
  /\ approvalDone' = TRUE
  /\ approvalGranted' = (action # 0)
  /\ alwaysApproved' = (alwaysApproved \/ action = 2)
  /\ grantTurn' = IF action # 0 THEN turn ELSE grantTurn
  /\ alwaysEpoch' = IF action = 2 THEN epoch ELSE alwaysEpoch
  /\ asked' = (asked \/ phase = "AwaitApproval")
  /\ UNCHANGED <<conversation, phase, pc, batch, results, lastId, reply, counters, requests,
                 cancels, ui, escaped, clocks>>

\* Esc while busy.  The dialog is modal: with it on the screen Esc goes nowhere.
\* cancelTurn drops the queued follow-up, then cancel() raises the agent's flag.
Escape ==
  /\ ui = "ready" /\ ~ dialog /\ pc # "off"
  /\ followUp' = FALSE
  /\ cancelRequested' = TRUE
  /\ ui' = "cancelling"
  /\ UNCHANGED <<conversation, phase, pc, round, reply, counters, turnEnd, nudge,
                 compactRequested, approval, toolCancel, dialog, escaped, clocks>>

\* The rest of cancel(): the registry's flag, then the verdict for a waiting run().
CancelTools ==
  /\ ui = "cancelling"
  /\ toolCancel' = TRUE
  /\ approvalDone' = TRUE /\ approvalGranted' = FALSE
  /\ ui' = "ready" /\ escaped' = TRUE
  /\ UNCHANGED <<conversation, phase, pc, round, reply, counters, requests, alwaysApproved,
                 grantTurn, alwaysEpoch, cancelRequested, dialog, clocks>>

\* F3: reinitConversation, which nothing keeps from running under a worker.
NewChat ==
  /\ ui = "ready" /\ ~ dialog /\ epoch < MaxClears
  /\ cancelRequested' = TRUE
  /\ ui' = "clearing"
  /\ UNCHANGED <<conversation, phase, pc, round, reply, counters, requests, approval, toolCancel,
                 dialog, escaped, clocks>>

\* The rest of cancel(), then clearSession.
ClearSession ==
  /\ ui = "clearing"
  /\ cancelRequested' = TRUE /\ toolCancel' = TRUE
  /\ approvalDone' = TRUE /\ approvalGranted' = FALSE /\ ForgetAlways
  /\ log' = Empty /\ next' = 2
  /\ depth' = 0
  /\ phase' = "Idle"
  /\ epoch' = epoch + 1
  /\ ui' = "prompting"
  /\ UNCHANGED <<pc, round, reply, lengthRetries, shrinks, requests, grantTurn, alwaysEpoch,
                 dialog, escaped, turn>>

\* The new system prompt, the directory tree and AGENTS.md as one message.
InjectPrompt ==
  /\ ui = "prompting"
  /\ Write(log, <<Text("system")>>)
  /\ ui' = "ready"
  /\ UNCHANGED <<phase, pc, round, reply, counters, requests, approval, cancels, dialog, escaped,
                 clocks>>

User == \/ StartTurn \/ StartCompress \/ Render \/ Escape \/ NewChat
        \/ \E action \in 0..2 : ApproveTool(action)

-----------------------------------------------------------------------------
(* The worker thread: between turns *)

\* newTurn(), then the nudge at the top of run().
NewTurn ==
  /\ pc = "launched"
  /\ cancelRequested' = FALSE /\ toolCancel' = FALSE
  /\ ConsumeTurnEnd
  /\ ResetVerdict
  /\ batch' = NoBatch /\ results' = <<>>
  /\ Write(log, IF nudge THEN <<Text("system")>> ELSE <<>>)
  /\ nudge' = FALSE
  /\ turn' = turn + 1
  /\ pc' = "entered"
  /\ UNCHANGED <<phase, lastId, asked, reply, counters, followUp, compactRequested,
                 approvalGranted, alwaysApproved, grantTurn, alwaysEpoch, screen, epoch>>

\* doCompaction, checkContextWarning (a conversation that nearly fills the context,
\* counted as a shrink), and on to the first request.
RunBegin ==
  /\ pc = "entered" /\ ~ compactRequested
  /\ \/ ShrinkAndWrite(log, FALSE, <<>>)
     \/ /\ shrinks < MaxShrinks
        /\ \E after \in Shrinking(log, FALSE) : Write(after[1], <<Text("system")>>)
        /\ shrinks' = shrinks + 1
  /\ depth' = 0 /\ lengthRetries' = 0
  /\ phase' = "Streaming"
  /\ pc' = "loop"
  /\ UNCHANGED <<round, reply, requests, approval, cancels, screen, clocks>>

CompressBegin ==
  /\ pc = "entered" /\ compactRequested
  /\ compactRequested' = FALSE
  /\ phase' = "Streaming"
  /\ pc' = "compress"
  /\ UNCHANGED <<conversation, round, reply, counters, turnEnd, followUp, nudge, approval,
                 cancels, screen, clocks>>

CompressEnd ==
  /\ pc = "compress"
  /\ ShrinkAndWrite(log, TRUE, <<Text("assistant")>>)
  /\ phase' = "Idle"
  /\ pc' = "loop"
  /\ UNCHANGED <<round, reply, depth, lengthRetries, requests, approval, cancels, screen,
                 clocks>>

\* The end of run().
LeaveAsIs ==
  /\ pc = "leaving"
  /\ pc' = "returned"
  /\ UNCHANGED <<conversation, phase, round, reply, counters, requests, approval, cancels,
                 screen, clocks>>

Leave ==
  /\ pc = "leaving"
  /\ phase' = "Idle"
  /\ pc' = "returned"
  /\ UNCHANGED <<conversation, round, reply, counters, requests, approval, cancels, screen,
                 clocks>>

\* Behind run() in runAgentTurnLoop, nothing left to do: the worker ends.
Finish ==
  /\ pc = "returned" /\ (toolCancel \/ ~ followUp)
  /\ followUp' = FALSE
  /\ pc' = "off"
  /\ UNCHANGED <<conversation, phase, round, reply, counters, turnEnd, nudge, compactRequested,
                 approval, cancels, screen, clocks>>

\* The queued images or the queued skill, taken over by the worker.
StartImages ==
  /\ pc = "returned" /\ ~ toolCancel /\ followUp
  /\ followUp' = FALSE
  /\ pc' = "images"
  /\ UNCHANGED <<conversation, phase, round, reply, counters, turnEnd, nudge, compactRequested,
                 approval, cancels, screen, clocks>>

\* A synthetic user message with the images, then one more turn unless cancelled.
ShowImages ==
  /\ pc = "images"
  /\ Write(log, <<Text("user")>>)
  /\ pc' = IF toolCancel THEN "off" ELSE "launched"
  /\ UNCHANGED <<phase, round, reply, counters, requests, approval, cancels, screen, clocks>>

StartSkill ==
  /\ pc = "returned" /\ ~ toolCancel /\ followUp
  /\ followUp' = FALSE
  /\ pc' = "skill"
  /\ UNCHANGED <<conversation, phase, round, reply, counters, turnEnd, nudge, compactRequested,
                 approval, cancels, screen, clocks>>

\* The skill has narrated and returned.  Without a cancel, a turn to report it.
SkillDone ==
  /\ pc = "skill"
  /\ Write(log, <<Text("assistant")>>)
  /\ nudge' = (nudge \/ ~ toolCancel)
  /\ pc' = IF toolCancel THEN "off" ELSE "launched"
  /\ UNCHANGED <<phase, round, reply, counters, turnEnd, followUp, compactRequested, approval,
                 cancels, screen, clocks>>

-----------------------------------------------------------------------------
(* The worker thread: the loop of run() *)

\* The condition of the loop.
NotIdle == phase # "Idle"
GoesOn == phase # "Idle" /\ ~ cancelRequested

LeaveLoop ==
  /\ pc = "loop" /\ ~ GoesOn
  /\ pc' = "leaving"
  /\ UNCHANGED <<conversation, phase, round, reply, counters, requests, approval, cancels,
                 screen, clocks>>

SendRequest ==
  /\ pc = "loop" /\ GoesOn /\ phase = "Streaming"
  /\ pc' = "stream"
  /\ UNCHANGED <<conversation, phase, round, reply, counters, requests, approval, cancels,
                 screen, clocks>>

EnterTools ==
  /\ pc = "loop" /\ GoesOn /\ phase = "ExecutingTools"
  /\ pc' = "tools"
  /\ UNCHANGED <<conversation, phase, round, reply, counters, requests, approval, cancels,
                 screen, clocks>>

DropError ==
  /\ pc = "loop" /\ GoesOn /\ phase \in {"AwaitApproval", "Error"}
  /\ phase' = "Idle"
  /\ UNCHANGED <<conversation, pc, round, reply, counters, requests, approval, cancels, screen,
                 clocks>>

\* streamBlocking returns; a cancelled run() looks at nothing it returned.
StreamEnds ==
  /\ pc = "stream" /\ ~ cancelRequested
  /\ answer' \in {o \in Outcomes : o = "calls" => lastId < MaxCalls}
  /\ pc' = "answered"
  /\ UNCHANGED <<conversation, phase, round, httpRetry, counters, requests, approval, cancels,
                 screen, clocks>>

StreamCancelled ==
  /\ pc = "stream" /\ cancelRequested
  /\ pc' = "loop"
  /\ ForgetReply
  /\ UNCHANGED <<conversation, phase, round, counters, requests, approval, cancels, screen,
                 clocks>>

\* HTTP 4xx, fewer than three retries: repair, compact when the error says the
\* context is too long, send again.
Retry ==
  /\ pc = "answered" /\ answer \in {"http4", "tooLong"} /\ httpRetry < 3
  /\ IF answer = "tooLong" THEN ShrinkAndWrite(Repair(log), TRUE, <<>>)
     ELSE log' = Repair(log) /\ UNCHANGED <<next, shrinks>>
  /\ httpRetry' = httpRetry + 1
  /\ pc' = "stream"
  /\ UNCHANGED <<phase, round, answer, depth, lengthRetries, requests, approval, cancels,
                 screen, clocks>>

\* The retries are spent, or one of them failed in another way.
GiveUp ==
  /\ pc = "answered"
  /\ \/ answer \in {"http4", "tooLong"} /\ httpRetry = 3
     \/ answer = "broken" /\ httpRetry > 0
  /\ Write(PopLastAssistant(log), <<Failure("assistant")>>)
  /\ phase' = "Idle"
  /\ pc' = "loop"
  /\ ForgetReply
  /\ UNCHANGED <<round, counters, requests, approval, cancels, screen, clocks>>

StreamBroken ==
  /\ pc = "answered" /\ answer = "broken" /\ httpRetry = 0
  /\ phase' = "Error"
  /\ pc' = "loop"
  /\ ForgetReply
  /\ UNCHANGED <<conversation, round, counters, requests, approval, cancels, screen, clocks>>

\* reasoningLengthRetries_ allows two retries in a turn.
ThirdRetryLeft == lengthRetries <= 2
LengthRetryLeft == lengthRetries < 2

\* The final answer, or reasoning without one and no retry left.
TakeText ==
  /\ pc = "answered"
  /\ answer \in {"text", "reasoning"} \/ (answer = "length" /\ ~ LengthRetryLeft)
  /\ Write(log, <<Text("assistant")>>)
  /\ phase' = "Idle"
  /\ pc' = "loop"
  /\ ForgetReply
  /\ UNCHANGED <<round, counters, requests, approval, cancels, screen, clocks>>

TakeNothing ==
  /\ pc = "answered" /\ answer = "empty"
  /\ phase' = "Idle"
  /\ pc' = "loop"
  /\ ForgetReply
  /\ UNCHANGED <<conversation, round, counters, requests, approval, cancels, screen, clocks>>

\* Reasoning used the whole budget: ask again for a concise answer, twice at most.
\* A cancel seen here saves the placeholder instead (TakePlaceholder).
LengthRetry ==
  /\ pc = "answered" /\ answer = "length" /\ LengthRetryLeft /\ ~ cancelRequested
  /\ lengthRetries' = lengthRetries + 1
  /\ Write(log, <<Text("system")>>)
  /\ phase' = "Streaming"
  /\ pc' = "loop"
  /\ ForgetReply
  /\ UNCHANGED <<round, depth, shrinks, requests, approval, cancels, screen, clocks>>

TakePlaceholder ==
  /\ pc = "answered" /\ answer = "length" /\ LengthRetryLeft /\ cancelRequested
  /\ Write(log, <<Text("assistant")>>)
  /\ phase' = "Idle"
  /\ pc' = "loop"
  /\ ForgetReply
  /\ UNCHANGED <<round, counters, requests, approval, cancels, screen, clocks>>

\* Tool calls: the assistant message is written, then the batch runs or waits for
\* the user.
TakeCalls ==
  /\ pc = "answered" /\ answer = "calls"
  /\ \E size \in 1..MaxBatch, destructive \in BOOLEAN :
       /\ lastId + size <= MaxCalls
       /\ batch' = [first |-> lastId + 1, size |-> size, destructive |-> destructive]
       /\ lastId' = lastId + size
       /\ LET wait == destructive /\ ~ alwaysApproved
          IN  /\ phase' = IF wait THEN "AwaitApproval" ELSE "ExecutingTools"
              /\ pc' = IF wait THEN "approval" ELSE "loop"
  /\ Write(log, <<Calling(Ids(batch'))>>)
  /\ results' = <<>>
  /\ asked' = FALSE
  /\ ForgetReply
  /\ UNCHANGED <<counters, requests, approval, cancels, screen, clocks>>

\* approvalCv_.wait returns.  The verdict may be one given for an earlier batch.
Approved ==
  /\ pc = "approval" /\ approvalDone /\ approvalGranted /\ ~ cancelRequested
  /\ phase' = "ExecutingTools"
  /\ pc' = "loop"
  /\ UNCHANGED <<conversation, round, reply, counters, requests, approval, cancels, screen,
                 clocks>>

RejectedFallsThrough ==
  /\ pc = "approval" /\ approvalDone /\ ~ approvalGranted /\ ~ cancelRequested
  /\ log' = ClearLastCalls(log)
  /\ phase' = "ExecutingTools"
  /\ pc' = "loop"
  /\ UNCHANGED <<next, round, reply, counters, requests, approval, cancels, screen, clocks>>

Rejected ==
  /\ pc = "approval" /\ approvalDone /\ ~ approvalGranted /\ ~ cancelRequested
  /\ log' = ClearLastCalls(log)
  /\ phase' = "Streaming"
  /\ pc' = "loop"
  /\ UNCHANGED <<next, round, reply, counters, requests, approval, cancels, screen, clocks>>

WaitCancelled ==
  /\ pc = "approval" /\ cancelRequested
  /\ pc' = "loop"
  /\ UNCHANGED <<conversation, phase, round, reply, counters, requests, approval, cancels,
                 screen, clocks>>

-----------------------------------------------------------------------------
(* The worker thread: a round of tools *)

ToolStart ==
  /\ pc = "tools" /\ Len(results) < batch.size /\ ~ cancelRequested
  /\ phase' = "ExecutingTools"
  /\ pc' = "tool"
  /\ UNCHANGED <<conversation, round, reply, counters, requests, approval, cancels, screen,
                 clocks>>

\* requestTurnEnd, which run_skill and view_image call.
AsksNothing(outcome) == FALSE
AsksTurnEnd(outcome) == outcome = "endTurn"

\* executeTool returns.  run_skill and view_image ("endTurn") claim the turn's one
\* follow-up and ask for the end of the turn.  A result that finds the registry
\* cancelled ends the round.
ToolDone ==
  /\ pc = "tool"
  /\ \E outcome \in ToolOutcomes :
       /\ outcome = "endTurn" => ~ followUp /\ turn < MaxTurns
       /\ results' = Append(results, outcome)
       /\ turnEnd' = (turnEnd \/ AsksTurnEnd(outcome))
       /\ followUp' = (followUp \/ outcome = "endTurn")
  /\ log' = IF toolCancel THEN StripLast(log) ELSE log
  /\ pc' = IF toolCancel THEN "loop" ELSE "tools"
  /\ UNCHANGED <<next, phase, batch, lastId, asked, reply, counters, nudge, compactRequested,
                 approval, cancels, screen, clocks>>

\* A cancel seen between two tools, or behind the last one.
RoundCancelled ==
  /\ pc = "tools" /\ cancelRequested
  /\ log' = StripLast(log)
  /\ pc' = "loop"
  /\ UNCHANGED <<next, phase, round, reply, counters, requests, approval, cancels, screen,
                 clocks>>

RoundOver == pc = "tools" /\ Len(results) = batch.size /\ ~ cancelRequested

ResultMessages ==
  [k \in DOMAIN results |-> Result(batch.first + k - 1, results[k] = "failed")]

\* A reminder of a workspace violation.
ViolationMessages ==
  IF \E k \in DOMAIN results : results[k] = "outside" THEN <<Text("system")>> ELSE <<>>

\* What a round adds to the session.
ReminderFirst == ViolationMessages \o ResultMessages
RoundMessages == ResultMessages \o ViolationMessages

Failures == {k \in DOMAIN results : results[k] = "failed"}

\* consec: errors at the end of the round.
ConsecutiveFailures ==
  Cardinality({k \in Failures : k .. Len(results) \subseteq Failures})

\* The session and its next position behind the results and, when the depth is
\* reached, the reminder: batch complete, or stuck in a loop when some tool
\* failed twice (which tool a call is for, the model does not say).
AfterRound ==
  LET said == Say(log, next, RoundMessages)
      at   == next + 2 * Len(RoundMessages)
  IN  IF depth < MaxDepth THEN {<<said, at>>}
      ELSE {<<Put(said, at, Text("system")), at + 2>>}
           \cup (IF Cardinality(Failures) < 2 THEN {}
                 ELSE {<<Put(SoftStripLast(said), at, Failure("system")), at + 2>>})

\* A tool asked to end the turn.
RoundEndsTurn ==
  /\ RoundOver /\ turnEnd
  /\ turnEnd' = FALSE
  /\ Write(log, RoundMessages)
  /\ batch' = NoBatch /\ results' = <<>>
  /\ phase' = "Idle"
  /\ pc' = "loop"
  /\ UNCHANGED <<lastId, asked, reply, counters, followUp, nudge, compactRequested, approval,
                 cancels, screen, clocks>>

\* Two errors in a row: the calls are stripped, their results stay.
RoundFailed ==
  /\ RoundOver /\ ~ turnEnd /\ ConsecutiveFailures >= 2
  /\ \E after \in AfterRound :
       /\ log' = Put(StripLast(after[1]), after[2], Failure("system"))
       /\ next' = after[2] + 2
  /\ depth' = 0
  /\ batch' = NoBatch /\ results' = <<>>
  /\ phase' = "Streaming"
  /\ pc' = "loop"
  /\ UNCHANGED <<lastId, asked, reply, lengthRetries, shrinks, requests, approval, cancels,
                 screen, clocks>>

\* doCompaction and repairSession, then the next request.
NextRound ==
  /\ RoundOver /\ ~ turnEnd /\ ConsecutiveFailures < 2
  /\ \E after \in AfterRound :
       \E shrunk \in Shrinking(after[1], FALSE) :
         /\ log' = Repair(shrunk[1])
         /\ next' = after[2]
         /\ shrinks' = shrinks + shrunk[2]
  /\ depth' = 1 + IF depth < MaxDepth THEN depth ELSE 0
  /\ batch' = NoBatch /\ results' = <<>>
  /\ phase' = "Streaming"
  /\ pc' = "loop"
  /\ UNCHANGED <<lastId, asked, reply, lengthRetries, requests, approval, cancels, screen,
                 clocks>>

-----------------------------------------------------------------------------
(* The specification *)

Stream == \/ SendRequest \/ StreamEnds \/ StreamCancelled \/ Retry \/ GiveUp \/ StreamBroken
          \/ TakeText \/ TakeNothing \/ LengthRetry \/ TakePlaceholder \/ TakeCalls

Approval == Approved \/ Rejected \/ WaitCancelled

Tools == \/ EnterTools \/ ToolStart \/ ToolDone \/ RoundCancelled
         \/ RoundEndsTurn \/ RoundFailed \/ NextRound

Turns == \/ NewTurn \/ RunBegin \/ CompressBegin \/ CompressEnd \/ LeaveLoop \/ DropError
         \/ Leave \/ Finish \/ StartImages \/ ShowImages \/ StartSkill \/ SkillDone

Worker == Stream \/ Approval \/ Tools \/ Turns

\* What the UI thread goes on with once the user has pressed the key.
Handler == CancelTools \/ ClearSession \/ InjectPrompt

\* Nobody has anything to do: the user reads.
Rest == pc = "off" /\ ui = "ready" /\ UNCHANGED vars

Next == User \/ Handler \/ Worker \/ Rest

Spec == Init /\ [][Next]_vars

\* Both threads run; the user need not do anything.
FairSpec == Spec /\ WF_vars(Worker) /\ WF_vars(Handler)

-----------------------------------------------------------------------------
(* Safety *)

\* A request that is sent again after an HTTP 4xx carries a conversation whose
\* tool calls and tool results pair up, whatever came before: Session::
\* repairOrphanedToolCalls (src/src/core/session.cpp), called from the retry loop
\* of Agent::run, mends everything that a turn can have broken.
RetryIsPaired == pc = "stream" /\ httpRetry > 0 => WellPaired(log)

\* Every request carries a paired conversation.
RequestIsPaired == pc = "stream" => WellPaired(log)

\* The first attempt too, unless the round before it ended in two failures: that
\* path of Agent::run strips the calls, keeps the results and repairs nothing.
RequestIsPairedOrFailed ==
  pc = "stream" => WellPaired(log) \/ \E i \in Of(log, "system") : log[i].marked

\* A tool of a destructive batch starts only when the user said YES in this turn or ALWAYS in
\* this conversation, although the verdict sits in flags that survive from batch
\* to batch and from turn to turn (approvalDone_, approvalGranted_,
\* destructiveApproved_).
DestructiveNeedsConsent ==
  [][pc # "tool" /\ pc' = "tool" /\ batch.destructive
       => grantTurn = turn \/ alwaysEpoch = epoch]_vars

\* The user was asked about this very batch (and nobody pressed Esc meanwhile).
EveryBatchAsked ==
  pc = "tool" /\ batch.destructive /\ ~ escaped => asked \/ alwaysEpoch = epoch

\* The tool that runs belongs to a call the conversation still holds, so that its
\* result will have a call to answer: nothing erases the calls of a batch while
\* the batch runs, unless the user cancelled it or replaced the conversation.
RunningCallIsKept ==
  pc = "tool" /\ ~ toolCancel =>
    \E i \in Callers(log) : batch.first + Len(results) \in log[i].calls

\* A follow-up phase (skill, images) is queued only by a tool of the batch at hand,
\* and the model gets no request before it ran: run_skill and view_image end the
\* turn, and neither a cancelled round nor a new turn lets the claim leak.
FollowUpEndsTurn == pc \in {"stream", "answered", "approval"} => ~ followUp

\* A turn ends early only for a tool of this very round.
TurnEndIsOwn ==
  pc \in {"tools", "tool"} /\ turnEnd => \E k \in DOMAIN results : results[k] = "endTurn"

\* Between turns the phase is Idle, so that the next startTurn neither cancels nor
\* finds an approval to wait for; two threads store it (Agent::run and clearSession).
QuietWhenIdle == pc = "off" => phase = "Idle"

\* The conversation starts with the system prompt, which no pruning, compaction or
\* repair removes (buildChatRequest inserts its dynamic block behind it).
PromptFirst == ui # "prompting" /\ DOMAIN log # {} => log[Earliest(DOMAIN log)].role = "system"

-----------------------------------------------------------------------------
(* Liveness *)

\* A cancelled worker comes to its end, or a turn begun behind the cancel takes
\* the cancel back: no wait, for the user's verdict in particular, holds it.
CancelReleasesAgent == cancelRequested /\ pc # "off" ~> pc = "off" \/ ~ cancelRequested
=============================================================================
