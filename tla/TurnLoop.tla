------------------------------- MODULE TurnLoop ------------------------------
(***************************************************************************)
(* TuiApp (src/src/tui/app_tui.cpp): who may drive the agent.  Three       *)
(* threads take part.  The UI thread dispatches messages, cancels, resets  *)
(* and shuts down; the agent thread runs turns and the follow-up phases    *)
(* between them (runAgentTurnLoop); the skill thread runs a skill the user *)
(* started directly (startSkill).                                          *)
(*                                                                         *)
(* AgentLoop has the inside of Agent::run.  Here it is four points: the    *)
(* model thinks, a tool runs, the user is asked, run() has returned.       *)
(***************************************************************************)
EXTENDS Integers, Sequences

CONSTANTS
  Skills,       \* installed skills
  SkillCap,     \* skills per user message (4 in the run_skill executor)
  Kinds,        \* what the user types
  MaxTyped,     \* most messages typed
  MaxRounds,    \* most tools and questions of the agent
  MaxSteps      \* most steps of a skill

ASSUME TurnLoopAssumption ==
  /\ SkillCap \in Nat /\ MaxTyped \in Nat /\ MaxRounds \in Nat /\ MaxSteps \in Nat
  /\ "none" \notin Skills
  /\ Kinds \subseteq {"turn", "skill", "quick", "clear"}

VARIABLES
  queue,             \* pendingQueue_
  running,           \* agentThreadRunning_
  ui, after,         \* where the UI thread is, and where its cancel() returns to
  quit,              \* the user quits: the loop of main draws a last frame at most
  wake,              \* a frame is due: an event was posted or a key handled
  agent,             \* where the agent thread is
  slot,              \* turnRequest_
  pendingSkill, pendingImages,
  lastSkill, skillCalls,
  cancelRequested,   \* Agent::cancelRequested_
  toolCancel,        \* ToolRegistry::cancelRequested_
  turnEnd,           \* ToolRegistry::turnEndRequested_
  approvalDone,      \* Agent::approvalDone_
  skill,             \* thread -> where it is in runSkillBlocking
  runner,            \* the thread whose SkillRunner is published, or "none"
  halted,            \* thread -> SkillRunner::cancelRequested_
  steps,             \* thread -> steps its skill has begun
  typed, rounds,     \* bounds: messages typed, tools and questions so far
  current,           \* history: the message dispatched last
  ran,               \* history: the skills the agent queued for it
  stopped,           \* history: thread -> the user cancelled during its skill
  takenBack          \* history: a newTurn() found a cancel and reset it

messages == <<queue, running, wake, typed, current>>
pending == <<pendingSkill, pendingImages>>
screen == <<ui, after, quit>>
requests == <<slot, pendingSkill, pendingImages, turnEnd>>
budget == <<lastSkill, skillCalls, ran>>
flags == <<cancelRequested, toolCancel, approvalDone, takenBack>>
skills == <<skill, runner, halted, steps, stopped>>
vars == <<messages, screen, agent, requests, budget, flags, skills, rounds>>

Threads == {"agent", "direct"}

Message == [n: 1..MaxTyped, kind: Kinds]

NoMessage == [n |-> 0, kind |-> "none"]

AgentPoints == {"off", "begin", "launched", "run", "tool", "approval", "returned", "taking",
                "images", "skill", "closing", "ending", "posting"}

SkillPoints == {"off", "prepare", "between", "step", "over", "posting"}

UiPoints == {"ready", "cancelling", "raised", "clearing", "joinSkill", "joinAgent", "down"}

TypeOK ==
  /\ queue \in Seq(Message) /\ running \in BOOLEAN /\ wake \in BOOLEAN
  /\ ui \in UiPoints /\ after \in {"ready", "clearing", "joinAgent"}
  /\ quit \in {"no", "leaving", "left"}
  /\ agent \in AgentPoints
  /\ slot \in {"None", "Skill", "Image"}
  /\ pendingSkill \in Skills \cup {"none"} /\ pendingImages \in BOOLEAN
  /\ lastSkill \in Skills \cup {"none"} /\ skillCalls \in 0..SkillCap
  /\ cancelRequested \in BOOLEAN /\ toolCancel \in BOOLEAN /\ turnEnd \in BOOLEAN
  /\ approvalDone \in BOOLEAN /\ takenBack \in BOOLEAN
  /\ skill \in [Threads -> SkillPoints]
  /\ runner \in Threads \cup {"none"}
  /\ halted \in [Threads -> BOOLEAN] /\ stopped \in [Threads -> BOOLEAN]
  /\ steps \in [Threads -> Nat]
  /\ typed \in Nat /\ rounds \in Nat
  /\ current \in Message \cup {NoMessage}
  /\ ran \in Seq(Skills)

Init ==
  /\ queue = <<>> /\ running = FALSE /\ wake = FALSE /\ typed = 0 /\ current = NoMessage
  /\ ui = "ready" /\ after = "ready" /\ quit = "no"
  /\ agent = "off"
  /\ slot = "None" /\ pendingSkill = "none" /\ pendingImages = FALSE /\ turnEnd = FALSE
  /\ lastSkill = "none" /\ skillCalls = 0 /\ ran = <<>>
  /\ cancelRequested = FALSE /\ toolCancel = FALSE /\ approvalDone = FALSE /\ takenBack = FALSE
  /\ skill = [t \in Threads |-> "off"] /\ runner = "none"
  /\ halted = [t \in Threads |-> FALSE] /\ stopped = [t \in Threads |-> FALSE]
  /\ steps = [t \in Threads |-> 0]
  /\ rounds = 0

-----------------------------------------------------------------------------
(* The UI thread: messages *)

\* startTurn and launchAgentThread.  (/compress launches the agent, too.)
BeginTurn(m) ==
  /\ m.kind = "turn" /\ agent = "off"
  /\ cancelRequested' = FALSE /\ approvalDone' = FALSE
  /\ agent' = "begin"
  /\ running' = TRUE
  /\ UNCHANGED <<ui, after, toolCancel, takenBack, skills>>

\* startSkill, which joins the skill thread first.
BeginSkill(m) ==
  /\ m.kind = "skill" /\ skill["direct"] = "off"
  /\ skill' = [skill EXCEPT !["direct"] = "prepare"]
  /\ steps' = [steps EXCEPT !["direct"] = 0]
  /\ halted' = [halted EXCEPT !["direct"] = FALSE]
  /\ stopped' = [stopped EXCEPT !["direct"] = FALSE]
  /\ running' = TRUE
  /\ UNCHANGED <<ui, after, agent, flags, runner>>

\* /help, /workspace, /skill list, a message refused for its markers.
Answer(m) ==
  /\ m.kind = "quick"
  /\ UNCHANGED <<running, ui, after, agent, flags, skills>>

\* /clear: reinitConversation, which begins with cancel().
Clear(m) ==
  /\ m.kind = "clear"
  /\ ui' = "cancelling" /\ after' = "clearing"
  /\ UNCHANGED <<running, agent, flags, skills>>

\* sendMessage while nothing runs.
Send(m) ==
  /\ ~ running
  /\ BeginTurn(m) \/ BeginSkill(m) \/ Answer(m) \/ Clear(m)
  /\ current' = m

\* sendMessage while something runs.
Hold(m) ==
  /\ running
  /\ queue' = Append(queue, m)
  /\ UNCHANGED <<running, current, ui, after, agent, flags, skills>>

Ready == ui = "ready" /\ quit = "no"

\* Enter.
Type ==
  /\ Ready /\ typed < MaxTyped
  /\ \E kind \in Kinds :
       LET m == [n |-> typed + 1, kind |-> kind]
       IN  Hold(m) \/ (Send(m) /\ UNCHANGED queue)
  /\ typed' = typed + 1
  /\ wake' = TRUE
  /\ UNCHANGED <<quit, requests, budget, rounds>>

\* A frame: syncChatFromAgent sends a message that waits (drainPendingQueue), and
\* while something runs the renderer asks for the next frame.
DrawQuietly ==
  /\ running \/ queue = <<>>
  /\ UNCHANGED <<queue, running, current, ui, after, agent, flags, skills>>

DrainAgain ==
  /\ queue # <<>>
  /\ Send(Head(queue))
  /\ UNCHANGED queue

DrainAfterTurn ==
  /\ queue # <<>> /\ current.kind = "turn"
  /\ Send(Head(queue))
  /\ queue' = Tail(queue)

DrainPendingQueue ==
  /\ queue # <<>>
  /\ Send(Head(queue))
  /\ queue' = Tail(queue)

Frame ==
  /\ ui = "ready" /\ quit # "left" /\ wake
  /\ DrawQuietly \/ DrainPendingQueue
  /\ wake' = running'
  /\ quit' = IF quit = "leaving" THEN "left" ELSE quit
  /\ UNCHANGED <<typed, requests, budget, rounds>>

-----------------------------------------------------------------------------
(* The UI thread: cancels *)

\* SkillRunner::cancel on the published runner.
HaltRunner == halted' = [t \in Threads |-> halted[t] \/ t = runner]

\* A cancel of the user, for the skill that runs or is about to.
NoteStop == stopped' = [t \in Threads |-> stopped[t] \/ skill[t] \notin {"off", "posting"}]

\* turnRequest_.release with both requests reset.
DropPending == UNCHANGED slot /\ pendingSkill' = "none" /\ pendingImages' = FALSE
DropRequests == slot' = "None" /\ pendingSkill' = "none" /\ pendingImages' = FALSE

\* Esc while something runs: cancelTurn up to agent->cancel().
Escape ==
  /\ Ready /\ running
  /\ queue' = <<>>
  /\ DropRequests
  /\ HaltRunner /\ NoteStop
  /\ ui' = "cancelling" /\ after' = "ready"
  /\ wake' = TRUE
  /\ UNCHANGED <<quit, running, typed, current, agent, turnEnd, budget, flags, skill, runner,
                 steps, rounds>>

\* F3 or a session opened with F5: reinitConversation and switchToDialog cancel first.
NewChat ==
  /\ Ready
  /\ ui' = "cancelling" /\ after' = "clearing"
  /\ NoteStop
  /\ wake' = TRUE
  /\ UNCHANGED <<quit, queue, running, typed, current, agent, requests, budget, flags, skill,
                 runner, halted, steps, rounds>>

\* Agent::cancel: the agent's flag, then the registry's and the verdict.
RaiseAgent ==
  /\ ui = "cancelling"
  /\ cancelRequested' = TRUE
  /\ ui' = "raised"
  /\ UNCHANGED <<after, quit, messages, agent, requests, budget, toolCancel, approvalDone,
                 takenBack, skills, rounds>>

RaiseTools ==
  /\ ui = "raised"
  /\ toolCancel' = TRUE /\ approvalDone' = TRUE
  /\ ui' = after
  /\ UNCHANGED <<after, quit, messages, agent, requests, budget, cancelRequested, takenBack,
                 skills, rounds>>

\* clearSession cancels once more.
ClearSession ==
  /\ ui = "clearing"
  /\ cancelRequested' = TRUE /\ toolCancel' = TRUE /\ approvalDone' = TRUE
  /\ ui' = "ready"
  /\ UNCHANGED <<after, quit, messages, agent, requests, budget, takenBack, skills, rounds>>

\* A button of the approval dialog.
ApproveTool ==
  /\ Ready /\ agent = "approval"
  /\ approvalDone' = TRUE
  /\ UNCHANGED <<screen, messages, agent, requests, budget, cancelRequested, toolCancel,
                 takenBack, skills, rounds>>

-----------------------------------------------------------------------------
(* The UI thread: the end *)

\* Esc while nothing runs, Ctrl-C at any time: screen.Loop returns.
Quit ==
  /\ Ready
  /\ quit' = "leaving"
  /\ UNCHANGED <<ui, after, messages, agent, requests, budget, flags, skills, rounds>>

\* shutdown up to joinSkillThread.
Shutdown ==
  /\ ui = "ready" /\ quit # "no"
  /\ HaltRunner
  /\ quit' = "left"
  /\ ui' = "joinSkill"
  /\ UNCHANGED <<after, messages, agent, requests, budget, flags, skill, runner, steps, stopped,
                 rounds>>

\* The skill thread has ended; agent->cancel() begins.
SkipCancel == ui' = "joinAgent" /\ UNCHANGED after
CancelAtExit == ui' = "cancelling" /\ after' = "joinAgent"

NotPublished == runner # "direct"
SkillJoined == skill["direct"] = "off"

JoinSkill ==
  /\ ui = "joinSkill" /\ SkillJoined
  /\ CancelAtExit
  /\ UNCHANGED <<quit, messages, agent, requests, budget, flags, skills, rounds>>

\* The agent thread has ended; the agent is deleted and the database closed.
JoinAgent ==
  /\ ui = "joinAgent" /\ agent = "off"
  /\ ui' = "down"
  /\ UNCHANGED <<after, quit, messages, agent, requests, budget, flags, skills, rounds>>

-----------------------------------------------------------------------------
(* The agent thread: runAgentTurnLoop *)

Goto(point) == agent' = point

Begin ==
  /\ agent = "begin"
  /\ skillCalls' = 0 /\ lastSkill' = "none" /\ ran' = <<>>
  /\ slot' = "None"
  /\ Goto("launched")
  /\ UNCHANGED <<screen, messages, pending, turnEnd, flags, skills, rounds>>

NewTurn ==
  /\ agent = "launched"
  /\ cancelRequested' = FALSE /\ toolCancel' = FALSE /\ approvalDone' = FALSE
  /\ takenBack' = (takenBack \/ cancelRequested)
  /\ turnEnd' = FALSE
  /\ Goto("run")
  /\ UNCHANGED <<screen, messages, slot, pending, budget, skills, rounds>>

\* Agent::run: a tool of the model, unless it was cancelled.
StartTool ==
  /\ agent = "run" /\ ~ cancelRequested /\ rounds < MaxRounds
  /\ Goto("tool")
  /\ rounds' = rounds + 1
  /\ UNCHANGED <<screen, messages, requests, budget, flags, skills>>

\* The run_skill executor accepts: the slot is free (turnRequest_.claim), the skill
\* is not the one that ran last, the cap is not reached.
AnySkill(s) == s \in Skills
NewSkill(s) == lastSkill # s

AtCap == skillCalls <= SkillCap
UnderCap == skillCalls < SkillCap

RunSkill(s) ==
  /\ agent = "tool"
  /\ slot = "None" /\ NewSkill(s) /\ UnderCap
  /\ slot' = "Skill" /\ pendingSkill' = s
  /\ lastSkill' = s /\ skillCalls' = skillCalls + 1
  /\ ran' = Append(ran, s)
  /\ turnEnd' = TRUE
  /\ Goto("run")
  /\ UNCHANGED <<screen, messages, pendingImages, flags, skills, rounds>>

\* The view_image executor accepts.
ViewImage ==
  /\ agent = "tool"
  /\ slot = "None"
  /\ slot' = "Image" /\ pendingImages' = TRUE
  /\ turnEnd' = TRUE
  /\ Goto("run")
  /\ UNCHANGED <<screen, messages, pendingSkill, budget, flags, skills, rounds>>

\* Any other tool, and a request that is refused.
OtherTool ==
  /\ agent = "tool"
  /\ Goto("run")
  /\ UNCHANGED <<screen, messages, requests, budget, flags, skills, rounds>>

\* A destructive batch waits for the user.
AskUser ==
  /\ agent = "run" /\ ~ cancelRequested /\ ~ turnEnd /\ rounds < MaxRounds
  /\ Goto("approval")
  /\ rounds' = rounds + 1
  /\ UNCHANGED <<screen, messages, requests, budget, flags, skills>>

WaitOver ==
  /\ agent = "approval" /\ (approvalDone \/ cancelRequested)
  /\ Goto("run")
  /\ UNCHANGED <<screen, messages, requests, budget, flags, skills, rounds>>

\* run() returns: a final answer, an error, a cancel, a turn-end request honoured.
RunEnds ==
  /\ agent = "run"
  /\ turnEnd' = (turnEnd /\ cancelRequested)
  /\ Goto("returned")
  /\ UNCHANGED <<screen, messages, slot, pending, budget, flags, skills, rounds>>

\* The test of the registry's flag behind run().
Returned ==
  /\ agent = "returned"
  /\ Goto(IF toolCancel THEN "closing" ELSE "taking")
  /\ UNCHANGED <<screen, messages, requests, budget, flags, skills, rounds>>

TakeImages ==
  /\ agent = "taking" /\ pendingImages
  /\ pendingImages' = FALSE /\ slot' = "None"
  /\ Goto("images")
  /\ UNCHANGED <<screen, messages, pendingSkill, turnEnd, budget, flags, skills, rounds>>

ShowImages ==
  /\ agent = "images"
  /\ Goto(IF toolCancel THEN "closing" ELSE "launched")
  /\ UNCHANGED <<screen, messages, requests, budget, flags, skills, rounds>>

TakeSkill ==
  /\ agent = "taking" /\ ~ pendingImages /\ pendingSkill # "none"
  /\ pendingSkill' = "none" /\ slot' = "None"
  /\ skill' = [skill EXCEPT !["agent"] = "prepare"]
  /\ steps' = [steps EXCEPT !["agent"] = 0]
  /\ halted' = [halted EXCEPT !["agent"] = FALSE]
  /\ stopped' = [stopped EXCEPT !["agent"] = FALSE]
  /\ Goto("skill")
  /\ UNCHANGED <<screen, messages, pendingImages, turnEnd, budget, flags, runner, rounds>>

TakeNothing ==
  /\ agent = "taking" /\ ~ pendingImages /\ pendingSkill = "none"
  /\ Goto("closing")
  /\ UNCHANGED <<screen, messages, requests, budget, flags, skills, rounds>>

\* runSkillBlocking has returned: a turn to report the skill, unless cancelled.
SkillReturned ==
  /\ agent = "skill" /\ skill["agent"] = "over"
  /\ skill' = [skill EXCEPT !["agent"] = "off"]
  /\ Goto(IF toolCancel THEN "closing" ELSE "launched")
  /\ UNCHANGED <<screen, messages, requests, budget, flags, runner, halted, steps, stopped,
                 rounds>>

Close ==
  /\ agent = "closing"
  /\ DropRequests
  /\ skillCalls' = 0 /\ lastSkill' = "none"
  /\ Goto("ending")
  /\ UNCHANGED <<screen, messages, turnEnd, ran, flags, skills, rounds>>

\* agentThreadRunning_ = false.
EndTurn ==
  /\ agent = "ending"
  /\ running' = FALSE
  /\ Goto("posting")
  /\ UNCHANGED <<screen, queue, wake, typed, current, requests, budget, flags, skills, rounds>>

\* onTurnComplete, and the thread ends.
EndAgent ==
  /\ agent = "posting"
  /\ wake' = TRUE
  /\ Goto("off")
  /\ UNCHANGED <<screen, queue, running, typed, current, requests, budget, flags, skills, rounds>>

Turn == \/ Begin \/ NewTurn \/ StartTool \/ (\E s \in Skills : RunSkill(s)) \/ ViewImage
        \/ OtherTool \/ AskUser \/ WaitOver \/ RunEnds \/ Returned \/ TakeImages \/ ShowImages
        \/ TakeSkill \/ TakeNothing \/ SkillReturned \/ Close \/ EndTurn \/ EndAgent

-----------------------------------------------------------------------------
(* A skill: runSkillBlocking, on the agent thread or on the skill thread *)

At(t, point) == skill' = [skill EXCEPT ![t] = point]

Publish(t) ==
  /\ skill[t] = "prepare"
  /\ runner' = t
  /\ At(t, "between")
  /\ UNCHANGED <<screen, messages, agent, requests, budget, flags, halted, steps, stopped,
                 rounds>>

\* SkillRunner::checkCancel at a boundary; a probe that hits cancels the runner.
CheckFlag(t) == halted[t]
CheckCancel(t) == halted[t] \/ toolCancel

BeginStep(t) ==
  /\ skill[t] = "between" /\ ~ CheckCancel(t) /\ steps[t] < MaxSteps
  /\ steps' = [steps EXCEPT ![t] = @ + 1]
  /\ At(t, "step")
  /\ UNCHANGED <<screen, messages, agent, requests, budget, flags, runner, halted, stopped,
                 rounds>>

EndStep(t) ==
  /\ skill[t] = "step"
  /\ At(t, "between")
  /\ UNCHANGED <<screen, messages, agent, requests, budget, flags, runner, halted, steps, stopped,
                 rounds>>

\* SkillRunner::run returns, cancelled or done; the runner is withdrawn.
RunnerReturns(t) ==
  /\ skill[t] = "between"
  /\ halted' = [halted EXCEPT ![t] = CheckCancel(t)]
  /\ runner' = "none"
  /\ At(t, "over")
  /\ UNCHANGED <<screen, messages, agent, requests, budget, flags, steps, stopped, rounds>>

\* The end of the skill thread.
EndSkill ==
  /\ skill["direct"] = "over"
  /\ running' = FALSE
  /\ At("direct", "posting")
  /\ UNCHANGED <<screen, queue, wake, typed, current, agent, requests, budget, flags, runner,
                 halted, steps, stopped, rounds>>

EndDirect ==
  /\ skill["direct"] = "posting"
  /\ wake' = TRUE
  /\ At("direct", "off")
  /\ UNCHANGED <<screen, queue, running, typed, current, agent, requests, budget, flags, runner,
                 halted, steps, stopped, rounds>>

Skill(t) == Publish(t) \/ BeginStep(t) \/ EndStep(t) \/ RunnerReturns(t)

-----------------------------------------------------------------------------
(* The specification *)

AgentThread == Turn \/ Skill("agent")
SkillThread == Skill("direct") \/ EndSkill \/ EndDirect
User == Type \/ Escape \/ NewChat \/ ApproveTool \/ Quit
Handler == RaiseAgent \/ RaiseTools \/ ClearSession \/ Shutdown \/ JoinSkill \/ JoinAgent

\* The agent asks the user who has quit: no one will ever answer.
Hung == ui = "joinAgent" /\ agent = "approval" /\ takenBack

\* The user reads, or the program has ended, or it hangs (QuitEnds).
Rest ==
  /\ (~ running /\ Ready) \/ ui = "down" \/ Hung
  /\ UNCHANGED vars

Next == User \/ Frame \/ Handler \/ AgentThread \/ SkillThread \/ Rest

Spec == Init /\ [][Next]_vars

\* The threads run; the user need not do anything.  The loop of the screen draws
\* behind every batch of events, so that keys cannot keep a frame off for ever.
FairSpec ==
  /\ Spec
  /\ WF_vars(AgentThread) /\ WF_vars(SkillThread) /\ WF_vars(Handler) /\ SF_vars(Frame)

-----------------------------------------------------------------------------
(* What TuiApp promises *)

\* The message being served: a thread has work left for it, whatever the flag says.
Busy == agent \notin {"off", "posting"} \/ skill["direct"] \notin {"off", "posting"}

Serving == IF Busy THEN {current} ELSE {}

\* Messages are served one at a time and in order, though three threads and a
\* flag decide it (agentThreadRunning_): no turn or skill starts while another one
\* is still at work, and no waiting message is skipped, doubled or sent twice.
Queue == INSTANCE TurnQueue WITH waiting <- queue, serving <- Serving

ServesInTurn == Queue!Spec

\* turn_requests.h: only one follow-up request is pending, and the slot names it.
\* A slot that stayed taken would refuse every later request; one that is free
\* beside a pending request would let a second one in, to be dropped silently.
SlotNamesRequest ==
  /\ slot = "Skill" <=> pendingSkill # "none"
  /\ slot = "Image" <=> pendingImages

\* At most SkillCap skills for a message, and never the same one twice running,
\* whatever the user cancels in between.
SkillsAreCapped ==
  /\ Len(ran) <= SkillCap
  /\ \A k \in 2..Len(ran) : ran[k] # ran[k - 1]

\* run_skill and view_image hand on one follow-up at a time and so many in all: the
\* slot and the cap hold together, whatever Esc drops between two requests.
DispatchInv == SlotNamesRequest /\ SkillsAreCapped

\* A skill the user has cancelled begins no further step: Esc finds a runner that
\* is published, or else the probe finds the registry's flag.
SkillHeedsCancel ==
  [][\A t \in Threads : skill[t] = "between" /\ stopped[t] /\ ui \notin {"cancelling", "raised"}
       => skill'[t] # "step"]_vars

\* A skill the user started directly is cancelled only by the user.
OnlyUserStopsSkill == halted["direct"] => stopped["direct"] \/ quit # "no"

\* When shutdown() deletes the agent, no thread is left that could use it.
DownIsQuiet == ui = "down" => agent = "off" /\ skill = [t \in Threads |-> "off"]

\* A message that waits is sent once the agent is done, or dropped by Esc; only an
\* open question to the user holds it.
WaitingIsServed == queue # <<>> /\ quit = "no" ~> queue = <<>> \/ quit # "no" \/ agent = "approval"

\* Quitting ends the program.
QuitEnds == quit # "no" ~> ui = "down"

\* It does, unless a newTurn() on the agent thread took the cancel of shutdown() back.
QuitEndsUnlessTakenBack == quit # "no" ~> ui = "down" \/ takenBack
=============================================================================
