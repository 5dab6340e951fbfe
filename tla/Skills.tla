------------------------------- MODULE Skills -------------------------------
(***************************************************************************)
(* SkillRunner and SubAgent (core/skill_runner.cpp, core/sub_agent.cpp):   *)
(* one run of a skill.  The runner's thread goes through rounds and steps; *)
(* a parallel step has a thread per action; a turn of a driver that asks   *)
(* other agents has a thread per agent asked, bounded by a semaphore; a    *)
(* lock per agent lets one turn run at a time.  The UI thread and the      *)
(* cancel probe may stop the run at any moment.                            *)
(***************************************************************************)
EXTENDS Integers, Sequences, FiniteSets, FiniteSetsExt, SequencesExt

CONSTANTS Agents,   \* ids of agents
          Configs,  \* the files of skills a run may be given
          Replies   \* for each agent, the answers its model may give

(* What a turn returns: the verb's arguments, an error, the marker of a    *)
(* turn without a report, the narration, or the two answers a program may  *)
(* stop on.                                                                *)
Reports == {"yes", "no", "empty"}
Results == Reports \cup {"error", "no report", "prose"}

(* An answer has calls, text or none, and the report its verb call makes.  *)
(* A call names the verb ("verb", or "files" with file_requests), another  *)
(* tool ("side"), or request_agent with the agent asked.                   *)
Asked(c) == c \in Agents

Words == {"verb", "files", "side"} \cup Agents

ActionsOf(steps) == UNION {ToSet(steps[k].actions) : k \in DOMAIN steps}
Longest(c) == Max({0} \cup {Len(st.actions) : st \in ToSet(c.roundSteps \o c.onConverge)})
MaxActions == Max({0} \cup {Longest(c) : c \in Configs})

(* What the parser makes of a file, accepted or not: no agent is without   *)
(* an id (loadFromJson) and no step longer than the longest.               *)
Programs == Seq([when : STRING, parallel : BOOLEAN,
                 actions : Seq([agent : STRING, shape : STRING])])

ASSUME SkillAssumption ==
  /\ "" \notin Agents
  /\ \A a \in Agents : \A r \in Replies[a] :
       r.calls \in Seq(Words) /\ r.text \in BOOLEAN /\ r.report \in Reports
  /\ MaxActions \in Nat
  /\ \A c \in Configs :
       /\ c.maxParallel \in Nat
       /\ c.roundSteps \in Programs /\ c.onConverge \in Programs
       /\ \A k \in DOMAIN c.roundSteps : Len(c.roundSteps[k].actions) <= MaxActions
       /\ \A k \in DOMAIN c.onConverge : Len(c.onConverge[k].actions) <= MaxActions

(* SkillConfig::loadFromJson: what an accepted file satisfies.             *)
StepOK(st) ==
  /\ st.when \in {"", "round==1", "round>1"}
  /\ \A a \in ToSet(st.actions) : a.agent \in Agents /\ a.shape \in {"text", "vote"}
Accepted(c) ==
  /\ c.toolMode \in {"verb", "auto"} /\ c.converge \in {"none", "all_agree"}
  /\ c.maxRounds >= 1 /\ c.maxToolIters >= 1
  /\ 0 <= c.submitReserve /\ c.submitReserve < c.maxToolIters
  /\ 1 <= c.maxParallel /\ c.maxParallel <= 64
  /\ \A st \in ToSet(c.roundSteps \o c.onConverge) : StepOK(st)

VARIABLES
  config,                 \* config_
  pc, phase, round, ix,   \* the runner's place, round and step
  act, result,            \* thread and result of each action of the step
  votes, slots, prevSlots, converged, report,
  turn,                   \* the turn that holds each agent's turnMutex_
  group,                  \* group threads, by driver and agent asked
  permits,                \* Semaphore of each turn
  cancelRequested, probe, \* SkillRunner's flag; ToolRegistry's
  said,                   \* history: each agent's last vote was "yes"
  answers                 \* sideResults of a turn: who made each, "" for none yet

runnerVars == <<config, pc, phase, round, ix>>
boardVars == <<votes, slots, prevSlots, converged, report>>
turnVars == <<turn, group, permits, answers>>
cancelVars == <<cancelRequested, probe>>
skillVars == <<runnerVars, act, result, boardVars, turnVars, cancelVars, said>>

NoActions == [i \in 1 .. MaxActions |-> "none"]
NoResults == [i \in 1 .. MaxActions |-> ""]
NoTurn == [place |-> "free"]
Pairs == Agents \X Agents

SkillInit ==
  /\ config \in Configs
  /\ pc = "load" /\ phase = "rounds" /\ round = 1 /\ ix = 1
  /\ act = NoActions /\ result = NoResults
  /\ votes = [a \in Agents |-> "none"]
  /\ slots = [a \in Agents |-> "empty"] /\ prevSlots = [a \in Agents |-> "empty"]
  /\ converged = FALSE /\ report = "running"
  /\ turn = [a \in Agents |-> NoTurn]
  /\ group = [p \in Pairs |-> "none"]
  /\ permits = [a \in Agents |-> config.maxParallel]
  /\ cancelRequested = FALSE /\ probe = FALSE
  /\ said = [a \in Agents |-> FALSE]
  /\ answers = [a \in Agents |-> <<>>]

----------------------------------------------------------------------------
(* Cancellation *)

(* SkillRunner::cancel: the flag, and the client of every agent.  A client *)
(* ends the request in flight, which may fail at any time anyway, and      *)
(* forgets the cancel when the next one begins (see StreamClient).         *)
Cancel == cancelRequested' = TRUE

(* checkCancel: a hit of the probe becomes a cancel. *)
checkCancel ==
  /\ IF ~cancelRequested /\ probe THEN Cancel ELSE UNCHANGED cancelRequested
  /\ UNCHANGED probe

UserCancels ==
  /\ pc # "done" /\ ~cancelRequested
  /\ Cancel
  /\ UNCHANGED <<runnerVars, act, result, boardVars, turnVars, probe, said>>

(* Agent::cancel, ToolRegistry::cancelAll. *)
RegistryCancels ==
  /\ pc # "done" /\ ~probe
  /\ probe' = TRUE
  /\ UNCHANGED <<runnerVars, act, result, boardVars, turnVars, cancelRequested, said>>

----------------------------------------------------------------------------
(* run and executeSteps *)

(* loadFromJson and loadAgents. *)
Load ==
  /\ pc = "load"
  /\ IF Accepted(config) THEN pc' = "round" /\ UNCHANGED report
                         ELSE pc' = "done" /\ report' = "rejected"
  /\ UNCHANGED <<config, phase, round, ix, act, result, votes, slots, prevSlots, converged,
                 turnVars, cancelVars, said>>

(* Every agent of the program; only a dynamic skill lets them ask others.  *)
drivers == {a.agent : a \in ActionsOf(config.roundSteps) \cup ActionsOf(config.onConverge)}

Steps == IF phase = "rounds" THEN config.roundSteps ELSE config.onConverge
StepNow == Steps[ix]
Behind == IF phase = "rounds" THEN "judge" ELSE "report"

whenMatches(when) ==
  CASE when = "round==1" -> round = 1
    [] when = "round>1" -> round > 1
    [] OTHER -> TRUE

Round ==
  /\ pc = "round"
  /\ checkCancel
  /\ pc' = IF cancelRequested' THEN "end" ELSE "step"
  /\ ix' = 1
  /\ UNCHANGED <<config, phase, round, act, result, boardVars, turnVars, said>>

Step ==
  /\ pc = "step" /\ ix <= Len(Steps)
  /\ checkCancel
  /\ \/ cancelRequested' /\ pc' = Behind /\ UNCHANGED <<ix, act, result>>
     \/ /\ ~cancelRequested' /\ ~whenMatches(StepNow.when)
        /\ ix' = ix + 1
        /\ UNCHANGED <<pc, act, result>>
     \/ /\ ~cancelRequested' /\ whenMatches(StepNow.when)
        /\ pc' = "acting"
        /\ act' = [i \in 1 .. MaxActions |->
                     IF i <= Len(StepNow.actions) THEN "new" ELSE "none"]
        /\ UNCHANGED <<ix, result>>
  /\ UNCHANGED <<config, phase, round, boardVars, turnVars, said>>

StepsDone ==
  /\ pc = "step" /\ ix > Len(Steps)
  /\ pc' = Behind
  /\ UNCHANGED <<config, phase, round, ix, act, result, boardVars, turnVars, cancelVars, said>>

InParallel == StepNow.parallel /\ Len(StepNow.actions) > 1

(* An action thread, or the runner at the next action of a serial step. *)
StartAction(i) ==
  /\ pc = "acting" /\ act[i] = "new"
  /\ InParallel \/ \A j \in 1 .. i - 1 : act[j] = "done"
  /\ checkCancel
  /\ IF cancelRequested'
     THEN IF InParallel THEN act' = [act EXCEPT ![i] = "skipped"] /\ UNCHANGED pc
                        ELSE pc' = Behind /\ act' = NoActions
     ELSE act' = [act EXCEPT ![i] = "waiting"] /\ UNCHANGED pc
  /\ result' = IF pc' = Behind THEN NoResults ELSE result
  /\ UNCHANGED <<config, phase, round, ix, boardVars, turnVars, said>>

voteUnlessNo(r) == IF r = "no" THEN "dissent" ELSE "agree"

(* mergeAction: a reply that is no vote counts as dissent. *)
voteOf(r) == IF r = "yes" THEN "agree" ELSE "dissent"

(* The last action of a step for an agent wins. *)
Merged(old, shape, of(_)) ==
  [a \in Agents |->
     LET mine == {i \in DOMAIN StepNow.actions :
                    StepNow.actions[i].agent = a /\ StepNow.actions[i].shape = shape}
         last == CHOOSE i \in mine : \A j \in mine : j <= i
     IN  IF mine = {} THEN old[a] ELSE of(result[last])]

mergeActions ==
  /\ votes' = Merged(votes, "vote", voteOf)
  /\ slots' = Merged(slots, "text", LAMBDA r : r)

(* Behind the threads of a step: all results are merged, or none. *)
Merge ==
  /\ pc = "acting"
  /\ \A i \in DOMAIN StepNow.actions : act[i] \in {"done", "skipped"}
  /\ IF cancelRequested
     THEN pc' = Behind /\ UNCHANGED <<ix, votes, slots>>
     ELSE pc' = "step" /\ ix' = ix + 1 /\ mergeActions
  /\ act' = NoActions /\ result' = NoResults
  /\ UNCHANGED <<config, phase, round, prevSlots, converged, report, turnVars, cancelVars, said>>

Voters == {a \in Agents : votes[a] # "none"}
stopRule ==
  \/ config.stopSlot # "" /\ slots[config.stopSlot] = "yes"
  \/ /\ config.loopDetect # "" /\ round > 1
     /\ slots[config.loopDetect] # "empty"
     /\ slots[config.loopDetect] = prevSlots[config.loopDetect]
  \/ config.converge = "all_agree" /\ Voters # {} /\ \A a \in Voters : votes[a] = "agree"

SameRound == UNCHANGED round
NextRound == round' = round + 1

Judge ==
  /\ pc = "judge"
  /\ checkCancel
  /\ \/ cancelRequested' /\ pc' = "end" /\ UNCHANGED <<round, converged, prevSlots>>
     \/ /\ ~cancelRequested' /\ stopRule
        /\ converged' = TRUE /\ pc' = "end"
        /\ UNCHANGED <<round, prevSlots>>
     \/ /\ ~cancelRequested' /\ ~stopRule
        /\ prevSlots' = slots
        /\ IF round < config.maxRounds THEN NextRound /\ pc' = "round"
                                ELSE pc' = "end" /\ UNCHANGED round
        /\ UNCHANGED converged
  /\ UNCHANGED <<config, phase, ix, act, result, votes, slots, report, turnVars, said>>

End ==
  /\ pc = "end"
  /\ IF cancelRequested
     THEN pc' = "done" /\ report' = "cancelled" /\ UNCHANGED <<config, phase, ix>>
     ELSE pc' = "step" /\ phase' = "converge" /\ ix' = 1 /\ UNCHANGED report
  /\ UNCHANGED <<config, round, act, result, votes, slots, prevSlots, converged, turnVars,
                 cancelVars, said>>

Report ==
  /\ pc = "report"
  /\ pc' = "done"
  /\ report' = IF converged THEN "done (converged)" ELSE "done (round cap)"
  /\ UNCHANGED <<config, phase, round, ix, act, result, votes, slots, prevSlots, converged,
                 turnVars, cancelVars, said>>

----------------------------------------------------------------------------
(* SubAgent::turn.  A caller is an action of the step or a group thread.   *)

Verb == "verb"
force == config.toolMode # "auto" /\ ~config.dynamicDispatch

Begin(a, caller) ==
  /\ turn[a] = NoTurn
  /\ turn' = [turn EXCEPT ![a] = [place |-> "ask", by |-> caller, iter |-> 0,
                 nudged |-> FALSE, warned |-> FALSE, forced |-> force, narr |-> FALSE,
                 calls |-> <<>>, report |-> "empty"]]
  /\ permits' = [permits EXCEPT ![a] = config.maxParallel]
  /\ answers' = [answers EXCEPT ![a] = <<>>]

BeginAction(i) ==
  /\ pc = "acting" /\ act[i] = "waiting"
  /\ Begin(StepNow.actions[i].agent, <<"action", i>>)
  /\ act' = [act EXCEPT ![i] = "turn"]
  /\ UNCHANGED <<runnerVars, result, boardVars, group, cancelVars, said>>

(* The reserve is announced once.  The calls of the last answer are        *)
(* history now.                                                            *)
Ask(a) ==
  /\ turn[a].place = "ask"
  /\ turn' = [turn EXCEPT ![a].place = "asked", ![a].calls = <<>>, ![a].report = "empty",
                          ![a].warned = @ \/ (config.submitReserve > 0 /\
                                              turn[a].iter >= config.maxToolIters - config.submitReserve)]
  /\ answers' = [answers EXCEPT ![a] = <<>>]
  /\ UNCHANGED <<runnerVars, act, result, boardVars, group, permits, cancelVars, said>>

(* The groups of a's turn are joined: their threads are gone. *)
Joined(a) == [p \in Pairs |-> IF p[1] = a THEN "none" ELSE group[p]]

(* turn returns r to its caller. *)
Return(a, r) ==
  LET by == turn[a].by IN
  IF by[1] = "action"
  THEN /\ act' = [act EXCEPT ![by[2]] = "done"]
       /\ result' = [result EXCEPT ![by[2]] = r]
       /\ said' = [said EXCEPT ![a] =
                      IF StepNow.actions[by[2]].shape = "vote" THEN r = "yes" ELSE @]
       /\ turn' = [turn EXCEPT ![a] = NoTurn]
       /\ answers' = [answers EXCEPT ![a] = <<>>]
       /\ group' = Joined(a)
  ELSE /\ turn' = [turn EXCEPT ![a] = NoTurn]
       /\ answers' = [answers EXCEPT ![a] = <<>>, ![by[2]][by[3]] = a]
       /\ group' = [Joined(a) EXCEPT ![<<by[2], a>>] = "running"]
       /\ UNCHANGED <<act, result, said>>

(* The request failed: with a forced tool_choice the turn may ask again    *)
(* without, else it is over.                                               *)
Fails(a) ==
  /\ turn[a].place = "asked"
  /\ \/ /\ turn[a].forced
        /\ turn' = [turn EXCEPT ![a].forced = FALSE]
        /\ UNCHANGED <<act, result, group, answers, said>>
     \/ Return(a, "error")
  /\ UNCHANGED <<runnerVars, boardVars, permits, cancelVars>>

(* An answer without a call is nudged once, if there is another iteration. *)
AnswersInProse(a) ==
  /\ turn[a].place = "asked"
  /\ \E reply \in Replies[a] :
       /\ reply.calls = <<>>
       /\ IF reply.text /\ ~turn[a].nudged /\ turn[a].iter < config.maxToolIters - 1
          THEN /\ turn' = [turn EXCEPT ![a].place = "ask", ![a].iter = @ + 1,
                                       ![a].nudged = TRUE, ![a].forced = force,
                                       ![a].narr = TRUE]
               /\ UNCHANGED <<act, result, group, answers, said>>
          ELSE Return(a, IF reply.text THEN "prose" ELSE "no report")
  /\ UNCHANGED <<runnerVars, boardVars, permits, cancelVars>>

(* The calls that are not asks get their results at once; the asks are     *)
(* grouped by the agent asked.                                             *)
Sideways(calls) == {k \in DOMAIN calls : Asked(calls[k])}
verbIdx(calls) == SelectInSeq(calls, LAMBDA c : c \in {"verb", "files"})

AnswersWithCalls(a) ==
  /\ turn[a].place = "asked"
  /\ \E reply \in Replies[a] :
       /\ reply.calls # <<>>
       /\ turn' = [turn EXCEPT ![a].place = "groups", ![a].calls = reply.calls,
                               ![a].narr = @ \/ reply.text, ![a].report = reply.report]
       /\ answers' = [answers EXCEPT ![a] =
                        [k \in DOMAIN reply.calls |->
                           IF Asked(reply.calls[k]) THEN "" ELSE reply.calls[k]]]
       /\ group' = [p \in Pairs |-> IF p[1] # a THEN group[p]
                                    ELSE IF p[2] \in ToSet(reply.calls) THEN "queued"
                                    ELSE "none"]
  /\ UNCHANGED <<runnerVars, act, result, boardVars, permits, cancelVars, said>>

----------------------------------------------------------------------------
(* Groups of request_agent calls *)

Launch(a, t) ==
  /\ turn[a].place = "groups" /\ group[<<a, t>>] = "queued" /\ permits[a] > 0
  /\ permits' = [permits EXCEPT ![a] = @ - 1]
  /\ group' = [group EXCEPT ![<<a, t>>] = "running"]
  /\ UNCHANGED <<runnerVars, act, result, boardVars, turn, answers, cancelVars, said>>

Open(a, t) == {k \in DOMAIN turn[a].calls : turn[a].calls[k] = t /\ answers[a][k] = ""}
NextCall(a, t) == CHOOSE k \in Open(a, t) : \A j \in Open(a, t) : k <= j

(* The call is answered with an error or "[cancelled]". *)
Answer(a, t) ==
  /\ answers' = [answers EXCEPT ![a][NextCall(a, t)] = t]
  /\ UNCHANGED group

MayAskAnyone(a, t) == config.dynamicDispatch

(* dispatchSide and handleRequestAgent.  Only a driver of a dynamic skill  *)
(* has the tool, and a driver is never asked.                              *)
MayAsk(a, t) == config.dynamicDispatch /\ a \in drivers /\ t \notin drivers

Dispatch(a, t) ==
  /\ turn[a].place = "groups" /\ group[<<a, t>>] = "running" /\ Open(a, t) # {}
  /\ IF probe THEN Answer(a, t) /\ UNCHANGED cancelVars
     ELSE IF ~MayAsk(a, t) THEN Answer(a, t) /\ UNCHANGED cancelVars
     ELSE /\ checkCancel
          /\ IF cancelRequested' THEN Answer(a, t)
             ELSE group' = [group EXCEPT ![<<a, t>>] = "waiting"] /\ UNCHANGED answers
  /\ UNCHANGED <<runnerVars, act, result, boardVars, turn, permits, said>>

BeginAsked(a, t) ==
  /\ group[<<a, t>>] = "waiting"
  /\ Begin(t, <<"group", a, NextCall(a, t)>>)
  /\ group' = [group EXCEPT ![<<a, t>>] = "turn"]
  /\ UNCHANGED <<runnerVars, act, result, boardVars, cancelVars, said>>

GroupEnds(a, t) ==
  /\ turn[a].place = "groups" /\ group[<<a, t>>] = "running" /\ Open(a, t) = {}
  /\ group' = [group EXCEPT ![<<a, t>>] = "done"]
  /\ permits' = [permits EXCEPT ![a] = @ + 1]
  /\ UNCHANGED <<runnerVars, act, result, boardVars, turn, answers, cancelVars, said>>

(* The threads are joined and the results written back in call order.      *)
Finalizes(a) ==
  LET v == verbIdx(turn[a].calls) IN
  v # 0 /\ (turn[a].calls[v] = "verb" \/ turn[a].iter = config.maxToolIters - 1)

NoneRuns(a) == \A t \in Agents : group[<<a, t>>] # "running"

Quiet(a) == \A t \in Agents : group[<<a, t>>] \in {"none", "done"}

Collect(a) ==
  /\ turn[a].place = "groups" /\ Quiet(a)
  /\ \/ Finalizes(a) /\ Return(a, turn[a].report)
     \/ /\ ~Finalizes(a) /\ turn[a].iter = config.maxToolIters - 1
        /\ Return(a, IF turn[a].narr THEN "prose" ELSE "no report")
     \/ /\ ~Finalizes(a) /\ turn[a].iter < config.maxToolIters - 1
        /\ turn' = [turn EXCEPT ![a].place = "ask", ![a].iter = @ + 1, ![a].forced = force]
        /\ group' = Joined(a)
        /\ UNCHANGED <<act, result, answers, said>>
  /\ UNCHANGED <<runnerVars, boardVars, permits, cancelVars>>

----------------------------------------------------------------------------
Runner == Load \/ Round \/ Step \/ StepsDone \/ Merge \/ Judge \/ End \/ Report
ActionThread(i) == StartAction(i) \/ BeginAction(i)
Turn(a) == Ask(a) \/ Fails(a) \/ AnswersInProse(a) \/ AnswersWithCalls(a) \/ Collect(a)
GroupThread(a, t) ==
  Launch(a, t) \/ Dispatch(a, t) \/ BeginAsked(a, t) \/ GroupEnds(a, t)

(* The run is over. *)
SkillRest == pc = "done" /\ UNCHANGED skillVars

Threads ==
  \/ Runner
  \/ \E i \in 1 .. MaxActions : ActionThread(i)
  \/ \E a \in Agents : Turn(a)
  \/ \E a, t \in Agents : GroupThread(a, t)

SkillNext == Threads \/ UserCancels \/ RegistryCancels \/ SkillRest

SkillSpec == SkillInit /\ [][SkillNext]_skillVars

(* Some thread that can go on does: no thread is preferred.                *)
SkillFair == WF_skillVars(Threads)
FairSkillSpec == SkillSpec /\ SkillFair

----------------------------------------------------------------------------
ActStates == {"none", "new", "skipped", "waiting", "turn", "done"}
GroupStates == {"none", "queued", "running", "waiting", "turn", "done"}

(* The variables have their types. *)
SkillTypeOK ==
  /\ pc \in {"load", "round", "step", "acting", "judge", "end", "report", "done"}
  /\ phase \in {"rounds", "converge"}
  /\ round \in Nat /\ ix \in Nat
  /\ act \in [1 .. MaxActions -> ActStates]
  /\ group \in [Pairs -> GroupStates]
  /\ permits \in [Agents -> 0 .. config.maxParallel]
  /\ votes \in [Agents -> {"none", "agree", "dissent"}]
  /\ slots \in [Agents -> Results] /\ prevSlots \in [Agents -> Results]
  /\ DOMAIN turn = Agents

InFlight(a) == {t \in Agents : group[<<a, t>>] \in {"running", "waiting", "turn"}}

(* No group loses or keeps a permit, whatever its calls come to: between   *)
(* the groups in flight and the semaphore there are max_parallel of them,  *)
(* and a turn that asks nobody holds none.                                 *)
PermitsHeld ==
  \A a \in Agents :
    /\ permits[a] + Cardinality(InFlight(a)) = config.maxParallel
    /\ turn[a].place # "groups" => permits[a] = config.maxParallel

(* When the groups of a turn are joined and when it goes on to its next    *)
(* request, every call of the last answer has a result, and it is the one  *)
(* of the agent that call asked: no group drops, repeats or crosses a      *)
(* result (SubAgent::turn).                                                *)
EveryCallAnswered ==
  \A a \in Agents : turn[a].place = "ask" \/ (turn[a].place = "groups" /\ Quiet(a)) =>
    answers[a] = turn[a].calls

(* The types, the permits and the answers. *)
SkillInv == SkillTypeOK /\ PermitsHeld /\ EveryCallAnswered

(* An agent that was asked never waits for another: the locks of agents    *)
(* are taken one layer deep, so no two turns can wait for each other       *)
(* (drivers_, handleRequestAgent).                                         *)
OneLayerDeep ==
  \A a, t \in Agents : group[<<a, t>>] \in {"waiting", "turn"} =>
    /\ a # t
    /\ turn[a].by[1] = "action"
    /\ \A u \in Agents : group[<<t, u>>] \notin {"waiting", "turn"}

(* An agent that votes twice at the same time has no last vote. *)
OneVoteAtOnce ==
  \A st \in ToSet(config.roundSteps) : st.parallel =>
    \A i, j \in DOMAIN st.actions :
      st.actions[i].shape = "vote" /\ st.actions[j].shape = "vote"
      /\ st.actions[i].agent = st.actions[j].agent => i = j

(* Everyone who votes in this round has a vote. *)
AllVoted ==
  \A st \in ToSet(config.roundSteps) : \A a \in ToSet(st.actions) :
    a.shape = "vote" /\ whenMatches(st.when) => a.agent \in Voters

(* A program that converges by agreement alone has heard "yes" in the last *)
(* vote of every agent that ever voted, and has asked everyone who votes   *)
(* in the round: a failed call, a turn without a report or prose is never  *)
(* agreement (mergeAction, stopRule).                                      *)
ByVotesAlone == config.stopSlot = "" /\ config.loopDetect = "" /\ OneVoteAtOnce
ConvergedIsUnanimous ==
  converged /\ phase = "rounds" /\ ByVotesAlone =>
    Voters # {} /\ (\A a \in Voters : said[a]) /\ AllVoted

(* A run ends: threads are joined, locks are handed on, permits come back  *)
(* and turns are bounded by max_tool_iters, with or without a cancel.      *)
SkillRunEnds == <>(pc = "done")

(* "A probe hit is promoted to a full cancel() so nested loops and         *)
(* sub-agent HTTP calls stop": a cancelled run sends no further request.   *)
CancelSilencesAgents ==
  [][cancelRequested =>
       \A a \in Agents : ~(turn[a].place = "ask" /\ turn'[a].place = "asked")]_skillVars

(* "run actions in order, merging each": when an action of a serial step   *)
(* begins, the board holds what the actions before it returned.            *)
SerialSeesMerged ==
  pc = "acting" /\ ~InParallel =>
    \A i \in DOMAIN StepNow.actions : \A j \in 1 .. i - 1 :
      act[i] = "waiting" /\ StepNow.actions[j].shape = "text" =>
        slots[StepNow.actions[j].agent] = result[j]
=============================================================================
