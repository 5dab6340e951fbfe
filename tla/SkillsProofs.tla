---------------------------- MODULE SkillsProofs ----------------------------
(***************************************************************************)
(* Proofs about Skills: the locks of agents are taken one layer deep, no   *)
(* permit is lost, every call has its result, and a run converges by votes *)
(* alone only when everyone said "yes".                                    *)
(*                                                                         *)
(* The argument for the locks: only a driver asks, only an agent that is no *)
(* driver is asked, and which agents are drivers is fixed when the skill is *)
(* loaded.  So whoever asks runs for an action of the program and whoever  *)
(* is asked asks nobody.                                                   *)
(*                                                                         *)
(* The argument for the permits and the results: a turn that was asked runs *)
(* for a group that waits for it with an open call, and what is not yet    *)
(* answered keeps the groups of a turn from being joined.                  *)
(*                                                                         *)
(* The argument for the votes: a vote of "agree" belongs to an agent whose *)
(* last vote was "yes", but for the votes of a step that is not merged yet *)
(* and but for a run that is cancelled, which judges no more.              *)
(***************************************************************************)
EXTENDS Skills, FiniteSetTheorems, WellFoundedInduction, TLAPS

TurnFields == {"place", "by", "iter", "nudged", "warned", "forced", "narr", "calls", "report"}

\* A turn is free or has all its fields.
Shaped(u) == u = NoTurn \/ (DOMAIN u = TurnFields /\ u.place # "free")

\* An asker is a driver in the middle of its turn, the asked one is not a
\* driver, and a turn that was asked for is none of a driver.
Layered ==
  /\ turn = [a \in Agents |-> turn[a]]
  /\ group = [p \in Pairs |-> group[p]]
  /\ \A a \in Agents : Shaped(turn[a])
  /\ \A a, t \in Agents : group[<<a, t>>] \in {"waiting", "turn"} =>
       a \in drivers /\ t \notin drivers /\ turn[a].place = "groups"
  /\ \A a \in Agents : turn[a].place # "free" /\ turn[a].by[1] # "action" => a \notin drivers

LEMMA LayeredHolds == SkillInit => Layered
  BY DEF SkillInit, Layered, Shaped, NoTurn, Pairs

\* Nothing of the layers changes.
LEMMA SameLayers ==
  ASSUME Layered, config' = config, turn' = turn, group' = group
  PROVE  Layered'
  BY DEF Layered, Shaped, drivers

\* A turn of an agent t that was free begins.
LEMMA BeginKeeps ==
  ASSUME Layered, config' = config, NEW t \in Agents, NEW caller, Begin(t, caller),
         caller[1] # "action" => t \notin drivers,
         group' = [p \in Pairs |-> group'[p]],
         \A a, u \in Agents : group'[<<a, u>>] \in {"waiting", "turn"} =>
           group[<<a, u>>] \in {"waiting", "turn"}
  PROVE  Layered'
<1>1. turn'[t].place = "ask" /\ turn'[t].by = caller /\ DOMAIN turn'[t] = TurnFields
  BY DEF Begin, Layered, TurnFields
<1>2. \A a \in Agents : a # t => turn'[a] = turn[a]
  BY DEF Begin, Layered
<1>3. turn' = [a \in Agents |-> turn'[a]]
  BY DEF Begin, Layered
<1>4. \A a \in Agents : turn[a].place = "groups" => a # t
  BY DEF Begin, NoTurn
<1>5. drivers' = drivers
  BY DEF drivers
<1> QED BY <1>1, <1>2, <1>3, <1>4, <1>5 DEF Layered, Shaped

\* A turn of a goes on, and none of its groups asks at the moment.
LEMMA TurnKeeps ==
  ASSUME Layered, config' = config, NEW a \in Agents,
         turn[a].place # "free",
         turn' = [b \in Agents |-> turn'[b]],
         \A b \in Agents : b # a => turn'[b] = turn[b],
         DOMAIN turn'[a] = TurnFields, turn'[a].place # "free", turn'[a].by = turn[a].by,
         group' = [p \in Pairs |-> group'[p]],
         \A t \in Agents : group'[<<a, t>>] \notin {"waiting", "turn"},
         \A b, t \in Agents : b # a => group'[<<b, t>>] = group[<<b, t>>]
  PROVE  Layered'
<1>1. drivers' = drivers
  BY DEF drivers
<1> QED BY <1>1 DEF Layered, Shaped

\* A turn of a returns.
LEMMA ReturnKeeps ==
  ASSUME Layered, config' = config, NEW a \in Agents, NEW r, Return(a, r)
  PROVE  Layered'
<1>1. drivers' = drivers
  BY DEF drivers
<1>2. /\ turn' = [b \in Agents |-> turn'[b]]
      /\ turn'[a] = NoTurn
      /\ \A b \in Agents : b # a => turn'[b] = turn[b]
  BY DEF Return, Layered
<1>3. group' = [p \in Pairs |-> group'[p]]
  BY DEF Return, Joined
<1>4. \A b, t \in Agents : group'[<<b, t>>] \in {"waiting", "turn"} =>
        b # a /\ group[<<b, t>>] = group'[<<b, t>>]
  BY DEF Return, Joined, Pairs
<1> QED BY <1>1, <1>2, <1>3, <1>4 DEF Layered, Shaped, NoTurn

LEMMA LayersStepKeeps == Layered /\ [SkillNext]_skillVars => Layered'
<1> SUFFICES ASSUME Layered, [SkillNext]_skillVars PROVE Layered'
  OBVIOUS
<1> USE DEF runnerVars, boardVars, turnVars, cancelVars
<1>1. CASE Runner \/ UserCancels \/ RegistryCancels \/ SkillRest \/ UNCHANGED skillVars
  <2>1. config' = config /\ turn' = turn /\ group' = group
    BY <1>1 DEF Runner, Load, Round, Step, StepsDone, Merge, Judge, End, Report, UserCancels,
                RegistryCancels, SkillRest, skillVars
  <2> QED BY <2>1, SameLayers
<1>2. ASSUME NEW i \in 1 .. MaxActions, StartAction(i) PROVE Layered'
  <2>1. config' = config /\ turn' = turn /\ group' = group
    BY <1>2 DEF StartAction
  <2> QED BY <2>1, SameLayers
<1>3. ASSUME NEW i \in 1 .. MaxActions, BeginAction(i) PROVE Layered'
  <2> DEFINE t == StepNow.actions[i].agent
  <2>1. config' = config /\ group' = group /\ Begin(t, <<"action", i>>)
    BY <1>3 DEF BeginAction
  <2>2. CASE t \in Agents
    <3>1. <<"action", i>>[1] = "action"
      OBVIOUS
    <3>2. group' = [p \in Pairs |-> group'[p]]
      BY <2>1 DEF Layered
    <3> HIDE DEF t
    <3> QED BY <2>1, <2>2, <3>1, <3>2, BeginKeeps
  <2>3. CASE t \notin Agents
    <3>1. turn' = turn
      BY <2>1, <2>3 DEF Begin, Layered
    <3> QED BY <2>1, <3>1, SameLayers
  <2> QED BY <2>2, <2>3
<1>4. ASSUME NEW a \in Agents, Turn(a) PROVE Layered'
  <2>1. CASE Ask(a)
    <3>0. turn[a].place = "ask" /\ config' = config /\ group' = group
      BY <2>1 DEF Ask
    <3>1. DOMAIN turn[a] = TurnFields
      BY <3>0 DEF Layered, Shaped, NoTurn
    <3>2. /\ turn' = [b \in Agents |-> turn'[b]]
          /\ \A b \in Agents : b # a => turn'[b] = turn[b]
          /\ DOMAIN turn'[a] = TurnFields /\ turn'[a].place = "asked"
          /\ turn'[a].by = turn[a].by
      BY <2>1, <3>1 DEF Ask, Layered, TurnFields
    <3>3. /\ group' = [p \in Pairs |-> group'[p]]
          /\ \A t \in Agents : group'[<<a, t>>] \notin {"waiting", "turn"}
          /\ \A b, t \in Agents : b # a => group'[<<b, t>>] = group[<<b, t>>]
      BY <3>0 DEF Layered
    <3> QED BY <3>0, <3>2, <3>3, TurnKeeps
  <2>2. CASE Fails(a)
    <3>1. CASE \E r : Return(a, r)
      BY <2>2, <3>1, ReturnKeeps DEF Fails
    <3>2. CASE ~ \E r : Return(a, r)
      <4> USE <2>2, <3>2 DEF Fails
      <4>1. DOMAIN turn[a] = TurnFields /\ turn[a].place = "asked"
        BY DEF Layered, Shaped, NoTurn
      <4>2. /\ turn' = [b \in Agents |-> turn'[b]]
            /\ \A b \in Agents : b # a => turn'[b] = turn[b]
            /\ DOMAIN turn'[a] = TurnFields /\ turn'[a].place = "asked"
            /\ turn'[a].by = turn[a].by
        BY <4>1 DEF Layered, TurnFields
      <4>3. \A t \in Agents : group[<<a, t>>] \notin {"waiting", "turn"}
        BY DEF Layered
      <4> QED BY <4>2, <4>3, TurnKeeps DEF Layered
    <3> QED BY <3>1, <3>2
  <2>3. CASE AnswersInProse(a)
    <3>1. CASE \E r : Return(a, r)
      BY <2>3, <3>1, ReturnKeeps DEF AnswersInProse
    <3>2. CASE ~ \E r : Return(a, r)
      <4>0. /\ turn[a].place = "asked" /\ config' = config /\ group' = group
            /\ turn' = [turn EXCEPT ![a].place = "ask", ![a].iter = @ + 1, ![a].nudged = TRUE,
                                    ![a].forced = force, ![a].narr = TRUE]
        BY <2>3, <3>2, Zenon DEF AnswersInProse
      <4>1. DOMAIN turn[a] = TurnFields
        BY <4>0 DEF Layered, Shaped, NoTurn
      <4>2. /\ turn' = [b \in Agents |-> turn'[b]]
            /\ \A b \in Agents : b # a => turn'[b] = turn[b]
            /\ DOMAIN turn'[a] = TurnFields /\ turn'[a].place = "ask"
            /\ turn'[a].by = turn[a].by
        BY <4>0, <4>1 DEF Layered, TurnFields
      <4>3. /\ group' = [p \in Pairs |-> group'[p]]
            /\ \A t \in Agents : group'[<<a, t>>] \notin {"waiting", "turn"}
            /\ \A b, t \in Agents : b # a => group'[<<b, t>>] = group[<<b, t>>]
        BY <4>0 DEF Layered
      <4>4. turn[a].place # "free" /\ turn'[a].place # "free"
        BY <4>0, <4>2
      <4> QED BY <4>0, <4>2, <4>3, <4>4, TurnKeeps
    <3> QED BY <3>1, <3>2
  <2>4. CASE AnswersWithCalls(a)
    <3>0. /\ turn[a].place = "asked" /\ config' = config
          /\ \E reply \in Replies[a] :
               /\ turn' = [turn EXCEPT ![a].place = "groups", ![a].calls = reply.calls,
                                       ![a].narr = @ \/ reply.text, ![a].report = reply.report]
               /\ group' = [p \in Pairs |-> IF p[1] # a THEN group[p]
                                            ELSE IF p[2] \in ToSet(reply.calls) THEN "queued"
                                            ELSE "none"]
      BY <2>4, Zenon DEF AnswersWithCalls
    <3>1. DOMAIN turn[a] = TurnFields
      BY <3>0 DEF Layered, Shaped, NoTurn
    <3>2. /\ turn' = [b \in Agents |-> turn'[b]]
          /\ \A b \in Agents : b # a => turn'[b] = turn[b]
          /\ DOMAIN turn'[a] = TurnFields /\ turn'[a].place = "groups"
          /\ turn'[a].by = turn[a].by
      BY <3>0, <3>1 DEF Layered, TurnFields
    <3>3. /\ group' = [p \in Pairs |-> group'[p]]
          /\ \A t \in Agents : group'[<<a, t>>] \in {"queued", "none"}
          /\ \A b, t \in Agents : b # a => group'[<<b, t>>] = group[<<b, t>>]
      BY <3>0 DEF Pairs
    <3> QED BY <3>0, <3>2, <3>3, TurnKeeps
  <2>5. CASE Collect(a)
    <3>1. CASE \E r : Return(a, r)
      BY <2>5, <3>1, ReturnKeeps DEF Collect
    <3>2. CASE ~ \E r : Return(a, r)
      <4>0. /\ turn[a].place = "groups" /\ config' = config /\ group' = Joined(a)
            /\ turn' = [turn EXCEPT ![a].place = "ask", ![a].iter = @ + 1, ![a].forced = force]
        BY <2>5, <3>2, Zenon DEF Collect
      <4>1. DOMAIN turn[a] = TurnFields
        BY <4>0 DEF Layered, Shaped, NoTurn
      <4>2. /\ turn' = [b \in Agents |-> turn'[b]]
            /\ \A b \in Agents : b # a => turn'[b] = turn[b]
            /\ DOMAIN turn'[a] = TurnFields /\ turn'[a].place = "ask"
            /\ turn'[a].by = turn[a].by
        BY <4>0, <4>1 DEF Layered, TurnFields
      <4>3. /\ group' = [p \in Pairs |-> group'[p]]
            /\ \A t \in Agents : group'[<<a, t>>] = "none"
            /\ \A b, t \in Agents : b # a => group'[<<b, t>>] = group[<<b, t>>]
        BY <4>0 DEF Joined, Pairs
      <4> QED BY <4>0, <4>2, <4>3, TurnKeeps
    <3> QED BY <3>1, <3>2
  <2> QED BY <1>4, <2>1, <2>2, <2>3, <2>4, <2>5 DEF Turn
<1>5. ASSUME NEW a \in Agents, NEW t \in Agents, GroupThread(a, t) PROVE Layered'
  <2>1. CASE Launch(a, t) \/ GroupEnds(a, t)
    <3>1. config' = config /\ turn' = turn
      BY <2>1 DEF Launch, GroupEnds
    <3>2. /\ group' = [p \in Pairs |-> group'[p]]
          /\ \A b, u \in Agents : group'[<<b, u>>] \in {"waiting", "turn"} =>
               group[<<b, u>>] \in {"waiting", "turn"}
      BY <2>1 DEF Launch, GroupEnds, Layered, Pairs
    <3> QED BY <3>1, <3>2 DEF Layered, Shaped, drivers
  <2>2. CASE Dispatch(a, t)
    <3>1. config' = config /\ turn' = turn /\ turn[a].place = "groups"
      BY <2>2 DEF Dispatch
    <3>2. CASE group' = group
      BY <3>1, <3>2, SameLayers
    <3>3. CASE group' # group
      <4>1. a \in drivers /\ t \notin drivers /\ group' = [group EXCEPT ![<<a, t>>] = "waiting"]
        BY <2>2, <3>3 DEF Dispatch, Answer, MayAsk
      <4>2. /\ group' = [p \in Pairs |-> group'[p]]
            /\ \A b, u \in Agents : <<b, u>> # <<a, t>> => group'[<<b, u>>] = group[<<b, u>>]
        BY <4>1 DEF Layered, Pairs
      <4>3. drivers' = drivers
        BY <3>1 DEF drivers
      <4> QED BY <3>1, <4>1, <4>2, <4>3 DEF Layered, Shaped
    <3> QED BY <3>2, <3>3
  <2>3. CASE BeginAsked(a, t)
    <3> DEFINE caller == <<"group", a, NextCall(a, t)>>
    <3>1. config' = config /\ Begin(t, caller) /\ group[<<a, t>>] = "waiting"
      BY <2>3 DEF BeginAsked
    <3>2. t \notin drivers
      BY <3>1 DEF Layered
    <3>3. /\ group' = [p \in Pairs |-> group'[p]]
          /\ \A b, u \in Agents : group'[<<b, u>>] \in {"waiting", "turn"} =>
               group[<<b, u>>] \in {"waiting", "turn"}
      BY <2>3, <3>1 DEF BeginAsked, Layered, Pairs
    <3> HIDE DEF caller
    <3> QED BY <3>1, <3>2, <3>3, BeginKeeps
  <2> QED BY <1>5, <2>1, <2>2, <2>3 DEF GroupThread
<1> QED BY <1>1, <1>2, <1>3, <1>4, <1>5 DEF SkillNext, Threads, ActionThread

\* No agent that was asked waits for another, however the threads of a run
\* take their turns and whoever stops it: no two turns wait for each other.
THEOREM LocksAreOneLayerDeep == SkillSpec => []OneLayerDeep
<1>1. SkillInit => Layered
  BY LayeredHolds
<1>2. Layered /\ [SkillNext]_skillVars => Layered'
  BY LayersStepKeeps
<1>3. Layered => OneLayerDeep
  BY DEF Layered, OneLayerDeep
<1> QED BY <1>1, <1>2, <1>3, PTL DEF SkillSpec


----------------------------------------------------------------------------
\* Permits and answers

\* A turn has calls and a report of their kinds.
TurnOK(a) ==
  /\ turn[a].place \in {"free", "ask", "asked", "groups"}
  /\ turn[a].place # "free" => turn[a].calls \in Seq(Words) /\ turn[a].report \in Reports

\* The permits in use are those of the groups in flight, and only a turn that is
\* behind an answer has any.
Counted(a) ==
  /\ IsFiniteSet(InFlight(a))
  /\ permits[a] \in Nat /\ permits[a] + Cardinality(InFlight(a)) = config.maxParallel
  /\ turn[a].place # "groups" => InFlight(a) = {}

\* A turn that was asked for runs for a group that waits for it with an open call.
Linked(a) ==
  turn[a].place # "free" /\ turn[a].by[1] # "action" =>
    \E b \in Agents, k \in Nat :
      /\ turn[a].by = <<"group", b, k>>
      /\ turn[b].place = "groups" /\ group[<<b, a>>] = "turn" /\ k \in Open(b, a)

\* A result is that of the agent its call asked, or still to come; a group that is
\* over, or that was never needed, has none to come, one that waits for a turn has.
Answered(a) ==
  turn[a].place # "free" =>
    /\ answers[a] = [k \in DOMAIN turn[a].calls |-> answers[a][k]]
    /\ \A k \in DOMAIN turn[a].calls :
         \/ answers[a][k] = turn[a].calls[k]
         \/ answers[a][k] = "" /\ Asked(turn[a].calls[k])
    /\ turn[a].place = "ask" => answers[a] = turn[a].calls
    /\ turn[a].place = "asked" => turn[a].calls = <<>> /\ answers[a] = <<>>
    /\ turn[a].place = "groups" =>
         \A t \in Agents :
           /\ group[<<a, t>>] \in {"none", "done"} => Open(a, t) = {}
           /\ group[<<a, t>>] = "waiting" => Open(a, t) # {}

Kept(a) == TurnOK(a) /\ Counted(a) /\ Linked(a) /\ Answered(a)

SkillIInv ==
  /\ Layered
  /\ config \in Configs
  /\ permits = [a \in Agents |-> permits[a]]
  /\ answers = [a \in Agents |-> answers[a]]
  /\ \A a \in Agents : Kept(a)

\* A set of numbers has a least one.
LEMMA HasLeast ==
  ASSUME NEW S, S \subseteq Nat, S # {}
  PROVE  \E k \in S : \A j \in S : k <= j
<1> DEFINE Below == OpToRel(<, Nat)
<1>1. IsWellFoundedOn(Below, Nat)
  BY NatLessThanWellFounded, Zenon
<1>2. \A j, k \in Nat : j < k => <<j, k>> \in Below
  BY DEF OpToRel
<1> HIDE DEF Below
<1>3. PICK k \in S : \A j \in S : ~ (<<j, k>> \in Below)
  BY <1>1, WFMin
<1>4. ASSUME NEW j \in S PROVE k <= j
  <2>1. j \in Nat /\ k \in Nat
    OBVIOUS
  <2>2. ~ (j < k)
    BY <1>2, <1>3, <2>1
  <2> QED BY <2>1, <2>2
<1> QED BY <1>4

\* What has an open call has a first one.
LEMMA NextIsOpen ==
  ASSUME NEW a, NEW t, Open(a, t) # {}, Open(a, t) \subseteq Nat
  PROVE  NextCall(a, t) \in Open(a, t)
<1>1. PICK k \in Open(a, t) : \A j \in Open(a, t) : k <= j
  BY HasLeast
<1> QED BY <1>1 DEF NextCall

\* Calls are numbered.
LEMMA OpenAreNumbers ==
  ASSUME NEW a, NEW t, TurnOK(a), turn[a].place = "groups"
  PROVE  Open(a, t) \subseteq Nat
<1>1. turn[a].calls \in Seq(Words)
  BY DEF TurnOK
<1>2. DOMAIN turn[a].calls \subseteq Nat
  BY <1>1
<1> QED BY <1>2 DEF Open

\* What no step touches stays: the turn, the groups, the permits and the answers of a.
LEMMA Untouched ==
  ASSUME NEW a \in Agents, Kept(a), config' = config, turn'[a] = turn[a],
         permits'[a] = permits[a], answers'[a] = answers[a],
         \A t \in Agents : group'[<<a, t>>] = group[<<a, t>>]
  PROVE  TurnOK(a)' /\ Counted(a)' /\ Answered(a)'
<1>1. InFlight(a)' = InFlight(a)
  BY DEF InFlight
<1>2. \A t \in Agents : Open(a, t)' = Open(a, t)
  BY DEF Open
<1> QED BY <1>1, <1>2 DEF Kept, TurnOK, Counted, Answered

\* A turn that was asked for keeps its asker as long as that one's group waits.
LEMMA AskerStays ==
  ASSUME NEW a \in Agents, Kept(a), turn'[a] = turn[a],
         \A b \in Agents :
           turn[b].place = "groups" /\ group[<<b, a>>] = "turn" =>
             /\ turn'[b].place = "groups" /\ group'[<<b, a>>] = "turn"
             /\ Open(b, a) \subseteq Open(b, a)'
  PROVE  Linked(a)'
BY DEF Kept, Linked

\* All results are in when no group is left.
LEMMA QuietIsAnswered ==
  ASSUME NEW a \in Agents, Kept(a), turn[a].place = "groups", Quiet(a)
  PROVE  answers[a] = turn[a].calls
<1>1. \A k \in DOMAIN turn[a].calls : answers[a][k] = turn[a].calls[k]
  BY DEF Kept, Answered, Quiet, Open, Asked
<1>2. turn[a].calls = [k \in DOMAIN turn[a].calls |-> turn[a].calls[k]]
  BY DEF Kept, TurnOK
<1> QED BY <1>1, <1>2 DEF Kept, Answered

LEMMA KeptHolds == SkillInit => SkillIInv
<1> SUFFICES ASSUME SkillInit PROVE SkillIInv
  OBVIOUS
<1>1. \A a \in Agents : InFlight(a) = {}
  BY DEF SkillInit, InFlight, Pairs
<1>2. config.maxParallel \in Nat
  BY SkillAssumption DEF SkillInit
<1>3. \A a \in Agents : turn[a].place = "free" /\ permits[a] = config.maxParallel
  BY DEF SkillInit, NoTurn
<1>4. ASSUME NEW a \in Agents PROVE Counted(a)
  BY <1>1, <1>2, <1>3, <1>4, FS_EmptySet DEF Counted
<1>5. \A a \in Agents : TurnOK(a) /\ Linked(a) /\ Answered(a)
  BY <1>3 DEF TurnOK, Linked, Answered
<1> QED BY <1>4, <1>5, LayeredHolds DEF SkillIInv, Kept, SkillInit

\* A turn of t that was free begins with all its permits and nothing to answer.
LEMMA BeginKept ==
  ASSUME SkillIInv, config' = config, NEW t \in Agents, NEW caller, Begin(t, caller),
         \A u \in Agents : group'[<<t, u>>] = group[<<t, u>>]
  PROVE  /\ TurnOK(t)' /\ Counted(t)' /\ Answered(t)'
         /\ turn'[t].place = "ask" /\ turn'[t].by = caller
         /\ permits' = [a \in Agents |-> permits'[a]]
         /\ answers' = [a \in Agents |-> answers'[a]]
         /\ \A a \in Agents : a # t =>
              turn'[a] = turn[a] /\ permits'[a] = permits[a] /\ answers'[a] = answers[a]
<1>1. turn[t].place = "free"
  BY DEF Begin, NoTurn
<1>2. InFlight(t) = {} /\ InFlight(t)' = InFlight(t)
  BY <1>1 DEF SkillIInv, Kept, Counted, InFlight
<1>3. /\ turn'[t].place = "ask" /\ turn'[t].by = caller
      /\ turn'[t].calls = <<>> /\ turn'[t].report = "empty"
      /\ answers'[t] = <<>> /\ permits'[t] = config.maxParallel
  BY DEF Begin, SkillIInv, Layered
<1>4. config.maxParallel \in Nat
  BY SkillAssumption DEF SkillIInv
<1>5. Counted(t)'
  BY <1>2, <1>3, <1>4, FS_EmptySet DEF Counted
<1>6. TurnOK(t)' /\ Answered(t)'
  BY <1>3 DEF TurnOK, Answered, Reports
<1> QED BY <1>3, <1>5, <1>6 DEF Begin, SkillIInv, Layered

\* A turn of a returns, and no group of its own is in flight.
LEMMA ReturnKept ==
  ASSUME SkillIInv, config' = config, permits' = permits, NEW a \in Agents, NEW r,
         turn[a].place # "free", InFlight(a) = {}, Return(a, r)
  PROVE  answers' = [c \in Agents |-> answers'[c]] /\ \A c \in Agents : Kept(c)'
<1>1. /\ turn'[a] = NoTurn
      /\ \A c \in Agents : c # a => turn'[c] = turn[c]
  BY DEF Return, SkillIInv, Layered
<1>2. \A t \in Agents : group[<<a, t>>] \notin {"running", "waiting", "turn"}
  BY DEF InFlight
<1>3. \A b, c \in Agents : turn[b].place = "groups" /\ group[<<b, c>>] = "turn" => b # a
  BY <1>2
<1>4. CASE turn[a].by[1] = "action"
  <2>1. /\ group' = Joined(a)
        /\ answers' = [answers EXCEPT ![a] = <<>>]
    BY <1>4 DEF Return
  <2>2. /\ \A t \in Agents : group'[<<a, t>>] = "none"
        /\ \A b, t \in Agents : b # a => group'[<<b, t>>] = group[<<b, t>>]
    BY <2>1 DEF Joined, Pairs
  <2>3. InFlight(a)' = {}
    BY <2>2 DEF InFlight
  <2>4. Kept(a)'
    <3>1. Counted(a) /\ turn'[a].place = "free"
      BY <1>1 DEF SkillIInv, Kept, NoTurn
    <3>2. Counted(a)'
      BY <2>3, <3>1 DEF Counted
    <3> QED BY <3>1, <3>2 DEF Kept, TurnOK, Linked, Answered
  <2>5. ASSUME NEW c \in Agents, c # a PROVE Kept(c)'
    <3>1. TurnOK(c)' /\ Counted(c)' /\ Answered(c)'
      BY <1>1, <2>1, <2>2, <2>5, Untouched DEF SkillIInv
    <3>2. Linked(c)'
      BY <1>1, <1>3, <2>1, <2>2, <2>5, AskerStays DEF SkillIInv, Open
    <3> QED BY <3>1, <3>2 DEF Kept
  <2> QED BY <2>1, <2>4, <2>5 DEF SkillIInv
<1>5. CASE turn[a].by[1] # "action"
  <2>1. PICK b \in Agents, k \in Nat :
          /\ turn[a].by = <<"group", b, k>>
          /\ turn[b].place = "groups" /\ group[<<b, a>>] = "turn" /\ k \in Open(b, a)
    BY <1>5 DEF SkillIInv, Kept, Linked
  <2>2. b # a
    BY <1>2, <2>1
  <2>3. /\ group' = [Joined(a) EXCEPT ![<<b, a>>] = "running"]
        /\ answers' = [answers EXCEPT ![a] = <<>>, ![b][k] = a]
    BY <1>5, <2>1 DEF Return
  <2>4. /\ \A t \in Agents : group'[<<a, t>>] = "none"
        /\ group'[<<b, a>>] = "running"
        /\ \A c, t \in Agents : c # a /\ <<c, t>> # <<b, a>> => group'[<<c, t>>] = group[<<c, t>>]
    BY <2>2, <2>3 DEF Joined, Pairs
  <2>5. /\ answers' = [c \in Agents |-> answers'[c]]
        /\ answers'[b] = [answers[b] EXCEPT ![k] = a]
        /\ \A c \in Agents : c # a /\ c # b => answers'[c] = answers[c]
    BY <2>2, <2>3 DEF SkillIInv
  <2>6. InFlight(a)' = {} /\ InFlight(b)' = InFlight(b)
    BY <2>1, <2>2, <2>4 DEF InFlight
  <2>7. Kept(a)'
    <3>1. Counted(a) /\ turn'[a].place = "free"
      BY <1>1 DEF SkillIInv, Kept, NoTurn
    <3>2. Counted(a)'
      BY <2>6, <3>1 DEF Counted
    <3> QED BY <3>1, <3>2 DEF Kept, TurnOK, Linked, Answered
  <2>8. \A t \in Agents : Open(b, t)' = Open(b, t) \ {k}
    <3>1. turn'[b] = turn[b] /\ k \in DOMAIN turn[b].calls /\ a # ""
      BY <1>1, <2>1, <2>2, SkillAssumption DEF Open
    <3>2. answers[b] = [j \in DOMAIN turn[b].calls |-> answers[b][j]]
      BY <2>1 DEF SkillIInv, Kept, Answered
    <3>3. /\ answers'[b][k] = a
          /\ \A j \in DOMAIN turn[b].calls : j # k => answers'[b][j] = answers[b][j]
      BY <2>5, <3>1, <3>2
    <3> QED BY <3>1, <3>3 DEF Open
  <2>9. Answered(b)' /\ Counted(b)' /\ TurnOK(b)'
    <3>1. turn'[b] = turn[b] /\ Answered(b) /\ Counted(b) /\ TurnOK(b)
      BY <1>1, <2>2 DEF SkillIInv, Kept
    <3>2. answers[b] = [j \in DOMAIN turn[b].calls |-> answers[b][j]]
      BY <2>1, <3>1 DEF Answered
    <3>3. k \in DOMAIN turn[b].calls /\ turn[b].calls[k] = a
      BY <2>1 DEF Open
    <3>4. /\ answers'[b] = [j \in DOMAIN turn[b].calls |-> answers'[b][j]]
          /\ answers'[b][k] = turn[b].calls[k]
          /\ \A j \in DOMAIN turn[b].calls : j # k => answers'[b][j] = answers[b][j]
      BY <2>5, <3>2, <3>3
    <3>5. ASSUME NEW t \in Agents
          PROVE  /\ group'[<<b, t>>] \in {"none", "done"} => Open(b, t)' = {}
                 /\ group'[<<b, t>>] = "waiting" => Open(b, t)' # {}
      <4>1. t # a => k \notin Open(b, t)
        BY <3>3 DEF Open
      <4>2. t = a => group'[<<b, t>>] = "running"
        BY <2>4
      <4>3. t # a => group'[<<b, t>>] = group[<<b, t>>] /\ Open(b, t)' = Open(b, t)
        BY <2>2, <2>4, <2>8, <4>1
      <4> QED BY <2>1, <3>1, <4>2, <4>3 DEF Answered
    <3>6. Answered(b)'
      BY <2>1, <3>1, <3>4, <3>5 DEF Answered
    <3> QED BY <2>6, <3>1, <3>6 DEF Counted, TurnOK
  <2>10. ASSUME NEW c \in Agents, c # a PROVE Linked(c)'
    <3>1. ASSUME NEW d \in Agents, turn[d].place = "groups", group[<<d, c>>] = "turn"
          PROVE  /\ turn'[d].place = "groups" /\ group'[<<d, c>>] = "turn"
                 /\ Open(d, c) \subseteq Open(d, c)'
      <4>1. d # a /\ turn'[d] = turn[d] /\ group'[<<d, c>>] = "turn"
        BY <1>1, <1>3, <2>4, <2>10, <3>1
      <4>2. d # b => answers'[d] = answers[d]
        BY <2>5, <4>1
      <4>3. Open(d, c) \subseteq Open(d, c)'
        <5>1. CASE d = b
          <6>1. k \notin Open(b, c)
            BY <2>1, <2>10 DEF Open
          <6> QED BY <2>8, <5>1, <6>1
        <5>2. CASE d # b
          BY <4>1, <4>2, <5>2 DEF Open
        <5> QED BY <5>1, <5>2
      <4> QED BY <3>1, <4>1, <4>3
    <3> QED BY <1>1, <2>10, <3>1, AskerStays DEF SkillIInv
  <2>11. ASSUME NEW c \in Agents, c # a, c # b PROVE Kept(c)'
    <3>1. TurnOK(c)' /\ Counted(c)' /\ Answered(c)'
      BY <1>1, <2>4, <2>5, <2>11, Untouched DEF SkillIInv
    <3> QED BY <2>10, <2>11, <3>1 DEF Kept
  <2> QED BY <2>2, <2>5, <2>7, <2>9, <2>10, <2>11 DEF Kept
<1> QED BY <1>4, <1>5

\* A turn of a goes on, and neither before nor after is a group of its in flight.
LEMMA GoesOnKept ==
  ASSUME SkillIInv, config' = config, permits' = permits, NEW a \in Agents,
         turn[a].place # "free", turn'[a].by = turn[a].by,
         \A c \in Agents : c # a => turn'[c] = turn[c] /\ answers'[c] = answers[c],
         \A c, t \in Agents : c # a => group'[<<c, t>>] = group[<<c, t>>],
         InFlight(a) = {}, InFlight(a)' = {}, TurnOK(a)', Answered(a)'
  PROVE  \A c \in Agents : Kept(c)'
<1>1. \A c \in Agents : group[<<a, c>>] # "turn"
  BY DEF InFlight
<1>2. Counted(a)'
  BY DEF SkillIInv, Kept, Counted
<1>3. Linked(a)'
  <2>1. CASE turn[a].by[1] = "action"
    BY <2>1 DEF Linked
  <2>2. CASE turn[a].by[1] # "action"
    <3>1. PICK b \in Agents, k \in Nat :
            /\ turn[a].by = <<"group", b, k>>
            /\ turn[b].place = "groups" /\ group[<<b, a>>] = "turn" /\ k \in Open(b, a)
      BY <2>2 DEF SkillIInv, Kept, Linked
    <3>2. b # a
      BY <1>1, <3>1
    <3>3. turn'[b].place = "groups" /\ group'[<<b, a>>] = "turn" /\ k \in Open(b, a)'
      BY <3>1, <3>2 DEF Open
    <3> QED BY <3>1, <3>3 DEF Linked
  <2> QED BY <2>1, <2>2
<1>4. ASSUME NEW c \in Agents, c # a PROVE Kept(c)'
  <2>1. TurnOK(c)' /\ Counted(c)' /\ Answered(c)'
    BY <1>4, Untouched DEF SkillIInv
  <2>2. Linked(c)'
    BY <1>1, <1>4, AskerStays DEF SkillIInv, Open
  <2> QED BY <2>1, <2>2 DEF Kept
<1> QED BY <1>2, <1>3, <1>4 DEF Kept

\* A step of a turn.
LEMMA TurnStepKeeps ==
  ASSUME SkillIInv, NEW a \in Agents, Turn(a)
  PROVE  /\ permits' = permits
         /\ answers' = [c \in Agents |-> answers'[c]] /\ \A c \in Agents : Kept(c)'
<1> USE DEF runnerVars, boardVars, turnVars, cancelVars
<1>0. Kept(a) /\ Shaped(turn[a]) /\ turn = [c \in Agents |-> turn[c]]
  BY DEF SkillIInv, Layered
<1>1. CASE Ask(a)
  <2>1. /\ turn[a].place = "ask" /\ config' = config /\ group' = group /\ permits' = permits
        /\ answers' = [answers EXCEPT ![a] = <<>>]
    BY <1>1 DEF Ask
  <2>2. DOMAIN turn[a] = TurnFields
    BY <1>0, <2>1 DEF Shaped, NoTurn
  <2>3. /\ turn'[a].place = "asked" /\ turn'[a].by = turn[a].by
        /\ turn'[a].calls = <<>> /\ turn'[a].report = "empty"
        /\ \A c \in Agents : c # a => turn'[c] = turn[c]
    BY <1>0, <1>1, <2>2 DEF Ask, TurnFields
  <2>4. InFlight(a) = {} /\ InFlight(a)' = {}
    BY <1>0, <2>1 DEF Kept, Counted, InFlight
  <2>5. /\ answers' = [c \in Agents |-> answers'[c]] /\ answers'[a] = <<>>
        /\ \A c \in Agents : c # a => answers'[c] = answers[c]
    BY <2>1 DEF SkillIInv
  <2>6. TurnOK(a)' /\ Answered(a)'
    BY <2>3, <2>5 DEF TurnOK, Answered, Reports
  <2> QED BY <2>1, <2>3, <2>4, <2>5, <2>6, GoesOnKept
<1>2. CASE Fails(a)
  <2>1. turn[a].place = "asked" /\ config' = config /\ permits' = permits
    BY <1>2 DEF Fails
  <2>2. InFlight(a) = {}
    BY <1>0, <2>1 DEF Kept, Counted
  <2>3. CASE Return(a, "error")
    BY <2>1, <2>2, <2>3, ReturnKept
  <2>4. CASE /\ turn' = [turn EXCEPT ![a].forced = FALSE]
             /\ UNCHANGED <<group, answers>>
    <3>1. DOMAIN turn[a] = TurnFields
      BY <1>0, <2>1 DEF Shaped, NoTurn
    <3>2. /\ turn'[a].place = "asked" /\ turn'[a].by = turn[a].by
          /\ turn'[a].calls = turn[a].calls /\ turn'[a].report = turn[a].report
          /\ \A c \in Agents : c # a => turn'[c] = turn[c]
      BY <1>0, <2>1, <2>4, <3>1 DEF TurnFields
    <3>3. InFlight(a)' = {}
      BY <2>2, <2>4 DEF InFlight
    <3>4. TurnOK(a)' /\ Answered(a)'
      BY <1>0, <2>1, <2>4, <3>2 DEF Kept, TurnOK, Answered
    <3> QED BY <2>1, <2>2, <2>4, <3>2, <3>3, <3>4, GoesOnKept DEF SkillIInv
  <2> QED BY <1>2, <2>3, <2>4, Zenon DEF Fails
<1>3. CASE AnswersInProse(a)
  <2>1. turn[a].place = "asked" /\ config' = config /\ permits' = permits
    BY <1>3 DEF AnswersInProse
  <2>2. InFlight(a) = {}
    BY <1>0, <2>1 DEF Kept, Counted
  <2>3. CASE \E r : Return(a, r)
    BY <2>1, <2>2, <2>3, ReturnKept
  <2>4. CASE ~ \E r : Return(a, r)
    <3>0. /\ turn' = [turn EXCEPT ![a].place = "ask", ![a].iter = @ + 1, ![a].nudged = TRUE,
                                   ![a].forced = force, ![a].narr = TRUE]
          /\ UNCHANGED <<group, answers>>
      BY <1>3, <2>4, Zenon DEF AnswersInProse
    <3>1. DOMAIN turn[a] = TurnFields
      BY <1>0, <2>1 DEF Shaped, NoTurn
    <3>2. /\ turn'[a].place = "ask" /\ turn'[a].by = turn[a].by
          /\ turn'[a].calls = turn[a].calls /\ turn'[a].report = turn[a].report
          /\ \A c \in Agents : c # a => turn'[c] = turn[c]
      BY <1>0, <3>0, <3>1 DEF TurnFields
    <3>3. InFlight(a)' = {}
      BY <2>2, <3>0 DEF InFlight
    <3>4. TurnOK(a)' /\ Answered(a)'
      BY <1>0, <2>1, <3>0, <3>2 DEF Kept, TurnOK, Answered
    <3> QED BY <2>1, <2>2, <3>0, <3>2, <3>3, <3>4, GoesOnKept DEF SkillIInv
  <2> QED BY <2>3, <2>4
<1>4. CASE AnswersWithCalls(a)
  <2>1. PICK reply \in Replies[a] :
          /\ turn' = [turn EXCEPT ![a].place = "groups", ![a].calls = reply.calls,
                                  ![a].narr = @ \/ reply.text, ![a].report = reply.report]
          /\ answers' = [answers EXCEPT ![a] =
                           [k \in DOMAIN reply.calls |->
                              IF Asked(reply.calls[k]) THEN "" ELSE reply.calls[k]]]
          /\ group' = [p \in Pairs |-> IF p[1] # a THEN group[p]
                                       ELSE IF p[2] \in ToSet(reply.calls) THEN "queued"
                                       ELSE "none"]
    BY <1>4, Zenon DEF AnswersWithCalls
  <2>2. turn[a].place = "asked" /\ config' = config /\ permits' = permits
    BY <1>4 DEF AnswersWithCalls
  <2>3. reply.calls \in Seq(Words) /\ reply.report \in Reports
    BY SkillAssumption
  <2>4. DOMAIN turn[a] = TurnFields
    BY <1>0, <2>2 DEF Shaped, NoTurn
  <2>5. /\ turn'[a].place = "groups" /\ turn'[a].by = turn[a].by
        /\ turn'[a].calls = reply.calls /\ turn'[a].report = reply.report
        /\ \A c \in Agents : c # a => turn'[c] = turn[c]
    BY <1>0, <2>1, <2>4 DEF TurnFields
  <2>6. /\ \A t \in Agents : group'[<<a, t>>] =
                               IF t \in ToSet(reply.calls) THEN "queued" ELSE "none"
        /\ \A c, t \in Agents : c # a => group'[<<c, t>>] = group[<<c, t>>]
    BY <2>1 DEF Pairs
  <2>7. InFlight(a) = {} /\ InFlight(a)' = {}
    BY <1>0, <2>2, <2>6 DEF Kept, Counted, InFlight
  <2>8. /\ answers' = [c \in Agents |-> answers'[c]]
        /\ answers'[a] = [k \in DOMAIN reply.calls |->
                            IF Asked(reply.calls[k]) THEN "" ELSE reply.calls[k]]
        /\ \A c \in Agents : c # a => answers'[c] = answers[c]
    BY <2>1 DEF SkillIInv
  <2>9. \A t \in Agents : t \notin ToSet(reply.calls) => Open(a, t)' = {}
    BY <2>5 DEF Open, ToSet
  <2>10. Answered(a)'
    <3>1. \A k \in DOMAIN reply.calls :
            \/ answers'[a][k] = reply.calls[k]
            \/ answers'[a][k] = "" /\ Asked(reply.calls[k])
      BY <2>8
    <3>2. \A t \in Agents : /\ group'[<<a, t>>] \in {"none", "done"} => Open(a, t)' = {}
                           /\ group'[<<a, t>>] # "waiting"
      BY <2>6, <2>9
    <3>3. answers'[a] = [k \in DOMAIN reply.calls |-> answers'[a][k]]
      BY <2>8
    <3> QED BY <2>5, <3>1, <3>2, <3>3 DEF Answered, Asked
  <2>11. TurnOK(a)'
    BY <2>3, <2>5 DEF TurnOK
  <2> QED BY <2>2, <2>5, <2>6, <2>7, <2>8, <2>10, <2>11, GoesOnKept
<1>5. CASE Collect(a)
  <2>1. turn[a].place = "groups" /\ Quiet(a) /\ config' = config /\ permits' = permits
    BY <1>5 DEF Collect
  <2>2. InFlight(a) = {}
    BY <2>1 DEF Quiet, InFlight
  <2>3. CASE \E r : Return(a, r)
    BY <2>1, <2>2, <2>3, ReturnKept
  <2>4. CASE ~ \E r : Return(a, r)
    <3>0. /\ turn' = [turn EXCEPT ![a].place = "ask", ![a].iter = @ + 1, ![a].forced = force]
          /\ group' = Joined(a) /\ answers' = answers
      BY <1>5, <2>4, Zenon DEF Collect
    <3>1. DOMAIN turn[a] = TurnFields
      BY <1>0, <2>1 DEF Shaped, NoTurn
    <3>2. /\ turn'[a].place = "ask" /\ turn'[a].by = turn[a].by
          /\ turn'[a].calls = turn[a].calls /\ turn'[a].report = turn[a].report
          /\ \A c \in Agents : c # a => turn'[c] = turn[c]
      BY <1>0, <3>0, <3>1 DEF TurnFields
    <3>3. /\ \A t \in Agents : group'[<<a, t>>] = "none"
          /\ \A c, t \in Agents : c # a => group'[<<c, t>>] = group[<<c, t>>]
      BY <3>0 DEF Joined, Pairs
    <3>4. InFlight(a)' = {}
      BY <3>3 DEF InFlight
    <3>5. answers[a] = turn[a].calls
      BY <1>0, <2>1, QuietIsAnswered
    <3>6. TurnOK(a)' /\ Answered(a)'
      BY <1>0, <2>1, <3>0, <3>2, <3>5 DEF Kept, TurnOK, Answered
    <3> QED BY <2>1, <2>2, <3>0, <3>2, <3>3, <3>4, <3>6, GoesOnKept DEF SkillIInv
  <2> QED BY <2>3, <2>4
<1> QED BY <1>1, <1>2, <1>3, <1>4, <1>5 DEF Turn

\* A group of a changes its state, and no other.
LEMMA GroupKept ==
  ASSUME SkillIInv, config' = config, turn' = turn, answers' = answers,
         NEW a \in Agents, NEW t \in Agents,
         turn[a].place = "groups", group[<<a, t>>] # "turn",
         \A c, u \in Agents : <<c, u>> # <<a, t>> => group'[<<c, u>>] = group[<<c, u>>],
         group'[<<a, t>>] \in {"none", "done"} => Open(a, t) = {},
         group'[<<a, t>>] = "waiting" => Open(a, t) # {},
         \A c \in Agents : c # a => permits'[c] = permits[c],
         Counted(a)'
  PROVE  \A c \in Agents : Kept(c)'
<1>1. Answered(a)' /\ TurnOK(a)'
  <2>1. Answered(a) /\ TurnOK(a) /\ \A u \in Agents : Open(a, u)' = Open(a, u)
    BY DEF SkillIInv, Kept, Open
  <2>2. \A u \in Agents : /\ group'[<<a, u>>] \in {"none", "done"} => Open(a, u)' = {}
                         /\ group'[<<a, u>>] = "waiting" => Open(a, u)' # {}
    <3> TAKE u \in Agents
    <3>1. u # t => group'[<<a, u>>] = group[<<a, u>>]
      OBVIOUS
    <3> QED BY <2>1, <3>1 DEF Answered
  <2> QED BY <2>1, <2>2 DEF Answered, TurnOK
<1>2. ASSUME NEW c \in Agents PROVE Linked(c)'
  BY <1>2, AskerStays DEF SkillIInv, Open
<1>3. ASSUME NEW c \in Agents, c # a PROVE TurnOK(c)' /\ Counted(c)' /\ Answered(c)'
  BY <1>3, Untouched DEF SkillIInv
<1> QED BY <1>1, <1>2, <1>3 DEF Kept

\* A step of a group.
LEMMA GroupStepKeeps ==
  ASSUME SkillIInv, NEW a \in Agents, NEW t \in Agents, GroupThread(a, t)
  PROVE  /\ permits' = [c \in Agents |-> permits'[c]]
         /\ answers' = [c \in Agents |-> answers'[c]]
         /\ \A c \in Agents : Kept(c)'
<1> USE DEF runnerVars, boardVars, turnVars, cancelVars
<1>0. Kept(a) /\ group = [p \in Pairs |-> group[p]] /\ config.maxParallel \in Nat
  BY SkillAssumption DEF SkillIInv, Layered
<1>1. CASE Launch(a, t)
  <2>1. /\ turn[a].place = "groups" /\ group[<<a, t>>] = "queued" /\ permits[a] > 0
        /\ permits' = [permits EXCEPT ![a] = @ - 1]
        /\ group' = [group EXCEPT ![<<a, t>>] = "running"]
        /\ UNCHANGED <<config, turn, answers>>
    BY <1>1 DEF Launch
  <2>2. /\ group'[<<a, t>>] = "running"
        /\ \A c, u \in Agents : <<c, u>> # <<a, t>> => group'[<<c, u>>] = group[<<c, u>>]
    BY <1>0, <2>1 DEF Pairs
  <2>3. InFlight(a)' = InFlight(a) \cup {t} /\ t \notin InFlight(a)
    BY <2>1, <2>2 DEF InFlight
  <2>4. /\ IsFiniteSet(InFlight(a)')
        /\ Cardinality(InFlight(a)') = Cardinality(InFlight(a)) + 1
    BY <1>0, <2>3, FS_AddElement DEF Kept, Counted
  <2>5. permits'[a] = permits[a] - 1 /\ \A c \in Agents : c # a => permits'[c] = permits[c]
    BY <2>1 DEF SkillIInv
  <2>6. Cardinality(InFlight(a)) \in Nat
    BY <1>0, FS_CardinalityType DEF Kept, Counted
  <2>7. Counted(a)'
    BY <1>0, <2>1, <2>4, <2>5, <2>6 DEF Kept, Counted
  <2> QED BY <2>1, <2>2, <2>5, <2>7, GroupKept DEF SkillIInv
<1>2. CASE GroupEnds(a, t)
  <2>1. /\ turn[a].place = "groups" /\ group[<<a, t>>] = "running" /\ Open(a, t) = {}
        /\ permits' = [permits EXCEPT ![a] = @ + 1]
        /\ group' = [group EXCEPT ![<<a, t>>] = "done"]
        /\ UNCHANGED <<config, turn, answers>>
    BY <1>2 DEF GroupEnds
  <2>2. /\ group'[<<a, t>>] = "done"
        /\ \A c, u \in Agents : <<c, u>> # <<a, t>> => group'[<<c, u>>] = group[<<c, u>>]
    BY <1>0, <2>1 DEF Pairs
  <2>3. InFlight(a)' = InFlight(a) \ {t} /\ t \in InFlight(a)
    BY <2>1, <2>2 DEF InFlight
  <2>4. /\ IsFiniteSet(InFlight(a)')
        /\ Cardinality(InFlight(a)') = Cardinality(InFlight(a)) - 1
    BY <1>0, <2>3, FS_RemoveElement DEF Kept, Counted
  <2>5. permits'[a] = permits[a] + 1 /\ \A c \in Agents : c # a => permits'[c] = permits[c]
    BY <2>1 DEF SkillIInv
  <2>6. Cardinality(InFlight(a)) \in Nat
    BY <1>0, FS_CardinalityType DEF Kept, Counted
  <2>7. Counted(a)'
    BY <1>0, <2>1, <2>4, <2>5, <2>6 DEF Kept, Counted
  <2> QED BY <2>1, <2>2, <2>5, <2>7, GroupKept DEF SkillIInv
<1>3. CASE Dispatch(a, t)
  <2>1. /\ turn[a].place = "groups" /\ group[<<a, t>>] = "running" /\ Open(a, t) # {}
        /\ UNCHANGED <<config, turn, permits>>
    BY <1>3 DEF Dispatch
  <2>2. CASE group' = [group EXCEPT ![<<a, t>>] = "waiting"] /\ UNCHANGED answers
    <3>1. /\ group'[<<a, t>>] = "waiting"
          /\ \A c, u \in Agents : <<c, u>> # <<a, t>> => group'[<<c, u>>] = group[<<c, u>>]
      BY <1>0, <2>2 DEF Pairs
    <3>2. InFlight(a)' = InFlight(a)
      BY <2>1, <3>1 DEF InFlight
    <3>3. Counted(a)'
      BY <1>0, <2>1, <3>2 DEF Kept, Counted
    <3> QED BY <2>1, <2>2, <3>1, <3>3, GroupKept DEF SkillIInv
  <2>3. CASE Answer(a, t)
    <3> DEFINE k == NextCall(a, t)
    <3>1. group' = group /\ answers' = [answers EXCEPT ![a][k] = t]
      BY <2>3 DEF Answer
    <3>2. Open(a, t) \subseteq Nat
      BY <1>0, <2>1, OpenAreNumbers DEF Kept
    <3>3. k \in Open(a, t)
      BY <2>1, <3>2, NextIsOpen
    <3> HIDE DEF k
    <3>4. k \in DOMAIN turn[a].calls /\ turn[a].calls[k] = t /\ t # ""
      BY <3>3, SkillAssumption DEF Open
    <3>5. /\ answers' = [c \in Agents |-> answers'[c]]
          /\ answers'[a] = [answers[a] EXCEPT ![k] = t]
          /\ \A c \in Agents : c # a => answers'[c] = answers[c]
      BY <3>1 DEF SkillIInv
    <3>6. answers[a] = [j \in DOMAIN turn[a].calls |-> answers[a][j]]
      BY <1>0, <2>1 DEF Kept, Answered
    <3>7. /\ answers'[a] = [j \in DOMAIN turn[a].calls |-> answers'[a][j]]
          /\ answers'[a][k] = turn[a].calls[k]
          /\ \A j \in DOMAIN turn[a].calls : j # k => answers'[a][j] = answers[a][j]
      BY <3>4, <3>5, <3>6
    <3>8. \A u \in Agents : Open(a, u)' = Open(a, u) \ {k}
      BY <2>1, <3>4, <3>7 DEF Open
    <3>9. Answered(a)' /\ TurnOK(a)'
      <4>1. /\ turn'[a] = turn[a] /\ turn[a].place = "groups" /\ Answered(a) /\ TurnOK(a)
        BY <1>0, <2>1 DEF Kept
      <4>2. ASSUME NEW u \in Agents
            PROVE  /\ group'[<<a, u>>] \in {"none", "done"} => Open(a, u)' = {}
                   /\ group'[<<a, u>>] = "waiting" => Open(a, u)' # {}
        <5>1. u # t => k \notin Open(a, u)
          BY <3>4 DEF Open
        <5>2. u # t => Open(a, u)' = Open(a, u)
          BY <3>8, <5>1
        <5>3. u = t => group'[<<a, u>>] = "running"
          BY <2>1, <3>1
        <5> QED BY <3>1, <4>1, <5>2, <5>3 DEF Answered
      <4> QED BY <3>7, <4>1, <4>2 DEF Answered, TurnOK, Asked
    <3>10. Counted(a)'
      BY <1>0, <2>1, <3>1 DEF Kept, Counted, InFlight
    <3>11. ASSUME NEW c \in Agents PROVE Linked(c)'
      <4>1. ASSUME NEW b \in Agents, turn[b].place = "groups", group[<<b, c>>] = "turn"
            PROVE  Open(b, c) \subseteq Open(b, c)'
        <5>1. CASE b = a
          <6>1. c # t
            BY <2>1, <4>1, <5>1
          <6>2. k \notin Open(a, c)
            BY <3>4, <6>1 DEF Open
          <6> QED BY <3>8, <5>1, <6>2
        <5>2. CASE b # a
          BY <2>1, <3>5, <5>2 DEF Open
        <5> QED BY <5>1, <5>2
      <4> QED BY <2>1, <3>1, <3>11, <4>1, AskerStays DEF SkillIInv
    <3>12. ASSUME NEW c \in Agents, c # a PROVE TurnOK(c)' /\ Counted(c)' /\ Answered(c)'
      BY <2>1, <3>1, <3>5, <3>12, Untouched DEF SkillIInv
    <3> QED BY <2>1, <3>5, <3>9, <3>10, <3>11, <3>12 DEF Kept, SkillIInv
  <2> QED BY <1>3, <2>2, <2>3, Zenon DEF Dispatch
<1>4. CASE BeginAsked(a, t)
  <2> DEFINE k == NextCall(a, t)
             caller == <<"group", a, k>>
  <2>1. /\ group[<<a, t>>] = "waiting" /\ Begin(t, caller) /\ UNCHANGED config
        /\ group' = [group EXCEPT ![<<a, t>>] = "turn"]
    BY <1>4 DEF BeginAsked
  <2>2. turn[a].place = "groups" /\ a # t
    BY <2>1 DEF SkillIInv, Layered
  <2>3. /\ group'[<<a, t>>] = "turn"
        /\ \A c, u \in Agents : <<c, u>> # <<a, t>> => group'[<<c, u>>] = group[<<c, u>>]
    BY <1>0, <2>1 DEF Pairs
  <2> HIDE DEF caller
  <2>4. /\ TurnOK(t)' /\ Counted(t)' /\ Answered(t)'
        /\ turn'[t].place = "ask" /\ turn'[t].by = caller
        /\ permits' = [c \in Agents |-> permits'[c]]
        /\ answers' = [c \in Agents |-> answers'[c]]
        /\ \A c \in Agents : c # t =>
             turn'[c] = turn[c] /\ permits'[c] = permits[c] /\ answers'[c] = answers[c]
    BY <2>1, <2>2, <2>3, BeginKept
  <2>5. k \in Open(a, t) /\ k \in Nat
    <3>1. Open(a, t) # {} /\ Open(a, t) \subseteq Nat
      BY <1>0, <2>1, <2>2, OpenAreNumbers DEF Kept, Answered
    <3> QED BY <3>1, NextIsOpen
  <2> HIDE DEF k
  <2>6. \A b, c \in Agents : turn[b].place = "groups" => b # t
    BY <2>1 DEF Begin, NoTurn
  <2>7. ASSUME NEW c \in Agents PROVE Linked(c)'
    <3>1. CASE c = t
      <4>1. turn'[a] = turn[a] /\ answers'[a] = answers[a]
        BY <2>2, <2>4
      <4>2. k \in Open(a, t)'
        BY <2>5, <4>1 DEF Open
      <4> QED BY <2>2, <2>3, <2>4, <2>5, <3>1, <4>1, <4>2 DEF Linked, caller
    <3>2. CASE c # t
      BY <2>3, <2>4, <2>6, <2>7, <3>2, AskerStays DEF SkillIInv, Open
    <3> QED BY <3>1, <3>2
  <2>8. TurnOK(a)' /\ Counted(a)' /\ Answered(a)'
    <3>1. turn'[a] = turn[a] /\ answers'[a] = answers[a] /\ permits'[a] = permits[a]
      BY <2>2, <2>4
    <3>2. InFlight(a)' = InFlight(a)
      BY <2>1, <2>3 DEF InFlight
    <3>3. \A u \in Agents : Open(a, u)' = Open(a, u)
      BY <3>1 DEF Open
    <3>4. \A u \in Agents : u # t => group'[<<a, u>>] = group[<<a, u>>]
      BY <2>3
    <3>5. Counted(a)' /\ TurnOK(a)'
      BY <1>0, <2>1, <3>1, <3>2 DEF Kept, Counted, TurnOK
    <3>6. Answered(a)'
      BY <1>0, <2>3, <3>1, <3>3, <3>4 DEF Kept, Answered
    <3> QED BY <3>5, <3>6
  <2>9. ASSUME NEW c \in Agents, c # a, c # t PROVE TurnOK(c)' /\ Counted(c)' /\ Answered(c)'
    BY <2>1, <2>3, <2>4, <2>9, Untouched DEF SkillIInv
  <2> QED BY <2>4, <2>7, <2>8, <2>9 DEF Kept
<1> QED BY <1>1, <1>2, <1>3, <1>4 DEF GroupThread

LEMMA KeptStepKeeps == SkillIInv /\ [SkillNext]_skillVars => SkillIInv'
<1> SUFFICES ASSUME SkillIInv, [SkillNext]_skillVars PROVE SkillIInv'
  OBVIOUS
<1> USE DEF runnerVars, boardVars, turnVars, cancelVars
<1>0. Layered'
  BY LayersStepKeeps DEF SkillIInv
<1>a. ASSUME config' = config, turn' = turn, group' = group, permits' = permits,
             answers' = answers
      PROVE  SkillIInv'
  <2>1. \A a \in Agents : TurnOK(a)' /\ Counted(a)' /\ Answered(a)'
    BY <1>a, Untouched DEF SkillIInv
  <2>2. \A a \in Agents : Linked(a)'
    BY <1>a, AskerStays DEF SkillIInv, Open
  <2> QED BY <1>0, <1>a, <2>1, <2>2 DEF SkillIInv, Kept
<1>1. CASE Runner \/ UserCancels \/ RegistryCancels \/ SkillRest \/ UNCHANGED skillVars
  <2>1. UNCHANGED <<config, turn, group, permits, answers>>
    BY <1>1 DEF Runner, Load, Round, Step, StepsDone, Merge, Judge, End, Report, UserCancels,
                RegistryCancels, SkillRest, skillVars
  <2> QED BY <2>1, <1>a
<1>2. ASSUME NEW i \in 1 .. MaxActions, StartAction(i) PROVE SkillIInv'
  <2>1. UNCHANGED <<config, turn, group, permits, answers>>
    BY <1>2 DEF StartAction
  <2> QED BY <2>1, <1>a
<1>3. ASSUME NEW i \in 1 .. MaxActions, BeginAction(i) PROVE SkillIInv'
  <2> DEFINE caller == <<"action", i>>
  <2>1. config' = config /\ group' = group /\ Begin(StepNow.actions[i].agent, caller)
    BY <1>3 DEF BeginAction
  <2>2. CASE StepNow.actions[i].agent \in Agents
    <3>0. caller[1] = "action"
      OBVIOUS
    <3> HIDE DEF caller
    <3>a. PICK t \in Agents : Begin(t, caller)
      BY <2>1, <2>2
    <3>1. /\ TurnOK(t)' /\ Counted(t)' /\ Answered(t)'
          /\ turn'[t].place = "ask" /\ turn'[t].by = caller
          /\ permits' = [c \in Agents |-> permits'[c]]
          /\ answers' = [c \in Agents |-> answers'[c]]
          /\ \A c \in Agents : c # t =>
               turn'[c] = turn[c] /\ permits'[c] = permits[c] /\ answers'[c] = answers[c]
      BY <2>1, <3>a, BeginKept
    <3>2. \A b \in Agents : turn[b].place = "groups" => b # t
      BY <3>a DEF Begin, NoTurn
    <3>3. ASSUME NEW c \in Agents, c # t PROVE Kept(c)'
      <4>1. TurnOK(c)' /\ Counted(c)' /\ Answered(c)'
        BY <2>1, <3>1, <3>3, Untouched DEF SkillIInv
      <4>2. Linked(c)'
        BY <2>1, <3>1, <3>2, <3>3, AskerStays DEF SkillIInv, Open
      <4> QED BY <4>1, <4>2 DEF Kept
    <3>4. Linked(t)'
      BY <3>0, <3>1 DEF Linked
    <3> QED BY <1>0, <2>1, <3>1, <3>3, <3>4 DEF Kept, SkillIInv
  <2>3. CASE StepNow.actions[i].agent \notin Agents
    <3>1. turn' = turn /\ permits' = permits /\ answers' = answers
      BY <2>1, <2>3 DEF Begin, SkillIInv, Layered
    <3> QED BY <2>1, <3>1, <1>a
  <2> QED BY <2>2, <2>3
<1>4. ASSUME NEW a \in Agents, Turn(a) PROVE SkillIInv'
  <2>1. config' = config
    BY <1>4 DEF Turn, Ask, Fails, AnswersInProse, AnswersWithCalls, Collect
  <2> QED BY <1>0, <1>4, <2>1, TurnStepKeeps DEF SkillIInv
<1>5. ASSUME NEW a \in Agents, NEW t \in Agents, GroupThread(a, t) PROVE SkillIInv'
  <2>1. config' = config
    BY <1>5 DEF GroupThread, Launch, Dispatch, BeginAsked, GroupEnds
  <2> QED BY <1>0, <1>5, <2>1, GroupStepKeeps DEF SkillIInv
<1> QED BY <1>1, <1>2, <1>3, <1>4, <1>5 DEF SkillNext, Threads, ActionThread

----------------------------------------------------------------------------
\* Types

\* An action that is done has a result, one that was skipped a cancel.
ActAt(i) ==
  /\ act[i] = "done" => result[i] \in Results
  /\ act[i] = "skipped" => cancelRequested = TRUE
ActsOK ==
  /\ act \in [1 .. MaxActions -> ActStates]
  /\ result = [i \in 1 .. MaxActions |-> result[i]]
  /\ \A i \in 1 .. MaxActions : ActAt(i)

BoardOK ==
  /\ votes \in [Agents -> {"none", "agree", "dissent"}]
  /\ slots \in [Agents -> Results] /\ prevSlots \in [Agents -> Results]

RunnerOK ==
  /\ pc \in {"load", "round", "step", "acting", "judge", "end", "report", "done"}
  /\ phase \in {"rounds", "converge"}
  /\ round \in Nat /\ ix \in Nat \ {0}
  /\ pc = "acting" => ix <= Len(Steps)

GroupsOK == group \in [Pairs -> GroupStates]

CancelOK == cancelRequested \in BOOLEAN

SkillTypes == CancelOK /\ ActsOK /\ BoardOK /\ RunnerOK /\ GroupsOK

LEMMA TypesHold == SkillInit => SkillTypes
<1> SUFFICES ASSUME SkillInit PROVE SkillTypes
  OBVIOUS
<1>1. ActsOK
  BY DEF SkillInit, ActsOK, ActAt, NoActions, NoResults, ActStates
<1>2. BoardOK
  BY DEF SkillInit, BoardOK, Results, Reports
<1>3. RunnerOK
  BY DEF SkillInit, RunnerOK
<1>4. GroupsOK
  BY DEF SkillInit, GroupsOK, GroupStates
<1>5. CancelOK
  BY DEF SkillInit, CancelOK
<1> QED BY <1>1, <1>2, <1>3, <1>4, <1>5 DEF SkillTypes

\* A bounded set of numbers has a greatest one.
LEMMA HasGreatest ==
  ASSUME NEW n \in Nat, NEW S, S \subseteq 1 .. n, S # {}
  PROVE  \E k \in S : \A j \in S : j <= k
<1> DEFINE T == {n - j : j \in S}
<1>1. T \subseteq Nat /\ T # {}
  <2>1. \A j \in S : j \in 1 .. n /\ n - j \in Nat
    OBVIOUS
  <2> QED BY <2>1
<1>2. PICK m \in T : \A l \in T : m <= l
  BY <1>1, HasLeast
<1>3. PICK k \in S : m = n - k
  BY <1>2
<1>4. ASSUME NEW j \in S PROVE j <= k
  <2>1. n - j \in T
    OBVIOUS
  <2>2. m <= n - j
    BY <1>2, <2>1
  <2> QED BY <1>3, <2>2
<1> QED BY <1>4

\* The step at hand has as many actions as there are places for them.
LEMMA StepFits ==
  ASSUME config \in Configs, RunnerOK, ix <= Len(Steps)
  PROVE  DOMAIN StepNow.actions = 1 .. Len(StepNow.actions)
         /\ Len(StepNow.actions) \in Nat /\ DOMAIN StepNow.actions \subseteq 1 .. MaxActions
<1>1. Steps \in Programs /\ \A k \in DOMAIN Steps : Len(Steps[k].actions) <= MaxActions
  BY SkillAssumption DEF Steps
<1>2. ix \in DOMAIN Steps
  BY <1>1 DEF RunnerOK, Programs
<1>3. StepNow.actions \in Seq([agent : STRING, shape : STRING])
  <2> DEFINE Action == [agent : STRING, shape : STRING]
             OneStep == [when : STRING, parallel : BOOLEAN, actions : Seq(Action)]
  <2> HIDE DEF OneStep
  <2>1. Steps \in Seq(OneStep)
    BY <1>1 DEF Programs, OneStep
  <2>2. Steps[ix] \in OneStep
    BY <1>2, <2>1
  <2> QED BY <2>2 DEF StepNow, OneStep
<1>4. Len(StepNow.actions) <= MaxActions /\ MaxActions \in Nat
  BY <1>1, <1>2, SkillAssumption DEF StepNow
<1> QED BY <1>3, <1>4

\* The merge puts results of the step on the board.
LEMMA MergeOK ==
  ASSUME BoardOK, mergeActions, UNCHANGED prevSlots, NEW n \in Nat,
         DOMAIN StepNow.actions = 1 .. n,
         \A i \in 1 .. n : result[i] \in Results
  PROVE  BoardOK'
<1>1. \A a \in Agents : votes'[a] \in {"none", "agree", "dissent"}
  BY DEF mergeActions, Merged, voteOf, BoardOK
<1>2. ASSUME NEW a \in Agents PROVE slots'[a] \in Results
  <2> DEFINE mine == {i \in DOMAIN StepNow.actions :
                        StepNow.actions[i].agent = a /\ StepNow.actions[i].shape = "text"}
             last == CHOOSE i \in mine : \A j \in mine : j <= i
  <2>1. slots'[a] = IF mine = {} THEN slots[a] ELSE result[last]
    BY DEF mergeActions, Merged
  <2>2. mine \subseteq 1 .. n
    OBVIOUS
  <2> HIDE DEF mine
  <2>3. CASE mine = {}
    BY <2>1, <2>3 DEF BoardOK
  <2>4. CASE mine # {}
    <3>1. last \in mine
      BY <2>2, <2>4, HasGreatest
    <3> HIDE DEF last
    <3> QED BY <2>1, <2>2, <2>4, <3>1
  <2> QED BY <2>3, <2>4
<1>3. votes' = [a \in Agents |-> votes'[a]] /\ slots' = [a \in Agents |-> slots'[a]]
  BY DEF mergeActions, Merged
<1> QED BY <1>1, <1>2, <1>3 DEF BoardOK

\* A turn that returns leaves a result with its action.
LEMMA ReturnOK ==
  ASSUME ActsOK, GroupsOK, cancelRequested' = cancelRequested,
         NEW a \in Agents, NEW r \in Results, Return(a, r)
  PROVE  ActsOK' /\ GroupsOK'
<1>1. CASE turn[a].by[1] = "action"
  BY <1>1 DEF Return, ActsOK, ActAt, GroupsOK, Joined, ActStates, GroupStates
<1>2. CASE turn[a].by[1] # "action"
  BY <1>2 DEF Return, ActsOK, ActAt, GroupsOK, Joined, GroupStates
<1> QED BY <1>1, <1>2

\* Who stops a run does not take it back.
LEMMA CancelStays ==
  ASSUME CancelOK, checkCancel
  PROVE  CancelOK' /\ (cancelRequested = TRUE => cancelRequested' = TRUE)
BY DEF CancelOK, checkCancel, Cancel

LEMMA ActsStay ==
  ASSUME ActsOK, act' = act, result' = result,
         cancelRequested = TRUE => cancelRequested' = TRUE
  PROVE  ActsOK'
BY DEF ActsOK, ActAt

\* An action's thread is skipped, or waits for its agent.
LEMMA ActStarts ==
  ASSUME ActsOK, NEW i \in 1 .. MaxActions, NEW s \in {"skipped", "waiting"},
         act' = [act EXCEPT ![i] = s], result' = result,
         cancelRequested = TRUE => cancelRequested' = TRUE,
         s = "skipped" => cancelRequested' = TRUE
  PROVE  ActsOK'
<1>1. act' \in [1 .. MaxActions -> ActStates]
  BY DEF ActsOK, ActAt, ActStates
<1>2. ASSUME NEW j \in 1 .. MaxActions PROVE ActAt(j)'
  <2>1. ActAt(j)
    BY DEF ActsOK
  <2>2. act'[j] = IF j = i THEN s ELSE act[j]
    BY DEF ActsOK
  <2> QED BY <2>1, <2>2 DEF ActAt
<1> QED BY <1>1, <1>2 DEF ActsOK

LEMMA RunnerTypes ==
  ASSUME SkillIInv, SkillTypes, Runner
  PROVE  SkillTypes'
<1> USE DEF runnerVars, boardVars, turnVars, cancelVars
<1>0. CancelOK /\ ActsOK /\ BoardOK /\ RunnerOK /\ GroupsOK /\ config \in Configs
  BY DEF SkillTypes, SkillIInv
<1>n. ASSUME act' = NoActions, result' = NoResults PROVE ActsOK'
  BY <1>n DEF ActsOK, ActAt, NoActions, NoResults, ActStates
<1>1. CASE Load \/ StepsDone \/ End \/ Report
  <2>1. UNCHANGED <<act, result, votes, slots, prevSlots, group, cancelRequested, round>>
    BY <1>1 DEF Load, StepsDone, End, Report
  <2>2. RunnerOK'
    <3>1. CASE Load
      BY <1>0, <3>1 DEF Load, RunnerOK
    <3>2. CASE StepsDone
      BY <1>0, <3>2 DEF StepsDone, RunnerOK, Behind
    <3>3. CASE End
      BY <1>0, <3>3 DEF End, RunnerOK
    <3>4. CASE Report
      BY <1>0, <3>4 DEF Report, RunnerOK
    <3> QED BY <1>1, <3>1, <3>2, <3>3, <3>4
  <2>3. ActsOK'
    BY <1>0, <2>1, ActsStay
  <2> QED BY <1>0, <2>1, <2>2, <2>3 DEF SkillTypes, BoardOK, GroupsOK, CancelOK
<1>2. CASE Round
  <2>1. ActsOK' /\ CancelOK'
    BY <1>0, <1>2, CancelStays, ActsStay DEF Round
  <2> QED BY <1>0, <1>2, <2>1 DEF SkillTypes, Round, BoardOK, GroupsOK, RunnerOK
<1>3. CASE Step
  <2>1. RunnerOK'
    BY <1>0, <1>3 DEF Step, RunnerOK, Behind, Steps
  <2>a. CancelOK' /\ (cancelRequested = TRUE => cancelRequested' = TRUE)
    BY <1>0, <1>3, CancelStays DEF Step
  <2>2. ActsOK'
    <3>1. CASE UNCHANGED <<act, result>>
      BY <1>0, <2>a, <3>1, ActsStay
    <3>2. CASE /\ act' = [i \in 1 .. MaxActions |->
                           IF i <= Len(StepNow.actions) THEN "new" ELSE "none"]
               /\ UNCHANGED result
      BY <1>0, <2>a, <3>2 DEF ActsOK, ActAt, ActStates
    <3> QED BY <1>3, <3>1, <3>2 DEF Step
  <2> QED BY <1>0, <1>3, <2>1, <2>a, <2>2 DEF SkillTypes, Step, BoardOK, GroupsOK
<1>4. CASE Merge
  <2>1. ActsOK'
    BY <1>4, <1>n DEF Merge
  <2>2. RunnerOK'
    BY <1>0, <1>4 DEF Merge, RunnerOK, Behind
  <2>3. GroupsOK'
    BY <1>0, <1>4 DEF Merge, GroupsOK
  <2>4. BoardOK'
    <3>1. CASE UNCHANGED <<votes, slots>>
      BY <1>0, <1>4, <3>1 DEF Merge, BoardOK
    <3>2. CASE ~cancelRequested /\ mergeActions
      <4>1. /\ DOMAIN StepNow.actions = 1 .. Len(StepNow.actions)
            /\ Len(StepNow.actions) \in Nat
            /\ DOMAIN StepNow.actions \subseteq 1 .. MaxActions
        BY <1>0, <1>4, StepFits DEF Merge, RunnerOK
      <4>2. \A i \in DOMAIN StepNow.actions : act[i] \in {"done", "skipped"}
        BY <1>4 DEF Merge
      <4>3. \A i \in 1 .. Len(StepNow.actions) : result[i] \in Results
        <5>1. cancelRequested # TRUE
          BY <3>2
        <5> TAKE i \in 1 .. Len(StepNow.actions)
        <5>2. i \in 1 .. MaxActions /\ act[i] \in {"done", "skipped"}
          BY <4>1, <4>2
        <5>3. ActAt(i)
          BY <1>0, <5>2 DEF ActsOK
        <5> QED BY <5>1, <5>2, <5>3 DEF ActAt
      <4> QED BY <1>0, <1>4, <3>2, <4>1, <4>3, MergeOK DEF Merge
    <3> QED BY <1>4, <3>1, <3>2 DEF Merge
  <2>5. CancelOK'
    BY <1>0, <1>4 DEF Merge, CancelOK
  <2> QED BY <2>1, <2>2, <2>3, <2>4, <2>5 DEF SkillTypes
<1>5. CASE Judge
  <2>1. ActsOK' /\ CancelOK'
    BY <1>0, <1>5, CancelStays, ActsStay DEF Judge
  <2>2. RunnerOK'
    BY <1>0, <1>5 DEF Judge, RunnerOK, NextRound
  <2>3. BoardOK' /\ GroupsOK'
    BY <1>0, <1>5 DEF Judge, BoardOK, GroupsOK
  <2> QED BY <2>1, <2>2, <2>3 DEF SkillTypes
<1> QED BY <1>1, <1>2, <1>3, <1>4, <1>5 DEF Runner

LEMMA TypesStepKeep == SkillIInv /\ SkillTypes /\ [SkillNext]_skillVars => SkillTypes'
<1> SUFFICES ASSUME SkillIInv, SkillTypes, [SkillNext]_skillVars PROVE SkillTypes'
  OBVIOUS
<1> USE DEF runnerVars, boardVars, turnVars, cancelVars
<1>0. CancelOK /\ ActsOK /\ BoardOK /\ RunnerOK /\ GroupsOK
  BY DEF SkillTypes
<1>f. ASSUME UNCHANGED <<runnerVars, boardVars>> PROVE BoardOK' /\ RunnerOK'
  BY <1>0, <1>f DEF BoardOK, RunnerOK, Steps
<1>1. CASE UserCancels \/ RegistryCancels \/ SkillRest \/ UNCHANGED skillVars
  <2>1. /\ UNCHANGED <<runnerVars, boardVars, act, result, group>>
        /\ cancelRequested' \in {TRUE, cancelRequested}
    BY <1>1 DEF UserCancels, RegistryCancels, SkillRest, skillVars, Cancel
  <2>2. ActsOK' /\ GroupsOK' /\ CancelOK'
    BY <1>0, <2>1, ActsStay DEF GroupsOK, CancelOK
  <2> QED BY <1>f, <2>1, <2>2 DEF SkillTypes
<1>2. ASSUME NEW i \in 1 .. MaxActions, StartAction(i) PROVE SkillTypes'
  <2>1. RunnerOK' /\ BoardOK' /\ GroupsOK'
    BY <1>0, <1>2 DEF StartAction, RunnerOK, BoardOK, GroupsOK, Behind, Steps
  <2>2. CancelOK' /\ (cancelRequested = TRUE => cancelRequested' = TRUE)
    BY <1>0, <1>2, CancelStays DEF StartAction
  <2>3. CASE cancelRequested' = TRUE /\ act' = [act EXCEPT ![i] = "skipped"] /\ UNCHANGED result
    <3>1. ActsOK'
      BY <1>0, <2>2, <2>3, ActStarts
    <3> QED BY <2>1, <2>2, <3>1 DEF SkillTypes
  <2>4. CASE act' = NoActions /\ result' = NoResults
    BY <2>1, <2>2, <2>4 DEF SkillTypes, ActsOK, ActAt, NoActions, NoResults, ActStates
  <2>5. CASE act' = [act EXCEPT ![i] = "waiting"] /\ UNCHANGED result
    <3>1. ActsOK'
      BY <1>0, <2>2, <2>5, ActStarts
    <3> QED BY <2>1, <2>2, <3>1 DEF SkillTypes
  <2>6. pc = "acting" /\ Behind # "acting"
    BY <1>2 DEF StartAction, Behind
  <2> QED BY <1>2, <2>1, <2>2, <2>3, <2>4, <2>5, <2>6 DEF StartAction, SkillTypes, CancelOK
<1>3. ASSUME NEW i \in 1 .. MaxActions, BeginAction(i) PROVE SkillTypes'
  <2>1. ActsOK' /\ GroupsOK' /\ CancelOK'
    BY <1>0, <1>3 DEF BeginAction, ActsOK, ActAt, GroupsOK, CancelOK, ActStates
  <2> QED BY <1>3, <1>f, <2>1 DEF BeginAction, SkillTypes
<1>4. CASE Runner
  BY <1>4, RunnerTypes
<1>5. ASSUME NEW a \in Agents, Turn(a) PROVE SkillTypes'
  <2>1. UNCHANGED <<runnerVars, boardVars, cancelRequested>>
    BY <1>5 DEF Turn, Ask, Fails, AnswersInProse, AnswersWithCalls, Collect
  <2>a. CancelOK'
    BY <1>0, <2>1 DEF CancelOK
  <2>2. CASE \E r \in Results : Return(a, r)
    BY <1>0, <1>f, <2>1, <2>a, <2>2, ReturnOK DEF SkillTypes
  <2>3. CASE UNCHANGED <<act, result>> /\ GroupsOK'
    <3>1. ActsOK'
      BY <1>0, <2>1, <2>3, ActsStay
    <3> QED BY <1>f, <2>1, <2>a, <2>3, <3>1 DEF SkillTypes
  <2>4. CASE Ask(a)
    BY <1>0, <2>3, <2>4 DEF Ask, GroupsOK
  <2>5. CASE Fails(a)
    <3>1. CASE Return(a, "error")
      BY <2>2, <3>1 DEF Results
    <3>2. CASE UNCHANGED <<act, result, group>>
      BY <1>0, <2>3, <3>2 DEF GroupsOK
    <3> QED BY <2>5, <3>1, <3>2 DEF Fails
  <2>6. CASE AnswersInProse(a)
    <3>1. "prose" \in Results /\ "no report" \in Results
      BY DEF Results
    <3>2. CASE \E r \in {"prose", "no report"} : Return(a, r)
      BY <2>2, <3>1, <3>2
    <3>3. CASE UNCHANGED <<act, result, group>>
      BY <1>0, <2>3, <3>3 DEF GroupsOK
    <3> QED BY <2>6, <3>2, <3>3 DEF AnswersInProse
  <2>7. CASE AnswersWithCalls(a)
    <3>1. GroupsOK'
      BY <1>0, <2>7 DEF AnswersWithCalls, GroupsOK, GroupStates
    <3> QED BY <2>3, <2>7, <3>1 DEF AnswersWithCalls
  <2>8. CASE Collect(a)
    <3>1. "prose" \in Results /\ "no report" \in Results /\ Reports \subseteq Results
      BY DEF Results
    <3>2. turn[a].report \in Results
      BY <2>8, <3>1 DEF Collect, SkillIInv, Kept, TurnOK
    <3>3. CASE \E r \in {"prose", "no report", turn[a].report} : Return(a, r)
      BY <2>2, <3>1, <3>2, <3>3
    <3>4. CASE UNCHANGED <<act, result>> /\ group' = Joined(a)
      BY <1>0, <2>3, <3>4 DEF GroupsOK, Joined, GroupStates
    <3> QED BY <2>8, <3>3, <3>4 DEF Collect
  <2> QED BY <1>5, <2>4, <2>5, <2>6, <2>7, <2>8 DEF Turn
<1>6. ASSUME NEW a \in Agents, NEW t \in Agents, GroupThread(a, t) PROVE SkillTypes'
  <2>1. UNCHANGED <<runnerVars, boardVars, act, result>>
    BY <1>6 DEF GroupThread, Launch, Dispatch, BeginAsked, GroupEnds
  <2>2. CancelOK' /\ (cancelRequested = TRUE => cancelRequested' = TRUE)
    <3>1. CASE UNCHANGED cancelRequested
      BY <1>0, <3>1 DEF CancelOK
    <3>2. CASE checkCancel
      BY <1>0, <3>2, CancelStays
    <3> QED BY <1>6, <3>1, <3>2 DEF GroupThread, Launch, Dispatch, BeginAsked, GroupEnds
  <2>3. ActsOK'
    BY <1>0, <2>1, <2>2, ActsStay
  <2>4. GroupsOK'
    BY <1>0, <1>6 DEF GroupThread, Launch, Dispatch, BeginAsked, GroupEnds, Answer, GroupsOK,
                      GroupStates
  <2> QED BY <1>f, <2>1, <2>2, <2>3, <2>4 DEF SkillTypes
<1> QED BY <1>1, <1>2, <1>3, <1>4, <1>5, <1>6 DEF SkillNext, Threads, ActionThread

\* In every state of a run no permit is lost or kept, whatever the calls of a group
\* come to, and when the groups of a turn are joined each of its calls has the result
\* of the agent it asked (SubAgent::turn).
THEOREM SkillInvariant == SkillSpec => []SkillInv
<1>1. SkillInit => SkillIInv /\ SkillTypes
  BY KeptHolds, TypesHold
<1>2. (SkillIInv /\ SkillTypes) /\ [SkillNext]_skillVars => (SkillIInv /\ SkillTypes)'
  BY KeptStepKeeps, TypesStepKeep
<1>3. SkillIInv /\ SkillTypes => SkillInv
  <2> SUFFICES ASSUME SkillIInv, SkillTypes PROVE SkillInv
    OBVIOUS
  <2>1. ASSUME NEW a \in Agents
        PROVE  /\ permits[a] \in 0 .. config.maxParallel
               /\ permits[a] + Cardinality(InFlight(a)) = config.maxParallel
               /\ turn[a].place # "groups" => permits[a] = config.maxParallel
    <3>1. Counted(a) /\ config.maxParallel \in Nat
      BY SkillAssumption DEF SkillIInv, Kept
    <3>2. Cardinality(InFlight(a)) \in Nat
      BY <3>1, FS_CardinalityType DEF Counted
    <3> QED BY <3>1, <3>2, FS_EmptySet DEF Counted
  <2>2. ASSUME NEW a \in Agents,
               turn[a].place = "ask" \/ (turn[a].place = "groups" /\ Quiet(a))
        PROVE  answers[a] = turn[a].calls
    BY <2>2, QuietIsAnswered DEF SkillIInv, Kept, Answered
  <2>3. SkillTypeOK
    <3>1. permits \in [Agents -> 0 .. config.maxParallel] /\ DOMAIN turn = Agents
      BY <2>1 DEF SkillIInv, Layered
    <3> QED BY <3>1 DEF SkillTypeOK, SkillTypes, ActsOK, BoardOK, RunnerOK, GroupsOK
  <2> QED BY <2>1, <2>2, <2>3 DEF SkillInv, PermitsHeld, EveryCallAnswered
<1> QED BY <1>1, <1>2, <1>3, PTL DEF SkillSpec

----------------------------------------------------------------------------
\* Votes

VoteAt(i, a) ==
  /\ i \in DOMAIN StepNow.actions
  /\ StepNow.actions[i].agent = a /\ StepNow.actions[i].shape = "vote"

\* The runner is behind loadFromJson only with a file that was accepted.
Checked == pc \notin {"load", "done"} => Accepted(config)

\* Threads and turns are those of the step at hand, and a serial step has one at a
\* time.
OnStep ==
  pc = "acting" =>
    /\ \A i \in 1 .. MaxActions : act[i] # "none" => i \in DOMAIN StepNow.actions
    /\ phase = "rounds" => whenMatches(StepNow.when)
    /\ InParallel \/ \A i \in 1 .. MaxActions : act[i] \notin {"none", "new"} =>
                       \A j \in 1 .. i - 1 : act[j] = "done"
Runs(a) ==
  turn[a].place # "free" /\ turn[a].by[1] = "action" =>
    /\ pc = "acting" /\ turn[a].by[2] \in 1 .. MaxActions
    /\ act[turn[a].by[2]] = "turn" /\ StepNow.actions[turn[a].by[2]].agent = a

\* An agent that counts as agreeing said "yes" last, unless it voted again in a step
\* that is not yet merged; of the votes in such a step the last one counts.
Heard(a) ==
  /\ votes[a] = "agree" => said[a] \/ (pc = "acting" /\ \E i : VoteAt(i, a) /\ act[i] = "done")
  /\ pc = "acting" =>
       \A i : VoteAt(i, a) /\ act[i] = "done" /\ result[i] = "yes"
               /\ (\A j : VoteAt(j, a) /\ act[j] = "done" => j <= i) => said[a]

\* Whoever votes in a step of the round that is behind the runner has a vote.
Passed(k) == pc = "judge" \/ (pc \in {"step", "acting"} /\ k < ix)
VotesIn(st, a) ==
  \E i \in DOMAIN st.actions : st.actions[i].agent = a /\ st.actions[i].shape = "vote"
Cast ==
  \A k \in DOMAIN config.roundSteps : Passed(k) /\ whenMatches(config.roundSteps[k].when) =>
    \A a \in Agents : VotesIn(config.roundSteps[k], a) => votes[a] # "none"

Counts == phase = "rounds" /\ cancelRequested # TRUE /\ OneVoteAtOnce

VoteInv ==
  /\ said = [a \in Agents |-> said[a]]
  /\ Checked /\ OnStep
  /\ \A a \in Agents : Runs(a)
  /\ Counts => (\A a \in Agents : Heard(a)) /\ Cast
  /\ converged /\ phase = "rounds" => pc \in {"end", "done"}
  /\ ConvergedIsUnanimous

LEMMA VotesHold == SkillInit => VoteInv
<1> SUFFICES ASSUME SkillInit PROVE VoteInv
  OBVIOUS
<1>1. pc = "load" /\ converged = FALSE /\ said = [a \in Agents |-> said[a]]
  BY DEF SkillInit
<1>2. Checked /\ OnStep /\ ConvergedIsUnanimous /\ Cast
  BY <1>1 DEF Checked, OnStep, ConvergedIsUnanimous, Cast, Passed
<1>3. \A a \in Agents : Runs(a) /\ Heard(a)
  BY <1>1 DEF SkillInit, Runs, Heard, NoTurn
<1> QED
  BY <1>1, <1>2, <1>3 DEF VoteInv

LEMMA SameAgreement ==
  ASSUME ConvergedIsUnanimous, UNCHANGED <<config, phase, round, votes, converged, said>>
  PROVE  ConvergedIsUnanimous'
<1>1. Voters' = Voters
  BY DEF Voters
<1>2. ASSUME AllVoted PROVE AllVoted'
  <2> SUFFICES ASSUME NEW st \in ToSet(config.roundSteps), NEW a \in ToSet(st.actions),
                      a.shape = "vote", whenMatches(st.when)'
               PROVE  a.agent \in Voters
    BY <1>1 DEF AllVoted
  <2>1. whenMatches(st.when)
    BY DEF whenMatches
  <2> QED
    BY <1>2, <2>1 DEF AllVoted
<1>3. ByVotesAlone' => ByVotesAlone
  BY DEF ByVotesAlone, OneVoteAtOnce
<1> QED
  BY <1>1, <1>2, <1>3 DEF ConvergedIsUnanimous

\* Nothing that the votes depend on changes.
LEMMA SameVotes ==
  ASSUME VoteInv, UNCHANGED <<runnerVars, act, result, votes, converged, said>>,
         cancelRequested = TRUE => cancelRequested' = TRUE,
         \A a \in Agents : turn'[a].place # "free" /\ turn'[a].by[1] = "action" =>
           turn[a].place # "free" /\ turn[a].by = turn'[a].by
  PROVE  VoteInv'
<1>1. UNCHANGED <<config, pc, phase, round, ix, act, result, votes, converged, said>>
  BY DEF runnerVars
<1>2. StepNow' = StepNow /\ InParallel' = InParallel /\ Voters' = Voters
  BY <1>1 DEF StepNow, Steps, InParallel, Voters
<1>3. ASSUME NEW w PROVE whenMatches(w)' <=> whenMatches(w)
  BY <1>1 DEF whenMatches
<1>4. ASSUME NEW i, NEW a PROVE VoteAt(i, a)' <=> VoteAt(i, a)
  BY <1>2 DEF VoteAt
<1>5. Checked' /\ OnStep'
  BY <1>1, <1>2, <1>3 DEF VoteInv, Checked, OnStep
<1>6. \A a \in Agents : Runs(a)'
  BY <1>1, <1>2 DEF VoteInv, Runs
<1>7. OneVoteAtOnce' <=> OneVoteAtOnce
  BY <1>1 DEF OneVoteAtOnce
<1>8. Counts' => Counts
  BY <1>1, <1>7 DEF Counts
<1>9. ASSUME Counts' PROVE (\A a \in Agents : Heard(a)') /\ Cast'
  <2>1. (\A a \in Agents : Heard(a)) /\ Cast
    BY <1>8, <1>9 DEF VoteInv
  <2>2. \A a \in Agents : Heard(a)'
    BY <1>1, <1>4, <2>1 DEF Heard
  <2>3. Cast'
    BY <1>1, <1>3, <2>1 DEF Cast, Passed
  <2> QED
    BY <2>2, <2>3
<1>10. ConvergedIsUnanimous'
  BY <1>1, <1>2, SameAgreement DEF VoteInv
<1>11. /\ said' = [a \in Agents |-> said'[a]]
       /\ converged' /\ phase' = "rounds" => pc' \in {"end", "done"}
  BY <1>1 DEF VoteInv
<1> QED
  BY <1>5, <1>6, <1>9, <1>10, <1>11, Zenon DEF VoteInv

\* In a round the step at hand is one of the program's round steps.
LEMMA StepListed ==
  ASSUME config \in Configs, RunnerOK, pc = "acting", phase = "rounds"
  PROVE  StepNow = config.roundSteps[ix] /\ ix \in DOMAIN config.roundSteps
         /\ StepNow \in ToSet(config.roundSteps)
<1>1. config.roundSteps \in Programs /\ Steps = config.roundSteps
  BY SkillAssumption DEF Steps
<1>2. ix \in DOMAIN config.roundSteps
  BY <1>1 DEF RunnerOK, Programs
<1> QED
  BY <1>1, <1>2 DEF StepNow, ToSet

\* The turn of an action returns.
LEMMA ReturnVotes ==
  ASSUME VoteInv, ActsOK, RunnerOK, config \in Configs,
         UNCHANGED <<runnerVars, votes, converged, cancelRequested>>,
         NEW a \in Agents, NEW r, Layered, Return(a, r), turn[a].place # "free",
         turn[a].by[1] = "action"
  PROVE  VoteInv'
<1> DEFINE i == turn[a].by[2]
<1>1. UNCHANGED <<config, pc, phase, round, ix, votes, converged>>
  BY DEF runnerVars
<1>2. /\ pc = "acting" /\ i \in 1 .. MaxActions /\ act[i] = "turn"
      /\ StepNow.actions[i].agent = a /\ i \in DOMAIN StepNow.actions
  BY DEF VoteInv, Runs, OnStep
<1>3. /\ act' = [act EXCEPT ![i] = "done"] /\ result' = [result EXCEPT ![i] = r]
      /\ said' = [said EXCEPT ![a] = IF StepNow.actions[i].shape = "vote" THEN r = "yes" ELSE @]
      /\ turn' = [turn EXCEPT ![a] = NoTurn]
  BY DEF Return
<1>4. /\ DOMAIN act = 1 .. MaxActions /\ DOMAIN result = 1 .. MaxActions
      /\ DOMAIN said = Agents /\ DOMAIN turn = Agents
  BY DEF ActsOK, VoteInv, Layered
<1> HIDE DEF i
<1>5. /\ act'[i] = "done" /\ \A j \in 1 .. MaxActions : j # i => act'[j] = act[j]
      /\ result'[i] = r /\ \A j \in 1 .. MaxActions : j # i => result'[j] = result[j]
  BY <1>2, <1>3, <1>4
<1>6. /\ said' = [b \in Agents |-> said'[b]]
      /\ \A b \in Agents : b # a => said'[b] = said[b]
      /\ VoteAt(i, a) /\ r = "yes" => said'[a]
      /\ ~VoteAt(i, a) => said'[a] = said[a]
  BY <1>2, <1>3, <1>4 DEF VoteAt
<1>7. turn'[a].place = "free" /\ \A b \in Agents : b # a => turn'[b] = turn[b]
  BY <1>3, <1>4 DEF NoTurn
<1>8. StepNow' = StepNow /\ InParallel' = InParallel
  BY <1>1 DEF StepNow, Steps, InParallel
<1>9. ASSUME NEW w PROVE whenMatches(w)' <=> whenMatches(w)
  BY <1>1 DEF whenMatches
<1>10. ASSUME NEW j, NEW b PROVE VoteAt(j, b)' <=> VoteAt(j, b)
  BY <1>8 DEF VoteAt
<1>11. DOMAIN StepNow.actions \subseteq 1 .. MaxActions /\ MaxActions \in Nat
  BY <1>2, StepFits, SkillAssumption DEF RunnerOK
<1>12. Checked'
  BY <1>1 DEF VoteInv, Checked
<1>13. OnStep'
  <2>1. /\ \A j \in 1 .. MaxActions : act'[j] # "none" => j \in DOMAIN StepNow.actions
        /\ phase = "rounds" => whenMatches(StepNow.when)
    BY <1>2, <1>5 DEF VoteInv, OnStep
  <2>2. ASSUME ~InParallel, NEW j \in 1 .. MaxActions, act'[j] \notin {"none", "new"},
               NEW l \in 1 .. j - 1
        PROVE  act'[l] = "done"
    <3>1. act[j] \notin {"none", "new"}
      BY <1>2, <1>5, <2>2
    <3>2. act[l] = "done" /\ l \in 1 .. MaxActions
      BY <1>2, <1>11, <2>2, <3>1 DEF VoteInv, OnStep
    <3> QED
      BY <1>2, <1>5, <3>2
  <2> QED
    BY <1>1, <1>8, <1>9, <2>1, <2>2 DEF OnStep
<1>14. ASSUME NEW b \in Agents PROVE Runs(b)'
  <2>1. CASE b = a
    BY <1>7, <2>1 DEF Runs
  <2>2. CASE b # a
    <3>1. Runs(b) /\ turn'[b] = turn[b]
      BY <1>7, <2>2 DEF VoteInv
    <3>2. turn[b].place # "free" /\ turn[b].by[1] = "action" => turn[b].by[2] # i
      BY <1>2, <2>2, <3>1 DEF Runs
    <3> QED
      BY <1>1, <1>5, <1>8, <3>1, <3>2 DEF Runs
  <2> QED
    BY <2>1, <2>2
<1>15. OneVoteAtOnce' <=> OneVoteAtOnce
  BY <1>1 DEF OneVoteAtOnce
<1>16. ASSUME Counts' PROVE (\A b \in Agents : Heard(b)') /\ Cast'
  <2>1. Counts /\ (\A b \in Agents : Heard(b)) /\ Cast
    BY <1>1, <1>15, <1>16 DEF VoteInv, Counts
  <2>2. Cast'
    BY <1>1, <1>9, <2>1 DEF Cast, Passed
  <2>3. \A j, b : VoteAt(j, b) => j \in 1 .. MaxActions
    BY <1>11 DEF VoteAt
  <2>4. ASSUME NEW b \in Agents PROVE Heard(b)'
    <3>1. CASE b # a
      <4>1. \A j : VoteAt(j, b) => j # i /\ act'[j] = act[j] /\ result'[j] = result[j]
        BY <1>2, <1>5, <2>3, <3>1 DEF VoteAt
      <4>2. said'[b] = said[b]
        BY <1>6, <3>1
      <4> QED
        BY <1>1, <1>10, <2>1, <4>1, <4>2 DEF Heard
    <3>2. CASE b = a /\ ~VoteAt(i, a)
      <4>1. \A j : VoteAt(j, b) => j # i /\ act'[j] = act[j] /\ result'[j] = result[j]
        BY <1>5, <2>3, <3>2
      <4>2. said'[b] = said[b]
        BY <1>6, <3>2
      <4> QED
        BY <1>1, <1>10, <2>1, <4>1, <4>2 DEF Heard
    <3>3. CASE b = a /\ VoteAt(i, a)
      <4>1. ASSUME NEW j, VoteAt(j, a), act'[j] = "done", j # i
            PROVE  j \in 1 .. MaxActions /\ j < i
        <5>1. j \in 1 .. MaxActions /\ act[j] = "done"
          BY <1>5, <2>3, <4>1
        <5>2. CASE InParallel
          <6>1. StepNow \in ToSet(config.roundSteps) /\ StepNow.parallel
            BY <1>2, <2>1, <5>2, StepListed DEF Counts, InParallel
          <6> QED
            BY <2>1, <3>3, <4>1, <6>1 DEF Counts, OneVoteAtOnce, VoteAt
        <5>3. CASE ~InParallel
          <6>1. j > i => act[i] = "done"
            BY <1>2, <1>11, <5>1, <5>3 DEF VoteInv, OnStep
          <6> QED
            BY <1>2, <1>11, <4>1, <5>1, <6>1
        <5> QED
          BY <5>2, <5>3
      <4>2. ASSUME NEW j, VoteAt(j, a), act'[j] = "done", result'[j] = "yes",
                   \A l : VoteAt(l, a) /\ act'[l] = "done" => l <= j
            PROVE  said'[a]
        <5>1. i <= j
          BY <1>5, <3>3, <4>2
        <5>2. j = i
          BY <1>2, <1>11, <4>1, <4>2, <5>1
        <5> QED
          BY <1>5, <1>6, <3>3, <4>2, <5>2
      <4> QED
        BY <1>1, <1>2, <1>5, <1>10, <3>3, <4>2 DEF Heard
    <3> QED
      BY <3>1, <3>2, <3>3
  <2> QED
    BY <2>2, <2>4
<1>17. /\ converged' /\ phase' = "rounds" => pc' \in {"end", "done"}
       /\ ConvergedIsUnanimous'
  BY <1>1, <1>2 DEF VoteInv, ConvergedIsUnanimous
<1> QED
  BY <1>6, <1>12, <1>13, <1>14, <1>16, <1>17, Zenon DEF VoteInv

\* The thread of an action goes on; no action is done by that.
LEMMA ActVotes ==
  ASSUME VoteInv, ActsOK, pc = "acting", NEW i \in 1 .. MaxActions, MaxActions \in Nat,
         NEW s \in {"waiting", "turn", "skipped"},
         act' = [act EXCEPT ![i] = s], act[i] \in {"new", "waiting"},
         InParallel \/ \A j \in 1 .. i - 1 : act[j] = "done",
         UNCHANGED <<runnerVars, result, votes, converged, said>>,
         cancelRequested = TRUE => cancelRequested' = TRUE,
         \A a \in Agents : Runs(a)'
  PROVE  VoteInv'
<1>1. UNCHANGED <<config, pc, phase, round, ix, result, votes, converged, said>>
  BY DEF runnerVars
<1>2. /\ act'[i] = s /\ DOMAIN act = 1 .. MaxActions /\ DOMAIN act' = 1 .. MaxActions
      /\ \A j : j # i => act'[j] = act[j]
  BY DEF ActsOK
<1>3. \A j : act'[j] = "done" <=> act[j] = "done"
  BY <1>2
<1>4. StepNow' = StepNow /\ InParallel' = InParallel
  BY <1>1 DEF StepNow, Steps, InParallel
<1>5. ASSUME NEW w PROVE whenMatches(w)' <=> whenMatches(w)
  BY <1>1 DEF whenMatches
<1>6. ASSUME NEW j, NEW a PROVE VoteAt(j, a)' <=> VoteAt(j, a)
  BY <1>4 DEF VoteAt
<1>7. Checked'
  BY <1>1 DEF VoteInv, Checked
<1>8. OnStep'
  <2>1. \A j \in 1 .. MaxActions : act'[j] # "none" => j \in DOMAIN StepNow.actions
    BY <1>2 DEF VoteInv, OnStep
  <2>2. ASSUME ~InParallel, NEW j \in 1 .. MaxActions, act'[j] \notin {"none", "new"},
               NEW l \in 1 .. j - 1
        PROVE  act'[l] = "done"
    BY <1>2, <1>3, <2>2 DEF VoteInv, OnStep
  <2> QED
    BY <1>1, <1>4, <1>5, <2>1, <2>2 DEF VoteInv, OnStep
<1>9. OneVoteAtOnce' <=> OneVoteAtOnce
  BY <1>1 DEF OneVoteAtOnce
<1>10. ASSUME Counts' PROVE (\A a \in Agents : Heard(a)') /\ Cast'
  <2>1. (\A a \in Agents : Heard(a)) /\ Cast
    BY <1>1, <1>9, <1>10 DEF VoteInv, Counts
  <2>2. Cast'
    BY <1>1, <1>5, <2>1 DEF Cast, Passed
  <2>3. \A a \in Agents : Heard(a)'
    BY <1>1, <1>3, <1>6, <2>1 DEF Heard
  <2> QED
    BY <2>2, <2>3
<1>11. /\ said' = [a \in Agents |-> said'[a]]
       /\ converged' /\ phase' = "rounds" => pc' \in {"end", "done"}
  BY <1>1 DEF VoteInv
<1>12. ConvergedIsUnanimous'
  BY <1>1, SameAgreement DEF VoteInv
<1> QED
  BY <1>7, <1>8, <1>10, <1>11, <1>12, Zenon DEF VoteInv

LEMMA StartVotes ==
  ASSUME VoteInv, ActsOK, CancelOK, NEW i \in 1 .. MaxActions, StartAction(i)
  PROVE  VoteInv'
<1>1. /\ pc = "acting" /\ act[i] = "new" /\ turn' = turn /\ checkCancel
      /\ InParallel \/ \A j \in 1 .. i - 1 : act[j] = "done"
      /\ UNCHANGED <<config, phase, round, ix, votes, converged, said>>
  BY DEF StartAction, boardVars, turnVars
<1>2. cancelRequested = TRUE => cancelRequested' = TRUE
  BY <1>1, CancelStays
<1>3. MaxActions \in Nat
  BY SkillAssumption
<1>4. ASSUME NEW s \in {"skipped", "waiting"}, act' = [act EXCEPT ![i] = s],
             UNCHANGED <<pc, result>>
      PROVE  VoteInv'
  <2>1. StepNow' = StepNow
    BY <1>1, <1>4 DEF StepNow, Steps
  <2>2. ASSUME NEW a \in Agents PROVE Runs(a)'
    <3>1. Runs(a)
      BY DEF VoteInv
    <3>2. \A j \in 1 .. MaxActions : j # i => act'[j] = act[j]
      BY <1>4 DEF ActsOK
    <3> QED
      BY <1>1, <1>4, <2>1, <3>1, <3>2 DEF Runs
  <2> QED
    BY <1>1, <1>2, <1>3, <1>4, <2>2, ActVotes DEF runnerVars
<1>5. CASE ~InParallel /\ cancelRequested' /\ pc' = Behind
  <2>1. pc' \in {"judge", "report"}
    BY <1>5 DEF Behind
  <2>2. Checked' /\ OnStep'
    BY <1>1, <2>1 DEF VoteInv, Checked, OnStep
  <2>3. ASSUME NEW a \in Agents PROVE Runs(a)'
    <3>1. Runs(a) /\ OnStep
      BY DEF VoteInv
    <3>2. \A j \in 1 .. MaxActions : act[j] # "turn"
      BY <1>1, <1>5, <3>1 DEF OnStep
    <3> QED
      BY <1>1, <3>1, <3>2 DEF Runs
  <2>4. ~Counts'
    BY <1>1, <1>2, <1>5 DEF Counts, CancelOK, checkCancel, Cancel
  <2>5. /\ ConvergedIsUnanimous' /\ said' = [a \in Agents |-> said'[a]]
        /\ ~(converged' /\ phase' = "rounds")
    BY <1>1, SameAgreement DEF VoteInv
  <2> QED
    BY <2>2, <2>3, <2>4, <2>5, Zenon DEF VoteInv
<1>6. Behind # pc
  BY <1>1 DEF Behind
<1> QED
  BY <1>1, <1>4, <1>5, <1>6 DEF StartAction

LEMMA BeginVotes ==
  ASSUME VoteInv, ActsOK, Layered, NEW i \in 1 .. MaxActions, BeginAction(i)
  PROVE  VoteInv'
<1> DEFINE t == StepNow.actions[i].agent
<1>1. /\ pc = "acting" /\ act[i] = "waiting" /\ act' = [act EXCEPT ![i] = "turn"]
      /\ Begin(t, <<"action", i>>)
      /\ UNCHANGED <<runnerVars, result, votes, converged, said, cancelRequested>>
  BY DEF BeginAction, boardVars, cancelVars
<1>2. MaxActions \in Nat /\ (InParallel \/ \A j \in 1 .. i - 1 : act[j] = "done")
  BY <1>1, SkillAssumption DEF VoteInv, OnStep
<1>3. StepNow' = StepNow /\ pc' = pc
  BY <1>1 DEF StepNow, Steps, runnerVars
<1>4. act'[i] = "turn" /\ \A j \in 1 .. MaxActions : j # i => act'[j] = act[j]
  BY <1>1 DEF ActsOK
<1>5. ASSUME NEW a \in Agents PROVE Runs(a)'
  <2>1. CASE a = t
    <3>1. turn'[a].by = <<"action", i>>
      BY <1>1, <2>1 DEF Begin, Layered
    <3>2. turn'[a].by[2] = i
      BY <3>1
    <3> HIDE DEF t
    <3>3. StepNow.actions[i].agent = a
      BY <2>1 DEF t
    <3> QED
      BY <1>1, <1>3, <1>4, <3>2, <3>3 DEF Runs
  <2>2. CASE a # t
    <3>1. turn'[a] = turn[a] /\ Runs(a)
      BY <1>1, <2>2 DEF Begin, Layered, VoteInv
    <3> QED
      BY <1>1, <1>3, <1>4, <3>1 DEF Runs
  <2> QED
    BY <2>1, <2>2
<1> HIDE DEF t
<1> QED
  BY <1>1, <1>2, <1>5, ActVotes

\* No turn of an action is under way.
Idle == \A a \in Agents : turn[a].place # "free" => turn[a].by[1] # "action"

\* The runner goes on, but for a merge.
LEMMA OnwardVotes ==
  ASSUME VoteInv, SkillTypes, config \in Configs,
         Load \/ Round \/ Step \/ StepsDone \/ End \/ Report
  PROVE  VoteInv'
<1> USE DEF runnerVars, boardVars, turnVars, cancelVars
<1>1. /\ UNCHANGED <<config, round, votes, converged, said, turn>>
      /\ pc \notin {"acting", "judge"}
  BY DEF Load, Round, Step, StepsDone, End, Report
<1>2. cancelRequested = TRUE => cancelRequested' = TRUE
  BY CancelStays DEF Load, Round, Step, StepsDone, End, Report, SkillTypes
<1>3. Idle
  BY <1>1 DEF Idle, VoteInv, Runs
<1>4. \A a \in Agents : Runs(a)'
  BY <1>1, <1>3 DEF Idle, Runs
<1>5. /\ RunnerOK /\ config.roundSteps \in Programs /\ config.onConverge \in Programs
  BY SkillAssumption DEF SkillTypes
<1>6. Checked'
  BY <1>1 DEF VoteInv, Checked, Load, Round, Step, StepsDone, End, Report
<1>7. /\ phase' = "rounds" => phase = "rounds"
      /\ phase' = phase \/ pc' = "step"
  BY DEF Load, Round, Step, StepsDone, End, Report
<1>8. converged' /\ phase' = "rounds" => pc' \in {"end", "done"}
  BY <1>1, <1>7 DEF VoteInv, Load, Round, Step, StepsDone, End, Report
<1>9. ConvergedIsUnanimous'
  <2>1. CASE phase' = phase
    BY <1>1, <2>1, SameAgreement DEF VoteInv
  <2>2. CASE phase' # phase
    BY <1>7, <2>2 DEF ConvergedIsUnanimous, RunnerOK, End
  <2> QED
    BY <2>1, <2>2
<1>10. ASSUME NEW w PROVE whenMatches(w)' <=> whenMatches(w)
  BY <1>1 DEF whenMatches
<1>11. pc' = "acting" => /\ Step /\ ix <= Len(Steps) /\ whenMatches(StepNow.when)
                         /\ StepNow' = StepNow /\ InParallel' = InParallel
                         /\ act' = [i \in 1 .. MaxActions |->
                                      IF i <= Len(StepNow.actions) THEN "new" ELSE "none"]
  BY <1>1 DEF Load, Round, Step, StepsDone, End, Report, Behind, StepNow, Steps, InParallel
<1>12. OnStep'
  <2> SUFFICES ASSUME pc' = "acting" PROVE OnStep'
    BY DEF OnStep
  <2>1. DOMAIN StepNow.actions = 1 .. Len(StepNow.actions) /\ Len(StepNow.actions) \in Nat
    BY <1>5, <1>11, StepFits
  <2>2. ASSUME NEW i \in 1 .. MaxActions
        PROVE  act'[i] \in {"none", "new"} /\ (act'[i] # "none" => i \in DOMAIN StepNow.actions)
    BY <1>11, <2>1
  <2> QED
    BY <1>10, <1>11, <2>2 DEF OnStep
<1>13. ASSUME Counts' PROVE (\A a \in Agents : Heard(a)') /\ Cast'
  <2>1. Counts
    BY <1>1, <1>2, <1>7, <1>13 DEF Counts, OneVoteAtOnce
  <2>2. (\A a \in Agents : Heard(a)) /\ Cast
    BY <2>1 DEF VoteInv
  <2>3. \A a \in Agents : Heard(a)'
    <3>1. \A i : pc' = "acting" => act'[i] # "done" \/ i \notin 1 .. MaxActions
      BY <1>11
    <3>2. ASSUME pc' = "acting", NEW i, NEW a, VoteAt(i, a)' PROVE i \in 1 .. MaxActions
      BY <1>5, <1>11, <3>2, StepFits DEF VoteAt
    <3> QED
      BY <1>1, <2>2, <3>1, <3>2 DEF Heard
  <2>4. Cast'
    <3> SUFFICES ASSUME NEW k \in DOMAIN config.roundSteps, Passed(k)',
                        whenMatches(config.roundSteps[k].when)
                 PROVE  Passed(k)
      BY <1>1, <1>10, <2>2 DEF Cast
    <3>1. k \in Nat /\ k >= 1 /\ k <= Len(config.roundSteps) /\ Steps = config.roundSteps
      BY <1>5, <2>1 DEF Programs, Counts, Steps
    <3>2. CASE Step
      <4>1. pc = "step" /\ pc' \in {"step", "acting"}
        BY <1>13, <3>2 DEF Step, Counts
      <4>2. ix' = ix \/ (ix' = ix + 1 /\ ~whenMatches(StepNow.when))
        BY <3>2 DEF Step
      <4>3. ~whenMatches(StepNow.when) => k # ix
        BY <3>1 DEF StepNow
      <4> QED
        BY <1>5, <3>1, <4>1, <4>2, <4>3 DEF Passed, RunnerOK
    <3>3. CASE StepsDone
      BY <1>5, <3>1, <3>3 DEF StepsDone, Passed, RunnerOK
    <3>4. CASE Round
      <4>1. pc' \in {"step", "end"} /\ ix' = 1
        BY <3>4 DEF Round
      <4> QED
        BY <3>1, <4>1 DEF Passed
    <3>5. CASE Load \/ End \/ Report
      <4>1. pc' \in {"round", "done"} \/ phase' = "converge"
        BY <3>5 DEF Load, End, Report
      <4> QED
        BY <1>13, <4>1 DEF Passed, Counts
    <3> QED
      BY <3>2, <3>3, <3>4, <3>5
  <2> QED
    BY <2>3, <2>4
<1>14. said' = [a \in Agents |-> said'[a]]
  BY <1>1 DEF VoteInv
<1> QED
  BY <1>4, <1>6, <1>8, <1>9, <1>12, <1>13, <1>14, Zenon DEF VoteInv

\* The votes of a step that are merged are those its agents gave last.
LEMMA MergeVotes ==
  ASSUME VoteInv, SkillTypes, config \in Configs, Merge
  PROVE  VoteInv'
<1> USE DEF runnerVars, boardVars, turnVars, cancelVars
<1>1. /\ UNCHANGED <<config, phase, round, converged, said, turn, cancelRequested>>
      /\ pc = "acting" /\ \A i \in DOMAIN StepNow.actions : act[i] \in {"done", "skipped"}
  BY DEF Merge
<1>2. pc' \in {"step", "judge", "report"}
  BY DEF Merge, Behind
<1>3. Idle
  BY <1>1 DEF Idle, VoteInv, Runs, OnStep
<1>4. \A a \in Agents : Runs(a)'
  BY <1>1, <1>3 DEF Idle, Runs
<1>5. Checked' /\ OnStep'
  BY <1>1, <1>2 DEF VoteInv, Checked, OnStep
<1>6. /\ ~(converged' /\ phase' = "rounds") /\ ConvergedIsUnanimous'
      /\ said' = [a \in Agents |-> said'[a]]
  BY <1>1 DEF VoteInv, ConvergedIsUnanimous
<1>7. ASSUME Counts' PROVE (\A a \in Agents : Heard(a)') /\ Cast'
  <2>1. Counts /\ (\A a \in Agents : Heard(a)) /\ Cast
    BY <1>1, <1>7 DEF VoteInv, Counts, OneVoteAtOnce
  <2>2. pc' = "step" /\ ix' = ix + 1 /\ mergeActions
    BY <2>1 DEF Merge, Counts, SkillTypes, CancelOK
  <2>3. /\ StepNow = config.roundSteps[ix] /\ whenMatches(StepNow.when) /\ ix \in Nat
        /\ DOMAIN StepNow.actions \subseteq 1 .. MaxActions /\ MaxActions \in Nat
    BY <1>1, <2>1, StepFits, StepListed, SkillAssumption
       DEF Counts, VoteInv, OnStep, SkillTypes, RunnerOK
  <2>4. \A i \in DOMAIN StepNow.actions : act[i] = "done"
    BY <1>1, <2>1, <2>3 DEF SkillTypes, ActsOK, ActAt, Counts
  <2>5. ASSUME NEW a \in Agents, \A i : ~VoteAt(i, a)
        PROVE  votes'[a] = votes[a]
    BY <2>2, <2>5 DEF mergeActions, Merged, VoteAt
  <2>6. ASSUME NEW a \in Agents, NEW i, VoteAt(i, a)
        PROVE  votes'[a] # "none" /\ (votes'[a] = "agree" => said[a])
    <3> DEFINE mine == {j \in DOMAIN StepNow.actions :
                          StepNow.actions[j].agent = a /\ StepNow.actions[j].shape = "vote"}
               last == CHOOSE j \in mine : \A l \in mine : l <= j
    <3>1. votes'[a] = IF mine = {} THEN votes[a] ELSE voteOf(result[last])
      BY <2>2 DEF mergeActions, Merged
    <3>2. \A j : j \in mine <=> VoteAt(j, a)
      BY DEF VoteAt
    <3>3. mine \subseteq 1 .. MaxActions
      BY <2>3
    <3> HIDE DEF mine
    <3>4. mine # {}
      BY <2>6, <3>2
    <3>5. last \in mine /\ \A l \in mine : l <= last
      BY <2>3, <3>3, <3>4, HasGreatest
    <3> HIDE DEF last
    <3>6. VoteAt(last, a) /\ act[last] = "done"
      BY <2>4, <3>2, <3>5 DEF VoteAt
    <3>7. result[last] = "yes" => said[a]
      BY <1>1, <2>1, <3>2, <3>5, <3>6 DEF Heard
    <3> QED
      BY <3>1, <3>4, <3>7 DEF voteOf
  <2>7. ASSUME NEW a \in Agents PROVE Heard(a)'
    <3>1. votes'[a] = "agree" => said[a]
      BY <1>1, <2>1, <2>5, <2>6 DEF Heard
    <3> QED
      BY <1>1, <2>2, <3>1 DEF Heard
  <2>8. \A a \in Agents : votes[a] # "none" => votes'[a] # "none"
    BY <2>5, <2>6
  <2>9. ASSUME NEW w PROVE whenMatches(w)' <=> whenMatches(w)
    BY <1>1 DEF whenMatches
  <2>10. Cast'
    <3> SUFFICES ASSUME NEW k \in DOMAIN config.roundSteps, Passed(k)',
                        whenMatches(config.roundSteps[k].when),
                        NEW a \in Agents, VotesIn(config.roundSteps[k], a)
                 PROVE  votes'[a] # "none"
      BY <1>1, <2>9 DEF Cast
    <3>0. k < ix + 1
      BY <2>2 DEF Passed
    <3>1. k \in Nat
      <4>1. config.roundSteps \in Programs
        BY SkillAssumption
      <4> QED
        BY <4>1 DEF Programs
    <3>2. CASE k < ix
      <4>1. Passed(k)
        BY <1>1, <3>2 DEF Passed
      <4> QED
        BY <2>1, <2>8, <4>1 DEF Cast
    <3>3. CASE k = ix
      <4>1. \E i : VoteAt(i, a)
        BY <2>3, <3>3 DEF VoteAt, VotesIn
      <4> QED
        BY <2>6, <4>1
    <3> QED
      BY <2>3, <3>0, <3>1, <3>2, <3>3
  <2> QED
    BY <2>7, <2>10
<1> QED
  BY <1>4, <1>5, <1>6, <1>7, Zenon DEF VoteInv

\* What is in the first of two sequences is in both together.
LEMMA FirstOfBoth ==
  ASSUME NEW S, NEW s \in Seq(S), NEW u \in Seq(S), NEW k \in DOMAIN s
  PROVE  s[k] \in ToSet(s \o u)
<1>1. k \in DOMAIN (s \o u) /\ (s \o u)[k] = s[k]
  OBVIOUS
<1> QED
  BY <1>1 DEF ToSet

\* A round is judged: whoever counts as agreeing said "yes", and all who vote in the
\* round have a vote.
LEMMA JudgeVotes ==
  ASSUME VoteInv, SkillTypes, config \in Configs, Judge
  PROVE  VoteInv'
<1> USE DEF runnerVars, boardVars, turnVars, cancelVars
<1>1. /\ UNCHANGED <<config, phase, act, result, votes, slots, said, turn>>
      /\ pc = "judge" /\ pc' \in {"round", "end"}
      /\ cancelRequested = TRUE => cancelRequested' = TRUE
  BY CancelStays DEF Judge, SkillTypes
<1>2. Checked' /\ OnStep'
  BY <1>1 DEF VoteInv, Checked, OnStep
<1>3. \A a \in Agents : Runs(a)'
  BY <1>1 DEF VoteInv, Runs
<1>4. Counts' => Counts
  BY <1>1 DEF Counts, OneVoteAtOnce
<1>5. ASSUME Counts' PROVE (\A a \in Agents : Heard(a)') /\ Cast'
  <2>1. \A a \in Agents : Heard(a)
    BY <1>4, <1>5 DEF VoteInv
  <2> QED
    BY <1>1, <2>1 DEF Heard, Cast, Passed
<1>6. /\ said' = [a \in Agents |-> said'[a]]
      /\ converged' /\ phase' = "rounds" => pc' \in {"end", "done"}
  BY <1>1 DEF VoteInv, Judge
<1>7. ConvergedIsUnanimous'
  <2> SUFFICES ASSUME converged', phase' = "rounds", ByVotesAlone'
               PROVE  (Voters # {} /\ (\A a \in Voters : said[a]) /\ AllVoted)'
    BY DEF ConvergedIsUnanimous
  <2>1. ~converged
    BY <1>1 DEF VoteInv
  <2>2. cancelRequested' # TRUE /\ stopRule /\ round' = round
    BY <1>1, <2>1 DEF Judge
  <2>3. ByVotesAlone
    BY <1>1 DEF ByVotesAlone, OneVoteAtOnce
  <2>4. Voters # {} /\ \A a \in Voters : votes[a] = "agree"
    BY <2>2, <2>3 DEF stopRule, ByVotesAlone
  <2>5. (\A a \in Agents : Heard(a)) /\ Cast
    BY <1>1, <2>2, <2>3 DEF VoteInv, Counts, ByVotesAlone
  <2>6. \A a \in Voters : said[a]
    BY <1>1, <2>4, <2>5 DEF Heard, Voters
  <2>7. AllVoted
    <3> SUFFICES ASSUME NEW st \in ToSet(config.roundSteps), NEW a \in ToSet(st.actions),
                        a.shape = "vote", whenMatches(st.when)
                 PROVE  a.agent \in Voters
      BY DEF AllVoted
    <3>1. PICK k \in DOMAIN config.roundSteps : st = config.roundSteps[k]
      BY DEF ToSet
    <3>2. PICK i \in DOMAIN st.actions : a = st.actions[i]
      BY DEF ToSet
    <3>3. a.agent \in Agents
      <4>1. Accepted(config) /\ config.roundSteps \in Programs /\ config.onConverge \in Programs
        BY <1>1, SkillAssumption DEF VoteInv, Checked
      <4>2. PICK S : config.roundSteps \in Seq(S) /\ config.onConverge \in Seq(S)
        BY <4>1, Zenon DEF Programs
      <4>3. st \in ToSet(config.roundSteps \o config.onConverge)
        BY <3>1, <4>2, FirstOfBoth
      <4> QED
        BY <4>1, <4>3 DEF Accepted, StepOK
    <3>4. Passed(k) /\ VotesIn(config.roundSteps[k], a.agent)
      BY <1>1, <3>1, <3>2 DEF Passed, VotesIn
    <3> QED
      BY <2>5, <3>1, <3>3, <3>4 DEF Cast, Voters
  <2>8. Voters' = Voters
    BY <1>1 DEF Voters
  <2>9. AllVoted'
    BY <1>1, <2>2, <2>7, <2>8 DEF AllVoted, whenMatches
  <2> QED
    BY <1>1, <2>4, <2>6, <2>8, <2>9
<1> QED
  BY <1>2, <1>3, <1>5, <1>6, <1>7, Zenon DEF VoteInv

LEMMA VotesStepKeep ==
  SkillIInv /\ SkillTypes /\ VoteInv /\ [SkillNext]_skillVars => VoteInv'
<1> SUFFICES ASSUME SkillIInv, SkillTypes, VoteInv, [SkillNext]_skillVars PROVE VoteInv'
  OBVIOUS
<1> USE DEF runnerVars, boardVars, turnVars, cancelVars
<1>0. CancelOK /\ ActsOK /\ RunnerOK /\ Layered /\ config \in Configs
  BY DEF SkillTypes, SkillIInv
<1>1. CASE UserCancels \/ RegistryCancels \/ SkillRest \/ UNCHANGED skillVars
  <2>1. /\ UNCHANGED <<runnerVars, act, result, votes, converged, said, turn>>
        /\ cancelRequested = TRUE => cancelRequested' = TRUE
    BY <1>1 DEF UserCancels, RegistryCancels, SkillRest, skillVars, Cancel
  <2> QED
    BY <2>1, SameVotes
<1>2. ASSUME NEW i \in 1 .. MaxActions, ActionThread(i) PROVE VoteInv'
  BY <1>0, <1>2, StartVotes, BeginVotes DEF ActionThread
<1>3. CASE Runner
  BY <1>0, <1>3, OnwardVotes, MergeVotes, JudgeVotes DEF Runner
<1>4. ASSUME NEW a \in Agents, Turn(a) PROVE VoteInv'
  <2>1. /\ UNCHANGED <<runnerVars, votes, converged, cancelRequested>>
        /\ turn[a].place \in {"ask", "asked", "groups"}
    BY <1>4 DEF Turn, Ask, Fails, AnswersInProse, AnswersWithCalls, Collect
  <2>2. DOMAIN turn[a] = TurnFields /\ DOMAIN turn = Agents
    BY <1>0, <2>1 DEF Layered, Shaped, NoTurn
  <2>3. CASE \E r : Return(a, r)
    <3>1. PICK r : Return(a, r)
      BY <2>3
    <3>2. CASE turn[a].by[1] = "action"
      BY <1>0, <2>1, <3>1, <3>2, ReturnVotes
    <3>3. CASE turn[a].by[1] # "action"
      <4>1. turn' = [turn EXCEPT ![a] = NoTurn] /\ UNCHANGED <<act, result, said>>
        BY <3>1, <3>3 DEF Return
      <4>2. \A b \in Agents : turn'[b].place # "free" => turn'[b] = turn[b]
        BY <2>2, <4>1 DEF NoTurn
      <4> QED
        BY <2>1, <4>1, <4>2, SameVotes
    <3> QED
      BY <3>2, <3>3
  <2>4. CASE ~ \E r : Return(a, r)
    <3>1. UNCHANGED <<act, result, said>>
      BY <1>4, <2>4 DEF Turn, Ask, Fails, AnswersInProse, AnswersWithCalls, Collect
    <3>2. \A b \in Agents : b # a => turn'[b] = turn[b]
      <4>1. CASE Ask(a) \/ Fails(a)
        BY <2>2, <2>4, <4>1 DEF Ask, Fails
      <4>2. CASE AnswersInProse(a)
        BY <2>2, <2>4, <4>2 DEF AnswersInProse
      <4>3. CASE AnswersWithCalls(a)
        BY <2>2, <4>3 DEF AnswersWithCalls
      <4>4. CASE Collect(a)
        BY <2>2, <2>4, <4>4 DEF Collect
      <4> QED
        BY <1>4, <4>1, <4>2, <4>3, <4>4 DEF Turn
    <3>3. turn'[a].by = turn[a].by
      <4>1. CASE Ask(a) \/ Fails(a)
        BY <2>2, <2>4, <4>1 DEF Ask, Fails, TurnFields
      <4>2. CASE AnswersInProse(a)
        <5>1. turn' = [turn EXCEPT ![a].place = "ask", ![a].iter = @ + 1, ![a].nudged = TRUE,
                                   ![a].forced = force, ![a].narr = TRUE]
          BY <2>4, <4>2, Zenon DEF AnswersInProse
        <5> QED
          BY <2>2, <5>1 DEF TurnFields
      <4>3. CASE AnswersWithCalls(a)
        <5>1. PICK reply \in Replies[a] :
                turn' = [turn EXCEPT ![a].place = "groups", ![a].calls = reply.calls,
                                     ![a].narr = @ \/ reply.text, ![a].report = reply.report]
          BY <4>3, Zenon DEF AnswersWithCalls
        <5> QED
          BY <2>2, <5>1 DEF TurnFields
      <4>4. CASE Collect(a)
        BY <2>2, <2>4, <4>4 DEF Collect, TurnFields
      <4> QED
        BY <1>4, <4>1, <4>2, <4>3, <4>4 DEF Turn
    <3>4. \A b \in Agents : turn'[b].place # "free" /\ turn'[b].by[1] = "action" =>
            turn[b].place # "free" /\ turn[b].by = turn'[b].by
      BY <2>1, <3>2, <3>3
    <3> QED
      BY <2>1, <3>1, <3>4, SameVotes
  <2> QED
    BY <2>3, <2>4
<1>5. ASSUME NEW a \in Agents, NEW t \in Agents, GroupThread(a, t) PROVE VoteInv'
  <2>1. UNCHANGED <<runnerVars, act, result, votes, converged, said>>
    BY <1>5 DEF GroupThread, Launch, Dispatch, BeginAsked, GroupEnds
  <2>2. cancelRequested = TRUE => cancelRequested' = TRUE
    BY <1>0, <1>5, CancelStays DEF GroupThread, Launch, Dispatch, BeginAsked, GroupEnds
  <2>3. CASE turn' = turn
    BY <2>1, <2>2, <2>3, SameVotes
  <2>4. CASE BeginAsked(a, t)
    <3> DEFINE caller == <<"group", a, NextCall(a, t)>>
    <3>1. Begin(t, caller) /\ caller[1] # "action"
      BY <2>4 DEF BeginAsked
    <3> HIDE DEF caller
    <3>2. turn'[t].by = caller /\ \A b \in Agents : b # t => turn'[b] = turn[b]
      BY <1>0, <3>1 DEF Begin, Layered
    <3> QED
      BY <2>1, <2>2, <3>1, <3>2, SameVotes
  <2> QED
    BY <1>5, <2>3, <2>4 DEF GroupThread, Launch, Dispatch, GroupEnds
<1> QED
  BY <1>1, <1>2, <1>3, <1>4, <1>5 DEF SkillNext, Threads

\* A run that stops by agreement alone has heard "yes" in the last vote of every agent
\* that ever voted, and has a vote of everyone who votes in the round: whatever fails, is
\* answered in prose or is cancelled, and however the threads of a step take their
\* turns, a missing vote is never agreement (mergeAction, stopRule).
THEOREM ConvergedTheorem == SkillSpec => []ConvergedIsUnanimous
<1>1. SkillInit => SkillIInv /\ SkillTypes /\ VoteInv
  BY KeptHolds, TypesHold, VotesHold
<1>2. (SkillIInv /\ SkillTypes /\ VoteInv) /\ [SkillNext]_skillVars
        => (SkillIInv /\ SkillTypes /\ VoteInv)'
  BY KeptStepKeeps, TypesStepKeep, VotesStepKeep
<1>3. VoteInv => ConvergedIsUnanimous
  BY DEF VoteInv
<1> QED BY <1>1, <1>2, <1>3, PTL DEF SkillSpec
=============================================================================
