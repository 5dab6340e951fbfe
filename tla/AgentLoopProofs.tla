--------------------------- MODULE AgentLoopProofs ---------------------------
(***************************************************************************)
(* Theorems about AgentLoop, for every value of its constants: first that  *)
(* every variable keeps its type, the conversation above all, whatever is  *)
(* written to it, stripped from it, pruned or compacted; then the consent, *)
(* the follow-up and the end of a turn, which are about flags and control  *)
(* points only; then what the steps do to the calls in the conversation,   *)
(* with the lemmas of ConversationProofs about what the passes leave.      *)
(***************************************************************************)
EXTENDS AgentLoop, ConversationProofs

-----------------------------------------------------------------------------
(* Shrinking *)

\* At most one shrink is spent.
LEMMA ShrinkingCosts ==
  ASSUME NEW l, NEW force
  PROVE  \A after \in Shrinking(l, force) : after[2] \in {0, 1}
BY DEF Shrinking

LEMMA ShrinksTyped ==
  ASSUME NEW l, NEW force, shrinks \in Nat,
         \E after \in Shrinking(l, force) : shrinks' = shrinks + after[2]
  PROVE  shrinks' \in Nat
<1>1. PICK after \in Shrinking(l, force) : shrinks' = shrinks + after[2]
  OBVIOUS
<1>2. after[2] \in {0, 1}
  BY ShrinkingCosts
<1> QED
  BY <1>1, <1>2

LEMMA ShrinkingFits ==
  ASSUME NEW l, NEW n, Fits(l, n), NEW force, NEW after \in Shrinking(l, force)
  PROVE  Fits(after[1], n)
<1>1. \A r \in {l, Compact(l)} : Fits(r, n) /\ \A cut : Fits(Prune(r, cut), n)
  BY LessFits
<1>2. \A s \in Shrunk(l, force) : Fits(s, n)
  <2> TAKE s \in Shrunk(l, force)
  <2>1. PICK r : /\ s = Repair(r)
                 /\ \/ r \in {l, Compact(l)}
                    \/ \E b \in {l, Compact(l)} : \E cut : r = Prune(b, cut)
    BY DEF Shrunk
  <2>2. Fits(r, n)
    BY <1>1, <2>1
  <2> QED
    BY <2>1, <2>2, LessFits
<1>3. \/ after = <<l, 0>> \/ after = <<Repair(l), 0>>
      \/ \E s \in Shrunk(l, force) : after = <<s, 1>>
  BY DEF Shrinking
<1> QED
  BY <1>2, <1>3, LessFits

-----------------------------------------------------------------------------
(* The steps *)

\* A round of tools under way has fewer results than calls, so that the next result
\* still belongs to a call of the batch.
RoundTypes ==
  /\ batch \in [first: Nat, size: Nat, destructive: BOOLEAN]
  /\ results \in Seq(ToolOutcomes) /\ Len(results) <= batch.size
  /\ pc = "tool" => Len(results) < batch.size
  /\ lastId \in Nat

FlagTypes ==
  /\ {cancelRequested, toolCancel, turnEnd, followUp, nudge, compactRequested} \subseteq BOOLEAN
  /\ {approvalDone, approvalGranted, alwaysApproved, dialog, asked, escaped} \subseteq BOOLEAN

ControlTypes ==
  /\ phase \in Phases /\ pc \in Points
  /\ answer \in Outcomes
  /\ depth \in Nat /\ lengthRetries \in 0..2 /\ httpRetry \in 0..3
  /\ ui \in {"ready", "cancelling", "clearing", "prompting"}
  /\ shrinks \in Nat /\ turn \in Nat /\ epoch \in Nat
  /\ grantTurn \in Nat /\ alwaysEpoch \in Int

Types == RoundTypes /\ FlagTypes /\ ControlTypes /\ Fits(log, next)

\* The batch and its results.
LEMMA RoundStep == RoundTypes /\ [Next]_vars => RoundTypes'
<1> SUFFICES ASSUME RoundTypes, [Next]_vars PROVE RoundTypes'
  OBVIOUS
<1> USE DEF RoundTypes, round
<1>1. CASE StartTurn
  BY <1>1 DEF StartTurn
<1>2. CASE StartCompress
  BY <1>2 DEF StartCompress
<1>3. CASE Render
  BY <1>3 DEF Render
<1>4. CASE Escape
  BY <1>4 DEF Escape
<1>5. CASE NewChat
  BY <1>5 DEF NewChat
<1>6. ASSUME NEW action \in 0..2, ApproveTool(action) PROVE RoundTypes'
  BY <1>6 DEF ApproveTool
<1>7. CASE CancelTools
  BY <1>7 DEF CancelTools
<1>8. CASE ClearSession
  BY <1>8 DEF ClearSession
<1>9. CASE InjectPrompt
  BY <1>9 DEF InjectPrompt
<1>10. CASE SendRequest
  BY <1>10 DEF SendRequest
<1>11. CASE StreamEnds
  BY <1>11 DEF StreamEnds
<1>12. CASE StreamCancelled
  BY <1>12 DEF StreamCancelled
<1>13. CASE Retry
  BY <1>13 DEF Retry
<1>14. CASE GiveUp
  BY <1>14 DEF GiveUp
<1>15. CASE StreamBroken
  BY <1>15 DEF StreamBroken
<1>16. CASE TakeText
  BY <1>16 DEF TakeText
<1>17. CASE TakeNothing
  BY <1>17 DEF TakeNothing
<1>18. CASE LengthRetry
  BY <1>18 DEF LengthRetry
<1>19. CASE TakePlaceholder
  BY <1>19 DEF TakePlaceholder
<1>20. CASE TakeCalls
  BY <1>20 DEF TakeCalls
<1>21. CASE Approved
  BY <1>21 DEF Approved
<1>22. CASE Rejected
  BY <1>22 DEF Rejected
<1>23. CASE WaitCancelled
  BY <1>23 DEF WaitCancelled
<1>24. CASE EnterTools
  BY <1>24 DEF EnterTools
<1>25. CASE ToolStart
  BY <1>25 DEF ToolStart
<1>26. CASE ToolDone
  BY <1>26 DEF ToolDone
<1>27. CASE RoundCancelled
  BY <1>27 DEF RoundCancelled
<1>28. CASE RoundEndsTurn
  BY <1>28 DEF RoundEndsTurn, NoBatch
<1>29. CASE RoundFailed
  BY <1>29 DEF RoundFailed, NoBatch
<1>30. CASE NextRound
  BY <1>30 DEF NextRound, NoBatch
<1>31. CASE NewTurn
  BY <1>31 DEF NewTurn, NoBatch
<1>32. CASE RunBegin
  BY <1>32 DEF RunBegin
<1>33. CASE CompressBegin
  BY <1>33 DEF CompressBegin
<1>34. CASE CompressEnd
  BY <1>34 DEF CompressEnd
<1>35. CASE LeaveLoop
  BY <1>35 DEF LeaveLoop
<1>36. CASE DropError
  BY <1>36 DEF DropError
<1>37. CASE Leave
  BY <1>37 DEF Leave
<1>38. CASE Finish
  BY <1>38 DEF Finish
<1>39. CASE StartImages
  BY <1>39 DEF StartImages
<1>40. CASE ShowImages
  BY <1>40 DEF ShowImages
<1>41. CASE StartSkill
  BY <1>41 DEF StartSkill
<1>42. CASE SkillDone
  BY <1>42 DEF SkillDone
<1>43. CASE UNCHANGED vars
  BY <1>43 DEF vars
<1> QED
  BY <1>1, <1>2, <1>3, <1>4, <1>5, <1>6, <1>7, <1>8, <1>9, <1>10, <1>11, <1>12, <1>13,
     <1>14, <1>15, <1>16, <1>17, <1>18, <1>19, <1>20, <1>21, <1>22, <1>23, <1>24, <1>25,
     <1>26, <1>27, <1>28, <1>29, <1>30, <1>31, <1>32, <1>33, <1>34, <1>35, <1>36, <1>37,
     <1>38, <1>39, <1>40, <1>41, <1>42, <1>43
     DEF Next, Rest, Worker, User, Handler, Stream, Approval, Tools, Turns

\* The flags.
LEMMA FlagStep == FlagTypes /\ [Next]_vars => FlagTypes'
<1> SUFFICES ASSUME FlagTypes, [Next]_vars PROVE FlagTypes'
  OBVIOUS
<1> USE DEF FlagTypes, round, requests, approval, cancels, screen
<1>1. CASE StartTurn
  BY <1>1 DEF StartTurn, ResetVerdict
<1>2. CASE StartCompress
  BY <1>2 DEF StartCompress
<1>3. CASE Render
  BY <1>3 DEF Render
<1>4. CASE Escape
  BY <1>4 DEF Escape
<1>5. CASE NewChat
  BY <1>5 DEF NewChat
<1>6. ASSUME NEW action \in 0..2, ApproveTool(action) PROVE FlagTypes'
  BY <1>6 DEF ApproveTool
<1>7. CASE CancelTools
  BY <1>7 DEF CancelTools
<1>8. CASE ClearSession
  BY <1>8 DEF ClearSession, ForgetAlways
<1>9. CASE InjectPrompt
  BY <1>9 DEF InjectPrompt
<1>10. CASE SendRequest
  BY <1>10 DEF SendRequest
<1>11. CASE StreamEnds
  BY <1>11 DEF StreamEnds
<1>12. CASE StreamCancelled
  BY <1>12 DEF StreamCancelled
<1>13. CASE Retry
  BY <1>13 DEF Retry
<1>14. CASE GiveUp
  BY <1>14 DEF GiveUp
<1>15. CASE StreamBroken
  BY <1>15 DEF StreamBroken
<1>16. CASE TakeText
  BY <1>16 DEF TakeText
<1>17. CASE TakeNothing
  BY <1>17 DEF TakeNothing
<1>18. CASE LengthRetry
  BY <1>18 DEF LengthRetry
<1>19. CASE TakePlaceholder
  BY <1>19 DEF TakePlaceholder
<1>20. CASE TakeCalls
  BY <1>20 DEF TakeCalls
<1>21. CASE Approved
  BY <1>21 DEF Approved
<1>22. CASE Rejected
  BY <1>22 DEF Rejected
<1>23. CASE WaitCancelled
  BY <1>23 DEF WaitCancelled
<1>24. CASE EnterTools
  BY <1>24 DEF EnterTools
<1>25. CASE ToolStart
  BY <1>25 DEF ToolStart
<1>26. CASE ToolDone
  BY <1>26 DEF ToolDone, AsksTurnEnd
<1>27. CASE RoundCancelled
  BY <1>27 DEF RoundCancelled
<1>28. CASE RoundEndsTurn
  BY <1>28 DEF RoundEndsTurn
<1>29. CASE RoundFailed
  BY <1>29 DEF RoundFailed
<1>30. CASE NextRound
  BY <1>30 DEF NextRound
<1>31. CASE NewTurn
  BY <1>31 DEF NewTurn, ResetVerdict, ConsumeTurnEnd
<1>32. CASE RunBegin
  BY <1>32 DEF RunBegin
<1>33. CASE CompressBegin
  BY <1>33 DEF CompressBegin
<1>34. CASE CompressEnd
  BY <1>34 DEF CompressEnd
<1>35. CASE LeaveLoop
  BY <1>35 DEF LeaveLoop
<1>36. CASE DropError
  BY <1>36 DEF DropError
<1>37. CASE Leave
  BY <1>37 DEF Leave
<1>38. CASE Finish
  BY <1>38 DEF Finish
<1>39. CASE StartImages
  BY <1>39 DEF StartImages
<1>40. CASE ShowImages
  BY <1>40 DEF ShowImages
<1>41. CASE StartSkill
  BY <1>41 DEF StartSkill
<1>42. CASE SkillDone
  BY <1>42 DEF SkillDone
<1>43. CASE UNCHANGED vars
  BY <1>43 DEF vars
<1> QED
  BY <1>1, <1>2, <1>3, <1>4, <1>5, <1>6, <1>7, <1>8, <1>9, <1>10, <1>11, <1>12, <1>13,
     <1>14, <1>15, <1>16, <1>17, <1>18, <1>19, <1>20, <1>21, <1>22, <1>23, <1>24, <1>25,
     <1>26, <1>27, <1>28, <1>29, <1>30, <1>31, <1>32, <1>33, <1>34, <1>35, <1>36, <1>37,
     <1>38, <1>39, <1>40, <1>41, <1>42, <1>43
     DEF Next, Rest, Worker, User, Handler, Stream, Approval, Tools, Turns

\* Counters and control points.
LEMMA ControlStep == Types /\ [Next]_vars => ControlTypes'
<1> SUFFICES ASSUME Types, [Next]_vars PROVE ControlTypes'
  OBVIOUS
<1> USE AgentLoopAssumption DEF Types, ControlTypes, Phases, Points, reply, counters, approval, screen,
           clocks
<1>1. CASE StartTurn
  BY <1>1 DEF StartTurn
<1>2. CASE StartCompress
  BY <1>2 DEF StartCompress
<1>3. CASE Render
  BY <1>3 DEF Render
<1>4. CASE Escape
  BY <1>4 DEF Escape
<1>5. CASE NewChat
  BY <1>5 DEF NewChat
<1>6. ASSUME NEW action \in 0..2, ApproveTool(action) PROVE ControlTypes'
  BY <1>6 DEF ApproveTool
<1>7. CASE CancelTools
  BY <1>7 DEF CancelTools
<1>8. CASE ClearSession
  BY <1>8 DEF ClearSession
<1>9. CASE InjectPrompt
  BY <1>9 DEF InjectPrompt
<1>10. CASE SendRequest
  BY <1>10 DEF SendRequest
<1>11. CASE StreamEnds
  BY <1>11 DEF StreamEnds
<1>12. CASE StreamCancelled
  BY <1>12 DEF StreamCancelled, ForgetReply
<1>13. CASE Retry
  <2>1. shrinks' \in Nat
    <3>1. \/ \E after \in Shrinking(Repair(log), TRUE) : shrinks' = shrinks + after[2]
          \/ shrinks' = shrinks
      BY <1>13 DEF Retry, ShrinkAndWrite
    <3> QED
      BY <3>1, ShrinksTyped
  <2> QED
    BY <1>13, <2>1 DEF Retry
<1>14. CASE GiveUp
  BY <1>14 DEF GiveUp, ForgetReply
<1>15. CASE StreamBroken
  BY <1>15 DEF StreamBroken, ForgetReply
<1>16. CASE TakeText
  BY <1>16 DEF TakeText, ForgetReply
<1>17. CASE TakeNothing
  BY <1>17 DEF TakeNothing, ForgetReply
<1>18. CASE LengthRetry
  BY <1>18 DEF LengthRetry, ForgetReply, LengthRetryLeft
<1>19. CASE TakePlaceholder
  BY <1>19 DEF TakePlaceholder, ForgetReply
<1>20. CASE TakeCalls
  BY <1>20 DEF TakeCalls, ForgetReply
<1>21. CASE Approved
  BY <1>21 DEF Approved
<1>22. CASE Rejected
  BY <1>22 DEF Rejected
<1>23. CASE WaitCancelled
  BY <1>23 DEF WaitCancelled
<1>24. CASE EnterTools
  BY <1>24 DEF EnterTools
<1>25. CASE ToolStart
  BY <1>25 DEF ToolStart
<1>26. CASE ToolDone
  BY <1>26 DEF ToolDone
<1>27. CASE RoundCancelled
  BY <1>27 DEF RoundCancelled
<1>28. CASE RoundEndsTurn
  BY <1>28 DEF RoundEndsTurn
<1>29. CASE RoundFailed
  BY <1>29 DEF RoundFailed
<1>30. CASE NextRound
  <2>1. shrinks' \in Nat
    <3>1. PICK said : \E after \in Shrinking(said, FALSE) : shrinks' = shrinks + after[2]
      BY <1>30 DEF NextRound
    <3> QED
      BY <3>1, ShrinksTyped
  <2> QED
    BY <1>30, <2>1 DEF NextRound
<1>31. CASE NewTurn
  BY <1>31 DEF NewTurn
<1>32. CASE RunBegin
  <2>1. shrinks' \in Nat
    <3>1. \/ \E after \in Shrinking(log, FALSE) : shrinks' = shrinks + after[2]
          \/ shrinks' = shrinks + 1
      BY <1>32 DEF RunBegin, ShrinkAndWrite
    <3>2. CASE shrinks' = shrinks + 1
      BY <3>2
    <3>3. CASE \E after \in Shrinking(log, FALSE) : shrinks' = shrinks + after[2]
      BY <3>3, ShrinksTyped
    <3> QED
      BY <3>1, <3>2, <3>3
  <2> QED
    BY <1>32, <2>1 DEF RunBegin
<1>33. CASE CompressBegin
  BY <1>33 DEF CompressBegin
<1>34. CASE CompressEnd
  <2>1. shrinks' \in Nat
    <3>1. \E after \in Shrinking(log, TRUE) : shrinks' = shrinks + after[2]
      BY <1>34 DEF CompressEnd, ShrinkAndWrite
    <3> QED
      BY <3>1, ShrinksTyped
  <2> QED
    BY <1>34, <2>1 DEF CompressEnd
<1>35. CASE LeaveLoop
  BY <1>35 DEF LeaveLoop
<1>36. CASE DropError
  BY <1>36 DEF DropError
<1>37. CASE Leave
  BY <1>37 DEF Leave
<1>38. CASE Finish
  BY <1>38 DEF Finish
<1>39. CASE StartImages
  BY <1>39 DEF StartImages
<1>40. CASE ShowImages
  BY <1>40 DEF ShowImages
<1>41. CASE StartSkill
  BY <1>41 DEF StartSkill
<1>42. CASE SkillDone
  BY <1>42 DEF SkillDone
<1>43. CASE UNCHANGED vars
  BY <1>43 DEF vars
<1> QED
  BY <1>1, <1>2, <1>3, <1>4, <1>5, <1>6, <1>7, <1>8, <1>9, <1>10, <1>11, <1>12, <1>13,
     <1>14, <1>15, <1>16, <1>17, <1>18, <1>19, <1>20, <1>21, <1>22, <1>23, <1>24, <1>25,
     <1>26, <1>27, <1>28, <1>29, <1>30, <1>31, <1>32, <1>33, <1>34, <1>35, <1>36, <1>37,
     <1>38, <1>39, <1>40, <1>41, <1>42, <1>43
     DEF Next, Rest, Worker, User, Handler, Stream, Approval, Tools, Turns

LEMMA MessagesTyped ==
  /\ \A role \in Roles : <<Text(role)>> \in Seq(Message) /\ <<Failure(role)>> \in Seq(Message)
  /\ <<>> \in Seq(Message)
BY MessageTypes

LEMMA RoundMessagesTyped ==
  ASSUME RoundTypes
  PROVE  /\ RoundMessages \in Seq(Message)
         /\ ResultMessages \in Seq(Message) /\ ViolationMessages \in Seq(Message)
<1>1. ResultMessages \in Seq(Message)
  <2>1. DOMAIN results = 1 .. Len(results) /\ Len(results) \in Nat
    BY DEF RoundTypes
  <2>2. \A k \in 1 .. Len(results) : Result(batch.first + k - 1, results[k] = "failed") \in Message
    <3> TAKE k \in 1 .. Len(results)
    <3>1. batch.first + k - 1 \in Nat
      BY <2>1 DEF RoundTypes
    <3>2. (results[k] = "failed") \in BOOLEAN
      OBVIOUS
    <3> QED
      BY <3>1, <3>2, MessageTypes
  <2> QED
    BY <2>1, <2>2 DEF ResultMessages
<1>2. ViolationMessages \in Seq(Message)
  BY MessagesTyped DEF ViolationMessages, Roles
<1> QED
  BY <1>1, <1>2 DEF RoundMessages

LEMMA AfterRoundFits ==
  ASSUME Types, NEW after \in AfterRound
  PROVE  Fits(after[1], after[2])
<1> DEFINE said == Say(log, next, RoundMessages)
           at   == next + 2 * Len(RoundMessages)
<1>1. Fits(said, at)
  BY RoundMessagesTyped, SayFits DEF Types
<1>2. \A role \in Roles : Text(role) \in Message /\ Failure(role) \in Message
  BY MessageTypes
<1>3. \/ after = <<said, at>>
      \/ after = <<Put(said, at, Text("system")), at + 2>>
      \/ after = <<Put(SoftStripLast(said), at, Failure("system")), at + 2>>
  BY DEF AfterRound
<1> HIDE DEF said, at
<1>4. Fits(SoftStripLast(said), at)
  BY <1>1, LessFits
<1>5. "system" \in Roles
  BY DEF Roles
<1>6. Fits(Put(said, at, Text("system")), at + 2)
  BY <1>1, <1>2, <1>5, PutFits
<1>7. Fits(Put(SoftStripLast(said), at, Failure("system")), at + 2)
  BY <1>2, <1>4, <1>5, PutFits
<1> QED
  BY <1>1, <1>3, <1>6, <1>7

\* What each step leaves of the conversation.
LEMMA ConversationStep == Types /\ [Next]_vars => Fits(log, next)'
<1> SUFFICES ASSUME Types, [Next]_vars
             PROVE  Fits(log', next')
  OBVIOUS
<1>a. Fits(log, next)
  BY DEF Types
<1>b. \A l, n, ms : Fits(l, n) /\ ms \in Seq(Message) => Fits(Say(l, n, ms), n + 2 * Len(ms))
  BY SayFits
<1>c. \A l, ms : Fits(l, next) /\ ms \in Seq(Message) /\ Write(l, ms) => Fits(log', next')
  BY <1>b DEF Write
<1>d. \A force, ms : ms \in Seq(Message) /\ ShrinkAndWrite(log, force, ms) => Fits(log', next')
  <2> SUFFICES ASSUME NEW force, NEW ms \in Seq(Message), ShrinkAndWrite(log, force, ms)
               PROVE  Fits(log', next')
    OBVIOUS
  <2>1. PICK after \in Shrinking(log, force) : Write(after[1], ms)
    BY DEF ShrinkAndWrite
  <2> QED
    BY <2>1, <1>a, <1>c, ShrinkingFits
<1>e. \A l : (l = log \/ l = StripLast(log) \/ l = ClearLastCalls(log) \/ l = Repair(log)
               \/ l = PopLastAssistant(log)) => Fits(l, next)
  BY <1>a, LessFits
<1>f. /\ \A role \in Roles : <<Text(role)>> \in Seq(Message) /\ <<Failure(role)>> \in Seq(Message)
      /\ <<>> \in Seq(Message)
  BY MessagesTyped
<1>1. CASE StartTurn
  BY <1>1, <1>a, <1>c, <1>f DEF StartTurn, Roles
<1>2. CASE StartCompress
  BY <1>2, <1>a, <1>c, <1>f DEF StartCompress, Roles
<1>3. CASE Render
  BY <1>3, <1>a DEF Render, conversation
<1>4. CASE Escape
  BY <1>4, <1>a DEF Escape, conversation
<1>5. CASE NewChat
  BY <1>5, <1>a DEF NewChat, conversation
<1>6. ASSUME NEW action \in 0..2, ApproveTool(action) PROVE Fits(log', next')
  BY <1>6, <1>a DEF ApproveTool, conversation
<1>7. CASE CancelTools
  BY <1>7, <1>a DEF CancelTools, conversation
<1>8. CASE ClearSession
  <2>1. log' = Empty /\ next' = 2
    BY <1>8 DEF ClearSession
  <2>2. \A i \in DOMAIN Empty : i < 2
    BY EmptyFacts
  <2> QED
    BY <2>1, <2>2, EmptyFacts DEF Fits
<1>9. CASE InjectPrompt
  BY <1>9, <1>a, <1>c, <1>f DEF InjectPrompt, Roles
<1>10. CASE SendRequest
  BY <1>10, <1>a DEF SendRequest, conversation
<1>11. CASE StreamEnds
  BY <1>11, <1>a DEF StreamEnds, conversation
<1>12. CASE StreamCancelled
  BY <1>12, <1>a DEF StreamCancelled, conversation
<1>13. CASE Retry
  <2>1. CASE log' = Repair(log) /\ next' = next
    BY <2>1, <1>e
  <2>2. CASE ShrinkAndWrite(Repair(log), TRUE, <<>>)
    <3>1. PICK after \in Shrinking(Repair(log), TRUE) : Write(after[1], <<>>)
      BY <2>2 DEF ShrinkAndWrite
    <3>2. Fits(after[1], next)
      BY <1>e, ShrinkingFits
    <3> QED
      BY <3>1, <3>2, <1>c, <1>f
  <2> QED
    BY <1>13, <2>1, <2>2 DEF Retry
<1>14. CASE GiveUp
  BY <1>14, <1>e, <1>c, <1>f DEF GiveUp, Roles
<1>15. CASE StreamBroken
  BY <1>15, <1>a DEF StreamBroken, conversation
<1>16. CASE TakeText
  BY <1>16, <1>a, <1>c, <1>f DEF TakeText, Roles
<1>17. CASE TakeNothing
  BY <1>17, <1>a DEF TakeNothing, conversation
<1>18. CASE LengthRetry
  BY <1>18, <1>a, <1>c, <1>f DEF LengthRetry, Roles
<1>19. CASE TakePlaceholder
  BY <1>19, <1>a, <1>c, <1>f DEF TakePlaceholder, Roles
<1>20. CASE TakeCalls
  <2>1. PICK size \in 1..MaxBatch, destructive \in BOOLEAN :
          batch' = [first |-> lastId + 1, size |-> size, destructive |-> destructive]
    BY <1>20 DEF TakeCalls
  <2>2. Ids(batch') \in SUBSET Nat
    BY <2>1 DEF Ids, Types, RoundTypes
  <2>3. <<Calling(Ids(batch'))>> \in Seq(Message)
    <3> DEFINE ids == Ids(batch')
    <3>1. Calling(ids) \in Message
      <4> HIDE DEF ids
      <4> QED
        BY <2>2, MessageTypes DEF ids
    <3> QED
      BY <3>1
  <2>4. Write(log, <<Calling(Ids(batch'))>>)
    BY <1>20 DEF TakeCalls
  <2> QED
    BY <2>3, <2>4, <1>a, <1>c
<1>21. CASE Approved
  BY <1>21, <1>a DEF Approved, conversation
<1>22. CASE Rejected
  BY <1>22, <1>e DEF Rejected
<1>23. CASE WaitCancelled
  BY <1>23, <1>a DEF WaitCancelled, conversation
<1>24. CASE EnterTools
  BY <1>24, <1>a DEF EnterTools, conversation
<1>25. CASE ToolStart
  BY <1>25, <1>a DEF ToolStart, conversation
<1>26. CASE ToolDone
  BY <1>26, <1>e DEF ToolDone
<1>27. CASE RoundCancelled
  BY <1>27, <1>e DEF RoundCancelled
<1>28. CASE RoundEndsTurn
  <2>1. RoundMessages \in Seq(Message)
    BY RoundMessagesTyped DEF Types
  <2> QED
    BY <1>28, <2>1, <1>a, <1>c DEF RoundEndsTurn
<1>29. CASE RoundFailed
  <2>1. PICK after \in AfterRound : /\ log' = Put(StripLast(after[1]), after[2], Failure("system"))
                                   /\ next' = after[2] + 2
    BY <1>29 DEF RoundFailed
  <2>2. Fits(StripLast(after[1]), after[2])
    BY AfterRoundFits, LessFits
  <2>3. Failure("system") \in Message
    BY MessageTypes DEF Roles
  <2> QED
    BY <2>1, <2>2, <2>3, PutFits
<1>30. CASE NextRound
  <2>1. PICK after \in AfterRound :
          /\ \E shrunk \in Shrinking(after[1], FALSE) : log' = Repair(shrunk[1])
          /\ next' = after[2]
    BY <1>30 DEF NextRound
  <2>2. PICK shrunk \in Shrinking(after[1], FALSE) : log' = Repair(shrunk[1])
    BY <2>1
  <2>3. Fits(shrunk[1], after[2])
    BY AfterRoundFits, ShrinkingFits
  <2> QED
    BY <2>1, <2>2, <2>3, LessFits
<1>31. CASE NewTurn
  BY <1>31, <1>a, <1>c, <1>f DEF NewTurn, Roles
<1>32. CASE RunBegin
  <2>1. CASE ShrinkAndWrite(log, FALSE, <<>>)
    BY <2>1, <1>d, <1>f
  <2>2. CASE \E after \in Shrinking(log, FALSE) : Write(after[1], <<Text("system")>>)
    <3>1. PICK after \in Shrinking(log, FALSE) : Write(after[1], <<Text("system")>>)
      BY <2>2
    <3>2. Fits(after[1], next)
      BY <1>a, ShrinkingFits
    <3> QED
      BY <3>1, <3>2, <1>c, <1>f DEF Roles
  <2> QED
    BY <1>32, <2>1, <2>2 DEF RunBegin
<1>33. CASE CompressBegin
  BY <1>33, <1>a DEF CompressBegin, conversation
<1>34. CASE CompressEnd
  BY <1>34, <1>d, <1>f DEF CompressEnd, Roles
<1>35. CASE LeaveLoop
  BY <1>35, <1>a DEF LeaveLoop, conversation
<1>36. CASE DropError
  BY <1>36, <1>a DEF DropError, conversation
<1>37. CASE Leave
  BY <1>37, <1>a DEF Leave, conversation
<1>38. CASE Finish
  BY <1>38, <1>a DEF Finish, conversation
<1>39. CASE StartImages
  BY <1>39, <1>a DEF StartImages, conversation
<1>40. CASE ShowImages
  BY <1>40, <1>a, <1>c, <1>f DEF ShowImages, Roles
<1>41. CASE StartSkill
  BY <1>41, <1>a DEF StartSkill, conversation
<1>42. CASE SkillDone
  BY <1>42, <1>a, <1>c, <1>f DEF SkillDone, Roles
<1>43. CASE UNCHANGED vars
  BY <1>43, <1>a DEF vars, conversation
<1> QED
  BY <1>1, <1>2, <1>3, <1>4, <1>5, <1>6, <1>7, <1>8, <1>9, <1>10, <1>11, <1>12, <1>13,
     <1>14, <1>15, <1>16, <1>17, <1>18, <1>19, <1>20, <1>21, <1>22, <1>23, <1>24, <1>25,
     <1>26, <1>27, <1>28, <1>29, <1>30, <1>31, <1>32, <1>33, <1>34, <1>35, <1>36, <1>37,
     <1>38, <1>39, <1>40, <1>41, <1>42, <1>43
     DEF Next, Rest, Worker, User, Handler, Stream, Approval, Tools, Turns

\* The four groups of types together are inductive.
LEMMA TypesInvariant == Spec => []Types
<1>1. Init => Types
  <2>1. Init => Fits(log, next)
    <3> SUFFICES ASSUME Init PROVE Fits(log, next)
      OBVIOUS
    <3>1. IsLog(Empty) /\ DOMAIN Empty = {} /\ Text("system") \in Message
      BY EmptyFacts, MessageTypes DEF Roles
    <3> DEFINE first == Put(Empty, 2, Text("system"))
    <3>2. IsLog(first) /\ DOMAIN first = DOMAIN Empty \cup {2}
      <4>1. 2 \in Nat
        OBVIOUS
      <4> QED
        BY <3>1, <4>1, PutFacts
    <3>3. log = first /\ next = 4
      BY DEF Init
    <3> HIDE DEF first
    <3> QED
      BY <3>1, <3>2, <3>3 DEF Fits
  <2>2. Init => RoundTypes
    BY DEF Init, RoundTypes, NoBatch
  <2>3. Init => FlagTypes
    BY DEF Init, FlagTypes
  <2>4. Init => ControlTypes
    BY AgentLoopAssumption DEF Init, ControlTypes, Phases, Points
  <2> QED
    BY <2>1, <2>2, <2>3, <2>4 DEF Types
<1>2. Types /\ [Next]_vars => Types'
  <2>1. SUFFICES ASSUME Types, [Next]_vars PROVE Types'
    OBVIOUS
  <2>2. RoundTypes'
    BY <2>1, RoundStep DEF Types
  <2>3. FlagTypes'
    BY <2>1, FlagStep DEF Types
  <2>4. ControlTypes'
    BY <2>1, ControlStep
  <2>5. Fits(log, next)'
    BY <2>1, ConversationStep
  <2> QED
    BY <2>2, <2>3, <2>4, <2>5 DEF Types
<1> QED
  BY <1>1, <1>2, PTL DEF Spec

\* Whatever the threads do to each other, every variable keeps its type: in
\* particular the conversation is a list of well-formed messages with room for
\* the next one, and a third retry for a too long reasoning is never counted.
THEOREM AgentTypes == Spec => []TypeOK
<1>1. Types => TypeOK
  BY DEF Types, RoundTypes, FlagTypes, ControlTypes, TypeOK
<1> QED
  BY <1>1, TypesInvariant, PTL

-----------------------------------------------------------------------------
(* Consent, follow-ups and the end of a turn *)

\* The user said YES in this turn or ALWAYS in this conversation.
Consented == grantTurn = turn \/ alwaysEpoch = epoch

\* A verdict that a waiting run() would take for a YES is one of this turn, ALWAYS is
\* remembered as long as the conversation, and a destructive batch that is due to
\* run has its consent, or a cancel that clearSession raised keeps it from running.
ConsentInv ==
  /\ approvalDone /\ approvalGranted => grantTurn = turn
  /\ alwaysApproved => alwaysEpoch = epoch
  /\ pc \in {"tools", "tool"} \/ (pc = "loop" /\ phase = "ExecutingTools") =>
       (batch.destructive => Consented \/ cancelRequested)

\* The phase is Idle wherever run() is not under way.
PhaseInv == pc \in {"off", "launched", "entered", "returned", "images", "skill"} => phase = "Idle"

\* A queued follow-up is one the present round of tools asked for, and the turn-end
\* request it came with is still up; once the round is over, run() only leaves.
FollowUpInv ==
  /\ pc \in {"tools", "tool"} => phase \in {"Idle", "ExecutingTools"}
  /\ followUp =>
       /\ pc \in {"tools", "tool", "loop", "leaving", "returned"}
       /\ pc \in {"tools", "tool"} => turnEnd
       /\ pc = "loop" => phase = "Idle" \/ (phase = "ExecutingTools" /\ turnEnd)

\* Consent is given by the user before a destructive tool starts: the flags of
\* approveTool never outlive the turn (newTurn resets approvalDone_) or, for ALWAYS,
\* the conversation (clearSession resets destructiveApproved_).
THEOREM ConsentTheorem == Spec => DestructiveNeedsConsent
<1>1. Init => ConsentInv
  BY DEF Init, ConsentInv, NoBatch
<1>2. ConsentInv /\ [Next]_vars => ConsentInv'
  <2> SUFFICES ASSUME ConsentInv, [Next]_vars PROVE ConsentInv'
    OBVIOUS
  <2> USE DEF ConsentInv, Consented, round, reply, counters, requests, approval, cancels,
              screen, clocks
  <2>1. CASE StartTurn
    BY <2>1 DEF StartTurn, ResetVerdict
  <2>2. CASE StartCompress
    BY <2>2 DEF StartCompress
  <2>3. CASE Render
    BY <2>3 DEF Render
  <2>4. CASE Escape
    BY <2>4 DEF Escape
  <2>5. CASE NewChat
    BY <2>5 DEF NewChat
  <2>6. ASSUME NEW action \in 0..2, ApproveTool(action) PROVE ConsentInv'
    BY <2>6 DEF ApproveTool
  <2>7. CASE CancelTools
    BY <2>7 DEF CancelTools
  <2>8. CASE ClearSession
    BY <2>8 DEF ClearSession, ForgetAlways
  <2>9. CASE InjectPrompt
    BY <2>9 DEF InjectPrompt
  <2>10. CASE SendRequest
    BY <2>10 DEF SendRequest, GoesOn
  <2>11. CASE StreamEnds
    BY <2>11 DEF StreamEnds
  <2>12. CASE StreamCancelled
    BY <2>12 DEF StreamCancelled
  <2>13. CASE Retry
    BY <2>13 DEF Retry
  <2>14. CASE GiveUp
    BY <2>14 DEF GiveUp
  <2>15. CASE StreamBroken
    BY <2>15 DEF StreamBroken
  <2>16. CASE TakeText
    BY <2>16 DEF TakeText
  <2>17. CASE TakeNothing
    BY <2>17 DEF TakeNothing
  <2>18. CASE LengthRetry
    BY <2>18 DEF LengthRetry
  <2>19. CASE TakePlaceholder
    BY <2>19 DEF TakePlaceholder
  <2>20. CASE TakeCalls
    BY <2>20 DEF TakeCalls
  <2>21. CASE Approved
    BY <2>21 DEF Approved
  <2>22. CASE Rejected
    BY <2>22 DEF Rejected
  <2>23. CASE WaitCancelled
    BY <2>23 DEF WaitCancelled
  <2>24. CASE EnterTools
    BY <2>24 DEF EnterTools, GoesOn
  <2>25. CASE ToolStart
    BY <2>25 DEF ToolStart
  <2>26. CASE ToolDone
    BY <2>26 DEF ToolDone, AsksTurnEnd
  <2>27. CASE RoundCancelled
    BY <2>27 DEF RoundCancelled
  <2>28. CASE RoundEndsTurn
    BY <2>28 DEF RoundEndsTurn, RoundOver, NoBatch
  <2>29. CASE RoundFailed
    BY <2>29 DEF RoundFailed, RoundOver, NoBatch
  <2>30. CASE NextRound
    BY <2>30 DEF NextRound, RoundOver, NoBatch
  <2>31. CASE NewTurn
    BY <2>31 DEF NewTurn, ResetVerdict, ConsumeTurnEnd, NoBatch
  <2>32. CASE RunBegin
    BY <2>32 DEF RunBegin
  <2>33. CASE CompressBegin
    BY <2>33 DEF CompressBegin
  <2>34. CASE CompressEnd
    BY <2>34 DEF CompressEnd
  <2>35. CASE LeaveLoop
    BY <2>35 DEF LeaveLoop, GoesOn
  <2>36. CASE DropError
    BY <2>36 DEF DropError, GoesOn
  <2>37. CASE Leave
    BY <2>37 DEF Leave
  <2>38. CASE Finish
    BY <2>38 DEF Finish
  <2>39. CASE ShowImages
    BY <2>39 DEF ShowImages
  <2>40. CASE StartSkill
    BY <2>40 DEF StartSkill
  <2>41. CASE SkillDone
    BY <2>41 DEF SkillDone
  <2>42. CASE StartImages
    BY <2>42 DEF StartImages
  <2>43. CASE UNCHANGED vars
    BY <2>43 DEF vars
  <2> QED
    BY <2>1, <2>2, <2>3, <2>4, <2>5, <2>6, <2>7, <2>8, <2>9, <2>10, <2>11, <2>12, <2>13,
       <2>14, <2>15, <2>16, <2>17, <2>18, <2>19, <2>20, <2>21, <2>22, <2>23, <2>24, <2>25,
       <2>26, <2>27, <2>28, <2>29, <2>30, <2>31, <2>32, <2>33, <2>34, <2>35, <2>36, <2>37,
       <2>38, <2>39, <2>40, <2>41, <2>42, <2>43
       DEF Next, Rest, Worker, User, Handler, Stream, Approval, Tools, Turns
<1>3. ConsentInv /\ [Next]_vars =>
        [pc # "tool" /\ pc' = "tool" /\ batch.destructive
           => grantTurn = turn \/ alwaysEpoch = epoch]_vars
  <2> SUFFICES ASSUME ConsentInv, [Next]_vars, pc # "tool", pc' = "tool", batch.destructive
               PROVE  grantTurn = turn \/ alwaysEpoch = epoch
    OBVIOUS
  <2>1. CASE StartTurn
    BY <2>1 DEF StartTurn, ResetVerdict
  <2>2. CASE StartCompress
    BY <2>2 DEF StartCompress
  <2>3. CASE Render
    BY <2>3 DEF Render
  <2>4. CASE Escape
    BY <2>4 DEF Escape
  <2>5. CASE NewChat
    BY <2>5 DEF NewChat
  <2>6. ASSUME NEW action \in 0..2, ApproveTool(action) PROVE grantTurn = turn \/ alwaysEpoch = epoch
    BY <2>6 DEF ApproveTool
  <2>7. CASE CancelTools
    BY <2>7 DEF CancelTools
  <2>8. CASE ClearSession
    BY <2>8 DEF ClearSession, ForgetAlways
  <2>9. CASE InjectPrompt
    BY <2>9 DEF InjectPrompt
  <2>10. CASE SendRequest
    BY <2>10 DEF SendRequest, GoesOn
  <2>11. CASE StreamEnds
    BY <2>11 DEF StreamEnds
  <2>12. CASE StreamCancelled
    BY <2>12 DEF StreamCancelled
  <2>13. CASE Retry
    BY <2>13 DEF Retry
  <2>14. CASE GiveUp
    BY <2>14 DEF GiveUp
  <2>15. CASE StreamBroken
    BY <2>15 DEF StreamBroken
  <2>16. CASE TakeText
    BY <2>16 DEF TakeText
  <2>17. CASE TakeNothing
    BY <2>17 DEF TakeNothing
  <2>18. CASE LengthRetry
    BY <2>18 DEF LengthRetry
  <2>19. CASE TakePlaceholder
    BY <2>19 DEF TakePlaceholder
  <2>20. CASE TakeCalls
    BY <2>20 DEF TakeCalls
  <2>21. CASE Approved
    BY <2>21 DEF Approved
  <2>22. CASE Rejected
    BY <2>22 DEF Rejected
  <2>23. CASE WaitCancelled
    BY <2>23 DEF WaitCancelled
  <2>24. CASE EnterTools
    BY <2>24 DEF EnterTools, GoesOn
  <2>25. CASE ToolStart
    BY <2>25 DEF ToolStart, ConsentInv, Consented
  <2>26. CASE ToolDone
    BY <2>26 DEF ToolDone, AsksTurnEnd
  <2>27. CASE RoundCancelled
    BY <2>27 DEF RoundCancelled
  <2>28. CASE RoundEndsTurn
    BY <2>28 DEF RoundEndsTurn, RoundOver, NoBatch
  <2>29. CASE RoundFailed
    BY <2>29 DEF RoundFailed, RoundOver, NoBatch
  <2>30. CASE NextRound
    BY <2>30 DEF NextRound, RoundOver, NoBatch
  <2>31. CASE NewTurn
    BY <2>31 DEF NewTurn, ResetVerdict, ConsumeTurnEnd, NoBatch
  <2>32. CASE RunBegin
    BY <2>32 DEF RunBegin
  <2>33. CASE CompressBegin
    BY <2>33 DEF CompressBegin
  <2>34. CASE CompressEnd
    BY <2>34 DEF CompressEnd
  <2>35. CASE LeaveLoop
    BY <2>35 DEF LeaveLoop, GoesOn
  <2>36. CASE DropError
    BY <2>36 DEF DropError, GoesOn
  <2>37. CASE Leave
    BY <2>37 DEF Leave
  <2>38. CASE Finish
    BY <2>38 DEF Finish
  <2>39. CASE ShowImages
    BY <2>39 DEF ShowImages
  <2>40. CASE StartSkill
    BY <2>40 DEF StartSkill
  <2>41. CASE SkillDone
    BY <2>41 DEF SkillDone
  <2>42. CASE StartImages
    BY <2>42 DEF StartImages
  <2>43. CASE UNCHANGED vars
    BY <2>43 DEF vars
  <2> QED
    BY <2>1, <2>2, <2>3, <2>4, <2>5, <2>6, <2>7, <2>8, <2>9, <2>10, <2>11, <2>12, <2>13,
       <2>14, <2>15, <2>16, <2>17, <2>18, <2>19, <2>20, <2>21, <2>22, <2>23, <2>24, <2>25,
       <2>26, <2>27, <2>28, <2>29, <2>30, <2>31, <2>32, <2>33, <2>34, <2>35, <2>36, <2>37,
       <2>38, <2>39, <2>40, <2>41, <2>42, <2>43
       DEF Next, Rest, Worker, User, Handler, Stream, Approval, Tools, Turns
<1> QED
  BY <1>1, <1>2, <1>3, PTL DEF Spec, DestructiveNeedsConsent

\* Whenever no worker runs the phase is Idle: Agent::run stores Idle before it
\* returns, and no other store can come between that and the next run().
THEOREM QuietTheorem == Spec => []QuietWhenIdle
<1>1. Init => PhaseInv
  BY DEF Init, PhaseInv
<1>2. PhaseInv /\ [Next]_vars => PhaseInv'
  <2> SUFFICES ASSUME PhaseInv, [Next]_vars PROVE PhaseInv'
    OBVIOUS
  <2> USE DEF PhaseInv
  <2>1. CASE StartTurn
    BY <2>1 DEF StartTurn, ResetVerdict
  <2>2. CASE StartCompress
    BY <2>2 DEF StartCompress
  <2>3. CASE Render
    BY <2>3 DEF Render
  <2>4. CASE Escape
    BY <2>4 DEF Escape
  <2>5. CASE NewChat
    BY <2>5 DEF NewChat
  <2>6. ASSUME NEW action \in 0..2, ApproveTool(action) PROVE PhaseInv'
    BY <2>6 DEF ApproveTool
  <2>7. CASE CancelTools
    BY <2>7 DEF CancelTools
  <2>8. CASE ClearSession
    BY <2>8 DEF ClearSession, ForgetAlways
  <2>9. CASE InjectPrompt
    BY <2>9 DEF InjectPrompt
  <2>10. CASE SendRequest
    BY <2>10 DEF SendRequest, GoesOn
  <2>11. CASE StreamEnds
    BY <2>11 DEF StreamEnds
  <2>12. CASE StreamCancelled
    BY <2>12 DEF StreamCancelled
  <2>13. CASE Retry
    BY <2>13 DEF Retry
  <2>14. CASE GiveUp
    BY <2>14 DEF GiveUp
  <2>15. CASE StreamBroken
    BY <2>15 DEF StreamBroken
  <2>16. CASE TakeText
    BY <2>16 DEF TakeText
  <2>17. CASE TakeNothing
    BY <2>17 DEF TakeNothing
  <2>18. CASE LengthRetry
    BY <2>18 DEF LengthRetry
  <2>19. CASE TakePlaceholder
    BY <2>19 DEF TakePlaceholder
  <2>20. CASE TakeCalls
    BY <2>20 DEF TakeCalls
  <2>21. CASE Approved
    BY <2>21 DEF Approved
  <2>22. CASE Rejected
    BY <2>22 DEF Rejected
  <2>23. CASE WaitCancelled
    BY <2>23 DEF WaitCancelled
  <2>24. CASE EnterTools
    BY <2>24 DEF EnterTools, GoesOn
  <2>25. CASE ToolStart
    BY <2>25 DEF ToolStart
  <2>26. CASE ToolDone
    BY <2>26 DEF ToolDone, AsksTurnEnd
  <2>27. CASE RoundCancelled
    BY <2>27 DEF RoundCancelled
  <2>28. CASE RoundEndsTurn
    BY <2>28 DEF RoundEndsTurn, RoundOver, NoBatch
  <2>29. CASE RoundFailed
    BY <2>29 DEF RoundFailed, RoundOver, NoBatch
  <2>30. CASE NextRound
    BY <2>30 DEF NextRound, RoundOver, NoBatch
  <2>31. CASE NewTurn
    BY <2>31 DEF NewTurn, ResetVerdict, ConsumeTurnEnd, NoBatch
  <2>32. CASE RunBegin
    BY <2>32 DEF RunBegin
  <2>33. CASE CompressBegin
    BY <2>33 DEF CompressBegin
  <2>34. CASE CompressEnd
    BY <2>34 DEF CompressEnd
  <2>35. CASE LeaveLoop
    BY <2>35 DEF LeaveLoop, GoesOn
  <2>36. CASE DropError
    BY <2>36 DEF DropError, GoesOn
  <2>37. CASE Leave
    BY <2>37 DEF Leave
  <2>38. CASE Finish
    BY <2>38 DEF Finish
  <2>39. CASE ShowImages
    BY <2>39 DEF ShowImages
  <2>40. CASE StartSkill
    BY <2>40 DEF StartSkill
  <2>41. CASE SkillDone
    BY <2>41 DEF SkillDone
  <2>42. CASE StartImages
    BY <2>42 DEF StartImages
  <2>43. CASE UNCHANGED vars
    BY <2>43 DEF vars
  <2> QED
    BY <2>1, <2>2, <2>3, <2>4, <2>5, <2>6, <2>7, <2>8, <2>9, <2>10, <2>11, <2>12, <2>13,
       <2>14, <2>15, <2>16, <2>17, <2>18, <2>19, <2>20, <2>21, <2>22, <2>23, <2>24, <2>25,
       <2>26, <2>27, <2>28, <2>29, <2>30, <2>31, <2>32, <2>33, <2>34, <2>35, <2>36, <2>37,
       <2>38, <2>39, <2>40, <2>41, <2>42, <2>43
       DEF Next, Rest, Worker, User, Handler, Stream, Approval, Tools, Turns
<1>3. PhaseInv => QuietWhenIdle
  BY DEF PhaseInv, QuietWhenIdle
<1> QED
  BY <1>1, <1>2, <1>3, PTL DEF Spec

\* While the model is asked, and while the user is, no skill and no image round is
\* queued: the tool that queued it has ended the turn.
THEOREM FollowUpTheorem == Spec => []FollowUpEndsTurn
<1>1. Init => FollowUpInv
  BY DEF Init, FollowUpInv
<1>2. FollowUpInv /\ [Next]_vars => FollowUpInv'
  <2> SUFFICES ASSUME FollowUpInv, [Next]_vars PROVE FollowUpInv'
    OBVIOUS
  <2> USE DEF FollowUpInv, requests
  <2>1. CASE StartTurn
    BY <2>1 DEF StartTurn, ResetVerdict
  <2>2. CASE StartCompress
    BY <2>2 DEF StartCompress
  <2>3. CASE Render
    BY <2>3 DEF Render
  <2>4. CASE Escape
    BY <2>4 DEF Escape
  <2>5. CASE NewChat
    BY <2>5 DEF NewChat
  <2>6. ASSUME NEW action \in 0..2, ApproveTool(action) PROVE FollowUpInv'
    BY <2>6 DEF ApproveTool
  <2>7. CASE CancelTools
    BY <2>7 DEF CancelTools
  <2>8. CASE ClearSession
    BY <2>8 DEF ClearSession, ForgetAlways
  <2>9. CASE InjectPrompt
    BY <2>9 DEF InjectPrompt
  <2>10. CASE SendRequest
    BY <2>10 DEF SendRequest, GoesOn
  <2>11. CASE StreamEnds
    BY <2>11 DEF StreamEnds
  <2>12. CASE StreamCancelled
    BY <2>12 DEF StreamCancelled
  <2>13. CASE Retry
    BY <2>13 DEF Retry
  <2>14. CASE GiveUp
    BY <2>14 DEF GiveUp
  <2>15. CASE StreamBroken
    BY <2>15 DEF StreamBroken
  <2>16. CASE TakeText
    BY <2>16 DEF TakeText
  <2>17. CASE TakeNothing
    BY <2>17 DEF TakeNothing
  <2>18. CASE LengthRetry
    BY <2>18 DEF LengthRetry
  <2>19. CASE TakePlaceholder
    BY <2>19 DEF TakePlaceholder
  <2>20. CASE TakeCalls
    BY <2>20 DEF TakeCalls
  <2>21. CASE Approved
    BY <2>21 DEF Approved
  <2>22. CASE Rejected
    BY <2>22 DEF Rejected
  <2>23. CASE WaitCancelled
    BY <2>23 DEF WaitCancelled
  <2>24. CASE EnterTools
    BY <2>24 DEF EnterTools, GoesOn
  <2>25. CASE ToolStart
    BY <2>25 DEF ToolStart
  <2>26. CASE ToolDone
    BY <2>26 DEF ToolDone, AsksTurnEnd
  <2>27. CASE RoundCancelled
    BY <2>27 DEF RoundCancelled
  <2>28. CASE RoundEndsTurn
    BY <2>28 DEF RoundEndsTurn, RoundOver, NoBatch
  <2>29. CASE RoundFailed
    BY <2>29 DEF RoundFailed, RoundOver, NoBatch
  <2>30. CASE NextRound
    BY <2>30 DEF NextRound, RoundOver, NoBatch
  <2>31. CASE NewTurn
    BY <2>31 DEF NewTurn, ResetVerdict, ConsumeTurnEnd, NoBatch
  <2>32. CASE RunBegin
    BY <2>32 DEF RunBegin
  <2>33. CASE CompressBegin
    BY <2>33 DEF CompressBegin
  <2>34. CASE CompressEnd
    BY <2>34 DEF CompressEnd
  <2>35. CASE LeaveLoop
    BY <2>35 DEF LeaveLoop, GoesOn
  <2>36. CASE DropError
    BY <2>36 DEF DropError, GoesOn
  <2>37. CASE Leave
    BY <2>37 DEF Leave
  <2>38. CASE Finish
    BY <2>38 DEF Finish
  <2>39. CASE ShowImages
    BY <2>39 DEF ShowImages
  <2>40. CASE StartSkill
    BY <2>40 DEF StartSkill
  <2>41. CASE SkillDone
    BY <2>41 DEF SkillDone
  <2>42. CASE StartImages
    BY <2>42 DEF StartImages
  <2>43. CASE UNCHANGED vars
    BY <2>43 DEF vars
  <2> QED
    BY <2>1, <2>2, <2>3, <2>4, <2>5, <2>6, <2>7, <2>8, <2>9, <2>10, <2>11, <2>12, <2>13,
       <2>14, <2>15, <2>16, <2>17, <2>18, <2>19, <2>20, <2>21, <2>22, <2>23, <2>24, <2>25,
       <2>26, <2>27, <2>28, <2>29, <2>30, <2>31, <2>32, <2>33, <2>34, <2>35, <2>36, <2>37,
       <2>38, <2>39, <2>40, <2>41, <2>42, <2>43
       DEF Next, Rest, Worker, User, Handler, Stream, Approval, Tools, Turns
<1>3. FollowUpInv => FollowUpEndsTurn
  BY DEF FollowUpInv, FollowUpEndsTurn
<1> QED
  BY <1>1, <1>2, <1>3, PTL DEF Spec

\* A turn-end request belongs to a tool of the round at hand, and as long as it is up
\* nothing is asked of the model, so no new batch can take the round's place.
TurnEndInv ==
  /\ pc \in {"tools", "tool"} => phase \in {"Idle", "ExecutingTools"}
  /\ turnEnd =>
       /\ \E k \in DOMAIN results : results[k] = "endTurn"
       /\ pc \notin {"entered", "compress", "stream", "answered", "approval"}
       /\ pc = "loop" => phase # "Streaming"

\* A turn ends early only for a tool of this very round: a request left up by a
\* cancelled round is consumed by newTurn() before the next round can find it.
THEOREM TurnEndTheorem == Spec => []TurnEndIsOwn
<1>1. Init => TurnEndInv
  BY DEF Init, TurnEndInv
<1>2. Types /\ TurnEndInv /\ [Next]_vars => TurnEndInv'
  <2> SUFFICES ASSUME Types, TurnEndInv, [Next]_vars PROVE TurnEndInv'
    OBVIOUS
  <2> USE DEF TurnEndInv, requests, round
  <2>1. CASE StartTurn
    BY <2>1 DEF StartTurn, ResetVerdict
  <2>2. CASE StartCompress
    BY <2>2 DEF StartCompress
  <2>3. CASE Render
    BY <2>3 DEF Render
  <2>4. CASE Escape
    BY <2>4 DEF Escape
  <2>5. CASE NewChat
    BY <2>5 DEF NewChat
  <2>6. ASSUME NEW action \in 0..2, ApproveTool(action) PROVE TurnEndInv'
    BY <2>6 DEF ApproveTool
  <2>7. CASE CancelTools
    BY <2>7 DEF CancelTools
  <2>8. CASE ClearSession
    BY <2>8 DEF ClearSession, ForgetAlways
  <2>9. CASE InjectPrompt
    BY <2>9 DEF InjectPrompt
  <2>10. CASE SendRequest
    BY <2>10 DEF SendRequest, GoesOn
  <2>11. CASE StreamEnds
    BY <2>11 DEF StreamEnds
  <2>12. CASE StreamCancelled
    BY <2>12 DEF StreamCancelled
  <2>13. CASE Retry
    BY <2>13 DEF Retry
  <2>14. CASE GiveUp
    BY <2>14 DEF GiveUp
  <2>15. CASE StreamBroken
    BY <2>15 DEF StreamBroken
  <2>16. CASE TakeText
    BY <2>16 DEF TakeText
  <2>17. CASE TakeNothing
    BY <2>17 DEF TakeNothing
  <2>18. CASE LengthRetry
    BY <2>18 DEF LengthRetry
  <2>19. CASE TakePlaceholder
    BY <2>19 DEF TakePlaceholder
  <2>20. CASE TakeCalls
    BY <2>20 DEF TakeCalls
  <2>21. CASE Approved
    BY <2>21 DEF Approved
  <2>22. CASE Rejected
    BY <2>22 DEF Rejected
  <2>23. CASE WaitCancelled
    BY <2>23 DEF WaitCancelled
  <2>24. CASE EnterTools
    BY <2>24 DEF EnterTools, GoesOn
  <2>25. CASE ToolStart
    BY <2>25 DEF ToolStart
  <2>26. CASE ToolDone
    <3>1. PICK outcome \in ToolOutcomes :
            results' = Append(results, outcome) /\ turnEnd' = (turnEnd \/ outcome = "endTurn")
      BY <2>26 DEF ToolDone, AsksTurnEnd
    <3>2. /\ DOMAIN results' = 1 .. Len(results) + 1 /\ results'[Len(results) + 1] = outcome
          /\ DOMAIN results = 1 .. Len(results)
          /\ \A k \in DOMAIN results : k \in DOMAIN results' /\ results'[k] = results[k]
      BY <3>1 DEF Types, RoundTypes
    <3>3. Len(results) + 1 \in DOMAIN results'
      BY <3>2 DEF Types, RoundTypes
    <3>4. outcome = "endTurn" => \E k \in DOMAIN results' : results'[k] = "endTurn"
      BY <3>2, <3>3
    <3>5. turnEnd => \E k \in DOMAIN results' : results'[k] = "endTurn"
      <4>1. ASSUME turnEnd PROVE \E k \in DOMAIN results' : results'[k] = "endTurn"
        <5>1. PICK k \in DOMAIN results : results[k] = "endTurn"
          BY <4>1
        <5> QED
          BY <3>2, <5>1
      <4> QED
        BY <4>1
    <3>6. turnEnd' => turnEnd \/ outcome = "endTurn"
      BY <3>1
    <3>7. pc = "tool" /\ pc' \in {"loop", "tools"} /\ phase' = phase
      BY <2>26 DEF ToolDone
    <3> QED
      BY <3>4, <3>5, <3>6, <3>7
  <2>27. CASE RoundCancelled
    BY <2>27 DEF RoundCancelled
  <2>28. CASE RoundEndsTurn
    BY <2>28 DEF RoundEndsTurn, RoundOver, NoBatch
  <2>29. CASE RoundFailed
    BY <2>29 DEF RoundFailed, RoundOver, NoBatch
  <2>30. CASE NextRound
    BY <2>30 DEF NextRound, RoundOver, NoBatch
  <2>31. CASE NewTurn
    BY <2>31 DEF NewTurn, ResetVerdict, ConsumeTurnEnd, NoBatch
  <2>32. CASE RunBegin
    BY <2>32 DEF RunBegin
  <2>33. CASE CompressBegin
    BY <2>33 DEF CompressBegin
  <2>34. CASE CompressEnd
    BY <2>34 DEF CompressEnd
  <2>35. CASE LeaveLoop
    BY <2>35 DEF LeaveLoop, GoesOn
  <2>36. CASE DropError
    BY <2>36 DEF DropError, GoesOn
  <2>37. CASE Leave
    BY <2>37 DEF Leave
  <2>38. CASE Finish
    BY <2>38 DEF Finish
  <2>39. CASE ShowImages
    BY <2>39 DEF ShowImages
  <2>40. CASE StartSkill
    BY <2>40 DEF StartSkill
  <2>41. CASE SkillDone
    BY <2>41 DEF SkillDone
  <2>42. CASE StartImages
    BY <2>42 DEF StartImages
  <2>43. CASE UNCHANGED vars
    BY <2>43 DEF vars
  <2> QED
    BY <2>1, <2>2, <2>3, <2>4, <2>5, <2>6, <2>7, <2>8, <2>9, <2>10, <2>11, <2>12, <2>13,
       <2>14, <2>15, <2>16, <2>17, <2>18, <2>19, <2>20, <2>21, <2>22, <2>23, <2>24, <2>25,
       <2>26, <2>27, <2>28, <2>29, <2>30, <2>31, <2>32, <2>33, <2>34, <2>35, <2>36, <2>37,
       <2>38, <2>39, <2>40, <2>41, <2>42, <2>43
       DEF Next, Rest, Worker, User, Handler, Stream, Approval, Tools, Turns
<1>3. TurnEndInv => TurnEndIsOwn
  BY DEF TurnEndInv, TurnEndIsOwn
<1> QED
  BY <1>1, <1>2, <1>3, TypesInvariant, PTL DEF Spec

\* The calls of the batch at hand are in the conversation.
CallsHeld == \E i \in Callers(log) : Ids(batch) \subseteq log[i].calls

\* From the answer that brought the batch to its last tool its calls are held, or a
\* cancel or a reset has come that the batch does not outlive.
HeldInv ==
  pc \in {"approval", "tools", "tool"} \/ (pc = "loop" /\ phase = "ExecutingTools") =>
    CallsHeld \/ batch.size = 0 \/ toolCancel \/ (pc = "loop" /\ cancelRequested)

\* What writes behind a conversation leaves what is in it.
LEMMA WriteKeepsCalls ==
  ASSUME CallsHeld, UNCHANGED batch, NEW ms, Write(log, ms)
  PROVE  CallsHeld'
BY DEF CallsHeld, Callers, Write, Say, Ids

\* The tool that runs belongs to a call the conversation still holds: the repairs that
\* strip calls run between rounds only, or after a cancel, and clearSession raises the
\* registry's flag first.
THEOREM HeldTheorem == Spec => []RunningCallIsKept
<1>1. Init => HeldInv
  BY DEF Init, HeldInv
<1>2. Types /\ HeldInv /\ [Next]_vars => HeldInv'
  <2> SUFFICES ASSUME Types, HeldInv, [Next]_vars PROVE HeldInv'
    OBVIOUS
  <2>a. UNCHANGED <<log, batch>> => (CallsHeld' <=> CallsHeld)
    BY DEF CallsHeld, Callers, Ids
  <2> USE DEF HeldInv, round, conversation, cancels
  <2>1. CASE StartTurn
    BY <2>1, <2>a DEF StartTurn, ResetVerdict
  <2>2. CASE StartCompress
    BY <2>2, <2>a DEF StartCompress
  <2>3. CASE Render
    BY <2>3, <2>a DEF Render
  <2>4. CASE Escape
    BY <2>4, <2>a DEF Escape
  <2>5. CASE NewChat
    BY <2>5, <2>a DEF NewChat
  <2>6. ASSUME NEW action \in 0..2, ApproveTool(action) PROVE HeldInv'
    BY <2>6, <2>a DEF ApproveTool
  <2>7. CASE CancelTools
    BY <2>7, <2>a DEF CancelTools
  <2>8. CASE ClearSession
    BY <2>8, <2>a DEF ClearSession, ForgetAlways
  <2>9. CASE InjectPrompt
    <3>1. Write(log, <<Text("system")>>) /\ UNCHANGED batch
      BY <2>9 DEF InjectPrompt
    <3> QED
      BY <2>9, <3>1, WriteKeepsCalls DEF InjectPrompt
  <2>10. CASE SendRequest
    BY <2>10, <2>a DEF SendRequest, GoesOn
  <2>11. CASE StreamEnds
    BY <2>11, <2>a DEF StreamEnds
  <2>12. CASE StreamCancelled
    BY <2>12, <2>a DEF StreamCancelled
  <2>13. CASE Retry
    BY <2>13, <2>a DEF Retry
  <2>14. CASE GiveUp
    BY <2>14, <2>a DEF GiveUp
  <2>15. CASE StreamBroken
    BY <2>15, <2>a DEF StreamBroken
  <2>16. CASE TakeText
    BY <2>16, <2>a DEF TakeText
  <2>17. CASE TakeNothing
    BY <2>17, <2>a DEF TakeNothing
  <2>18. CASE LengthRetry
    BY <2>18, <2>a DEF LengthRetry
  <2>19. CASE TakePlaceholder
    BY <2>19, <2>a DEF TakePlaceholder
  <2>20. CASE TakeCalls
    <3>1. PICK size \in 1 .. MaxBatch : batch'.first = lastId + 1 /\ batch'.size = size
      BY <2>20 DEF TakeCalls
    <3>2. log' = Say(log, next, <<Calling(Ids(batch'))>>)
      BY <2>20 DEF TakeCalls, Write
    <3>3. next \in Nat /\ next \notin DOMAIN log /\ lastId \in Nat
      BY DEF Types, Fits, RoundTypes
    <3>4. next \in DOMAIN log' /\ log'[next] = Calling(Ids(batch'))
      BY <3>2, <3>3 DEF Say
    <3>5. lastId + 1 \in Ids(batch')
      BY <3>1, <3>3 DEF Ids, AgentLoopAssumption
    <3>6. CallsHeld'
      BY <3>4, <3>5 DEF CallsHeld, Callers, Calling, Text
    <3> QED
      BY <3>6
  <2>21. CASE Approved
    BY <2>21, <2>a DEF Approved
  <2>22. CASE Rejected
    BY <2>22, <2>a DEF Rejected
  <2>23. CASE WaitCancelled
    BY <2>23, <2>a DEF WaitCancelled
  <2>24. CASE EnterTools
    BY <2>24, <2>a DEF EnterTools, GoesOn
  <2>25. CASE ToolStart
    BY <2>25, <2>a DEF ToolStart
  <2>26. CASE ToolDone
    BY <2>26, <2>a DEF ToolDone, AsksTurnEnd
  <2>27. CASE RoundCancelled
    BY <2>27, <2>a DEF RoundCancelled
  <2>28. CASE RoundEndsTurn
    BY <2>28, <2>a DEF RoundEndsTurn, RoundOver, NoBatch
  <2>29. CASE RoundFailed
    BY <2>29, <2>a DEF RoundFailed, RoundOver, NoBatch
  <2>30. CASE NextRound
    BY <2>30, <2>a DEF NextRound, RoundOver, NoBatch
  <2>31. CASE NewTurn
    BY <2>31, <2>a DEF NewTurn, ResetVerdict, ConsumeTurnEnd, NoBatch
  <2>32. CASE RunBegin
    BY <2>32, <2>a DEF RunBegin
  <2>33. CASE CompressBegin
    BY <2>33, <2>a DEF CompressBegin
  <2>34. CASE CompressEnd
    BY <2>34, <2>a DEF CompressEnd
  <2>35. CASE LeaveLoop
    BY <2>35, <2>a DEF LeaveLoop, GoesOn
  <2>36. CASE DropError
    BY <2>36, <2>a DEF DropError, GoesOn
  <2>37. CASE Leave
    BY <2>37, <2>a DEF Leave
  <2>38. CASE Finish
    BY <2>38, <2>a DEF Finish
  <2>39. CASE ShowImages
    BY <2>39, <2>a DEF ShowImages
  <2>40. CASE StartSkill
    BY <2>40, <2>a DEF StartSkill
  <2>41. CASE SkillDone
    BY <2>41, <2>a DEF SkillDone
  <2>42. CASE StartImages
    BY <2>42, <2>a DEF StartImages
  <2>43. CASE UNCHANGED vars
    BY <2>43, <2>a DEF vars
  <2> QED
    BY <2>1, <2>2, <2>3, <2>4, <2>5, <2>6, <2>7, <2>8, <2>9, <2>10, <2>11, <2>12, <2>13,
       <2>14, <2>15, <2>16, <2>17, <2>18, <2>19, <2>20, <2>21, <2>22, <2>23, <2>24, <2>25,
       <2>26, <2>27, <2>28, <2>29, <2>30, <2>31, <2>32, <2>33, <2>34, <2>35, <2>36, <2>37,
       <2>38, <2>39, <2>40, <2>41, <2>42, <2>43
       DEF Next, Rest, Worker, User, Handler, Stream, Approval, Tools, Turns
<1>3. Types /\ HeldInv => RunningCallIsKept
  <2> SUFFICES ASSUME Types, HeldInv, pc = "tool", ~ toolCancel
               PROVE  \E i \in Callers(log) : batch.first + Len(results) \in log[i].calls
    BY DEF RunningCallIsKept
  <2>1. batch.first \in Nat /\ batch.size \in Nat /\ Len(results) \in Nat
        /\ Len(results) < batch.size
    BY DEF Types, RoundTypes
  <2>2. CallsHeld
    BY <2>1 DEF HeldInv
  <2>3. batch.first + Len(results) \in Ids(batch)
    BY <2>1 DEF Ids
  <2> QED
    BY <2>2, <2>3 DEF CallsHeld
<1> QED
  BY <1>1, <1>2, <1>3, TypesInvariant, PTL DEF Spec

-----------------------------------------------------------------------------
(* Calls and results *)

\* The user starts a new conversation between turns only: F3 under a worker makes its
\* messages land in the new conversation, in front of the prompt or between a call
\* and its result.
QuietReset == NewChat => pc = "off"

Marked(l) == \E i \in Of(l, "system") : l[i].marked

Accepted(l) == WellPaired(l) \/ Marked(l)

\* The results of the batch are still to be written.
Pending == pc \in {"approval", "tools", "tool"} \/ (pc = "loop" /\ phase = "ExecutingTools")

\* Where the threads may be, and which phases belong to a place.
PlaceInv ==
  /\ ui \in {"clearing", "prompting"} => pc = "off"
  /\ pc \in {"stream", "answered"} => phase = "Streaming"
  /\ pc \in {"tools", "tool"} => phase = "ExecutingTools"
  /\ httpRetry > 0 => pc \in {"stream", "answered"}

\* Nothing stands behind the calls whose results are to come.
BatchIsLast ==
  \A i \in Callers(log) : log[i].calls \cap Ids(batch) # {} => \A j \in DOMAIN log : j <= i

\* The prompt is in front, the results are in order, and so will be those to come.
SoundInv ==
  /\ ui = "prompting" => log = Empty /\ next = 2
  /\ ui # "prompting" => Sound(log, lastId)
  /\ Pending => BatchIsLast

\* What is sent or is about to be sent is accepted, and so is what a rejection leaves.
SentInv ==
  /\ pc = "stream" /\ httpRetry > 0 => WellPaired(log)
  /\ pc \in {"stream", "answered"} => Accepted(log)
  /\ pc = "loop" /\ phase = "Streaming" /\ ~ cancelRequested => Accepted(log)
  /\ pc = "approval" => Accepted(ClearLastCalls(log))

\* A message without calls that is no result.
Plain == {m \in Message : m.role # "tool" /\ m.calls = {}}

LEMMA PlainMessages ==
  \A role \in {"system", "user", "assistant"} : Text(role) \in Plain /\ Failure(role) \in Plain
BY MessageTypes DEF Plain, Text, Failure, Roles

LEMMA OneMessage ==
  ASSUME NEW m \in Message
  PROVE  /\ <<m>> \in Seq(Message) /\ Len(<<m>>) = 1
         /\ \A k \in 1 .. Len(<<m>>) : k = 1 /\ <<m>>[k] = m
OBVIOUS

LEMMA PlainSound ==
  ASSUME NEW l, NEW n, Fits(l, n), NEW ids \in Nat, Sound(l, ids), NEW m \in Plain
  PROVE  Sound(Say(l, n, <<m>>), ids)
<1>1. m \in Message /\ m.role # "tool" /\ m.calls = {}
  BY DEF Plain
<1> DEFINE ms == <<m>>
<1>2. ms \in Seq(Message) /\ \A k \in 1 .. Len(ms) : ms[k] = m
  BY <1>1, OneMessage
<1> HIDE DEF ms
<1>3. Sound(Say(l, n, ms), ids)
  BY <1>1, <1>2, SaySound
<1> QED
  BY <1>3 DEF ms

\* A marked system message stays marked.
LEMMA PlainAccepted ==
  ASSUME NEW l, NEW n, Fits(l, n), Accepted(l), NEW m \in Plain
  PROVE  Accepted(Say(l, n, <<m>>))
<1>1. m \in Message /\ m.role # "tool" /\ m.calls = {}
  BY DEF Plain
<1> DEFINE ms == <<m>>
<1>2. ms \in Seq(Message)
  BY <1>1, OneMessage
<1> HIDE DEF ms
<1>3. \A i \in DOMAIN l : i \in DOMAIN Say(l, n, ms) /\ Say(l, n, ms)[i] = l[i]
  BY <1>2, SayFacts
<1>4. CASE Marked(l)
  BY <1>3, <1>4 DEF Marked, Of, Accepted, ms
<1>5. CASE WellPaired(l)
  BY <1>1, <1>5, SayPaired DEF Accepted
<1> QED
  BY <1>4, <1>5 DEF Accepted

\* The first message of a conversation.
LEMMA PromptSound ==
  ASSUME NEW ids \in Nat
  PROVE  Sound(Put(Empty, 2, Text("system")), ids)
<1> DEFINE first == Put(Empty, 2, Text("system"))
<1>1. DOMAIN first = {2} /\ first[2].role = "system" /\ first[2].calls = {}
  BY EmptyFacts DEF Put, Text
<1> HIDE DEF first
<1>2. 2 \in Lead(first) /\ Callers(first) = {}
  BY <1>1 DEF Lead, Callers
<1> QED
  BY <1>2 DEF Sound, Ordered, first

\* What a compaction or a pruning leaves is sound, and paired unless it was skipped.
LEMMA ShrinkingSound ==
  ASSUME NEW l, NEW n, Fits(l, n), NEW ids, Sound(l, ids), NEW force,
         NEW after \in Shrinking(l, force)
  PROVE  Sound(after[1], ids) /\ (~ cancelRequested => WellPaired(after[1]))
<1>1. \A r \in {l, Compact(l)} : /\ Fits(r, n) /\ Sound(r, ids)
                                 /\ \A cut : Fits(Prune(r, cut), n) /\ Sound(Prune(r, cut), ids)
  BY LessFits, StaysSound
<1>2. \A r : Fits(r, n) /\ Sound(r, ids) => Sound(Repair(r), ids) /\ WellPaired(Repair(r))
  BY StaysSound, RepairPairs DEF Fits, Sound
<1>3. ASSUME NEW s \in Shrunk(l, force) PROVE Sound(s, ids) /\ WellPaired(s)
  <2>1. PICK r : /\ s = Repair(r)
                 /\ \/ r \in {l, Compact(l)}
                    \/ \E b \in {l, Compact(l)} : \E cut : r = Prune(b, cut)
    BY DEF Shrunk
  <2>2. Fits(r, n) /\ Sound(r, ids)
    BY <1>1, <2>1
  <2> QED
    BY <1>2, <2>1, <2>2
<1>4. \/ after = <<l, 0>> /\ cancelRequested
      \/ after = <<Repair(l), 0>>
      \/ \E s \in Shrunk(l, force) : after = <<s, 1>>
  BY DEF Shrinking
<1> QED
  BY <1>2, <1>3, <1>4

\* doCompaction and one plain message, or none.
LEMMA ShrinkAndWriteSound ==
  ASSUME Types, NEW l, Fits(l, next), Sound(l, lastId), NEW force, NEW after \in Shrinking(l, force)
  PROVE  /\ Write(after[1], <<>>) => /\ Sound(log', lastId)
                                     /\ ~ cancelRequested => WellPaired(log')
         /\ \A m \in Plain : Write(after[1], <<m>>) => /\ Sound(log', lastId)
                                                       /\ ~ cancelRequested => WellPaired(log')
<1>1. Fits(after[1], next)
  BY ShrinkingFits
<1>2. lastId \in Nat
  BY DEF Types, RoundTypes
<1>3. Sound(after[1], lastId) /\ (~ cancelRequested => WellPaired(after[1]))
  BY ShrinkingSound
<1>4. Write(after[1], <<>>) => log' = after[1]
  BY <1>1, SayLittle DEF Write
<1>5. ASSUME NEW m \in Plain, Write(after[1], <<m>>)
      PROVE  Sound(log', lastId) /\ (~ cancelRequested => WellPaired(log'))
  <2>1. log' = Say(after[1], next, <<m>>)
    BY <1>5 DEF Write
  <2>2. m \in Message /\ m.role # "tool" /\ m.calls = {}
    BY DEF Plain
  <2> QED
    BY <1>1, <1>2, <1>3, <2>1, <2>2, PlainSound, SayPaired
<1> QED
  BY <1>3, <1>4, <1>5

\* The results of a round and what follows them.
LEMMA RoundSound ==
  ASSUME Types, Sound(log, lastId), BatchIsLast, RoundOver
  PROVE  Sound(Say(log, next, RoundMessages), lastId)
<1>1. /\ RoundMessages \in Seq(Message) /\ Fits(log, next) /\ lastId \in Nat
      /\ results \in Seq(ToolOutcomes) /\ Len(results) \in Nat /\ Len(results) = batch.size
      /\ DOMAIN results = 1 .. Len(results) /\ batch.first \in Nat /\ batch.size \in Nat
  BY RoundMessagesTyped DEF Types, RoundTypes, RoundOver
<1>2. /\ Len(ResultMessages) = Len(results)
      /\ \A k \in 1 .. Len(results) :
           ResultMessages[k] = Result(batch.first + k - 1, results[k] = "failed")
  BY <1>1 DEF ResultMessages
<1>3. ViolationMessages = <<>> \/ ViolationMessages = <<Text("system")>>
  BY DEF ViolationMessages
<1>4. \A k \in 1 .. Len(RoundMessages) :
        \/ /\ k \in 1 .. Len(results)
           /\ RoundMessages[k] = Result(batch.first + k - 1, results[k] = "failed")
        \/ k = Len(results) + 1 /\ RoundMessages[k] = Text("system")
  <2>1. /\ ResultMessages \in Seq(Message) /\ ViolationMessages \in Seq(Message)
        /\ RoundMessages = ResultMessages \o ViolationMessages
    BY RoundMessagesTyped DEF Types, RoundMessages
  <2> HIDE DEF ResultMessages, ViolationMessages, RoundMessages
  <2>2. CASE ViolationMessages = <<>>
    <3>1. Len(RoundMessages) = Len(results)
          /\ \A k \in 1 .. Len(results) : RoundMessages[k] = ResultMessages[k]
      BY <1>1, <1>2, <2>1, <2>2
    <3> QED
      BY <1>1, <1>2, <3>1
  <2>3. CASE ViolationMessages = <<Text("system")>>
    <3>1. /\ Len(RoundMessages) = Len(results) + 1
          /\ \A k \in 1 .. Len(results) : RoundMessages[k] = ResultMessages[k]
          /\ RoundMessages[Len(results) + 1] = Text("system")
      BY <1>1, <1>2, <2>1, <2>3
    <3> QED
      BY <1>1, <1>2, <3>1
  <2> QED
    BY <1>3, <2>2, <2>3
<1>5. Text("system").role # "tool" /\ Text("system").calls = {}
  BY DEF Text
<1>6. \A k \in 1 .. Len(RoundMessages) :
        /\ RoundMessages[k].calls = {}
        /\ k \in 1 .. Len(results) => RoundMessages[k].role = "tool"
        /\ RoundMessages[k].role = "tool" => k \in 1 .. Len(results) /\ RoundMessages[k].id \in Ids(batch)
  <2> TAKE k \in 1 .. Len(RoundMessages)
  <2>1. CASE /\ k \in 1 .. Len(results)
             /\ RoundMessages[k] = Result(batch.first + k - 1, results[k] = "failed")
    BY <1>1, <2>1 DEF Result, Ids
  <2>2. CASE k = Len(results) + 1 /\ RoundMessages[k] = Text("system")
    BY <1>1, <1>5, <2>2
  <2> QED
    BY <1>4, <2>1, <2>2
<1> HIDE DEF RoundMessages
<1>7. \A k \in 1 .. Len(RoundMessages), i \in Callers(log) :
        RoundMessages[k].role = "tool" /\ RoundMessages[k].id \in log[i].calls =>
          /\ \A j \in DOMAIN log : j <= i
          /\ \A before \in 1 .. (k - 1) : RoundMessages[before].role = "tool"
  <2> TAKE k \in 1 .. Len(RoundMessages), i \in Callers(log)
  <2> HAVE RoundMessages[k].role = "tool" /\ RoundMessages[k].id \in log[i].calls
  <2>1. k \in 1 .. Len(results) /\ RoundMessages[k].id \in Ids(batch)
    BY <1>6
  <2>2. \A j \in DOMAIN log : j <= i
    BY <2>1 DEF BatchIsLast
  <2>3. \A before \in 1 .. (k - 1) : before \in 1 .. Len(results) /\ before \in 1 .. Len(RoundMessages)
    BY <1>1, <2>1
  <2> QED
    BY <1>6, <2>2, <2>3
<1> QED
  BY <1>1, <1>6, <1>7, SaySound

LEMMA AfterRoundSound ==
  ASSUME Types, Sound(log, lastId), BatchIsLast, RoundOver, NEW after \in AfterRound
  PROVE  Fits(after[1], after[2]) /\ Sound(after[1], lastId)
<1> DEFINE said == Say(log, next, RoundMessages)
           at   == next + 2 * Len(RoundMessages)
<1>1. Fits(said, at) /\ Sound(said, lastId) /\ lastId \in Nat
  BY RoundMessagesTyped, SayFits, RoundSound DEF Types, RoundTypes
<1>2. \/ after = <<said, at>>
      \/ after = <<Put(said, at, Text("system")), at + 2>>
      \/ after = <<Put(SoftStripLast(said), at, Failure("system")), at + 2>>
  BY DEF AfterRound
<1> HIDE DEF said, at
<1>3. Fits(SoftStripLast(said), at) /\ Sound(SoftStripLast(said), lastId)
  BY <1>1, LessFits, StaysSound
<1>4. \A l, m : Fits(l, at) /\ Sound(l, lastId) /\ m \in Plain => Sound(Put(l, at, m), lastId)
  <2> SUFFICES ASSUME NEW l, NEW m \in Plain, Fits(l, at), Sound(l, lastId)
               PROVE  Sound(Put(l, at, m), lastId)
    OBVIOUS
  <2>1. Put(l, at, m) = Say(l, at, <<m>>)
    BY SayLittle
  <2>2. Sound(Say(l, at, <<m>>), lastId)
    BY <1>1, PlainSound
  <2> QED
    BY <2>1, <2>2
<1>5. Text("system") \in Plain /\ Failure("system") \in Plain
  BY PlainMessages
<1>6. Sound(after[1], lastId)
  BY <1>1, <1>2, <1>3, <1>4, <1>5
<1> QED
  BY <1>6, AfterRoundFits

\* A batch that was written stands last, and its ids are new; rejecting it leaves a
\* plain answer.
LEMMA CallsSound ==
  ASSUME Types, Sound(log, lastId), TakeCalls
  PROVE  /\ Sound(log', lastId') /\ BatchIsLast'
         /\ Accepted(log) => Accepted(ClearLastCalls(log'))
<1>1. /\ Fits(log, next) /\ lastId \in Nat /\ next \in Nat /\ next \notin DOMAIN log
      /\ \A i \in DOMAIN log : i \in Nat /\ i < next
  BY DEF Types, RoundTypes, Fits, IsLog
<1>2. PICK size \in 1 .. MaxBatch : batch'.first = lastId + 1 /\ batch'.size = size
                                    /\ lastId' = lastId + size
  BY DEF TakeCalls
<1> DEFINE ids  == Ids(batch')
           call == Calling(ids)
<1>3. size \in Nat /\ \A k \in ids : k \in Nat /\ k > lastId /\ k <= lastId + size
  BY <1>1, <1>2 DEF Ids
<1>4. log' = Say(log, next, <<call>>) /\ log' = Put(log, next, call)
  BY <1>1, SayLittle DEF TakeCalls, Write
<1>5. call \in Message /\ call.role = "assistant" /\ call.calls = ids /\ Bare(call) = Text("assistant")
  <2>1. ids \in SUBSET Nat
    BY <1>3
  <2> HIDE DEF ids
  <2>2. call \in Message
    BY <2>1, MessageTypes
  <2>3. call.role = "assistant" /\ call.calls = ids /\ call.id = 0 /\ call.marked = FALSE
    BY DEF Calling, Text
  <2> HIDE DEF call
  <2>4. Bare(call) = [role |-> call.role, calls |-> {}, id |-> call.id, marked |-> call.marked]
    BY <2>2 DEF Message, Bare
  <2>5. Bare(call) = Text("assistant")
    BY <2>3, <2>4 DEF Text
  <2> QED
    BY <2>2, <2>3, <2>5
<1> HIDE DEF call, ids
<1>6. Sound(log', lastId')
  <2> DEFINE ms == <<call>>
  <2>1. ms \in Seq(Message) /\ Len(ms) = 1 /\ \A k \in 1 .. Len(ms) : k = 1 /\ ms[k] = call
    BY <1>5, OneMessage
  <2> HIDE DEF ms
  <2>2. 0 .. lastId \subseteq 0 .. lastId' /\ ids \subseteq 0 .. lastId'
    BY <1>1, <1>2, <1>3
  <2>3. Sound(Say(log, next, ms), lastId')
    BY <1>1, <1>5, <2>1, <2>2, SaySound
  <2> QED
    BY <1>4, <2>3 DEF ms
<1>7. /\ DOMAIN log' = DOMAIN log \cup {next}
      /\ \A i \in DOMAIN log : log'[i] = log[i]
  BY <1>1, <1>4 DEF Put
<1>8. BatchIsLast'
  <2> SUFFICES ASSUME NEW i \in Callers(log'), log'[i].calls \cap ids # {}
               PROVE  \A j \in DOMAIN log' : j <= i
    BY DEF BatchIsLast, ids
  <2>1. i \in DOMAIN log => i \in Callers(log) /\ log[i].calls \subseteq 0 .. lastId
    BY <1>7 DEF Callers, Sound
  <2>2. i = next
    BY <1>1, <1>3, <1>7, <2>1 DEF Callers
  <2> QED
    BY <1>1, <1>7, <2>2
<1>9. ClearLastCalls(log') = Say(log, next, <<Text("assistant")>>)
  <2> DEFINE there == DOMAIN log'
  <2>1. there \in SUBSET (0 .. next) /\ next \in there
    BY <1>1, <1>7
  <2>2. Latest(there) = next
    <3> HIDE DEF there
    <3>1. next \in Nat /\ Latest(there) \in there /\ next <= Latest(there)
      BY <1>1, <2>1, LatestIn
    <3>2. Latest(there) \in 0 .. next
      BY <2>1, <3>1
    <3> QED
      BY <3>1, <3>2
  <2>3. ClearLastCalls(log') = [i \in there |-> IF i \in {next} THEN Bare(log'[i]) ELSE log'[i]]
    BY <2>1, <2>2 DEF ClearLastCalls, Strip
  <2>4. \A i \in there : (IF i \in {next} THEN Bare(log'[i]) ELSE log'[i])
                         = IF i = next THEN Text("assistant") ELSE log[i]
    BY <1>1, <1>4, <1>5, <1>7 DEF Put
  <2>5. [i \in there |-> IF i \in {next} THEN Bare(log'[i]) ELSE log'[i]]
          = [i \in there |-> IF i = next THEN Text("assistant") ELSE log[i]]
    BY <2>4
  <2>6. there = DOMAIN log \cup {next}
    BY <1>7
  <2>7. ClearLastCalls(log') = Put(log, next, Text("assistant"))
    BY <2>3, <2>5, <2>6 DEF Put
  <2> QED
    BY <1>1, <2>7, SayLittle
<1>10. Accepted(log) => Accepted(ClearLastCalls(log'))
  BY <1>1, <1>9, PlainMessages, PlainAccepted
<1> QED
  BY <1>6, <1>8, <1>10

LEMMA PlaceStep == Types /\ PlaceInv /\ [Next]_vars /\ [QuietReset]_vars => PlaceInv'
<1> SUFFICES ASSUME Types, PlaceInv, [Next]_vars, [QuietReset]_vars PROVE PlaceInv'
  OBVIOUS
<1> USE DEF PlaceInv, Types, ControlTypes, reply, screen
<1>1. CASE StartTurn
  BY <1>1 DEF StartTurn, ResetVerdict
<1>2. CASE StartCompress
  BY <1>2 DEF StartCompress
<1>3. CASE Render
  BY <1>3 DEF Render
<1>4. CASE Escape
  BY <1>4 DEF Escape
<1>5. CASE NewChat
  <2>1. pc = "off"
    BY <1>5 DEF QuietReset, NewChat, vars, screen
  <2> QED
    BY <1>5, <2>1 DEF NewChat
<1>6. ASSUME NEW action \in 0..2, ApproveTool(action) PROVE PlaceInv'
  BY <1>6 DEF ApproveTool
<1>7. CASE CancelTools
  BY <1>7 DEF CancelTools
<1>8. CASE ClearSession
  BY <1>8 DEF ClearSession, ForgetAlways
<1>9. CASE InjectPrompt
  BY <1>9 DEF InjectPrompt
<1>10. CASE SendRequest
  BY <1>10 DEF SendRequest, GoesOn
<1>11. CASE StreamEnds
  BY <1>11 DEF StreamEnds
<1>12. CASE StreamCancelled
  BY <1>12 DEF StreamCancelled, ForgetReply
<1>13. CASE Retry
  BY <1>13 DEF Retry
<1>14. CASE GiveUp
  BY <1>14 DEF GiveUp, ForgetReply
<1>15. CASE StreamBroken
  BY <1>15 DEF StreamBroken, ForgetReply
<1>16. CASE TakeText
  BY <1>16 DEF TakeText, ForgetReply
<1>17. CASE TakeNothing
  BY <1>17 DEF TakeNothing, ForgetReply
<1>18. CASE LengthRetry
  BY <1>18 DEF LengthRetry, ForgetReply
<1>19. CASE TakePlaceholder
  BY <1>19 DEF TakePlaceholder, ForgetReply
<1>20. CASE TakeCalls
  BY <1>20 DEF TakeCalls, ForgetReply
<1>21. CASE Approved
  BY <1>21 DEF Approved
<1>22. CASE Rejected
  BY <1>22 DEF Rejected
<1>23. CASE WaitCancelled
  BY <1>23 DEF WaitCancelled
<1>24. CASE EnterTools
  BY <1>24 DEF EnterTools, GoesOn
<1>25. CASE ToolStart
  BY <1>25 DEF ToolStart
<1>26. CASE ToolDone
  BY <1>26 DEF ToolDone, AsksTurnEnd
<1>27. CASE RoundCancelled
  BY <1>27 DEF RoundCancelled
<1>28. CASE RoundEndsTurn
  BY <1>28 DEF RoundEndsTurn, RoundOver, NoBatch
<1>29. CASE RoundFailed
  BY <1>29 DEF RoundFailed, RoundOver, NoBatch
<1>30. CASE NextRound
  BY <1>30 DEF NextRound, RoundOver, NoBatch
<1>31. CASE NewTurn
  BY <1>31 DEF NewTurn, ResetVerdict, ConsumeTurnEnd, NoBatch
<1>32. CASE RunBegin
  BY <1>32 DEF RunBegin
<1>33. CASE CompressBegin
  BY <1>33 DEF CompressBegin
<1>34. CASE CompressEnd
  BY <1>34 DEF CompressEnd
<1>35. CASE LeaveLoop
  BY <1>35 DEF LeaveLoop, GoesOn
<1>36. CASE DropError
  BY <1>36 DEF DropError, GoesOn
<1>37. CASE Leave
  BY <1>37 DEF Leave
<1>38. CASE Finish
  BY <1>38 DEF Finish
<1>39. CASE ShowImages
  BY <1>39 DEF ShowImages
<1>40. CASE StartSkill
  BY <1>40 DEF StartSkill
<1>41. CASE SkillDone
  BY <1>41 DEF SkillDone
<1>42. CASE StartImages
  BY <1>42 DEF StartImages
<1>43. CASE UNCHANGED vars
  BY <1>43 DEF vars
<1> QED
  BY <1>1, <1>2, <1>3, <1>4, <1>5, <1>6, <1>7, <1>8, <1>9, <1>10, <1>11, <1>12, <1>13,
     <1>14, <1>15, <1>16, <1>17, <1>18, <1>19, <1>20, <1>21, <1>22, <1>23, <1>24, <1>25,
     <1>26, <1>27, <1>28, <1>29, <1>30, <1>31, <1>32, <1>33, <1>34, <1>35, <1>36, <1>37,
     <1>38, <1>39, <1>40, <1>41, <1>42, <1>43
     DEF Next, Rest, Worker, User, Handler, Stream, Approval, Tools, Turns

LEMMA SoundStep == Types /\ PlaceInv /\ SoundInv /\ [Next]_vars => SoundInv'
<1> SUFFICES ASSUME Types, PlaceInv, SoundInv, [Next]_vars PROVE SoundInv'
  OBVIOUS
<1>a. UNCHANGED <<log, batch>> => (BatchIsLast' <=> BatchIsLast)
  BY DEF BatchIsLast, Callers, Ids
<1>b. \A r : /\ BatchIsLast /\ TakesAway(log, r) /\ log' = r /\ UNCHANGED batch
             => BatchIsLast'
  BY DEF BatchIsLast, TakesAway, Callers, Ids
<1>f. Fits(log, next) /\ IsLog(log) /\ lastId \in Nat
  BY DEF Types, Fits, RoundTypes
<1>s. Sound(log, lastId) => /\ Sound(StripLast(log), lastId) /\ Sound(ClearLastCalls(log), lastId)
                            /\ Sound(PopLastAssistant(log), lastId) /\ Sound(Repair(log), lastId)
  BY <1>f, StaysSound
<1>w. \A role \in {"system", "user", "assistant"} :
        Sound(log, lastId) /\ Write(log, <<Text(role)>>) => Sound(log', lastId)
  BY <1>f, PlainMessages, PlainSound DEF Write
<1>n. Write(log, <<>>) => log' = log
  BY <1>f, SayLittle DEF Write
<1> USE DEF SoundInv, PlaceInv, Pending, round, conversation, screen
<1>1. CASE StartTurn
  <2>1. Write(log, <<Text("user")>>) /\ UNCHANGED lastId
    BY <1>1 DEF StartTurn
  <2> QED
    BY <1>1, <2>1, <1>w DEF StartTurn
<1>2. CASE StartCompress
  <2>1. Write(log, <<Text("user")>>) /\ UNCHANGED lastId
    BY <1>2 DEF StartCompress
  <2> QED
    BY <1>2, <2>1, <1>w DEF StartCompress
<1>3. CASE Render
  BY <1>3, <1>a DEF Render
<1>4. CASE Escape
  BY <1>4, <1>a DEF Escape
<1>5. CASE NewChat
  BY <1>5, <1>a DEF NewChat
<1>6. ASSUME NEW action \in 0..2, ApproveTool(action) PROVE SoundInv'
  BY <1>6, <1>a DEF ApproveTool
<1>7. CASE CancelTools
  BY <1>7, <1>a DEF CancelTools
<1>8. CASE ClearSession
  BY <1>8, <1>a DEF ClearSession, ForgetAlways
<1>9. CASE InjectPrompt
  <2>1. log' = Say(Empty, 2, <<Text("system")>>)
    BY <1>9 DEF InjectPrompt, Write
  <2>2. Fits(Empty, 2)
    BY <1>9, <1>f DEF InjectPrompt
  <2>3. log' = Put(Empty, 2, Text("system"))
    BY <2>1, <2>2, SayLittle
  <2>4. Sound(log', lastId)
    BY <1>f, <2>3, PromptSound
  <2> QED
    BY <1>9, <2>4 DEF InjectPrompt
<1>10. CASE SendRequest
  BY <1>10, <1>a DEF SendRequest, GoesOn
<1>11. CASE StreamEnds
  BY <1>11, <1>a DEF StreamEnds
<1>12. CASE StreamCancelled
  BY <1>12, <1>a DEF StreamCancelled
<1>13. CASE Retry
  <2>1. Sound(log', lastId)
    <3>1. Sound(Repair(log), lastId) /\ Fits(Repair(log), next)
      BY <1>13, <1>f, <1>s, LessFits DEF Retry
    <3>2. CASE log' = Repair(log)
      BY <3>1, <3>2
    <3>3. CASE ShrinkAndWrite(Repair(log), TRUE, <<>>)
      BY <3>1, <3>3, ShrinkAndWriteSound DEF ShrinkAndWrite
    <3> QED
      BY <1>13, <3>2, <3>3 DEF Retry
  <2> QED
    BY <1>13, <2>1 DEF Retry
<1>14. CASE GiveUp
  <2>1. Sound(PopLastAssistant(log), lastId) /\ Fits(PopLastAssistant(log), next)
    BY <1>14, <1>f, <1>s, LessFits DEF GiveUp
  <2>2. log' = Say(PopLastAssistant(log), next, <<Failure("assistant")>>)
    BY <1>14 DEF GiveUp, Write
  <2>3. Sound(log', lastId)
    BY <1>f, <2>1, <2>2, PlainMessages, PlainSound
  <2> QED
    BY <1>14, <2>3 DEF GiveUp
<1>15. CASE StreamBroken
  BY <1>15, <1>a DEF StreamBroken
<1>16. CASE TakeText
  <2>1. Write(log, <<Text("assistant")>>) /\ UNCHANGED lastId
    BY <1>16 DEF TakeText
  <2> QED
    BY <1>16, <2>1, <1>w DEF TakeText
<1>17. CASE TakeNothing
  BY <1>17, <1>a DEF TakeNothing
<1>18. CASE LengthRetry
  <2>1. Write(log, <<Text("system")>>) /\ UNCHANGED lastId
    BY <1>18 DEF LengthRetry
  <2> QED
    BY <1>18, <2>1, <1>w DEF LengthRetry
<1>19. CASE TakePlaceholder
  <2>1. Write(log, <<Text("assistant")>>) /\ UNCHANGED lastId
    BY <1>19 DEF TakePlaceholder
  <2> QED
    BY <1>19, <2>1, <1>w DEF TakePlaceholder
<1>20. CASE TakeCalls
  <2>1. Sound(log, lastId)
    BY <1>20 DEF TakeCalls
  <2>2. Sound(log', lastId') /\ BatchIsLast'
    BY <1>20, <2>1, CallsSound
  <2> QED
    BY <1>20, <2>2 DEF TakeCalls
<1>21. CASE Approved
  BY <1>21, <1>a DEF Approved
<1>22. CASE Rejected
  BY <1>22, <1>s DEF Rejected
<1>23. CASE WaitCancelled
  BY <1>23, <1>a DEF WaitCancelled
<1>24. CASE EnterTools
  BY <1>24, <1>a DEF EnterTools, GoesOn
<1>25. CASE ToolStart
  BY <1>25, <1>a DEF ToolStart
<1>26. CASE ToolDone
  BY <1>26, <1>a, <1>b, <1>f, <1>s, StripLastTakesAway DEF ToolDone
<1>27. CASE RoundCancelled
  BY <1>27, <1>b, <1>f, <1>s, StripLastTakesAway DEF RoundCancelled
<1>28. CASE RoundEndsTurn
  <2>1. RoundOver /\ BatchIsLast /\ Sound(log, lastId)
    BY <1>28 DEF RoundEndsTurn, RoundOver
  <2>2. log' = Say(log, next, RoundMessages)
    BY <1>28 DEF RoundEndsTurn, Write
  <2>3. Sound(log', lastId)
    BY <2>1, <2>2, RoundSound
  <2> QED
    BY <1>28, <2>3 DEF RoundEndsTurn, RoundOver
<1>29. CASE RoundFailed
  <2>1. RoundOver /\ BatchIsLast /\ Sound(log, lastId)
    BY <1>29 DEF RoundFailed, RoundOver
  <2>2. PICK after \in AfterRound : log' = Put(StripLast(after[1]), after[2], Failure("system"))
    BY <1>29 DEF RoundFailed
  <2>3. Fits(StripLast(after[1]), after[2]) /\ Sound(StripLast(after[1]), lastId)
    BY <2>1, AfterRoundSound, LessFits, StaysSound
  <2>4. log' = Say(StripLast(after[1]), after[2], <<Failure("system")>>)
    BY <2>2, <2>3, SayLittle
  <2>5. Sound(log', lastId)
    BY <1>f, <2>3, <2>4, PlainMessages, PlainSound
  <2> QED
    BY <1>29, <2>5 DEF RoundFailed, RoundOver
<1>30. CASE NextRound
  <2>1. RoundOver /\ BatchIsLast /\ Sound(log, lastId)
    BY <1>30 DEF NextRound, RoundOver
  <2>2. PICK after \in AfterRound : \E shrunk \in Shrinking(after[1], FALSE) : log' = Repair(shrunk[1])
    BY <1>30 DEF NextRound
  <2>3. PICK shrunk \in Shrinking(after[1], FALSE) : log' = Repair(shrunk[1])
    BY <2>2
  <2>4. Fits(shrunk[1], after[2]) /\ Sound(shrunk[1], lastId)
    BY <2>1, AfterRoundSound, ShrinkingFits, ShrinkingSound
  <2>5. Sound(log', lastId)
    BY <2>3, <2>4, StaysSound
  <2> QED
    BY <1>30, <2>5 DEF NextRound, RoundOver
<1>31. CASE NewTurn
  <2>1. Write(log, <<Text("system")>>) \/ Write(log, <<>>)
    BY <1>31 DEF NewTurn
  <2> QED
    BY <1>31, <2>1, <1>n, <1>w DEF NewTurn
<1>32. CASE RunBegin
  <2>1. Sound(log, lastId)
    BY <1>32 DEF RunBegin
  <2>2. PICK after \in Shrinking(log, FALSE) :
          Write(after[1], <<>>) \/ Write(after[1], <<Text("system")>>)
    BY <1>32 DEF RunBegin, ShrinkAndWrite
  <2>3. Sound(log', lastId)
    BY <1>f, <2>1, <2>2, PlainMessages, ShrinkAndWriteSound
  <2> QED
    BY <1>32, <2>3 DEF RunBegin
<1>33. CASE CompressBegin
  BY <1>33, <1>a DEF CompressBegin
<1>34. CASE CompressEnd
  <2>1. Sound(log, lastId)
    BY <1>34 DEF CompressEnd
  <2>2. PICK after \in Shrinking(log, TRUE) : Write(after[1], <<Text("assistant")>>)
    BY <1>34 DEF CompressEnd, ShrinkAndWrite
  <2>3. Sound(log', lastId)
    BY <1>f, <2>1, <2>2, PlainMessages, ShrinkAndWriteSound
  <2> QED
    BY <1>34, <2>3 DEF CompressEnd
<1>35. CASE LeaveLoop
  BY <1>35, <1>a DEF LeaveLoop, GoesOn
<1>36. CASE DropError
  BY <1>36, <1>a DEF DropError, GoesOn
<1>37. CASE Leave
  BY <1>37, <1>a DEF Leave
<1>38. CASE Finish
  BY <1>38, <1>a DEF Finish
<1>39. CASE ShowImages
  <2>1. Write(log, <<Text("user")>>) /\ UNCHANGED lastId
    BY <1>39 DEF ShowImages
  <2> QED
    BY <1>39, <2>1, <1>w DEF ShowImages
<1>40. CASE StartSkill
  BY <1>40, <1>a DEF StartSkill
<1>41. CASE SkillDone
  <2>1. Write(log, <<Text("assistant")>>) /\ UNCHANGED lastId
    BY <1>41 DEF SkillDone
  <2> QED
    BY <1>41, <2>1, <1>w DEF SkillDone
<1>42. CASE StartImages
  BY <1>42, <1>a DEF StartImages
<1>43. CASE UNCHANGED vars
  BY <1>43, <1>a DEF vars
<1> QED
  BY <1>1, <1>2, <1>3, <1>4, <1>5, <1>6, <1>7, <1>8, <1>9, <1>10, <1>11, <1>12, <1>13,
     <1>14, <1>15, <1>16, <1>17, <1>18, <1>19, <1>20, <1>21, <1>22, <1>23, <1>24, <1>25,
     <1>26, <1>27, <1>28, <1>29, <1>30, <1>31, <1>32, <1>33, <1>34, <1>35, <1>36, <1>37,
     <1>38, <1>39, <1>40, <1>41, <1>42, <1>43
     DEF Next, Rest, Worker, User, Handler, Stream, Approval, Tools, Turns

LEMMA SentStep ==
  Types /\ PlaceInv /\ SoundInv /\ SentInv /\ [Next]_vars /\ [QuietReset]_vars => SentInv'
<1> SUFFICES ASSUME Types, PlaceInv, PlaceInv', SoundInv, SentInv, [Next]_vars PROVE SentInv'
  BY PlaceStep
<1>a. UNCHANGED log => /\ (Accepted(log) => Accepted(log)') /\ (WellPaired(log) => WellPaired(log)')
                       /\ (Accepted(ClearLastCalls(log)) => Accepted(ClearLastCalls(log))')
  OBVIOUS
<1>f. Fits(log, next) /\ IsLog(log) /\ httpRetry \in Nat
  BY DEF Types, Fits, ControlTypes
<1>s. pc # "off" => Sound(log, lastId)
  BY DEF PlaceInv, SoundInv
<1>w. WellPaired(log') => Accepted(log')
  BY DEF Accepted
<1> USE DEF SentInv, PlaceInv, conversation, screen, cancels
<1>1. CASE StartTurn
  BY <1>1, <1>a, <1>f DEF StartTurn, ResetVerdict
<1>2. CASE StartCompress
  BY <1>2, <1>a, <1>f DEF StartCompress
<1>3. CASE Render
  BY <1>3, <1>a, <1>f DEF Render, reply
<1>4. CASE Escape
  BY <1>4, <1>a, <1>f DEF Escape, reply
<1>5. CASE NewChat
  BY <1>5, <1>a, <1>f DEF NewChat, reply
<1>6. ASSUME NEW action \in 0..2, ApproveTool(action) PROVE SentInv'
  BY <1>6, <1>a, <1>f DEF ApproveTool, reply
<1>7. CASE CancelTools
  BY <1>7, <1>a, <1>f DEF CancelTools, reply
<1>8. CASE ClearSession
  BY <1>8, <1>a, <1>f DEF ClearSession, ForgetAlways
<1>9. CASE InjectPrompt
  BY <1>9, <1>a, <1>f DEF InjectPrompt
<1>10. CASE SendRequest
  BY <1>10, <1>a, <1>f DEF SendRequest, GoesOn, reply
<1>11. CASE StreamEnds
  BY <1>11, <1>a, <1>f DEF StreamEnds, reply
<1>12. CASE StreamCancelled
  BY <1>12, <1>a, <1>f DEF StreamCancelled, ForgetReply
<1>13. CASE Retry
  <2>1. WellPaired(log')
    <3>1. Sound(log, lastId)
      BY <1>13, <1>s DEF Retry
    <3>2. Sound(Repair(log), lastId) /\ Fits(Repair(log), next) /\ WellPaired(Repair(log))
      BY <3>1, <1>f, LessFits, StaysSound, RepairPairs DEF Sound
    <3>3. CASE log' = Repair(log)
      BY <3>2, <3>3
    <3>4. CASE ShrinkAndWrite(Repair(log), TRUE, <<>>)
      <4>1. PICK after \in Shrinking(Repair(log), TRUE) : Write(after[1], <<>>)
        BY <3>4 DEF ShrinkAndWrite
      <4>2. log' = after[1]
        BY <3>2, <4>1, ShrinkingFits, SayLittle DEF Write
      <4>3. CASE cancelRequested
        <5>1. after = <<Repair(log), 0>>
          BY <4>1, <4>3 DEF Shrinking
        <5> QED
          BY <3>2, <4>2, <5>1
      <4>4. CASE ~ cancelRequested
        BY <3>2, <4>1, <4>2, <4>4, ShrinkingSound
      <4> QED
        BY <4>3, <4>4
    <3> QED
      BY <1>13, <3>3, <3>4 DEF Retry
  <2> QED
    BY <1>13, <2>1, <1>w DEF Retry
<1>14. CASE GiveUp
  BY <1>14, <1>a, <1>f DEF GiveUp, ForgetReply
<1>15. CASE StreamBroken
  BY <1>15, <1>a, <1>f DEF StreamBroken, ForgetReply
<1>16. CASE TakeText
  BY <1>16, <1>a, <1>f DEF TakeText, ForgetReply
<1>17. CASE TakeNothing
  BY <1>17, <1>a, <1>f DEF TakeNothing, ForgetReply
<1>18. CASE LengthRetry
  <2>1. Accepted(log) /\ log' = Say(log, next, <<Text("system")>>)
    BY <1>18 DEF LengthRetry, Write
  <2>2. Accepted(log')
    BY <1>f, <2>1, PlainMessages, PlainAccepted
  <2> QED
    BY <1>18, <2>2 DEF LengthRetry
<1>19. CASE TakePlaceholder
  BY <1>19, <1>a, <1>f DEF TakePlaceholder, ForgetReply
<1>20. CASE TakeCalls
  <2>1. Accepted(ClearLastCalls(log'))
    BY <1>20, <1>s, CallsSound DEF TakeCalls
  <2> QED
    BY <1>20, <2>1 DEF TakeCalls, ForgetReply
<1>21. CASE Approved
  BY <1>21, <1>a, <1>f DEF Approved, reply
<1>22. CASE Rejected
  <2>1. Accepted(log')
    BY <1>22 DEF Rejected
  <2> QED
    BY <1>22, <2>1 DEF Rejected
<1>23. CASE WaitCancelled
  BY <1>23, <1>a, <1>f DEF WaitCancelled, reply
<1>24. CASE EnterTools
  BY <1>24, <1>a, <1>f DEF EnterTools, GoesOn, reply
<1>25. CASE ToolStart
  BY <1>25, <1>a, <1>f DEF ToolStart, reply
<1>26. CASE ToolDone
  BY <1>26, <1>a, <1>f DEF ToolDone, AsksTurnEnd, reply
<1>27. CASE RoundCancelled
  BY <1>27, <1>a, <1>f DEF RoundCancelled, reply
<1>28. CASE RoundEndsTurn
  BY <1>28, <1>a, <1>f DEF RoundEndsTurn, RoundOver, NoBatch
<1>29. CASE RoundFailed
  <2>1. PICK after \in AfterRound : log' = Put(StripLast(after[1]), after[2], Failure("system"))
    BY <1>29 DEF RoundFailed
  <2>2. Failure("system").role = "system" /\ Failure("system").marked
    BY DEF Failure, Text
  <2>3. after[2] \in Of(log', "system") /\ log'[after[2]].marked
    BY <2>1, <2>2 DEF Put, Of
  <2>4. Accepted(log')
    BY <2>3 DEF Accepted, Marked
  <2> QED
    BY <1>29, <2>4 DEF RoundFailed
<1>30. CASE NextRound
  <2>1. RoundOver /\ BatchIsLast /\ Sound(log, lastId)
    BY <1>30, <1>s DEF NextRound, RoundOver, SoundInv, Pending
  <2>2. PICK after \in AfterRound : \E shrunk \in Shrinking(after[1], FALSE) : log' = Repair(shrunk[1])
    BY <1>30 DEF NextRound
  <2>3. PICK shrunk \in Shrinking(after[1], FALSE) : log' = Repair(shrunk[1])
    BY <2>2
  <2>4. Fits(shrunk[1], after[2]) /\ Sound(shrunk[1], lastId)
    BY <2>1, AfterRoundSound, ShrinkingFits, ShrinkingSound
  <2>5. WellPaired(log')
    BY <2>3, <2>4, RepairPairs DEF Fits, Sound
  <2> QED
    BY <1>30, <2>5, <1>w DEF NextRound
<1>31. CASE NewTurn
  BY <1>31, <1>a, <1>f DEF NewTurn, ResetVerdict, ConsumeTurnEnd, NoBatch
<1>32. CASE RunBegin
  <2>1. Sound(log, lastId)
    BY <1>32, <1>s DEF RunBegin
  <2>2. PICK after \in Shrinking(log, FALSE) :
          Write(after[1], <<>>) \/ Write(after[1], <<Text("system")>>)
    BY <1>32 DEF RunBegin, ShrinkAndWrite
  <2>3. ~ cancelRequested => WellPaired(log')
    BY <1>f, <2>1, <2>2, PlainMessages, ShrinkAndWriteSound
  <2> QED
    BY <1>32, <2>3, <1>w DEF RunBegin
<1>33. CASE CompressBegin
  BY <1>33, <1>a, <1>f DEF CompressBegin
<1>34. CASE CompressEnd
  BY <1>34, <1>a, <1>f DEF CompressEnd
<1>35. CASE LeaveLoop
  BY <1>35, <1>a, <1>f DEF LeaveLoop, GoesOn, reply
<1>36. CASE DropError
  BY <1>36, <1>a, <1>f DEF DropError, GoesOn, reply
<1>37. CASE Leave
  BY <1>37, <1>a, <1>f DEF Leave
<1>38. CASE Finish
  BY <1>38, <1>a, <1>f DEF Finish
<1>39. CASE ShowImages
  BY <1>39, <1>a, <1>f DEF ShowImages
<1>40. CASE StartSkill
  BY <1>40, <1>a, <1>f DEF StartSkill
<1>41. CASE SkillDone
  BY <1>41, <1>a, <1>f DEF SkillDone
<1>42. CASE StartImages
  BY <1>42, <1>a, <1>f DEF StartImages
<1>43. CASE UNCHANGED vars
  BY <1>43, <1>a, <1>f DEF vars, reply
<1> QED
  BY <1>1, <1>2, <1>3, <1>4, <1>5, <1>6, <1>7, <1>8, <1>9, <1>10, <1>11, <1>12, <1>13,
     <1>14, <1>15, <1>16, <1>17, <1>18, <1>19, <1>20, <1>21, <1>22, <1>23, <1>24, <1>25,
     <1>26, <1>27, <1>28, <1>29, <1>30, <1>31, <1>32, <1>33, <1>34, <1>35, <1>36, <1>37,
     <1>38, <1>39, <1>40, <1>41, <1>42, <1>43
     DEF Next, Rest, Worker, User, Handler, Stream, Approval, Tools, Turns

\* What a behaviour without a reset under a worker keeps.
PairingInv == Types /\ PlaceInv /\ SoundInv /\ SentInv

LEMMA PairingInvariant == Spec /\ [][QuietReset]_vars => []PairingInv
<1>1. Init => PlaceInv /\ SoundInv /\ SentInv
  <2> SUFFICES ASSUME Init PROVE PlaceInv /\ SoundInv /\ SentInv
    OBVIOUS
  <2>1. PlaceInv /\ SentInv /\ ~ Pending
    BY DEF Init, PlaceInv, SentInv, Pending
  <2>2. Sound(log, lastId) /\ ui = "ready"
    BY PromptSound DEF Init
  <2> QED
    BY <2>1, <2>2 DEF SoundInv
<1>2. /\ Types /\ PlaceInv /\ SoundInv /\ SentInv /\ [Next]_vars /\ [QuietReset]_vars
      => PlaceInv' /\ SoundInv' /\ SentInv'
  BY PlaceStep, SoundStep, SentStep
<1> QED
  BY <1>1, <1>2, TypesInvariant, PTL DEF Spec, PairingInv

\* A request sent again after an HTTP 4xx carries a paired conversation, whatever
\* tools, failures, rejections, cancels, retries, prunings and compactions came before:
\* Session::repairOrphanedToolCalls mends every conversation that Agent::run can make.
THEOREM RetryTheorem == Spec /\ [][QuietReset]_vars => []RetryIsPaired
<1>1. PairingInv => RetryIsPaired
  BY DEF PairingInv, SentInv, RetryIsPaired
<1> QED
  BY <1>1, PairingInvariant, PTL

\* Every request does, but behind a round that ended in two failures, whose path
\* repairs nothing: it leaves the marked message that says so.
THEOREM RequestTheorem == Spec /\ [][QuietReset]_vars => []RequestIsPairedOrFailed
<1>1. PairingInv => RequestIsPairedOrFailed
  BY DEF PairingInv, SentInv, Accepted, Marked, RequestIsPairedOrFailed
<1> QED
  BY <1>1, PairingInvariant, PTL

\* The system prompt stays in front: no pass of the shrinking takes it away, and the
\* summary goes behind it.
THEOREM PromptTheorem == Spec /\ [][QuietReset]_vars => []PromptFirst
<1>1. PairingInv => PromptFirst
  <2> SUFFICES ASSUME PairingInv, ui # "prompting"
               PROVE  log[Earliest(DOMAIN log)].role = "system"
    BY DEF PromptFirst
  <2>1. 2 \in Lead(log) /\ DOMAIN log \in SUBSET Nat
    BY DEF PairingInv, SoundInv, Sound, Types, Fits, IsLog
  <2>2. 2 \in DOMAIN log
    BY <2>1 DEF Lead
  <2>3. \E m \in DOMAIN log : \A i \in DOMAIN log : m <= i
    <3> DEFINE there == DOMAIN log
    <3>1. there \in SUBSET Nat /\ there # {}
      BY <2>1, <2>2
    <3> HIDE DEF there
    <3>2. \E m \in there : \A i \in there : m <= i
      BY <3>1, SmallestExists
    <3> QED
      BY <3>2 DEF there
  <2>4. Earliest(DOMAIN log) \in DOMAIN log /\ Earliest(DOMAIN log) <= 2
    BY <2>2, <2>3 DEF Earliest
  <2> QED
    BY <2>1, <2>4 DEF Lead
<1> QED
  BY <1>1, PairingInvariant, PTL

\* In particular where the user starts no new conversation at all.
COROLLARY NeverReset ==
  ASSUME MaxClears = 0
  PROVE  Spec => [](RetryIsPaired /\ RequestIsPairedOrFailed /\ PromptFirst)
<1>1. Types /\ [Next]_vars => [QuietReset]_vars
  BY DEF Types, ControlTypes, QuietReset, NewChat
<1>2. Spec => [][QuietReset]_vars
  BY <1>1, TypesInvariant, PTL DEF Spec
<1> QED
  BY <1>2, RetryTheorem, RequestTheorem, PromptTheorem, PTL
=============================================================================
