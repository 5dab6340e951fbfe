--------------------------- MODULE TurnLoopProofs ----------------------------
(***************************************************************************)
(* Theorems about TurnLoop, for every value of its constants: any number   *)
(* of messages, skills, tools and steps.                                   *)
(***************************************************************************)
EXTENDS TurnLoop, TLAPS

\* TypeOK in two parts: the Boolean flags and the rest.
FlagsOK ==
  /\ running \in BOOLEAN /\ wake \in BOOLEAN /\ pendingImages \in BOOLEAN
  /\ cancelRequested \in BOOLEAN /\ toolCancel \in BOOLEAN /\ turnEnd \in BOOLEAN
  /\ approvalDone \in BOOLEAN /\ takenBack \in BOOLEAN

DataOK ==
  /\ queue \in Seq(Message)
  /\ ui \in UiPoints /\ after \in {"ready", "clearing", "joinAgent"}
  /\ quit \in {"no", "leaving", "left"}
  /\ agent \in AgentPoints
  /\ slot \in {"None", "Skill", "Image"}
  /\ pendingSkill \in Skills \cup {"none"}
  /\ lastSkill \in Skills \cup {"none"} /\ skillCalls \in 0..SkillCap
  /\ skill \in [Threads -> SkillPoints]
  /\ runner \in Threads \cup {"none"}
  /\ halted \in [Threads -> BOOLEAN] /\ stopped \in [Threads -> BOOLEAN]
  /\ steps \in [Threads -> Nat]
  /\ typed \in Nat /\ rounds \in Nat
  /\ current \in Message \cup {NoMessage}
  /\ ran \in Seq(Skills)

\* The two parts together.
LEMMA TypeParts == TypeOK <=> FlagsOK /\ DataOK
  BY DEF TypeOK, FlagsOK, DataOK

\* Every step leaves the flags Boolean.
LEMMA FlagsStep == FlagsOK /\ [Next]_vars => FlagsOK'
<1> SUFFICES ASSUME FlagsOK, [Next]_vars PROVE FlagsOK'
  OBVIOUS
<1>t. "agent" \in Threads /\ "direct" \in Threads
  BY DEF Threads
<1> USE Zenon, <1>t DEF FlagsOK,
       messages, pending, screen, requests, budget, flags, skills
<1>1. CASE Type
  BY <1>1 DEF Type, Ready, Send, Hold, BeginTurn, BeginSkill, Answer, Clear
<1>2. CASE Frame
  BY <1>2 DEF Frame, DrawQuietly, DrainPendingQueue, Send, BeginTurn, BeginSkill, Answer, Clear
<1>3. CASE Escape
  BY <1>3 DEF Escape, Ready, DropRequests, HaltRunner, NoteStop
<1>4. CASE NewChat
  BY <1>4 DEF NewChat, Ready, NoteStop
<1>5. CASE ApproveTool
  BY <1>5 DEF ApproveTool, Ready
<1>6. CASE Quit
  BY <1>6 DEF Quit, Ready
<1>7. CASE RaiseAgent
  BY <1>7 DEF RaiseAgent
<1>8. CASE RaiseTools
  BY <1>8 DEF RaiseTools
<1>9. CASE ClearSession
  BY <1>9 DEF ClearSession
<1>10. CASE Shutdown
  BY <1>10 DEF Shutdown, HaltRunner
<1>11. CASE JoinSkill
  BY <1>11 DEF JoinSkill, SkillJoined, CancelAtExit
<1>12. CASE JoinAgent
  BY <1>12 DEF JoinAgent
<1>13. CASE Begin
  BY <1>13 DEF Begin, Goto
<1>14. CASE NewTurn
  BY <1>14 DEF NewTurn, Goto
<1>15. CASE StartTool
  BY <1>15 DEF StartTool, Goto
<1>16. ASSUME NEW s \in Skills, RunSkill(s) PROVE FlagsOK'
  BY <1>16 DEF RunSkill, NewSkill, UnderCap, Goto
<1>17. CASE ViewImage
  BY <1>17 DEF ViewImage, Goto
<1>18. CASE OtherTool
  BY <1>18 DEF OtherTool, Goto
<1>19. CASE AskUser
  BY <1>19 DEF AskUser, Goto
<1>20. CASE WaitOver
  BY <1>20 DEF WaitOver, Goto
<1>21. CASE RunEnds
  BY <1>21 DEF RunEnds, Goto
<1>22. CASE Returned
  BY <1>22 DEF Returned, Goto
<1>23. CASE TakeImages
  BY <1>23 DEF TakeImages, Goto
<1>24. CASE ShowImages
  BY <1>24 DEF ShowImages, Goto
<1>25. CASE TakeSkill
  BY <1>25 DEF TakeSkill, Goto
<1>26. CASE TakeNothing
  BY <1>26 DEF TakeNothing, Goto
<1>27. CASE SkillReturned
  BY <1>27 DEF SkillReturned, Goto
<1>28. CASE Close
  BY <1>28 DEF Close, DropRequests, Goto
<1>29. CASE EndTurn
  BY <1>29 DEF EndTurn, Goto
<1>30. CASE EndAgent
  BY <1>30 DEF EndAgent, Goto
<1>31. ASSUME NEW t \in Threads, Publish(t) PROVE FlagsOK'
  BY <1>31 DEF Publish, At
<1>32. ASSUME NEW t \in Threads, BeginStep(t) PROVE FlagsOK'
  BY <1>32 DEF BeginStep, CheckCancel, At
<1>33. ASSUME NEW t \in Threads, EndStep(t) PROVE FlagsOK'
  BY <1>33 DEF EndStep, At
<1>34. ASSUME NEW t \in Threads, RunnerReturns(t) PROVE FlagsOK'
  BY <1>34 DEF RunnerReturns, CheckCancel, At
<1>35. CASE EndSkill
  BY <1>35 DEF EndSkill, At
<1>36. CASE EndDirect
  BY <1>36 DEF EndDirect, At
<1>37. CASE UNCHANGED vars
  BY <1>37 DEF vars
<1> QED
  BY <1>1, <1>2, <1>3, <1>4, <1>5, <1>6, <1>7, <1>8, <1>9, <1>10, <1>11, <1>12, <1>13,
     <1>14, <1>15, <1>16, <1>17, <1>18, <1>19, <1>20, <1>21, <1>22, <1>23, <1>24, <1>25,
     <1>26, <1>27, <1>28, <1>29, <1>30, <1>31, <1>32, <1>33, <1>34, <1>35, <1>36, <1>37
     DEF Next, Rest, User, Handler, AgentThread, SkillThread, Turn, Skill

\* What erasing the front of pendingQueue_ leaves.
LEMMA HeadAndTail ==
  ASSUME NEW S, NEW q \in Seq(S), q # <<>>
  PROVE  Head(q) \in S /\ Tail(q) \in Seq(S)
OBVIOUS

\* What dispatching or holding a message does to the data.
DispatchOK ==
  /\ ui' \in UiPoints /\ after' \in {"ready", "clearing", "joinAgent"}
  /\ agent' \in AgentPoints
  /\ skill' \in [Threads -> SkillPoints] /\ UNCHANGED runner
  /\ halted' \in [Threads -> BOOLEAN] /\ stopped' \in [Threads -> BOOLEAN]
  /\ steps' \in [Threads -> Nat]
  /\ current' \in Message \cup {NoMessage}

\* sendMessage keeps the types.
LEMMA SendOK ==
  ASSUME DataOK, NEW m \in Message, Send(m)
  PROVE  DispatchOK
<1> USE DEF DataOK, DispatchOK, AgentPoints, SkillPoints, UiPoints, skills
<1>1. CASE BeginTurn(m)
  BY <1>1 DEF Send, BeginTurn
<1>2. CASE BeginSkill(m)
  BY <1>2 DEF Send, BeginSkill
<1>3. CASE Answer(m)
  BY <1>3 DEF Send, Answer
<1>4. CASE Clear(m)
  BY <1>4 DEF Send, Clear
<1> QED
  BY <1>1, <1>2, <1>3, <1>4 DEF Send

\* A message that waits has the type of a message.
LEMMA HoldOK ==
  ASSUME DataOK, NEW m \in Message, Hold(m)
  PROVE  DispatchOK /\ queue' \in Seq(Message)
BY DEF DataOK, Hold, DispatchOK, skills

\* So does every step.
LEMMA DataStep == DataOK /\ [Next]_vars => DataOK'
<1> SUFFICES ASSUME DataOK, [Next]_vars PROVE DataOK'
  OBVIOUS
<1>t. "agent" \in Threads /\ "direct" \in Threads
  BY DEF Threads
<1> USE TurnLoopAssumption, <1>t DEF DataOK, AgentPoints, SkillPoints, UiPoints,

       messages, pending, screen, requests, budget, flags, skills
<1>1. CASE Type
  <2>1. PICK kind \in Kinds :
          LET m == [n |-> typed + 1, kind |-> kind]
          IN  Hold(m) \/ (Send(m) /\ UNCHANGED queue)
    BY <1>1 DEF Type
  <2> DEFINE m == [n |-> typed + 1, kind |-> kind]
  <2>2. m \in Message
    BY <1>1 DEF Type, Message
  <2>3. typed' \in Nat /\ UNCHANGED <<quit, requests, budget, rounds>>
    BY <1>1 DEF Type
  <2>4. Hold(m) \/ (Send(m) /\ UNCHANGED queue)
    BY <2>1
  <2> HIDE DEF m
  <2> QED
    BY <2>2, <2>3, <2>4, SendOK, HoldOK DEF DispatchOK
<1>2. CASE Frame
  <2>1. /\ quit' \in {"no", "leaving", "left"}
        /\ UNCHANGED <<typed, requests, budget, rounds>>
    BY <1>2 DEF Frame
  <2>2. CASE DrawQuietly
    BY <2>1, <2>2 DEF DrawQuietly
  <2>3. CASE DrainPendingQueue
    <3>1. Head(queue) \in Message /\ Tail(queue) \in Seq(Message)
      BY <2>3 DEF DrainPendingQueue
    <3>2. Send(Head(queue)) /\ queue' = Tail(queue)
      BY <2>3 DEF DrainPendingQueue
    <3> QED
      BY <2>1, <3>1, <3>2, SendOK DEF DispatchOK
  <2> QED
    BY <1>2, <2>2, <2>3 DEF Frame
<1>3. CASE Escape
  BY <1>3 DEF Escape, Ready, DropRequests, HaltRunner, NoteStop
<1>4. CASE NewChat
  BY <1>4 DEF NewChat, Ready, NoteStop
<1>5. CASE ApproveTool
  BY <1>5 DEF ApproveTool, Ready
<1>6. CASE Quit
  BY <1>6 DEF Quit, Ready
<1>7. CASE RaiseAgent
  BY <1>7 DEF RaiseAgent
<1>8. CASE RaiseTools
  BY <1>8 DEF RaiseTools
<1>9. CASE ClearSession
  BY <1>9 DEF ClearSession
<1>10. CASE Shutdown
  BY <1>10 DEF Shutdown, HaltRunner
<1>11. CASE JoinSkill
  BY <1>11 DEF JoinSkill, SkillJoined, CancelAtExit
<1>12. CASE JoinAgent
  BY <1>12 DEF JoinAgent
<1>13. CASE Begin
  BY <1>13 DEF Begin, Goto
<1>14. CASE NewTurn
  BY <1>14 DEF NewTurn, Goto
<1>15. CASE StartTool
  BY <1>15 DEF StartTool, Goto
<1>16. ASSUME NEW s \in Skills, RunSkill(s) PROVE DataOK'
  BY <1>16 DEF RunSkill, NewSkill, UnderCap, Goto
<1>17. CASE ViewImage
  BY <1>17 DEF ViewImage, Goto
<1>18. CASE OtherTool
  BY <1>18 DEF OtherTool, Goto
<1>19. CASE AskUser
  BY <1>19 DEF AskUser, Goto
<1>20. CASE WaitOver
  BY <1>20 DEF WaitOver, Goto
<1>21. CASE RunEnds
  BY <1>21 DEF RunEnds, Goto
<1>22. CASE Returned
  BY <1>22 DEF Returned, Goto
<1>23. CASE TakeImages
  BY <1>23 DEF TakeImages, Goto
<1>24. CASE ShowImages
  BY <1>24 DEF ShowImages, Goto
<1>25. CASE TakeSkill
  BY <1>25 DEF TakeSkill, Goto
<1>26. CASE TakeNothing
  BY <1>26 DEF TakeNothing, Goto
<1>27. CASE SkillReturned
  BY <1>27 DEF SkillReturned, Goto
<1>28. CASE Close
  BY <1>28 DEF Close, DropRequests, Goto
<1>29. CASE EndTurn
  BY <1>29 DEF EndTurn, Goto
<1>30. CASE EndAgent
  BY <1>30 DEF EndAgent, Goto
<1>31. ASSUME NEW t \in Threads, Publish(t) PROVE DataOK'
  BY <1>31 DEF Publish, At
<1>32. ASSUME NEW t \in Threads, BeginStep(t) PROVE DataOK'
  BY <1>32 DEF BeginStep, CheckCancel, At
<1>33. ASSUME NEW t \in Threads, EndStep(t) PROVE DataOK'
  BY <1>33 DEF EndStep, At
<1>34. ASSUME NEW t \in Threads, RunnerReturns(t) PROVE DataOK'
  BY <1>34 DEF RunnerReturns, CheckCancel, At
<1>35. CASE EndSkill
  BY <1>35 DEF EndSkill, At
<1>36. CASE EndDirect
  BY <1>36 DEF EndDirect, At
<1>37. CASE UNCHANGED vars
  BY <1>37 DEF vars
<1> QED
  BY <1>1, <1>2, <1>3, <1>4, <1>5, <1>6, <1>7, <1>8, <1>9, <1>10, <1>11, <1>12, <1>13,
     <1>14, <1>15, <1>16, <1>17, <1>18, <1>19, <1>20, <1>21, <1>22, <1>23, <1>24, <1>25,
     <1>26, <1>27, <1>28, <1>29, <1>30, <1>31, <1>32, <1>33, <1>34, <1>35, <1>36, <1>37
     DEF Next, Rest, User, Handler, AgentThread, SkillThread, Turn, Skill

\* Every variable keeps its type; the skills counted for a message never exceed SkillCap.
THEOREM TurnTypes == Spec => []TypeOK
<1>1. Init => FlagsOK
  BY Zenon DEF Init, FlagsOK
<1>2. Init => DataOK
  BY TurnLoopAssumption DEF Init, DataOK, AgentPoints, SkillPoints, UiPoints
<1>3. Init => TypeOK
  BY <1>1, <1>2, TypeParts
<1>4. TypeOK /\ [Next]_vars => TypeOK'
  <2>1. TypeOK' <=> FlagsOK' /\ DataOK'
    BY DEF TypeOK, FlagsOK, DataOK
  <2> QED
    BY <2>1, FlagsStep, DataStep, TypeParts
<1> QED
  BY <1>3, <1>4, PTL DEF Spec

-----------------------------------------------------------------------------
\* One thread at most works for the user, and the flag the UI thread goes by says
\* so; a skill on the agent thread is a step of its turn.
OwnerInv ==
  /\ running <=> Busy
  /\ agent \in {"off", "posting"} \/ skill["direct"] \in {"off", "posting"}
  /\ skill["agent"] # "off" => agent = "skill"

\* Nothing runs at first.
LEMMA OwnerInit == Init => OwnerInv
  BY DEF Init, OwnerInv, Busy, Threads

\* A thread starts only when the other is gone, and clears the flag in its last step.
LEMMA OwnerStep == TypeOK /\ OwnerInv /\ [Next]_vars => OwnerInv'
<1> SUFFICES ASSUME TypeOK, OwnerInv, [Next]_vars PROVE OwnerInv'
  OBVIOUS
<1>t. skill \in [Threads -> SkillPoints] /\ running \in BOOLEAN
  BY DEF TypeOK
<1> USE <1>t DEF OwnerInv, Busy, Threads,
       messages, pending, screen, requests, budget, flags, skills
<1>1. CASE Type
  BY <1>1 DEF Type, Ready, Send, Hold, BeginTurn, BeginSkill, Answer, Clear
<1>2. CASE Frame
  BY <1>2 DEF Frame, DrawQuietly, DrainPendingQueue, Send, BeginTurn, BeginSkill, Answer, Clear
<1>3. CASE Escape
  BY <1>3 DEF Escape, Ready, DropRequests, HaltRunner, NoteStop
<1>4. CASE NewChat
  BY <1>4 DEF NewChat, Ready, NoteStop
<1>5. CASE ApproveTool
  BY <1>5 DEF ApproveTool, Ready
<1>6. CASE Quit
  BY <1>6 DEF Quit, Ready
<1>7. CASE RaiseAgent
  BY <1>7 DEF RaiseAgent
<1>8. CASE RaiseTools
  BY <1>8 DEF RaiseTools
<1>9. CASE ClearSession
  BY <1>9 DEF ClearSession
<1>10. CASE Shutdown
  BY <1>10 DEF Shutdown, HaltRunner
<1>11. CASE JoinSkill
  BY <1>11 DEF JoinSkill, SkillJoined, CancelAtExit
<1>12. CASE JoinAgent
  BY <1>12 DEF JoinAgent
<1>13. CASE Begin
  BY <1>13 DEF Begin, Goto
<1>14. CASE NewTurn
  BY <1>14 DEF NewTurn, Goto
<1>15. CASE StartTool
  BY <1>15 DEF StartTool, Goto
<1>16. ASSUME NEW s \in Skills, RunSkill(s) PROVE OwnerInv'
  BY <1>16 DEF RunSkill, NewSkill, UnderCap, Goto
<1>17. CASE ViewImage
  BY <1>17 DEF ViewImage, Goto
<1>18. CASE OtherTool
  BY <1>18 DEF OtherTool, Goto
<1>19. CASE AskUser
  BY <1>19 DEF AskUser, Goto
<1>20. CASE WaitOver
  BY <1>20 DEF WaitOver, Goto
<1>21. CASE RunEnds
  BY <1>21 DEF RunEnds, Goto
<1>22. CASE Returned
  BY <1>22 DEF Returned, Goto
<1>23. CASE TakeImages
  BY <1>23 DEF TakeImages, Goto
<1>24. CASE ShowImages
  BY <1>24 DEF ShowImages, Goto
<1>25. CASE TakeSkill
  BY <1>25 DEF TakeSkill, Goto
<1>26. CASE TakeNothing
  BY <1>26 DEF TakeNothing, Goto
<1>27. CASE SkillReturned
  BY <1>27 DEF SkillReturned, Goto
<1>28. CASE Close
  BY <1>28 DEF Close, DropRequests, Goto
<1>29. CASE EndTurn
  BY <1>29 DEF EndTurn, Goto
<1>30. CASE EndAgent
  BY <1>30 DEF EndAgent, Goto
<1>31. ASSUME NEW t \in Threads, Publish(t) PROVE OwnerInv'
  BY <1>31 DEF Publish, At
<1>32. ASSUME NEW t \in Threads, BeginStep(t) PROVE OwnerInv'
  BY <1>32 DEF BeginStep, CheckCancel, At
<1>33. ASSUME NEW t \in Threads, EndStep(t) PROVE OwnerInv'
  BY <1>33 DEF EndStep, At
<1>34. ASSUME NEW t \in Threads, RunnerReturns(t) PROVE OwnerInv'
  BY <1>34 DEF RunnerReturns, CheckCancel, At
<1>35. CASE EndSkill
  BY <1>35 DEF EndSkill, At
<1>36. CASE EndDirect
  BY <1>36 DEF EndDirect, At
<1>37. CASE UNCHANGED vars
  BY <1>37 DEF vars
<1> QED
  BY <1>1, <1>2, <1>3, <1>4, <1>5, <1>6, <1>7, <1>8, <1>9, <1>10, <1>11, <1>12, <1>13,
     <1>14, <1>15, <1>16, <1>17, <1>18, <1>19, <1>20, <1>21, <1>22, <1>23, <1>24, <1>25,
     <1>26, <1>27, <1>28, <1>29, <1>30, <1>31, <1>32, <1>33, <1>34, <1>35, <1>36, <1>37
     DEF Next, Rest, User, Handler, AgentThread, SkillThread, Turn, Skill

\* agentThreadRunning_ tells of the work of both threads, at any time.
THEOREM OwnerTheorem == Spec => []OwnerInv
  BY TurnTypes, OwnerInit, OwnerStep, PTL DEF Spec

-----------------------------------------------------------------------------
\* A message is sent only when nothing is served, and then it is served or done.
LEMMA Sent ==
  ASSUME OwnerInv, NEW m, Send(m)
  PROVE  Serving = {} /\ Serving' \in {{}, {m}}
BY DEF OwnerInv, Send, Serving

\* Every step of the three threads sends, holds, finishes or drops a message in turn, or
\* does not show.
LEMMA ServesStep == TypeOK /\ OwnerInv /\ [Next]_vars => [Queue!Next]_Queue!vars
<1> SUFFICES ASSUME TypeOK, OwnerInv, [Next]_vars PROVE [Queue!Next]_Queue!vars
  OBVIOUS
<1>t. skill \in [Threads -> SkillPoints] /\ "agent" \in Threads /\ "direct" \in Threads
  BY DEF TypeOK, Threads
<1> USE <1>t DEF Queue!vars, Serving, Busy, OwnerInv,
       messages, pending, screen, requests, budget, flags, skills
<1>1. CASE Type
  <2>1. PICK kind \in Kinds :
          LET m == [n |-> typed + 1, kind |-> kind]
          IN  Hold(m) \/ (Send(m) /\ UNCHANGED queue)
    BY <1>1 DEF Type
  <2> DEFINE m == [n |-> typed + 1, kind |-> kind]
  <2>2. m \in Message
    BY <1>1, TurnLoopAssumption DEF Type, TypeOK, Message
  <2>3. Hold(m) \/ (Send(m) /\ UNCHANGED queue)
    BY <2>1
  <2>t. Queue!Types(m)
    BY <1>1 DEF Type, Queue!Types
  <2> HIDE DEF m
  <2>4. CASE Hold(m)
    <3>1. Queue!Enqueue(m)
      BY <2>t, <2>4 DEF Hold, Queue!Enqueue, skills
    <3> QED
      BY <2>2, <3>1 DEF Queue!Next
  <2>5. CASE Send(m) /\ UNCHANGED queue
    <3>1. Queue!Dispatch(m)
      BY <2>t, <2>5, Sent DEF Queue!Dispatch
    <3> QED
      BY <2>2, <3>1 DEF Queue!Next
  <2> QED
    BY <2>3, <2>4, <2>5
<1>2. CASE Frame
  <2>0. UNCHANGED typed
    BY <1>2 DEF Frame
  <2>1. CASE DrawQuietly
    BY <2>0, <2>1 DEF DrawQuietly, skills
  <2>2. CASE DrainPendingQueue
    <3>1. Queue!DispatchNext
      BY <2>0, <2>2, Sent DEF DrainPendingQueue, Queue!DispatchNext
    <3> QED
      BY <3>1 DEF Queue!Next
  <2> QED
    BY <1>2, <2>1, <2>2 DEF Frame
<1>3. CASE Escape
  <2>1. Queue!Drop
    BY <1>3 DEF Escape, Queue!Drop
  <2> QED
    BY <2>1 DEF Queue!Next
<1>4. CASE NewChat
  BY <1>4 DEF NewChat, Ready, NoteStop
<1>5. CASE ApproveTool
  BY <1>5 DEF ApproveTool, Ready
<1>6. CASE Quit
  BY <1>6 DEF Quit, Ready
<1>7. CASE RaiseAgent
  BY <1>7 DEF RaiseAgent
<1>8. CASE RaiseTools
  BY <1>8 DEF RaiseTools
<1>9. CASE ClearSession
  BY <1>9 DEF ClearSession
<1>10. CASE Shutdown
  BY <1>10 DEF Shutdown, HaltRunner
<1>11. CASE JoinSkill
  BY <1>11 DEF JoinSkill, SkillJoined, CancelAtExit
<1>12. CASE JoinAgent
  BY <1>12 DEF JoinAgent
<1>13. CASE Begin
  BY <1>13 DEF Begin, Goto
<1>14. CASE NewTurn
  BY <1>14 DEF NewTurn, Goto
<1>15. CASE StartTool
  BY <1>15 DEF StartTool, Goto
<1>16. ASSUME NEW s \in Skills, RunSkill(s) PROVE [Queue!Next]_Queue!vars
  BY <1>16 DEF RunSkill, NewSkill, UnderCap, Goto
<1>17. CASE ViewImage
  BY <1>17 DEF ViewImage, Goto
<1>18. CASE OtherTool
  BY <1>18 DEF OtherTool, Goto
<1>19. CASE AskUser
  BY <1>19 DEF AskUser, Goto
<1>20. CASE WaitOver
  BY <1>20 DEF WaitOver, Goto
<1>21. CASE RunEnds
  BY <1>21 DEF RunEnds, Goto
<1>22. CASE Returned
  BY <1>22 DEF Returned, Goto
<1>23. CASE TakeImages
  BY <1>23 DEF TakeImages, Goto
<1>24. CASE ShowImages
  BY <1>24 DEF ShowImages, Goto
<1>25. CASE TakeSkill
  BY <1>25 DEF TakeSkill, Goto
<1>26. CASE TakeNothing
  BY <1>26 DEF TakeNothing, Goto
<1>27. CASE SkillReturned
  BY <1>27 DEF SkillReturned, Goto
<1>28. CASE Close
  BY <1>28 DEF Close, DropRequests, Goto
<1>29. CASE EndTurn
  <2>1. Queue!Served
    BY <1>29 DEF EndTurn, Goto, Queue!Served
  <2> QED
    BY <2>1 DEF Queue!Next
<1>30. CASE EndAgent
  BY <1>30 DEF EndAgent, Goto
<1>31. ASSUME NEW t \in Threads, Publish(t) PROVE [Queue!Next]_Queue!vars
  BY <1>31 DEF Publish, At
<1>32. ASSUME NEW t \in Threads, BeginStep(t) PROVE [Queue!Next]_Queue!vars
  BY <1>32 DEF BeginStep, CheckCancel, At
<1>33. ASSUME NEW t \in Threads, EndStep(t) PROVE [Queue!Next]_Queue!vars
  BY <1>33 DEF EndStep, At
<1>34. ASSUME NEW t \in Threads, RunnerReturns(t) PROVE [Queue!Next]_Queue!vars
  BY <1>34 DEF RunnerReturns, CheckCancel, At
<1>35. CASE EndSkill
  <2>1. Queue!Served
    BY <1>35 DEF EndSkill, At, Queue!Served
  <2> QED
    BY <2>1 DEF Queue!Next
<1>36. CASE EndDirect
  BY <1>36 DEF EndDirect, At
<1>37. CASE UNCHANGED vars
  BY <1>37 DEF vars
<1> QED
  BY <1>1, <1>2, <1>3, <1>4, <1>5, <1>6, <1>7, <1>8, <1>9, <1>10, <1>11, <1>12, <1>13,
     <1>14, <1>15, <1>16, <1>17, <1>18, <1>19, <1>20, <1>21, <1>22, <1>23, <1>24, <1>25,
     <1>26, <1>27, <1>28, <1>29, <1>30, <1>31, <1>32, <1>33, <1>34, <1>35, <1>36, <1>37
     DEF Next, Rest, User, Handler, AgentThread, SkillThread, Turn, Skill

\* The flag agentThreadRunning_ and the joins make a queue of the messages (TurnQueue),
\* for any number of them and for every interleaving of the three threads.
THEOREM ServedInTurnTheorem == Spec => ServesInTurn
<1>1. Init => Queue!Init
  BY DEF Init, Queue!Init, Serving, Busy, Threads
<1> QED
  BY <1>1, ServesStep, TurnTypes, OwnerTheorem, PTL DEF Spec, ServesInTurn, Queue!Spec

-----------------------------------------------------------------------------
\* Where a follow-up request may be pending: from the tool that asks for it to the
\* place that takes or drops it.
SlotInv ==
  /\ SlotNamesRequest
  /\ slot # "None" => agent \in {"run", "tool", "approval", "returned", "taking", "closing"}

\* The slot and the pending request agree, although Esc drops both from another thread.
THEOREM SlotTheorem == Spec => []SlotNamesRequest
<1>1. Init => SlotInv
  BY DEF Init, SlotInv, SlotNamesRequest
<1>2. TypeOK /\ SlotInv /\ [Next]_vars => SlotInv'
  <2> SUFFICES ASSUME TypeOK, SlotInv, [Next]_vars PROVE SlotInv'
    OBVIOUS
  <2>t. slot \in {"None", "Skill", "Image"} /\ pendingImages \in BOOLEAN
    BY DEF TypeOK
  <2> USE <2>t, TurnLoopAssumption DEF SlotInv, SlotNamesRequest, Threads,
       messages, pending, screen, requests, budget, flags, skills
  <2>1. CASE Type
    BY <2>1 DEF Type, Ready, Send, Hold, BeginTurn, BeginSkill, Answer, Clear
  <2>2. CASE Frame
    BY <2>2 DEF Frame, DrawQuietly, DrainPendingQueue, Send, BeginTurn, BeginSkill, Answer, Clear
  <2>3. CASE Escape
    BY <2>3 DEF Escape, Ready, DropRequests, HaltRunner, NoteStop
  <2>4. CASE NewChat
    BY <2>4 DEF NewChat, Ready, NoteStop
  <2>5. CASE ApproveTool
    BY <2>5 DEF ApproveTool, Ready
  <2>6. CASE Quit
    BY <2>6 DEF Quit, Ready
  <2>7. CASE RaiseAgent
    BY <2>7 DEF RaiseAgent
  <2>8. CASE RaiseTools
    BY <2>8 DEF RaiseTools
  <2>9. CASE ClearSession
    BY <2>9 DEF ClearSession
  <2>10. CASE Shutdown
    BY <2>10 DEF Shutdown, HaltRunner
  <2>11. CASE JoinSkill
    BY <2>11 DEF JoinSkill, SkillJoined, CancelAtExit
  <2>12. CASE JoinAgent
    BY <2>12 DEF JoinAgent
  <2>13. CASE Begin
    BY <2>13 DEF Begin, Goto
  <2>14. CASE NewTurn
    BY <2>14 DEF NewTurn, Goto
  <2>15. CASE StartTool
    BY <2>15 DEF StartTool, Goto
  <2>16. ASSUME NEW s \in Skills, RunSkill(s) PROVE SlotInv'
    BY <2>16 DEF RunSkill, NewSkill, UnderCap, Goto
  <2>17. CASE ViewImage
    BY <2>17 DEF ViewImage, Goto
  <2>18. CASE OtherTool
    BY <2>18 DEF OtherTool, Goto
  <2>19. CASE AskUser
    BY <2>19 DEF AskUser, Goto
  <2>20. CASE WaitOver
    BY <2>20 DEF WaitOver, Goto
  <2>21. CASE RunEnds
    BY <2>21 DEF RunEnds, Goto
  <2>22. CASE Returned
    BY <2>22 DEF Returned, Goto
  <2>23. CASE TakeImages
    BY <2>23 DEF TakeImages, Goto
  <2>24. CASE ShowImages
    BY <2>24 DEF ShowImages, Goto
  <2>25. CASE TakeSkill
    BY <2>25 DEF TakeSkill, Goto
  <2>26. CASE TakeNothing
    BY <2>26 DEF TakeNothing, Goto
  <2>27. CASE SkillReturned
    BY <2>27 DEF SkillReturned, Goto
  <2>28. CASE Close
    BY <2>28 DEF Close, DropRequests, Goto
  <2>29. CASE EndTurn
    BY <2>29 DEF EndTurn, Goto
  <2>30. CASE EndAgent
    BY <2>30 DEF EndAgent, Goto
  <2>31. ASSUME NEW t \in Threads, Publish(t) PROVE SlotInv'
    BY <2>31 DEF Publish, At
  <2>32. ASSUME NEW t \in Threads, BeginStep(t) PROVE SlotInv'
    BY <2>32 DEF BeginStep, CheckCancel, At
  <2>33. ASSUME NEW t \in Threads, EndStep(t) PROVE SlotInv'
    BY <2>33 DEF EndStep, At
  <2>34. ASSUME NEW t \in Threads, RunnerReturns(t) PROVE SlotInv'
    BY <2>34 DEF RunnerReturns, CheckCancel, At
  <2>35. CASE EndSkill
    BY <2>35 DEF EndSkill, At
  <2>36. CASE EndDirect
    BY <2>36 DEF EndDirect, At
  <2>37. CASE UNCHANGED vars
    BY <2>37 DEF vars
  <2> QED
    BY <2>1, <2>2, <2>3, <2>4, <2>5, <2>6, <2>7, <2>8, <2>9, <2>10, <2>11, <2>12, <2>13,
       <2>14, <2>15, <2>16, <2>17, <2>18, <2>19, <2>20, <2>21, <2>22, <2>23, <2>24, <2>25,
       <2>26, <2>27, <2>28, <2>29, <2>30, <2>31, <2>32, <2>33, <2>34, <2>35, <2>36, <2>37
       DEF Next, Rest, User, Handler, AgentThread, SkillThread, Turn, Skill
<1>3. SlotInv => SlotNamesRequest
  BY DEF SlotInv
<1> QED
  BY <1>1, <1>2, <1>3, TurnTypes, PTL DEF Spec

-----------------------------------------------------------------------------
\* Past joinSkillThread no skill thread is left and none is started.
JoinInv ==
  /\ ui \in {"joinAgent", "down"} \/ (ui \in {"cancelling", "raised"} /\ after = "joinAgent")
       => skill["direct"] = "off"
  /\ ui = "down" => agent = "off"

\* After the join the UI thread sends nothing any more.
LEMMA JoinStep == TypeOK /\ JoinInv /\ [Next]_vars => JoinInv'
<1> SUFFICES ASSUME TypeOK, JoinInv, [Next]_vars PROVE JoinInv'
  OBVIOUS
<1>t. /\ skill \in [Threads -> SkillPoints] /\ "agent" \in Threads /\ "direct" \in Threads
      /\ after \in {"ready", "clearing", "joinAgent"}
  BY DEF TypeOK, Threads
<1> USE <1>t DEF JoinInv,
       messages, pending, screen, requests, budget, flags, skills
<1>1. CASE Type
  BY <1>1 DEF Type, Ready, Send, Hold, BeginTurn, BeginSkill, Answer, Clear
<1>2. CASE Frame
  BY <1>2 DEF Frame, DrawQuietly, DrainPendingQueue, Send, BeginTurn, BeginSkill, Answer, Clear
<1>3. CASE Escape
  BY <1>3 DEF Escape, Ready, DropRequests, HaltRunner, NoteStop
<1>4. CASE NewChat
  BY <1>4 DEF NewChat, Ready, NoteStop
<1>5. CASE ApproveTool
  BY <1>5 DEF ApproveTool, Ready
<1>6. CASE Quit
  BY <1>6 DEF Quit, Ready
<1>7. CASE RaiseAgent
  BY <1>7 DEF RaiseAgent
<1>8. CASE RaiseTools
  BY <1>8 DEF RaiseTools
<1>9. CASE ClearSession
  BY <1>9 DEF ClearSession
<1>10. CASE Shutdown
  BY <1>10 DEF Shutdown, HaltRunner
<1>11. CASE JoinSkill
  BY <1>11 DEF JoinSkill, SkillJoined, CancelAtExit
<1>12. CASE JoinAgent
  BY <1>12 DEF JoinAgent
<1>13. CASE Begin
  BY <1>13 DEF Begin, Goto
<1>14. CASE NewTurn
  BY <1>14 DEF NewTurn, Goto
<1>15. CASE StartTool
  BY <1>15 DEF StartTool, Goto
<1>16. ASSUME NEW s \in Skills, RunSkill(s) PROVE JoinInv'
  BY <1>16 DEF RunSkill, NewSkill, UnderCap, Goto
<1>17. CASE ViewImage
  BY <1>17 DEF ViewImage, Goto
<1>18. CASE OtherTool
  BY <1>18 DEF OtherTool, Goto
<1>19. CASE AskUser
  BY <1>19 DEF AskUser, Goto
<1>20. CASE WaitOver
  BY <1>20 DEF WaitOver, Goto
<1>21. CASE RunEnds
  BY <1>21 DEF RunEnds, Goto
<1>22. CASE Returned
  BY <1>22 DEF Returned, Goto
<1>23. CASE TakeImages
  BY <1>23 DEF TakeImages, Goto
<1>24. CASE ShowImages
  BY <1>24 DEF ShowImages, Goto
<1>25. CASE TakeSkill
  BY <1>25 DEF TakeSkill, Goto
<1>26. CASE TakeNothing
  BY <1>26 DEF TakeNothing, Goto
<1>27. CASE SkillReturned
  BY <1>27 DEF SkillReturned, Goto
<1>28. CASE Close
  BY <1>28 DEF Close, DropRequests, Goto
<1>29. CASE EndTurn
  BY <1>29 DEF EndTurn, Goto
<1>30. CASE EndAgent
  BY <1>30 DEF EndAgent, Goto
<1>31. ASSUME NEW t \in Threads, Publish(t) PROVE JoinInv'
  BY <1>31 DEF Publish, At
<1>32. ASSUME NEW t \in Threads, BeginStep(t) PROVE JoinInv'
  BY <1>32 DEF BeginStep, CheckCancel, At
<1>33. ASSUME NEW t \in Threads, EndStep(t) PROVE JoinInv'
  BY <1>33 DEF EndStep, At
<1>34. ASSUME NEW t \in Threads, RunnerReturns(t) PROVE JoinInv'
  BY <1>34 DEF RunnerReturns, CheckCancel, At
<1>35. CASE EndSkill
  BY <1>35 DEF EndSkill, At
<1>36. CASE EndDirect
  BY <1>36 DEF EndDirect, At
<1>37. CASE UNCHANGED vars
  BY <1>37 DEF vars
<1> QED
  BY <1>1, <1>2, <1>3, <1>4, <1>5, <1>6, <1>7, <1>8, <1>9, <1>10, <1>11, <1>12, <1>13,
     <1>14, <1>15, <1>16, <1>17, <1>18, <1>19, <1>20, <1>21, <1>22, <1>23, <1>24, <1>25,
     <1>26, <1>27, <1>28, <1>29, <1>30, <1>31, <1>32, <1>33, <1>34, <1>35, <1>36, <1>37
     DEF Next, Rest, User, Handler, AgentThread, SkillThread, Turn, Skill

\* shutdown deletes the agent when both threads are gone, whatever runs when the user quits.
THEOREM DownTheorem == Spec => []DownIsQuiet
<1>1. Init => JoinInv
  BY DEF Init, JoinInv, Threads
<1>2. TypeOK /\ OwnerInv /\ JoinInv => DownIsQuiet
  BY DEF TypeOK, OwnerInv, JoinInv, DownIsQuiet, Threads
<1> QED
  BY <1>1, <1>2, JoinStep, TurnTypes, OwnerTheorem, PTL DEF Spec

-----------------------------------------------------------------------------
\* A cancel by the user reaches the skill: its runner is halted, or the registry's flag is
\* up, or the handler is on its way to raise it.  Only newTurn takes the flag back, and
\* then no skill runs.
HeedInv ==
  \A t \in Threads : stopped[t] /\ skill[t] \in {"prepare", "between", "step"} =>
    halted[t] \/ toolCancel \/ ui \in {"cancelling", "raised"}

\* newTurn is the only step that takes a flag back, and the agent thread has no skill then.
LEMMA HeedStep == TypeOK /\ OwnerInv /\ HeedInv /\ [Next]_vars => HeedInv'
<1> SUFFICES ASSUME TypeOK, OwnerInv, HeedInv, [Next]_vars PROVE HeedInv'
  OBVIOUS
<1>t. /\ skill \in [Threads -> SkillPoints]
      /\ halted \in [Threads -> BOOLEAN] /\ stopped \in [Threads -> BOOLEAN]
      /\ "agent" \in Threads /\ "direct" \in Threads
      /\ \A t \in Threads : t = "agent" \/ t = "direct"
  BY DEF TypeOK, Threads
<1> USE <1>t DEF HeedInv, OwnerInv,
       messages, pending, screen, requests, budget, flags, skills
<1>1. CASE Type
  BY <1>1 DEF Type, Ready, Send, Hold, BeginTurn, BeginSkill, Answer, Clear
<1>2. CASE Frame
  BY <1>2 DEF Frame, DrawQuietly, DrainPendingQueue, Send, BeginTurn, BeginSkill, Answer, Clear
<1>3. CASE Escape
  BY <1>3 DEF Escape, Ready, DropRequests, HaltRunner, NoteStop
<1>4. CASE NewChat
  BY <1>4 DEF NewChat, Ready, NoteStop
<1>5. CASE ApproveTool
  BY <1>5 DEF ApproveTool, Ready
<1>6. CASE Quit
  BY <1>6 DEF Quit, Ready
<1>7. CASE RaiseAgent
  BY <1>7 DEF RaiseAgent
<1>8. CASE RaiseTools
  BY <1>8 DEF RaiseTools
<1>9. CASE ClearSession
  BY <1>9 DEF ClearSession
<1>10. CASE Shutdown
  BY <1>10 DEF Shutdown, HaltRunner
<1>11. CASE JoinSkill
  BY <1>11 DEF JoinSkill, SkillJoined, CancelAtExit
<1>12. CASE JoinAgent
  BY <1>12 DEF JoinAgent
<1>13. CASE Begin
  BY <1>13 DEF Begin, Goto
<1>14. CASE NewTurn
  BY <1>14 DEF NewTurn, Goto
<1>15. CASE StartTool
  BY <1>15 DEF StartTool, Goto
<1>16. ASSUME NEW s \in Skills, RunSkill(s) PROVE HeedInv'
  BY <1>16 DEF RunSkill, NewSkill, UnderCap, Goto
<1>17. CASE ViewImage
  BY <1>17 DEF ViewImage, Goto
<1>18. CASE OtherTool
  BY <1>18 DEF OtherTool, Goto
<1>19. CASE AskUser
  BY <1>19 DEF AskUser, Goto
<1>20. CASE WaitOver
  BY <1>20 DEF WaitOver, Goto
<1>21. CASE RunEnds
  BY <1>21 DEF RunEnds, Goto
<1>22. CASE Returned
  BY <1>22 DEF Returned, Goto
<1>23. CASE TakeImages
  BY <1>23 DEF TakeImages, Goto
<1>24. CASE ShowImages
  BY <1>24 DEF ShowImages, Goto
<1>25. CASE TakeSkill
  BY <1>25 DEF TakeSkill, Goto
<1>26. CASE TakeNothing
  BY <1>26 DEF TakeNothing, Goto
<1>27. CASE SkillReturned
  BY <1>27 DEF SkillReturned, Goto
<1>28. CASE Close
  BY <1>28 DEF Close, DropRequests, Goto
<1>29. CASE EndTurn
  BY <1>29 DEF EndTurn, Goto
<1>30. CASE EndAgent
  BY <1>30 DEF EndAgent, Goto
<1>31. ASSUME NEW t \in Threads, Publish(t) PROVE HeedInv'
  BY <1>31 DEF Publish, At
<1>32. ASSUME NEW t \in Threads, BeginStep(t) PROVE HeedInv'
  BY <1>32 DEF BeginStep, CheckCancel, At
<1>33. ASSUME NEW t \in Threads, EndStep(t) PROVE HeedInv'
  BY <1>33 DEF EndStep, At
<1>34. ASSUME NEW t \in Threads, RunnerReturns(t) PROVE HeedInv'
  BY <1>34 DEF RunnerReturns, CheckCancel, At
<1>35. CASE EndSkill
  BY <1>35 DEF EndSkill, At
<1>36. CASE EndDirect
  BY <1>36 DEF EndDirect, At
<1>37. CASE UNCHANGED vars
  BY <1>37 DEF vars
<1> QED
  BY <1>1, <1>2, <1>3, <1>4, <1>5, <1>6, <1>7, <1>8, <1>9, <1>10, <1>11, <1>12, <1>13,
     <1>14, <1>15, <1>16, <1>17, <1>18, <1>19, <1>20, <1>21, <1>22, <1>23, <1>24, <1>25,
     <1>26, <1>27, <1>28, <1>29, <1>30, <1>31, <1>32, <1>33, <1>34, <1>35, <1>36, <1>37
     DEF Next, Rest, User, Handler, AgentThread, SkillThread, Turn, Skill

\* A cancelled skill begins no further step, whoever runs it and whenever Esc is pressed.
THEOREM HeedTheorem == Spec => SkillHeedsCancel
<1> DEFINE Heeds == [\A t \in Threads :
              skill[t] = "between" /\ stopped[t] /\ ui \notin {"cancelling", "raised"}
                => skill'[t] # "step"]_vars
<1>1. Init => HeedInv
  BY DEF Init, HeedInv, Threads
<1>2. TypeOK /\ OwnerInv /\ HeedInv /\ [Next]_vars => Heeds
  <2> SUFFICES ASSUME TypeOK, OwnerInv, HeedInv, [Next]_vars PROVE Heeds
    OBVIOUS
  <2>t. /\ skill \in [Threads -> SkillPoints]
        /\ "agent" \in Threads /\ "direct" \in Threads
    BY DEF TypeOK, Threads
  <2> USE <2>t DEF HeedInv, OwnerInv,
       messages, pending, screen, requests, budget, flags, skills
  <2>1. CASE Type
    BY <2>1 DEF Type, Ready, Send, Hold, BeginTurn, BeginSkill, Answer, Clear
  <2>2. CASE Frame
    BY <2>2 DEF Frame, DrawQuietly, DrainPendingQueue, Send, BeginTurn, BeginSkill, Answer, Clear
  <2>3. CASE Escape
    BY <2>3 DEF Escape, Ready, DropRequests, HaltRunner, NoteStop
  <2>4. CASE NewChat
    BY <2>4 DEF NewChat, Ready, NoteStop
  <2>5. CASE ApproveTool
    BY <2>5 DEF ApproveTool, Ready
  <2>6. CASE Quit
    BY <2>6 DEF Quit, Ready
  <2>7. CASE RaiseAgent
    BY <2>7 DEF RaiseAgent
  <2>8. CASE RaiseTools
    BY <2>8 DEF RaiseTools
  <2>9. CASE ClearSession
    BY <2>9 DEF ClearSession
  <2>10. CASE Shutdown
    BY <2>10 DEF Shutdown, HaltRunner
  <2>11. CASE JoinSkill
    BY <2>11 DEF JoinSkill, SkillJoined, CancelAtExit
  <2>12. CASE JoinAgent
    BY <2>12 DEF JoinAgent
  <2>13. CASE Begin
    BY <2>13 DEF Begin, Goto
  <2>14. CASE NewTurn
    BY <2>14 DEF NewTurn, Goto
  <2>15. CASE StartTool
    BY <2>15 DEF StartTool, Goto
  <2>16. ASSUME NEW s \in Skills, RunSkill(s) PROVE Heeds
    BY <2>16 DEF RunSkill, NewSkill, UnderCap, Goto
  <2>17. CASE ViewImage
    BY <2>17 DEF ViewImage, Goto
  <2>18. CASE OtherTool
    BY <2>18 DEF OtherTool, Goto
  <2>19. CASE AskUser
    BY <2>19 DEF AskUser, Goto
  <2>20. CASE WaitOver
    BY <2>20 DEF WaitOver, Goto
  <2>21. CASE RunEnds
    BY <2>21 DEF RunEnds, Goto
  <2>22. CASE Returned
    BY <2>22 DEF Returned, Goto
  <2>23. CASE TakeImages
    BY <2>23 DEF TakeImages, Goto
  <2>24. CASE ShowImages
    BY <2>24 DEF ShowImages, Goto
  <2>25. CASE TakeSkill
    BY <2>25 DEF TakeSkill, Goto
  <2>26. CASE TakeNothing
    BY <2>26 DEF TakeNothing, Goto
  <2>27. CASE SkillReturned
    BY <2>27 DEF SkillReturned, Goto
  <2>28. CASE Close
    BY <2>28 DEF Close, DropRequests, Goto
  <2>29. CASE EndTurn
    BY <2>29 DEF EndTurn, Goto
  <2>30. CASE EndAgent
    BY <2>30 DEF EndAgent, Goto
  <2>31. ASSUME NEW t \in Threads, Publish(t) PROVE Heeds
    BY <2>31 DEF Publish, At
  <2>32. ASSUME NEW t \in Threads, BeginStep(t) PROVE Heeds
    BY <2>32 DEF BeginStep, CheckCancel, At
  <2>33. ASSUME NEW t \in Threads, EndStep(t) PROVE Heeds
    BY <2>33 DEF EndStep, At
  <2>34. ASSUME NEW t \in Threads, RunnerReturns(t) PROVE Heeds
    BY <2>34 DEF RunnerReturns, CheckCancel, At
  <2>35. CASE EndSkill
    BY <2>35 DEF EndSkill, At
  <2>36. CASE EndDirect
    BY <2>36 DEF EndDirect, At
  <2>37. CASE UNCHANGED vars
    BY <2>37 DEF vars
  <2> QED
    BY <2>1, <2>2, <2>3, <2>4, <2>5, <2>6, <2>7, <2>8, <2>9, <2>10, <2>11, <2>12, <2>13,
       <2>14, <2>15, <2>16, <2>17, <2>18, <2>19, <2>20, <2>21, <2>22, <2>23, <2>24, <2>25,
       <2>26, <2>27, <2>28, <2>29, <2>30, <2>31, <2>32, <2>33, <2>34, <2>35, <2>36, <2>37
       DEF Next, Rest, User, Handler, AgentThread, SkillThread, Turn, Skill
<1> QED
  BY <1>1, <1>2, HeedStep, TurnTypes, OwnerTheorem, PTL DEF Spec, SkillHeedsCancel

-----------------------------------------------------------------------------
\* While a turn runs, the counter and the name kept for the refusals tell of the skills
\* the agent queued for this message.
CapInv ==
  /\ SkillsAreCapped
  /\ agent \notin {"off", "begin", "ending", "posting"} =>
       Len(ran) = skillCalls /\ (ran # <<>> => lastSkill = ran[Len(ran)])

\* What appending does to a list.
LEMMA AppendFacts ==
  ASSUME NEW S, NEW q \in Seq(S), NEW e \in S
  PROVE  /\ Append(q, e) \in Seq(S) /\ Append(q, e) # <<>>
         /\ Len(Append(q, e)) = Len(q) + 1 /\ Len(q) \in Nat
         /\ Append(q, e)[Len(q) + 1] = e
         /\ \A k \in 1..Len(q) : Append(q, e)[k] = q[k]
         /\ Len(q) > 0 => q # <<>>
OBVIOUS

\* A skill that is not the last one of a list may be appended to it.
LEMMA CapGrows ==
  ASSUME NEW q \in Seq(Skills), NEW s \in Skills, Len(q) < SkillCap,
         \A k \in 2..Len(q) : q[k] # q[k - 1],
         q # <<>> => q[Len(q)] # s
  PROVE  /\ Len(Append(q, s)) <= SkillCap
         /\ \A k \in 2..Len(Append(q, s)) : Append(q, s)[k] # Append(q, s)[k - 1]
<1> DEFINE p == Append(q, s)
<1>1. /\ Len(p) = Len(q) + 1 /\ Len(q) \in Nat /\ p[Len(q) + 1] = s
      /\ \A k \in 1..Len(q) : p[k] = q[k]
      /\ Len(q) > 0 => q # <<>>
  BY AppendFacts
<1>2. SkillCap \in Nat
  BY TurnLoopAssumption
<1> HIDE DEF p
<1>3. ASSUME NEW k \in 2..Len(p) PROVE p[k] # p[k - 1]
  <2>1. CASE k = Len(q) + 1
    BY <1>1, <2>1
  <2>2. CASE k # Len(q) + 1
    <3>1. k \in 2..Len(q) /\ k \in 1..Len(q) /\ k - 1 \in 1..Len(q)
      BY <1>1, <2>2
    <3> QED
      BY <1>1, <3>1
  <2> QED
    BY <2>1, <2>2
<1>4. Len(p) <= SkillCap
  BY <1>1, <1>2
<1> QED
  BY <1>3, <1>4 DEF p

\* Two counters reset on two occasions cap the skills of a message for any SkillCap.
THEOREM CapTheorem == Spec => []SkillsAreCapped
<1>1. Init => CapInv
  BY TurnLoopAssumption DEF Init, CapInv, SkillsAreCapped
<1>2. TypeOK /\ CapInv /\ [Next]_vars => CapInv'
  <2> SUFFICES ASSUME TypeOK, CapInv, [Next]_vars PROVE CapInv'
    OBVIOUS
  <2>t. skillCalls \in 0..SkillCap /\ ran \in Seq(Skills) /\ SkillCap \in Nat
    BY TurnLoopAssumption DEF TypeOK
  <2> USE <2>t DEF CapInv, SkillsAreCapped, Threads,
       messages, pending, screen, requests, budget, flags, skills
  <2>1. CASE Type
    BY <2>1 DEF Type, Ready, Send, Hold, BeginTurn, BeginSkill, Answer, Clear
  <2>2. CASE Frame
    BY <2>2 DEF Frame, DrawQuietly, DrainPendingQueue, Send, BeginTurn, BeginSkill, Answer, Clear
  <2>3. CASE Escape
    BY <2>3 DEF Escape, Ready, DropRequests, HaltRunner, NoteStop
  <2>4. CASE NewChat
    BY <2>4 DEF NewChat, Ready, NoteStop
  <2>5. CASE ApproveTool
    BY <2>5 DEF ApproveTool, Ready
  <2>6. CASE Quit
    BY <2>6 DEF Quit, Ready
  <2>7. CASE RaiseAgent
    BY <2>7 DEF RaiseAgent
  <2>8. CASE RaiseTools
    BY <2>8 DEF RaiseTools
  <2>9. CASE ClearSession
    BY <2>9 DEF ClearSession
  <2>10. CASE Shutdown
    BY <2>10 DEF Shutdown, HaltRunner
  <2>11. CASE JoinSkill
    BY <2>11 DEF JoinSkill, SkillJoined, CancelAtExit
  <2>12. CASE JoinAgent
    BY <2>12 DEF JoinAgent
  <2>13. CASE Begin
    BY <2>13 DEF Begin, Goto
  <2>14. CASE NewTurn
    BY <2>14 DEF NewTurn, Goto
  <2>15. CASE StartTool
    BY <2>15 DEF StartTool, Goto
  <2>16. ASSUME NEW s \in Skills, RunSkill(s) PROVE CapInv'
    <3>1. /\ agent = "tool" /\ agent' = "run" /\ lastSkill # s /\ lastSkill' = s
          /\ skillCalls < SkillCap /\ skillCalls' = skillCalls + 1 /\ ran' = Append(ran, s)
      BY <2>16 DEF RunSkill, NewSkill, UnderCap, Goto
    <3>2. Len(ran) < SkillCap /\ (ran # <<>> => ran[Len(ran)] # s)
      BY <3>1
    <3>3. SkillsAreCapped'
      BY <3>1, <3>2, CapGrows
    <3>4. Len(ran') = skillCalls' /\ ran'[Len(ran')] = lastSkill'
      BY <3>1, AppendFacts
    <3> QED
      BY <3>1, <3>3, <3>4
  <2>17. CASE ViewImage
    BY <2>17 DEF ViewImage, Goto
  <2>18. CASE OtherTool
    BY <2>18 DEF OtherTool, Goto
  <2>19. CASE AskUser
    BY <2>19 DEF AskUser, Goto
  <2>20. CASE WaitOver
    BY <2>20 DEF WaitOver, Goto
  <2>21. CASE RunEnds
    BY <2>21 DEF RunEnds, Goto
  <2>22. CASE Returned
    BY <2>22 DEF Returned, Goto
  <2>23. CASE TakeImages
    BY <2>23 DEF TakeImages, Goto
  <2>24. CASE ShowImages
    BY <2>24 DEF ShowImages, Goto
  <2>25. CASE TakeSkill
    BY <2>25 DEF TakeSkill, Goto
  <2>26. CASE TakeNothing
    BY <2>26 DEF TakeNothing, Goto
  <2>27. CASE SkillReturned
    BY <2>27 DEF SkillReturned, Goto
  <2>28. CASE Close
    BY <2>28 DEF Close, DropRequests, Goto
  <2>29. CASE EndTurn
    BY <2>29 DEF EndTurn, Goto
  <2>30. CASE EndAgent
    BY <2>30 DEF EndAgent, Goto
  <2>31. ASSUME NEW t \in Threads, Publish(t) PROVE CapInv'
    BY <2>31 DEF Publish, At
  <2>32. ASSUME NEW t \in Threads, BeginStep(t) PROVE CapInv'
    BY <2>32 DEF BeginStep, CheckCancel, At
  <2>33. ASSUME NEW t \in Threads, EndStep(t) PROVE CapInv'
    BY <2>33 DEF EndStep, At
  <2>34. ASSUME NEW t \in Threads, RunnerReturns(t) PROVE CapInv'
    BY <2>34 DEF RunnerReturns, CheckCancel, At
  <2>35. CASE EndSkill
    BY <2>35 DEF EndSkill, At
  <2>36. CASE EndDirect
    BY <2>36 DEF EndDirect, At
  <2>37. CASE UNCHANGED vars
    BY <2>37 DEF vars
  <2> QED
    BY <2>1, <2>2, <2>3, <2>4, <2>5, <2>6, <2>7, <2>8, <2>9, <2>10, <2>11, <2>12, <2>13,
       <2>14, <2>15, <2>16, <2>17, <2>18, <2>19, <2>20, <2>21, <2>22, <2>23, <2>24, <2>25,
       <2>26, <2>27, <2>28, <2>29, <2>30, <2>31, <2>32, <2>33, <2>34, <2>35, <2>36, <2>37
       DEF Next, Rest, User, Handler, AgentThread, SkillThread, Turn, Skill
<1>3. CapInv => SkillsAreCapped
  BY DEF CapInv
<1> QED
  BY <1>1, <1>2, <1>3, TurnTypes, PTL DEF Spec

-----------------------------------------------------------------------------
\* The slot names the pending request and the cap holds, in every state.
THEOREM DispatchInvariant == Spec => []DispatchInv
  BY SlotTheorem, CapTheorem, PTL DEF DispatchInv
=============================================================================
