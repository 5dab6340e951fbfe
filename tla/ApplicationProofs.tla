-------------------------- MODULE ApplicationProofs --------------------------
(***************************************************************************)
(* Proofs about Application and the two modules it composes: that the host *)
(* shows the newest record and a regular end clears it, whatever the       *)
(* threads do, and what the session file and the session have in common.   *)
(*                                                                         *)
(* The argument for TerminalStatus: while reports are on, the one thread   *)
(* that writes is the UI's, what it has still to write is lastSent, and    *)
(* what it has written is on the host; so a record may be dropped as "sent *)
(* already" only when it is there or on its way.  The thread that ends the *)
(* reports switches them off in the same step, so nothing can come behind  *)
(* its last record.                                                        *)
(***************************************************************************)
EXTENDS Application, ConversationProofs, FiniteSetTheorems, SequenceTheorems

-----------------------------------------------------------------------------
(* TerminalStatus by itself *)

\* One record in flight, and it is the one that counts as sent.
SentOrOnItsWay ==
  enabled =>
    /\ writing["exit"] = Silence
    /\ writing["ui"] # Silence => writing["ui"] = lastSent
    /\ writing["ui"] = Silence /\ lastSent # Silence => host = lastSent

\* A record that is not due has been sent.
PendingWasSent ==
  /\ dirty => pending # Silence
  /\ enabled /\ ~ dirty /\ pending # Silence => lastSent = Encoded(pending)

\* Behind the end told by the UI there is only that end.
EndIsLast ==
  endedBy = "ui" =>
    /\ ~ enabled
    /\ writing["exit"] = Silence
    /\ writing["ui"] \in {Clear, Silence}
    /\ writing["ui"] = Silence => host = Clear

StatusInv == StatusTypeOK /\ SentOrOnItsWay /\ PendingWasSent /\ EndIsLast

\* A record that is encoded is one the host may be shown.
LEMMA EncodedIsShown ==
  ASSUME NEW r \in Records
  PROVE  /\ Encoded(r) \in Shown
         /\ Encoded(r) # Silence
  BY StatusAssumption DEF Encoded, Shown, Clear, States

LEMMA EndsAreShown ==
  /\ Clear \in Shown /\ Clear # Silence
  /\ Interrupted \in Shown /\ Interrupted # Silence
  BY StatusAssumption DEF Shown, Clear, Interrupted, States

LEMMA StatusInvHolds == StatusInit => StatusInv
  BY DEF StatusInit, StatusInv, StatusTypeOK, SentOrOnItsWay, PendingWasSent, EndIsLast,
         Writers

\* setState: only what is pending changes.
LEMMA ReportKeeps ==
  ASSUME StatusInv, NEW r \in Records, Report(r)
  PROVE  StatusInv'
  BY StatusAssumption
  DEF StatusInv, StatusTypeOK, SentOrOnItsWay, PendingWasSent, EndIsLast, Report

\* flushIfDirty: the record is sent, or is what was sent last.
LEMMA FlushKeeps ==
  ASSUME StatusInv, FlushIfDirty("ui")
  PROVE  StatusInv'
<1> USE DEF StatusInv
<1>1. pending \in Records
  BY DEF StatusTypeOK, PendingWasSent, FlushIfDirty
<1>2. Encoded(pending) \in Shown /\ Encoded(pending) # Silence
  BY <1>1, EncodedIsShown
<1>3. StatusTypeOK'
  BY <1>2, Zenon DEF StatusTypeOK, FlushIfDirty, Writers
<1>4. /\ lastSent' = Encoded(pending)
      /\ writing'["exit"] = Silence
      /\ writing'["ui"] = IF Encoded(pending) = lastSent THEN Silence ELSE Encoded(pending)
  BY DEF StatusTypeOK, SentOrOnItsWay, FlushIfDirty, Writers
<1>5. SentOrOnItsWay'
  BY <1>2, <1>4 DEF SentOrOnItsWay, FlushIfDirty
<1>6. PendingWasSent'
  BY <1>4 DEF PendingWasSent, FlushIfDirty, Encoded
<1>7. EndIsLast'
  BY DEF EndIsLast, FlushIfDirty
<1> QED BY <1>3, <1>5, <1>6, <1>7

\* emit: what was on its way is on the host.
LEMMA EmitKeeps ==
  ASSUME StatusInv, NEW t \in Writers, Emit(t)
  PROVE  StatusInv'
<1> USE DEF StatusInv
<1>1. StatusTypeOK'
  BY Zenon DEF StatusTypeOK, Emit
<1>2. /\ writing[t] # Silence
      /\ host' = writing[t] /\ writing'[t] = Silence
      /\ \A u \in Writers : u # t => writing'[u] = writing[u]
  BY DEF StatusTypeOK, Emit
<1>3. SentOrOnItsWay'
  BY <1>2 DEF SentOrOnItsWay, Emit, Writers
<1>4. PendingWasSent'
  BY DEF PendingWasSent, Emit, Encoded
<1>5. EndIsLast'
  BY <1>2 DEF EndIsLast, Emit, Writers
<1> QED BY <1>1, <1>3, <1>4, <1>5

\* shutdown and abandon: reports are off, and the last record is on its way.
LEMMA EndKeeps ==
  ASSUME StatusInv,
         \/ StatusShutdown
         \/ Abandon
  PROVE  StatusInv'
<1> USE DEF StatusInv
<1>1. PICK t \in Writers, record \in {Clear, Interrupted} :
        EndWith(t, record) /\ (t = "ui" => record = Clear)
  BY DEF StatusShutdown, Abandon, Writers
<1>2. record \in Shown
  BY EndsAreShown
<1>3. StatusTypeOK'
  BY <1>1, <1>2, Zenon DEF StatusTypeOK, EndWith
<1>4. SentOrOnItsWay' /\ PendingWasSent'
  BY <1>1 DEF SentOrOnItsWay, PendingWasSent, EndWith
<1>5. EndIsLast'
  <2>1. CASE enabled
    BY <1>1, <2>1, EndsAreShown
    DEF StatusTypeOK, SentOrOnItsWay, EndIsLast, EndWith, Writers
  <2>2. CASE ~ enabled
    BY <1>1, <2>2 DEF EndIsLast, EndWith
  <2> QED BY <2>1, <2>2
<1> QED BY <1>3, <1>4, <1>5

\* The end of the process, and the next start.
LEMMA ProcessKeeps ==
  ASSUME StatusInv,
         \/ Vanish
         \/ StatusRestart
  PROVE  StatusInv'
<1> USE DEF StatusInv
<1>1. CASE Vanish
  <2>1. StatusTypeOK'
    BY <1>1, Zenon DEF StatusTypeOK, Vanish
  <2>2. SentOrOnItsWay' /\ PendingWasSent'
    BY <1>1 DEF SentOrOnItsWay, PendingWasSent, Vanish
  <2>3. EndIsLast'
    BY <1>1 DEF EndIsLast, Vanish, Writers
  <2> QED BY <2>1, <2>2, <2>3
<1>2. CASE StatusRestart
  <2>1. StatusTypeOK'
    BY <1>2, Zenon DEF StatusTypeOK, StatusRestart
  <2>2. SentOrOnItsWay' /\ PendingWasSent' /\ EndIsLast'
    BY <1>2 DEF SentOrOnItsWay, PendingWasSent, EndIsLast, StatusRestart, Writers
  <2> QED BY <2>1, <2>2
<1> QED BY <1>1, <1>2

LEMMA StatusStep == StatusInv /\ [StatusNext]_status => StatusInv'
<1> SUFFICES ASSUME StatusInv, [StatusNext]_status PROVE StatusInv'
  OBVIOUS
<1>1. CASE \E r \in Records : Report(r)
  BY <1>1, ReportKeeps
<1>2. CASE FlushIfDirty("ui")
  BY <1>2, FlushKeeps
<1>3. CASE \E t \in Writers : Emit(t)
  BY <1>3, EmitKeeps
<1>4. CASE StatusShutdown \/ Abandon
  BY <1>4, EndKeeps
<1>5. CASE Vanish \/ StatusRestart
  BY <1>5, ProcessKeeps
<1>6. CASE UNCHANGED status
  BY <1>6 DEF StatusInv, StatusTypeOK, SentOrOnItsWay, PendingWasSent, EndIsLast, Encoded, status
<1> QED BY <1>1, <1>2, <1>3, <1>4, <1>5, <1>6 DEF StatusNext

\* The invariant holds in every state of every run of the program.
THEOREM StatusInvariant == StatusSpec => []StatusInv
  BY StatusInvHolds, StatusStep, PTL DEF StatusSpec

\* The records and flags have their types (terminal_status.cpp).
THEOREM StatusTypes == StatusSpec => []StatusTypeOK
  BY StatusInvariant, PTL DEF StatusInv

\* While reports are on and none is due or under way, the host shows the newest one:
\* lastSent never makes flushIfDirty drop a record the host has not got.
THEOREM HostFollows == StatusSpec => []HostIsCurrent
<1>1. StatusInv => HostIsCurrent
  BY EncodedIsShown DEF StatusInv, StatusTypeOK, SentOrOnItsWay, PendingWasSent, HostIsCurrent
<1> QED BY <1>1, StatusInvariant, PTL

\* Once the UI's shutdown has written, the host shows the end, whatever was reported
\* or interrupted meanwhile.
THEOREM ShutdownClears == StatusSpec => []CleanExitClears
<1>1. StatusInv => CleanExitClears
  BY DEF StatusInv, EndIsLast, CleanExitClears
<1> QED BY <1>1, StatusInvariant, PTL

-----------------------------------------------------------------------------
(* The program drives TerminalStatus as its specification says *)

LEMMA AppStatusInit == AppInit => StatusInit
BY DEF AppInit

\* Every step of the program is one of the status protocol, or leaves it alone.
LEMMA AppStatusStep == [AppNext]_vars => [StatusNext]_status
<1> SUFFICES ASSUME [AppNext]_vars PROVE [StatusNext]_status
  OBVIOUS
<1>1. ASSUME NEW r \in Records, Posts(r) PROVE StatusNext
  BY <1>1 DEF Posts, StatusNext
<1>2. CASE User
  BY <1>2 DEF User, EnsureFile, NewChat, SwitchToDialog, Quit, Interrupt
<1>3. CASE UI
  <2>1. CASE SayUser \/ ClearChat
    BY <2>1 DEF SayUser, ClearChat
  <2>2. CASE Launch
    BY <1>1, <2>2 DEF Launch
  <2>3. CASE Shutdown
    BY <2>3 DEF Shutdown, Joined, CloseOnQuit, SayClear, StatusNext
  <2> QED
    BY <1>3, <2>1, <2>2, <2>3 DEF UI
<1>4. CASE Agent
  BY <1>1, <1>4 DEF Agent, Speak, ReportPhase, TurnEnds
<1>5. CASE InsertStep
  BY <1>5 DEF InsertStep
<1>6. CASE EmitStep
  BY <1>6 DEF EmitStep, StatusNext
<1>7. CASE EmergencyShutdown
  BY <1>7 DEF EmergencyShutdown, ExitJoined, ExitCloses, ExitAbandons, StatusNext
<1>8. CASE Exits \/ Crashes
  BY <1>8 DEF Exits, Crashes, Dies, StatusNext
<1>9. CASE Frame
  BY <1>9 DEF Frame, StatusNext
<1>10. CASE Start
  BY <1>10 DEF Start, StatusNext
<1>11. CASE Over \/ UNCHANGED vars
  BY <1>11 DEF Over, vars
<1> QED
  BY <1>2, <1>3, <1>4, <1>5, <1>6, <1>7, <1>8, <1>9, <1>10, <1>11 DEF AppNext, Threads

\* The whole program, crashes and restarts included, is a behaviour of TerminalStatus:
\* what is proved of the protocol holds of the program.
THEOREM AppImplementsStatus == AppSpec => StatusSpec
BY AppStatusInit, AppStatusStep, PTL DEF AppSpec, StatusSpec

\* While reports are on and none is due or under way, the host shows the newest one,
\* through turns, /clear, exits, crashes and restarts (terminal_status.cpp).
COROLLARY AppHostFollows == AppSpec => []HostIsCurrent
BY AppImplementsStatus, HostFollows, PTL

-----------------------------------------------------------------------------
(* The messages of a conversation as rows of a file *)

\* Positions can be counted.
LEMMA Counted ==
  ASSUME NEW n \in Nat, NEW S \in SUBSET (0 .. n)
  PROVE  IsFiniteSet(S) /\ Cardinality(S) \in Nat /\ \A i \in S : i \in Nat
<1>1. 0 \in Int /\ n \in Int
  OBVIOUS
<1>2. IsFiniteSet(0 .. n)
  BY <1>1, FS_Interval
<1>3. IsFiniteSet(S)
  BY <1>2, FS_Subset
<1> QED
  BY <1>3, FS_CardinalityType

\* In a finite set of positions every rank below the size is taken.
LEMMA RanksAreTaken ==
  ASSUME NEW n \in Nat, NEW S \in SUBSET (0 .. n), NEW k \in 0 .. (Cardinality(S) - 1)
  PROVE  \E i \in S : Cardinality({j \in S : j < i}) = k
<1> DEFINE below(i) == {j \in S : j < i}
           high == {i \in S : Cardinality(below(i)) >= k}
<1>1. IsFiniteSet(S) /\ Cardinality(S) \in Nat /\ \A i \in S : i \in Nat
  BY Counted
<1> HIDE DEF high
<1>some. S # {}
  <2>1. Cardinality(S) # 0
    BY <1>1
  <2> QED
    BY <2>1, FS_EmptySet
<1> USE DEF high
<1>2. \A i : IsFiniteSet(below(i)) /\ Cardinality(below(i)) \in Nat
  BY <1>1, FS_Subset, FS_CardinalityType
<1>3. Latest(S) \in S /\ \A i \in S : i <= Latest(S)
  BY <1>some, LatestIn
<1>4. Latest(S) \in high
  <2> DEFINE top == Latest(S)
  <2> HIDE DEF top
  <2>1. top \in S /\ \A i \in S : i <= top
    BY <1>3 DEF top
  <2>2. below(top) = S \ {top}
    <3> SUFFICES ASSUME NEW j \in S PROVE j < top <=> j # top
      OBVIOUS
    <3> QED
      BY <1>1, <2>1
  <2>3. Cardinality(S \ {top}) = Cardinality(S) - 1
    BY <1>1, <2>1, FS_RemoveElement
  <2> QED
    BY <1>1, <2>1, <2>2, <2>3 DEF top
<1>5. PICK i \in high : \A j \in high : i <= j
  <2>1. high \in SUBSET Nat /\ high # {}
    BY <1>1, <1>4
  <2> HIDE DEF high
  <2> QED
    BY <2>1, SmallestExists
<1>6. Cardinality(below(i)) <= k
  <2> SUFFICES ASSUME Cardinality(below(i)) > k PROVE FALSE
    BY <1>2
  <2> DEFINE B == below(i)
             p == Latest(B)
  <2>1. B \in SUBSET (0 .. n) /\ B # {} /\ Cardinality(B) \in Nat /\ Cardinality(B) > k
    <3>1. Cardinality(B) \in Nat /\ Cardinality(B) > k /\ k \in Nat
      BY <1>2
    <3>2. B # {}
      BY <3>1, FS_EmptySet
    <3> QED
      BY <3>1, <3>2
  <2> HIDE DEF B
  <2>2. p \in B /\ \A j \in B : j <= p
    BY <2>1, LatestIn
  <2> HIDE DEF p
  <2>3. p \in S /\ p < i
    BY <2>2 DEF B
  <2>4. below(p) = B \ {p}
    <3> SUFFICES ASSUME NEW j \in S PROVE j < p <=> j < i /\ j # p
      BY DEF B
    <3>1. j \in Nat /\ i \in Nat /\ p \in Nat
      BY <1>1, <2>3
    <3>2. j < i => j <= p
      BY <2>2 DEF B
    <3> QED
      BY <2>3, <3>1, <3>2
  <2>5. Cardinality(B \ {p}) = Cardinality(B) - 1
    <3>1. IsFiniteSet(B)
      BY <1>2 DEF B
    <3> QED
      BY <2>2, <3>1, FS_RemoveElement
  <2>6. p \in high
    BY <2>1, <2>3, <2>4, <2>5
  <2> QED
    BY <1>5, <2>3, <2>6
<1>7. Cardinality(below(i)) = k
  BY <1>2, <1>6
<1> QED
  BY <1>7

\* Messages lists a conversation as rows.
LEMMA MessagesAreRows ==
  ASSUME NEW l, NEW n, Fits(l, n)
  PROVE  Messages(l) \in Seq(Message) /\ Len(Messages(l)) = Cardinality(DOMAIN l)
<1>1. n \in Nat /\ IsLog(l) /\ DOMAIN l \in SUBSET (0 .. n)
  BY DEF Fits, IsLog
<1> DEFINE size == Cardinality(DOMAIN l)
           place(k) == CHOOSE i \in DOMAIN l : Cardinality({j \in DOMAIN l : j < i}) = k - 1
<1>2. size \in Nat
  BY <1>1, Counted
<1>3. \A k \in 1 .. size : l[place(k)] \in Message
  <2> TAKE k \in 1 .. size
  <2>1. k - 1 \in 0 .. (Cardinality(DOMAIN l) - 1)
    BY <1>2
  <2>2. \E i \in DOMAIN l : Cardinality({j \in DOMAIN l : j < i}) = k - 1
    BY <1>1, <2>1, RanksAreTaken
  <2>3. place(k) \in DOMAIN l
    BY <2>2
  <2> HIDE DEF place
  <2> QED
    BY <1>1, <2>3 DEF IsLog
<1>4. Messages(l) = [k \in 1 .. size |-> l[place(k)]]
  BY DEF Messages
<1> HIDE DEF size, place
<1>5. Messages(l) \in [1 .. size -> Message]
  BY <1>3, <1>4
<1>6. Messages(l) \in Seq(Message) /\ Len(Messages(l)) = size
  BY <1>2, <1>5, IsASeq, LenProperties
<1> QED
  BY <1>6 DEF size

LEMMA EmptyFits == Fits(Empty, 2) /\ Fits(Prompt, 4)
<1>1. Fits(Empty, 2)
  BY EmptyFacts DEF Fits
<1>2. Text("system") \in Message
  BY MessageTypes DEF Roles
<1> QED
  BY <1>1, <1>2, PutFits DEF Prompt

LEMMA LoadedFits ==
  ASSUME NEW rows \in Seq(Message)
  PROVE  Fits(Loaded(rows), 2 + 2 * Len(rows))
<1>1. Fits(Say(Empty, 2, rows), 2 + 2 * Len(rows))
  BY EmptyFits, SayFits
<1> QED
  BY <1>1, LessFits DEF Loaded

\* Of two positions the later one has the higher rank.
LEMMA RanksGrow ==
  ASSUME NEW n \in Nat, NEW S \in SUBSET (0 .. n), NEW i \in S, NEW j \in S, i < j
  PROVE  Cardinality({k \in S : k < i}) < Cardinality({k \in S : k < j})
<1> DEFINE I == {k \in S : k < i}
           J == {k \in S : k < j}
<1>1. i \in Nat /\ j \in Nat /\ \A k \in S : k \in Nat
  OBVIOUS
<1>2. I \in SUBSET J /\ i \in J /\ i \notin I
  <2>1. ASSUME NEW k \in S, k < i PROVE k < j
    BY <1>1, <2>1
  <2>2. i \in J /\ i \notin I
    BY <1>1
  <2> QED
    BY <2>1, <2>2
<1>3. IsFiniteSet(J) /\ Cardinality(I) \in Nat /\ Cardinality(J) \in Nat
  <2>1. I \in SUBSET (0 .. n) /\ J \in SUBSET (0 .. n)
    OBVIOUS
  <2> HIDE DEF I, J
  <2> QED
    BY <2>1, Counted
<1> HIDE DEF I, J
<1>4. Cardinality(I) <= Cardinality(J) /\ (Cardinality(J) = Cardinality(I) => J = I)
  BY <1>2, <1>3, FS_Subset
<1>5. Cardinality(I) # Cardinality(J)
  BY <1>2, <1>4
<1>6. Cardinality(I) < Cardinality(J)
  BY <1>3, <1>4, <1>5
<1> QED
  BY <1>6 DEF I, J

\* The positions a conversation is counted by, and the rows it is listed as.
Rank(l, i) == Cardinality({j \in DOMAIN l : j < i})

LEMMA RowOfRank ==
  ASSUME NEW l, NEW n, Fits(l, n)
  PROVE  /\ Cardinality(DOMAIN l) \in Nat
         /\ \A i \in DOMAIN l : /\ Rank(l, i) \in 0 .. (Cardinality(DOMAIN l) - 1)
                                /\ Messages(l)[Rank(l, i) + 1] = l[i]
         /\ \A k \in 1 .. Cardinality(DOMAIN l) : \E i \in DOMAIN l : Rank(l, i) = k - 1
         /\ \A i, j \in DOMAIN l : i < j => Rank(l, i) < Rank(l, j)
         /\ Messages(l) = [k \in 1 .. Cardinality(DOMAIN l) |-> Messages(l)[k]]
<1> DEFINE S == DOMAIN l
           size == Cardinality(S)
<1>1. n \in Nat /\ IsLog(l) /\ S \in SUBSET (0 .. n)
  BY DEF Fits, IsLog
<1>2. IsFiniteSet(S) /\ size \in Nat /\ \A i \in S : i \in Nat
  BY <1>1, Counted
<1>3. \A i, j \in S : i < j => Rank(l, i) < Rank(l, j)
  BY <1>1, RanksGrow DEF Rank
<1>4. \A i, j \in S : Rank(l, i) = Rank(l, j) => i = j
  <2> SUFFICES ASSUME NEW i \in S, NEW j \in S, Rank(l, i) = Rank(l, j), i # j PROVE FALSE
    OBVIOUS
  <2>1. i < j \/ j < i
    BY <1>2
  <2>2. Rank(l, i) \in Nat /\ Rank(l, j) \in Nat
    <3>1. \A k : {m \in S : m < k} \in SUBSET (0 .. n)
      BY <1>1
    <3> QED
      BY <1>1, <3>1, Counted DEF Rank
  <2> QED
    BY <1>3, <2>1, <2>2
<1>5. \A i \in S : Rank(l, i) \in 0 .. (size - 1)
  <2> SUFFICES ASSUME NEW i \in S PROVE Rank(l, i) \in 0 .. (size - 1)
    OBVIOUS
  <2> DEFINE I == {j \in S : j < i}
  <2>1. I \in SUBSET (S \ {i})
    BY <1>2
  <2> HIDE DEF I
  <2>2. IsFiniteSet(S \ {i}) /\ Cardinality(S \ {i}) = size - 1
    BY <1>2, FS_RemoveElement
  <2>3. IsFiniteSet(I) /\ Cardinality(I) <= size - 1
    BY <2>1, <2>2, FS_Subset
  <2>4. Cardinality(I) \in Nat
    BY <2>3, FS_CardinalityType
  <2> QED
    BY <1>2, <2>3, <2>4 DEF Rank, I
<1>6. \A k \in 1 .. size : \E i \in S : Rank(l, i) = k - 1
  <2> SUFFICES ASSUME NEW k \in 1 .. size PROVE \E i \in S : Rank(l, i) = k - 1
    OBVIOUS
  <2>1. k - 1 \in 0 .. (Cardinality(S) - 1)
    BY <1>2
  <2> QED
    BY <1>1, <2>1, RanksAreTaken DEF Rank
<1>7. Messages(l) = [k \in 1 .. size |-> l[CHOOSE i \in S : Rank(l, i) = k - 1]]
  BY DEF Messages, Rank
<1>8. \A i \in S : Messages(l)[Rank(l, i) + 1] = l[i]
  <2> SUFFICES ASSUME NEW i \in S PROVE Messages(l)[Rank(l, i) + 1] = l[i]
    OBVIOUS
  <2> DEFINE k == Rank(l, i) + 1
  <2>1. k \in 1 .. size /\ k - 1 = Rank(l, i)
    BY <1>2, <1>5
  <2> HIDE DEF k
  <2>2. (CHOOSE j \in S : Rank(l, j) = k - 1) = i
    BY <1>4, <2>1
  <2>3. Messages(l)[k] = l[i]
    BY <1>7, <2>1, <2>2
  <2> QED
    BY <2>3 DEF k
<1>9. Messages(l) = [k \in 1 .. size |-> Messages(l)[k]]
  BY <1>7
<1> HIDE DEF size
<1> QED
  BY <1>2, <1>3, <1>5, <1>6, <1>8, <1>9 DEF size

LEMMA CarriesCount ==
  ASSUME NEW a, NEW n, Fits(a, n), NEW b, NEW k, Fits(b, k), NEW h, Carries(h, a, b)
  PROVE  /\ Cardinality(DOMAIN a) = Cardinality(DOMAIN b)
         /\ \A i \in DOMAIN a : Rank(a, i) = Rank(b, h[i])
<1>1. /\ IsLog(a) /\ IsLog(b) /\ n \in Nat /\ DOMAIN a \in SUBSET (0 .. n)
  BY DEF Fits, IsLog
<1>2. /\ \A i \in DOMAIN a : h[i] \in DOMAIN b
      /\ \A i, j \in DOMAIN a : i < j <=> h[i] < h[j]
      /\ \A i, j \in DOMAIN a : h[i] = h[j] => i = j
      /\ \A l \in DOMAIN b : \E i \in DOMAIN a : h[i] = l
  BY <1>1, CarriesOrder DEF Carries
<1>3. ASSUME NEW X \in SUBSET DOMAIN a, NEW Y \in SUBSET DOMAIN b,
             \A i \in DOMAIN a : i \in X <=> h[i] \in Y
      PROVE  Cardinality(X) = Cardinality(Y)
  <2> DEFINE g == [i \in X |-> h[i]]
  <2>1. g \in [X -> Y]
    BY <1>2, <1>3
  <2>2. \A i, j \in X : g[i] = g[j] => i = j
    BY <1>2
  <2>3. \A l \in Y : \E i \in X : g[i] = l
    BY <1>2, <1>3
  <2> HIDE DEF g
  <2>4. g \in Bijection(X, Y)
    BY <2>1, <2>2, <2>3 DEF Bijection, Injection, Surjection, IsInjective
  <2>5. ExistsBijection(X, Y)
    BY <2>4 DEF ExistsBijection
  <2>6. IsFiniteSet(X)
    <3>1. X \in SUBSET (0 .. n)
      BY <1>1
    <3> QED
      BY <1>1, <3>1, Counted
  <2> QED
    BY <2>5, <2>6, FS_Bijection
<1>4. Cardinality(DOMAIN a) = Cardinality(DOMAIN b)
  <2>1. \A i \in DOMAIN a : i \in DOMAIN a <=> h[i] \in DOMAIN b
    BY <1>2
  <2> QED
    BY <1>3, <2>1
<1>5. ASSUME NEW i \in DOMAIN a PROVE Rank(a, i) = Rank(b, h[i])
  <2> DEFINE X == {j \in DOMAIN a : j < i}
             Y == {j \in DOMAIN b : j < h[i]}
  <2>1. /\ X \in SUBSET DOMAIN a /\ Y \in SUBSET DOMAIN b
        /\ \A j \in DOMAIN a : j \in X <=> h[j] \in Y
    BY <1>2
  <2> HIDE DEF X, Y
  <2>2. Cardinality(X) = Cardinality(Y)
    BY <1>3, <2>1
  <2> QED
    BY <2>2 DEF Rank, X, Y
<1> QED
  BY <1>4, <1>5

\* Conversations that are alike are listed as the same rows.
LEMMA AlikeMessages ==
  ASSUME NEW a, NEW n, Fits(a, n), NEW b, NEW k, Fits(b, k), Alike(a, b)
  PROVE  Messages(a) = Messages(b)
<1>1. PICK h : Carries(h, a, b)
  BY DEF Alike
<1> DEFINE size == Cardinality(DOMAIN a)
<1>2. /\ Cardinality(DOMAIN b) = size
      /\ \A i \in DOMAIN a : Rank(b, h[i]) = Rank(a, i) /\ h[i] \in DOMAIN b /\ b[h[i]] = a[i]
  BY <1>1, CarriesCount DEF Carries
<1>3. /\ \A i \in DOMAIN a : Messages(a)[Rank(a, i) + 1] = a[i]
      /\ \A r \in 1 .. size : \E i \in DOMAIN a : Rank(a, i) = r - 1
      /\ Messages(a) = [r \in 1 .. size |-> Messages(a)[r]]
  BY RowOfRank
<1>4. /\ \A j \in DOMAIN b : Messages(b)[Rank(b, j) + 1] = b[j]
      /\ Messages(b) = [r \in 1 .. Cardinality(DOMAIN b) |-> Messages(b)[r]]
  BY RowOfRank
<1>5. ASSUME NEW r \in 1 .. size PROVE Messages(a)[r] = Messages(b)[r]
  <2>1. PICK i \in DOMAIN a : Rank(a, i) = r - 1
    BY <1>3
  <2>2. Rank(a, i) + 1 = r /\ Rank(b, h[i]) + 1 = r
    BY <1>2, <1>3, <2>1
  <2>3. Messages(a)[r] = a[i]
    BY <1>3, <2>2
  <2>4. Messages(b)[r] = b[h[i]]
    BY <1>2, <1>4, <2>2
  <2> QED
    BY <1>2, <2>3, <2>4
<1> HIDE DEF size
<1> QED
  BY <1>2, <1>3, <1>4, <1>5

\* Read back, the rows of a conversation are alike to it.
LEMMA RowsAlike ==
  ASSUME NEW l, NEW n, Fits(l, n)
  PROVE  Alike(l, LoadedRaw(Messages(l)))
<1> DEFINE rows == Messages(l)
           back == LoadedRaw(rows)
           size == Cardinality(DOMAIN l)
           h == [i \in DOMAIN l |-> 2 + 2 * Rank(l, i)]
<1>1. /\ size \in Nat
      /\ \A i \in DOMAIN l : Rank(l, i) \in 0 .. (size - 1) /\ rows[Rank(l, i) + 1] = l[i]
      /\ \A k \in 1 .. size : \E i \in DOMAIN l : Rank(l, i) = k - 1
      /\ \A i, j \in DOMAIN l : i < j => Rank(l, i) < Rank(l, j)
  BY RowOfRank
<1>2. rows \in Seq(Message) /\ Len(rows) = size
  BY MessagesAreRows
<1> HIDE DEF rows
<1>3. /\ \A i \in DOMAIN back : \E k \in 1 .. size : i = 2 + 2 * (k - 1) /\ back[i] = rows[k]
      /\ \A k \in 1 .. size : 2 + 2 * (k - 1) \in DOMAIN back /\ back[2 + 2 * (k - 1)] = rows[k]
  BY <1>2, EmptyFits, EmptyFacts, SayFacts DEF LoadedRaw
<1> HIDE DEF back, size
<1>4. ASSUME NEW i \in DOMAIN l
      PROVE  h[i] = 2 + 2 * Rank(l, i) /\ h[i] \in DOMAIN back /\ back[h[i]] = l[i]
  <2> DEFINE k == Rank(l, i) + 1
  <2>1. k \in 1 .. size /\ 2 + 2 * (k - 1) = 2 + 2 * Rank(l, i) /\ rows[k] = l[i]
    BY <1>1
  <2> HIDE DEF k
  <2> QED
    BY <1>3, <2>1
<1>5. h \in [DOMAIN l -> DOMAIN back]
  BY <1>4
<1>6. ASSUME NEW i \in DOMAIN l, NEW j \in DOMAIN l, i < j PROVE h[i] < h[j]
  <2>1. Rank(l, i) \in Nat /\ Rank(l, j) \in Nat /\ Rank(l, i) < Rank(l, j)
    BY <1>1, <1>6
  <2> QED
    BY <1>4, <2>1
<1>7. ASSUME NEW k \in DOMAIN back PROVE \E i \in DOMAIN l : h[i] = k
  <2>1. PICK r \in 1 .. size : k = 2 + 2 * (r - 1)
    BY <1>3
  <2>2. PICK i \in DOMAIN l : Rank(l, i) = r - 1
    BY <1>1
  <2> QED
    BY <1>4, <2>1, <2>2
<1> HIDE DEF h
<1>8. Carries(h, l, back)
  BY <1>4, <1>5, <1>6, <1>7 DEF Carries
<1>9. Alike(l, back)
  BY <1>8 DEF Alike
<1> QED
  BY <1>9 DEF back, rows

-----------------------------------------------------------------------------
(* The types, and which thread may be where *)

ControlTypes ==
  /\ platform \in {"linux", "windows"}
  /\ agent \in {"off", "running"}
  /\ cancelled \in BOOLEAN /\ due \in BOOLEAN
  /\ ui \in {"loop", "sending", "clearing", "launching", "joining", "closing", "saying", "down",
             "off"}
  /\ exit \in {"none", "joining", "closing", "saying", "left"}
  /\ keys \in Nat /\ named \in Nat

\* The thread in a transaction has a message to write, and a file to write it to.
HolderWrites ==
  \A t \in Writing : holder = t => inserting[t] # NoMessage /\ open # Closed

\* A thread that is off writes nothing.  Outside its loop the UI thread has no agent
\* beside it, and while it writes itself it has none either.  From the close on nobody
\* writes, and only then the UI thread tells the host.
ThreadInv ==
  /\ agent = "off" => inserting["agent"] = NoMessage
  /\ ui \notin {"loop", "joining"} => agent = "off"
  /\ inserting["ui"] # NoMessage => agent = "off"
  /\ ui \in {"saying", "down", "off"} =>
       open = Closed /\ holder = Nobody /\ \A t \in Writing : inserting[t] = NoMessage
  /\ endedBy = "ui" => ui \in {"down", "off"}

Safe == StoreTypeOK /\ ControlTypes /\ HolderWrites /\ ThreadInv

LEMMA StoreConstants ==
  /\ Known \cap {Closed, Temporary} \subseteq Known
  /\ Recovery \in Known /\ Range(Files) \subseteq Known
  /\ \A k \in DOMAIN Files : Files[k] \in Known
  /\ "ui" \in Writing /\ "agent" \in Writing /\ Nobody \notin Writing
  /\ NoMessage \in Seq(Message) /\ Len(NoMessage) = 0
  /\ \A m \in Message : <<m>> \in Seq(Message) /\ Len(<<m>>) = 1 /\ <<m>> # NoMessage
BY DEF Known, Range, Writing, Nobody, NoMessage

LEMMA SafeInit == AppInit => Safe
<1> SUFFICES ASSUME AppInit PROVE Safe
  OBVIOUS
<1>1. HalfWritten \in Seq(Message)
  <2>1. Text("system") \in Message /\ Calling({4}) \in Message
    BY MessageTypes DEF Roles
  <2> QED
    BY <2>1 DEF HalfWritten
<1>2. Foreign \cup {Files[1]} \subseteq Known
  <2>1. 1 \in DOMAIN Files
    BY StoreAssumption
  <2> QED
    BY <2>1, StoreAssumption, StoreConstants
<1>3. disk \in [DOMAIN disk -> Seq(Message)] /\ DOMAIN disk \subseteq Known
  BY <1>1, <1>2 DEF AppInit, StoreInit
<1>4. /\ inserting \in [Writing -> Seq(Message)] /\ \A t \in Writing : Len(inserting[t]) <= 1
      /\ \A t \in Writing : inserting[t] = NoMessage
  BY StoreConstants DEF AppInit, StoreInit
<1>5. StoreTypeOK
  BY <1>3, <1>4, EmptyFits DEF AppInit, StoreInit, StoreTypeOK
<1>6. ControlTypes /\ HolderWrites /\ ThreadInv
  BY <1>4, StoreConstants DEF AppInit, StoreInit, StatusInit, ControlTypes, HolderWrites, ThreadInv
<1> QED
  BY <1>5, <1>6 DEF Safe

\* addPersistedMessage.
LEMMA AddTyped ==
  ASSUME Safe, NEW t \in Writing, NEW m \in Message, AddPersisted(t, m),
         UNCHANGED <<disk, open, holder, attached, file, faults>>
  PROVE  /\ StoreTypeOK' /\ HolderWrites'
         /\ \A u \in Writing : u # t => inserting'[u] = inserting[u]
<1>1. Fits(conv', next')
  BY PutFits DEF Safe, StoreTypeOK, AddPersisted
<1>2. /\ inserting' \in [Writing -> Seq(Message)] /\ \A u \in Writing : Len(inserting'[u]) <= 1
      /\ \A u \in Writing : inserting'[u] = inserting[u] \/ (u = t /\ inserting'[u] = <<m>>)
      /\ parted' \in BOOLEAN
  <2> DEFINE one == <<m>>
  <2>1. one \in Seq(Message) /\ Len(one) = 1
    BY StoreConstants
  <2>2. /\ \/ inserting' = [inserting EXCEPT ![t] = one]
           \/ inserting' = inserting
        /\ parted' \in BOOLEAN
    BY DEF Safe, StoreTypeOK, AddPersisted
  <2>3. inserting \in [Writing -> Seq(Message)] /\ \A u \in Writing : Len(inserting[u]) <= 1
    BY DEF Safe, StoreTypeOK
  <2> HIDE DEF one
  <2>4. CASE inserting' = [inserting EXCEPT ![t] = one]
    BY <2>1, <2>2, <2>3, <2>4 DEF one
  <2>5. CASE inserting' = inserting
    BY <2>2, <2>3, <2>5
  <2> QED
    BY <2>2, <2>4, <2>5
<1>3. StoreTypeOK'
  BY <1>1, <1>2 DEF Safe, StoreTypeOK
<1>4. HolderWrites'
  BY <1>2, StoreConstants DEF Safe, HolderWrites
<1> QED
  BY <1>2, <1>3, <1>4

LEMMA OneOrNone ==
  ASSUME NEW S, NEW s \in Seq(S), Len(s) <= 1, s # <<>>
  PROVE  Len(s) = 1 /\ s[1] \in S /\ s = <<s[1]>>
<1>1. Len(s) = 1
  <2>1. Len(s) \in Nat \ {0}
    BY EmptySeq
  <2> QED
    BY <2>1
<1>2. s[1] \in S
  BY <1>1, ElementOfSeq
<1> DEFINE one == <<s[1]>>
<1>3. one \in Seq(S) /\ Len(one) = 1 /\ one[1] = s[1]
  BY <1>2
<1> HIDE DEF one
<1>4. s = one
  BY <1>1, <1>3, SeqEqual
<1> QED
  BY <1>1, <1>2, <1>4 DEF one

\* The transaction around a message.
LEMMA InsertTyped ==
  ASSUME Safe, NEW t \in Writing,
         Begin(t) \/ Refuse(t) \/ Commit(t) \/ CommitInPart(t) \/ RollBack(t)
  PROVE  /\ StoreTypeOK' /\ HolderWrites' /\ inserting[t] # NoMessage
         /\ \A u \in Writing : inserting'[u] = inserting[u] \/ inserting'[u] = NoMessage
<1> USE DEF Safe
<1>1. inserting[t] # NoMessage
  BY DEF HolderWrites, Begin, Refuse, Commit, CommitInPart, RollBack
<1>2. /\ inserting \in [Writing -> Seq(Message)] /\ \A u \in Writing : Len(inserting[u]) <= 1
      /\ disk \in [DOMAIN disk -> Seq(Message)] /\ DOMAIN disk \subseteq Known
  BY DEF StoreTypeOK
<1>3. /\ inserting[t] \in Seq(Message) /\ Len(inserting[t]) = 1
      /\ inserting[t][1] \in Message /\ inserting[t] = <<inserting[t][1]>>
  <2>1. inserting[t] \in Seq(Message) /\ Len(inserting[t]) <= 1 /\ inserting[t] # <<>>
    BY <1>1, <1>2 DEF NoMessage
  <2> QED
    BY <2>1, OneOrNone
<1>4. Given(t) => /\ inserting' \in [Writing -> Seq(Message)]
                  /\ \A u \in Writing : Len(inserting'[u]) <= 1
                  /\ \A u \in Writing : inserting'[u] = inserting[u] \/ inserting'[u] = NoMessage
                  /\ \A u \in Writing : u # t => inserting'[u] = inserting[u]
  BY <1>2, StoreConstants DEF Given
<1>5. CASE Begin(t)
  <2>1. StoreTypeOK'
    BY <1>5 DEF StoreTypeOK, Begin
  <2>2. HolderWrites'
    BY <1>5, StoreConstants DEF HolderWrites, Begin
  <2> QED
    BY <1>1, <1>5, <2>1, <2>2 DEF Begin
<1>6. CASE Refuse(t)
  <2>1. StoreTypeOK'
    BY <1>4, <1>6 DEF StoreTypeOK, Refuse
  <2>2. HolderWrites'
    BY <1>4, <1>6 DEF HolderWrites, Refuse, StoreTypeOK
  <2> QED
    BY <1>1, <1>4, <1>6, <2>1, <2>2 DEF Refuse
<1>7. ASSUME NEW rows \in Seq(Message), holder' = Nobody, Given(t), parted' \in BOOLEAN, faults' \in Nat,
             disk' = disk \/ (open \in DOMAIN disk /\ disk' = [disk EXCEPT ![open] = rows]),
             UNCHANGED <<open, attached, conv, next, file>>
      PROVE  StoreTypeOK' /\ HolderWrites'
  <2>1. disk' \in [DOMAIN disk' -> Seq(Message)] /\ DOMAIN disk' \subseteq Known
    BY <1>2, <1>7
  <2>2. StoreTypeOK'
    BY <1>4, <1>7, <2>1 DEF StoreTypeOK
  <2>3. HolderWrites'
    BY <1>7, StoreConstants DEF HolderWrites
  <2> QED
    BY <2>2, <2>3
<1>8. open \in DOMAIN disk => disk[open] \in Seq(Message)
  BY <1>2
<1>9. CASE Commit(t)
  <2>1. CASE open \in DOMAIN disk
    <3>1. disk[open] \o inserting[t] \in Seq(Message)
      BY <1>3, <1>8, <2>1
    <3>2. disk' = [disk EXCEPT ![open] = disk[open] \o inserting[t]]
      BY <1>9, <2>1 DEF Commit
    <3> QED
      BY <1>1, <1>4, <1>7, <1>9, <2>1, <3>1, <3>2 DEF Commit, StoreTypeOK
  <2>2. CASE open \notin DOMAIN disk
    BY <1>1, <1>4, <1>7, <1>9, <2>2, EmptySeq DEF Commit, StoreTypeOK
  <2> QED
    BY <2>1, <2>2
<1>10. CASE CommitInPart(t)
  <2>1. PICK k \in inserting[t][1].calls :
          disk' = [disk EXCEPT ![open] =
                    Append(@, [inserting[t][1] EXCEPT !.calls = {id \in @ : id < k}])]
    BY <1>10 DEF CommitInPart
  <2> DEFINE part == [inserting[t][1] EXCEPT !.calls = {id \in @ : id < k}]
  <2>2. part \in Message
    BY <1>3 DEF Message
  <2> HIDE DEF part
  <2>3. open \in DOMAIN disk /\ Append(disk[open], part) \in Seq(Message)
    BY <1>8, <1>10, <2>2 DEF CommitInPart
  <2>4. disk' = [disk EXCEPT ![open] = Append(disk[open], part)]
    BY <2>1, <2>3 DEF part
  <2>5. faults' \in Nat
    BY <1>10 DEF CommitInPart, Fault, StoreTypeOK
  <2> QED
    BY <1>1, <1>4, <1>7, <1>10, <2>3, <2>4, <2>5 DEF CommitInPart, StoreTypeOK
<1>11. CASE RollBack(t)
  <2>1. faults' \in Nat
    BY <1>11 DEF RollBack, Fault, StoreTypeOK
  <2> QED
    BY <1>1, <1>4, <1>7, <1>11, <2>1, EmptySeq DEF RollBack, StoreTypeOK
<1> QED
  BY <1>5, <1>6, <1>9, <1>10, <1>11

\* closeDatabase: the thread in a transaction loses its message.
LEMMA TornTyped ==
  ASSUME StoreTypeOK, Torn
  PROVE  /\ holder' = Nobody
         /\ inserting' \in [Writing -> Seq(Message)] /\ \A u \in Writing : Len(inserting'[u]) <= 1
         /\ \A u \in Writing : inserting'[u] = inserting[u] \/ inserting'[u] = NoMessage
BY StoreConstants DEF StoreTypeOK, Torn

\* A thread holds nothing once nobody holds.
LEMMA NobodyHolds ==
  ASSUME holder' = Nobody PROVE HolderWrites'
BY StoreConstants DEF HolderWrites

\* createDatabase keeps what is there.
LEMMA CreatedTyped ==
  ASSUME StoreTypeOK, NEW f \in Known, NEW rows \in Seq(Message)
  PROVE  /\ Created(f, rows) \in [DOMAIN Created(f, rows) -> Seq(Message)]
         /\ DOMAIN Created(f, rows) \subseteq Known
BY DEF StoreTypeOK, Created

LEMMA EnsureTyped ==
  ASSUME Safe, EnsureStorage
  PROVE  StoreTypeOK' /\ HolderWrites' /\ UNCHANGED <<holder, inserting>>
<1> USE DEF Safe
<1>1. CASE UNCHANGED store
  BY <1>1 DEF store, StoreTypeOK, HolderWrites
<1>2. CASE /\ open = Closed /\ Fault
           /\ UNCHANGED <<disk, open, holder, inserting, attached, conv, next, file, parted>>
  BY <1>2 DEF StoreTypeOK, HolderWrites, Fault
<1>3. ASSUME open = Closed, NEW k \in DOMAIN Files, Files[k] \notin DOMAIN disk,
             disk' = Created(Files[k], Messages(Restrict(conv, Of(conv, "system")))),
             open' = Files[k], file' = Files[k], attached' = TRUE,
             parted' = (\E i \in DOMAIN conv : conv[i].role # "system"),
             UNCHANGED <<holder, inserting, conv, next, faults>>
      PROVE  StoreTypeOK' /\ HolderWrites'
  <2> DEFINE kept == Restrict(conv, Of(conv, "system"))
             rows == Messages(kept)
  <2>1. Fits(conv, next)
    BY DEF StoreTypeOK
  <2>2. Fits(kept, next)
    BY <2>1 DEF Fits, IsLog, Of, Restrict
  <2>3. rows \in Seq(Message)
    BY <2>2, MessagesAreRows
  <2> HIDE DEF rows
  <2>4. disk' = Created(Files[k], rows)
    BY <1>3 DEF rows
  <2>5. disk' \in [DOMAIN disk' -> Seq(Message)] /\ DOMAIN disk' \subseteq Known
    BY <2>3, <2>4, StoreConstants, CreatedTyped DEF StoreTypeOK
  <2>6. StoreTypeOK'
    BY <1>3, <2>5, StoreConstants DEF StoreTypeOK
  <2>7. holder = Nobody
    BY <1>3 DEF StoreTypeOK, HolderWrites
  <2> QED
    BY <1>3, <2>6, <2>7, NobodyHolds
<1>4. \/ UNCHANGED store
      \/ /\ open = Closed /\ Fault
         /\ UNCHANGED <<disk, open, holder, inserting, attached, conv, next, file, parted>>
      \/ /\ open = Closed
         /\ \E k \in DOMAIN Files :
              /\ Files[k] \notin DOMAIN disk
              /\ disk' = Created(Files[k], Messages(Restrict(conv, Of(conv, "system"))))
              /\ open' = Files[k] /\ file' = Files[k]
         /\ attached' = TRUE
         /\ parted' = (\E i \in DOMAIN conv : conv[i].role # "system")
         /\ UNCHANGED <<holder, inserting, conv, next, faults>>
  BY DEF EnsureStorage
<1>5. UNCHANGED <<holder, inserting>>
  BY <1>4 DEF store
<1> QED
  BY <1>1, <1>2, <1>3, <1>4, <1>5

\* F5: what is read is a conversation, whichever file was reached and however far it
\* was read.
LEMMA SwitchTyped ==
  ASSUME Safe, SwitchToDialog
  PROVE  StoreTypeOK' /\ HolderWrites'
<1> USE DEF Safe
<1>1. Torn
  BY DEF SwitchToDialog
<1>2. /\ disk \in [DOMAIN disk -> Seq(Message)] /\ DOMAIN disk \subseteq Known
      /\ open \in Known \cup {Temporary, Closed}
  BY DEF StoreTypeOK
<1>3. PICK f \in Range(Files) \cap DOMAIN disk : Reached(f)
  BY DEF SwitchToDialog
<1>4. Before \in Known \cup {Temporary, Closed}
  BY <1>2 DEF Before
<1>5. open' \in Known \cup {Temporary, Closed} /\ faults' \in Nat
  BY <1>3, <1>4, StoreConstants DEF Reached, Fault, StoreTypeOK
<1>6. disk' \in [DOMAIN disk' -> Seq(Message)] /\ DOMAIN disk' \subseteq Known
  <2>1. <<>> \in Seq(Message)
    OBVIOUS
  <2>2. CASE disk' = disk
    BY <1>2, <2>2
  <2>3. CASE disk' = Created(Recovery, <<>>)
    BY <2>1, <2>3, StoreConstants, CreatedTyped DEF StoreTypeOK
  <2> QED
    BY <1>3, <2>2, <2>3 DEF Reached
<1>7. Fits(conv', next') /\ parted' \in BOOLEAN
  <2> DEFINE rows == Rows(disk', open')
  <2>1. rows \in Seq(Message)
    BY <1>6 DEF Rows
  <2>2. PICK n \in {Len(rows), Len(rows) - 1} \cap Nat :
          /\ conv' = Loaded(SubSeq(rows, 1, n)) /\ next' = 2 + 2 * n
          /\ parted' = (n < Len(rows) \/ open' = Temporary \/ InFlight # <<>>)
    BY DEF SwitchToDialog, Read
  <2> HIDE DEF rows
  <2>3. SubSeq(rows, 1, n) \in Seq(Message) /\ Len(SubSeq(rows, 1, n)) = n
    <3>1. Len(rows) \in Nat
      BY <2>1, LenProperties
    <3>2. n \in 0 .. Len(rows)
      BY <2>2, <3>1
    <3>3. \A k \in 1 .. n : rows[k] \in Message
      BY <2>1, <3>1, <3>2, ElementOfSeq
    <3> QED
      BY <3>2, <3>3
  <2>4. Fits(Loaded(SubSeq(rows, 1, n)), 2 + 2 * n)
    BY <2>3, LoadedFits
  <2>5. parted' \in BOOLEAN
    BY <2>2
  <2> QED
    BY <2>2, <2>4, <2>5
<1>8. /\ holder' = Nobody
      /\ inserting' \in [Writing -> Seq(Message)] /\ \A u \in Writing : Len(inserting'[u]) <= 1
  BY <1>1, TornTyped
<1>9. file' \in Known \cup {Closed} /\ attached' \in BOOLEAN
  BY DEF SwitchToDialog
<1>10. StoreTypeOK'
  BY <1>5, <1>6, <1>7, <1>8, <1>9 DEF StoreTypeOK
<1> QED
  BY <1>8, <1>10, NobodyHolds

LEMMA UnfinishedAreIds ==
  ASSUME StoreTypeOK
  PROVE  Unfinished(conv) \in SUBSET Nat
<1>1. IsLog(conv) /\ next \in Nat /\ DOMAIN conv \in SUBSET (0 .. next)
  BY DEF StoreTypeOK, Fits, IsLog
<1>2. \A i \in Callers(conv) : conv[i].calls \in SUBSET Nat
  BY <1>1 DEF Callers, IsLog, Message
<1>3. Callers(conv) # {} => Latest(Callers(conv)) \in Callers(conv)
  <2>1. Callers(conv) \in SUBSET (0 .. next)
    BY <1>1 DEF Callers
  <2> QED
    BY <1>1, <2>1, LatestIn
<1> QED
  BY <1>2, <1>3 DEF Unfinished

\* The agent writes messages: the next result is of a call that still waits for one.
LEMMA NextAreMessages ==
  ASSUME StoreTypeOK, named \in Nat
  PROVE  NextMessages \subseteq Message
<1>1. Unfinished(conv) \in SUBSET Nat
  BY UnfinishedAreIds
<1>2. Text("assistant") \in Message /\ Calling({named, named + 1}) \in Message
  BY MessageTypes DEF Roles
<1>3. ASSUME Unfinished(conv) # {}
      PROVE  Result(CHOOSE id \in Unfinished(conv) : \A other \in Unfinished(conv) : id <= other,
                    FALSE) \in Message
  <2>1. \E id \in Unfinished(conv) : \A other \in Unfinished(conv) : id <= other
    BY <1>1, <1>3, SmallestExists
  <2> DEFINE id == CHOOSE i \in Unfinished(conv) : \A other \in Unfinished(conv) : i <= other
  <2>2. id \in Unfinished(conv)
    BY <2>1
  <2> HIDE DEF id
  <2>3. Result(id, FALSE) \in Message
    BY <1>1, <2>2, MessageTypes
  <2> QED
    BY <2>3 DEF id
<1> QED
  BY <1>2, <1>3 DEF NextMessages

LEMMA ControlStep == Safe /\ [AppNext]_vars => ControlTypes'
<1> SUFFICES ASSUME Safe, [AppNext]_vars PROVE ControlTypes'
  OBVIOUS
<1> USE DEF Safe, ControlTypes
<1>1. CASE EnsureFile
  BY <1>1 DEF EnsureFile, Key
<1>2. CASE NewChat
  BY <1>2 DEF NewChat, Key
<1>3. CASE SwitchToDialog
  BY <1>3 DEF SwitchToDialog, Key
<1>4. CASE Quit \/ Interrupt
  BY <1>4 DEF Quit, Interrupt
<1>5. CASE SayUser \/ ClearChat
  BY <1>5 DEF SayUser, ClearChat
<1>6. CASE Launch
  BY <1>6 DEF Launch, Posts
<1>7. CASE Shutdown
  BY <1>7 DEF Shutdown, Joined, CloseOnQuit, SayClear
<1>8. CASE Speak \/ InsertStep \/ EmitStep
  BY <1>8 DEF Speak, InsertStep, EmitStep, app
<1>9. CASE ReportPhase \/ TurnEnds
  BY <1>9 DEF ReportPhase, TurnEnds, Posts
<1>10. CASE EmergencyShutdown
  BY <1>10 DEF EmergencyShutdown, ExitJoined, ExitCloses, ExitAbandons
<1>11. CASE Exits \/ Crashes
  BY <1>11 DEF Exits, Crashes, Dies
<1>12. CASE Frame
  BY <1>12 DEF Frame
<1>13. CASE Start
  BY <1>13 DEF Start, Key
<1>14. CASE Over \/ UNCHANGED vars
  BY <1>14 DEF Over, vars, app
<1> QED
  BY <1>1, <1>2, <1>3, <1>4, <1>5, <1>6, <1>7, <1>8, <1>9, <1>10, <1>11, <1>12, <1>13, <1>14
  DEF AppNext, User, Threads, UI, Agent

LEMMA StoreStep == Safe /\ [AppNext]_vars => StoreTypeOK' /\ HolderWrites'
<1> SUFFICES ASSUME Safe, [AppNext]_vars PROVE StoreTypeOK' /\ HolderWrites'
  OBVIOUS
<1> USE DEF Safe
<1>1. ASSUME UNCHANGED store PROVE StoreTypeOK' /\ HolderWrites'
  BY <1>1 DEF store, StoreTypeOK, HolderWrites
<1>2. CASE EnsureFile
  BY <1>2, EnsureTyped DEF EnsureFile
<1>3. CASE NewChat
  <2>1. /\ holder' = Nobody
        /\ inserting' \in [Writing -> Seq(Message)] /\ \A u \in Writing : Len(inserting'[u]) <= 1
    BY <1>3, TornTyped DEF NewChat
  <2>2. StoreTypeOK'
    BY <1>3, <2>1, EmptyFits DEF NewChat, StoreTypeOK
  <2> QED
    BY <2>1, <2>2, NobodyHolds
<1>4. CASE SwitchToDialog
  BY <1>4, SwitchTyped
<1>5. CASE SayUser
  <2>1. Text("user") \in Message
    BY MessageTypes DEF Roles
  <2> QED
    BY <1>5, <2>1, AddTyped, StoreConstants DEF SayUser
<1>6. CASE Speak
  <2>1. PICK m \in NextMessages : AddPersisted("agent", m)
    BY <1>6 DEF Speak
  <2>2. m \in Message
    BY <2>1, NextAreMessages DEF ControlTypes
  <2> QED
    BY <1>6, <2>1, <2>2, AddTyped, StoreConstants DEF Speak
<1>7. CASE ClearChat
  <2> DEFINE one == <<Text("system")>>
  <2>1. one \in Seq(Message) /\ Len(one) = 1 /\ one # NoMessage
    BY MessageTypes, StoreConstants DEF Roles
  <2> HIDE DEF one
  <2>2. inserting' = [inserting EXCEPT !["ui"] = IF attached /\ open # Closed THEN one ELSE @]
    BY <1>7 DEF ClearChat, one
  <2>3. /\ inserting' \in [Writing -> Seq(Message)] /\ \A u \in Writing : Len(inserting'[u]) <= 1
        /\ \A u \in Writing : inserting'[u] = inserting[u] \/ inserting'[u] = one
    <3>1. inserting \in [Writing -> Seq(Message)] /\ \A u \in Writing : Len(inserting[u]) <= 1
      BY DEF StoreTypeOK
    <3>2. CASE attached /\ open # Closed
      <4>1. inserting' = [inserting EXCEPT !["ui"] = one]
        BY <2>2, <3>2
      <4>2. inserting' \in [Writing -> Seq(Message)]
        BY <2>1, <3>1, <4>1
      <4>3. \A u \in Writing : inserting'[u] = inserting[u] \/ inserting'[u] = one
        BY <3>1, <4>1
      <4>4. \A u \in Writing : Len(inserting'[u]) <= 1
        <5> SUFFICES ASSUME NEW u \in Writing PROVE Len(inserting'[u]) <= 1
          OBVIOUS
        <5>1. CASE inserting'[u] = inserting[u]
          BY <3>1, <5>1
        <5>2. CASE inserting'[u] = one
          <6>1. Len(one) <= 1
            BY <2>1
          <6> QED
            BY <5>2, <6>1
        <5> QED
          BY <4>3, <5>1, <5>2
      <4> QED
        BY <4>2, <4>3, <4>4
    <3>3. CASE ~ (attached /\ open # Closed)
      <4>1. inserting' = [inserting EXCEPT !["ui"] = inserting["ui"]]
        BY <2>2, <3>3
      <4>2. inserting' = inserting
        BY <3>1, <4>1
      <4> QED
        BY <3>1, <4>2
    <3> QED
      BY <3>2, <3>3
  <2>4. StoreTypeOK'
    BY <1>7, <2>3, EmptyFits DEF ClearChat, StoreTypeOK
  <2>5. HolderWrites'
    BY <1>7, <2>1, <2>3 DEF ClearChat, HolderWrites
  <2> QED
    BY <2>4, <2>5
<1>8. CASE InsertStep
  <2>1. PICK t \in Writing :
          Begin(t) \/ Refuse(t) \/ Commit(t) \/ CommitInPart(t) \/ RollBack(t)
    BY <1>8 DEF InsertStep
  <2> QED
    BY <2>1, InsertTyped
<1>9. ASSUME CloseFile, UNCHANGED <<disk, attached, conv, next, file, faults>>
      PROVE  StoreTypeOK' /\ HolderWrites'
  <2>1. /\ holder' = Nobody
        /\ inserting' \in [Writing -> Seq(Message)] /\ \A u \in Writing : Len(inserting'[u]) <= 1
    BY <1>9, TornTyped DEF CloseFile
  <2>2. StoreTypeOK'
    BY <1>9, <2>1 DEF CloseFile, StoreTypeOK
  <2> QED
    BY <2>1, <2>2, NobodyHolds
<1>10. CASE Shutdown
  BY <1>1, <1>9, <1>10 DEF Shutdown, Joined, CloseOnQuit, SayClear
<1>11. CASE EmergencyShutdown
  BY <1>1, <1>9, <1>11 DEF EmergencyShutdown, ExitJoined, ExitCloses, ExitAbandons
<1>12. CASE Exits \/ Crashes
  <2>1. Dies
    BY <1>12 DEF Exits, Crashes
  <2>2. inserting' \in [Writing -> Seq(Message)] /\ \A u \in Writing : Len(inserting'[u]) <= 1
    BY <2>1, StoreConstants DEF Dies
  <2>3. StoreTypeOK'
    BY <2>1, <2>2, EmptyFits DEF Dies, StoreTypeOK
  <2> QED
    BY <2>1, <2>3, NobodyHolds DEF Dies
<1>13. CASE Quit \/ Interrupt \/ Launch \/ ReportPhase \/ TurnEnds \/ EmitStep \/ Frame \/ Start
             \/ Over \/ UNCHANGED vars
  BY <1>1, <1>13 DEF Quit, Interrupt, Launch, ReportPhase, TurnEnds, EmitStep, Frame, Start, Over,
                     vars
<1> QED
  BY <1>2, <1>3, <1>4, <1>5, <1>6, <1>7, <1>8, <1>10, <1>11, <1>12, <1>13
  DEF AppNext, User, Threads, UI, Agent

\* A step that gives nobody a message, moves no thread and ends no report.
LEMMA QuietThreads ==
  ASSUME Safe, UNCHANGED <<agent, ui, endedBy>>,
         \A t \in Writing : inserting'[t] = inserting[t] \/ inserting'[t] = NoMessage,
         open' = open \/ open' = Closed \/ ui \notin {"saying", "down", "off"},
         holder' = holder \/ holder' = Nobody \/ ui \notin {"saying", "down", "off"}
  PROVE  ThreadInv'
BY StoreConstants DEF Safe, ThreadInv

LEMMA ThreadStep == Safe /\ [AppNext]_vars => ThreadInv'
<1> SUFFICES ASSUME Safe, [AppNext]_vars PROVE ThreadInv'
  OBVIOUS
<1> USE DEF Safe
<1>1. ASSUME UNCHANGED <<store, agent, ui, endedBy>> PROVE ThreadInv'
  BY <1>1, QuietThreads DEF store
<1>2. CASE EnsureFile
  <2>1. UNCHANGED <<holder, inserting>> /\ ui = "loop" /\ agent = "off"
    BY <1>2, EnsureTyped DEF EnsureFile, UIAt
  <2> QED
    BY <1>2, <2>1 DEF EnsureFile, ThreadInv, status
<1>3. CASE NewChat \/ SwitchToDialog
  <2>1. Torn /\ ui = "loop" /\ UNCHANGED <<agent, ui, endedBy>>
    BY <1>3 DEF NewChat, SwitchToDialog, UIAt, status
  <2> QED
    BY <2>1, TornTyped, QuietThreads
<1>4. CASE SayUser
  <2>1. Text("user") \in Message
    BY MessageTypes DEF Roles
  <2>2. inserting'["agent"] = inserting["agent"]
    BY <1>4, <2>1, AddTyped, StoreConstants DEF SayUser
  <2> QED
    BY <1>4, <2>2 DEF SayUser, UIAt, ThreadInv, status
<1>5. CASE Speak
  <2>1. PICK m \in NextMessages : AddPersisted("agent", m)
    BY <1>5 DEF Speak
  <2>2. m \in Message
    BY <2>1, NextAreMessages DEF ControlTypes
  <2>3. inserting'["ui"] = inserting["ui"]
    BY <1>5, <2>1, <2>2, AddTyped, StoreConstants DEF Speak
  <2> QED
    BY <1>5, <2>3 DEF Speak, ThreadInv, status, app
<1>6. CASE ClearChat
  <2>1. inserting'["agent"] = inserting["agent"]
    BY <1>6 DEF ClearChat, StoreTypeOK, Writing
  <2> QED
    BY <1>6, <2>1 DEF ClearChat, UIAt, ThreadInv, status
<1>7. CASE InsertStep
  <2>1. PICK t \in Writing :
          Begin(t) \/ Refuse(t) \/ Commit(t) \/ CommitInPart(t) \/ RollBack(t)
    BY <1>7 DEF InsertStep
  <2>2. /\ inserting[t] # NoMessage
        /\ \A u \in Writing : inserting'[u] = inserting[u] \/ inserting'[u] = NoMessage
    BY <2>1, InsertTyped
  <2>3. ui \notin {"saying", "down", "off"}
    BY <2>2 DEF ThreadInv
  <2> QED
    BY <1>7, <2>2, <2>3, QuietThreads DEF InsertStep, status, app
<1>8. CASE Launch
  BY <1>8 DEF Launch, UIAt, Posts, Report, ThreadInv, store
<1>9. CASE Shutdown
  <2>1. CASE Joined
    BY <1>9, <2>1 DEF Shutdown, Joined, UIAt, ThreadInv, store, status
  <2>2. CASE CloseOnQuit
    <3>1. /\ holder' = Nobody /\ open' = Closed
          /\ \A u \in Writing : inserting'[u] = inserting[u] \/ inserting'[u] = NoMessage
      BY <2>2, TornTyped DEF CloseOnQuit, CloseFile
    <3>2. \A u \in Writing : inserting[u] = NoMessage
      BY <2>2 DEF CloseOnQuit, UIAt, ThreadInv, Writing
    <3> QED
      BY <1>9, <2>2, <3>1, <3>2, StoreConstants DEF Shutdown, CloseOnQuit, UIAt, ThreadInv, status
  <2>3. CASE SayClear
    BY <1>9, <2>3, StoreConstants
    DEF Shutdown, SayClear, UIAt, StatusShutdown, EndWith, ThreadInv, store
  <2> QED
    BY <1>9, <2>1, <2>2, <2>3 DEF Shutdown
<1>10. CASE ReportPhase
  BY <1>1, <1>10 DEF ReportPhase, Posts, Report
<1>11. CASE TurnEnds
  BY <1>11 DEF TurnEnds, Posts, Report, ThreadInv, store
<1>12. CASE EmergencyShutdown
  <2>1. CASE ExitJoined
    BY <1>1, <1>12, <2>1 DEF EmergencyShutdown, ExitJoined, status
  <2>2. CASE ExitCloses
    BY <1>12, <2>2, TornTyped, QuietThreads
    DEF EmergencyShutdown, ExitCloses, CloseFile, status
  <2>3. CASE ExitAbandons
    BY <1>12, <2>3, StoreConstants
    DEF EmergencyShutdown, ExitAbandons, Abandon, EndWith, ThreadInv, store
  <2> QED
    BY <1>12, <2>1, <2>2, <2>3 DEF EmergencyShutdown
<1>13. CASE Exits \/ Crashes
  <2>1. Dies
    BY <1>13 DEF Exits, Crashes
  <2> QED
    BY <2>1, StoreConstants DEF Dies, Vanish, ThreadInv
<1>14. CASE Start
  BY <1>14 DEF Start, StatusRestart, ThreadInv, store
<1>15. CASE Quit \/ Interrupt
  BY <1>15 DEF Quit, Interrupt, UIAt, ThreadInv, store, status
<1>16. CASE EmitStep
  BY <1>1, <1>16 DEF EmitStep, Emit, app
<1>17. CASE Frame
  BY <1>1, <1>17 DEF Frame, FlushIfDirty, status
<1>18. CASE Over \/ UNCHANGED vars
  BY <1>1, <1>18 DEF Over, vars, app, status
<1> QED
  BY <1>2, <1>3, <1>4, <1>5, <1>6, <1>7, <1>8, <1>9, <1>10, <1>11, <1>12, <1>13, <1>14, <1>15,
     <1>16, <1>17, <1>18
  DEF AppNext, User, Threads, UI, Agent

LEMMA SafeInvariant == AppSpec => []Safe
<1>1. Safe /\ [AppNext]_vars => Safe'
  BY ControlStep, StoreStep, ThreadStep DEF Safe
<1> QED
  BY SafeInit, <1>1, PTL DEF AppSpec

\* A report that waits has asked for a frame that is still to come.
LEMMA DueStep == Safe /\ ReportIsDue /\ [AppNext]_vars => ReportIsDue'
<1> SUFFICES ASSUME ReportIsDue, [AppNext]_vars PROVE ReportIsDue'
  OBVIOUS
<1>1. ASSUME due' = due \/ due' = TRUE, UNCHANGED status PROVE ReportIsDue'
  BY <1>1 DEF ReportIsDue, status
<1>2. ASSUME NEW r \in Records, Posts(r) PROVE ReportIsDue'
  BY <1>2 DEF Posts, ReportIsDue
<1>3. CASE User
  BY <1>1, <1>3 DEF User, EnsureFile, NewChat, SwitchToDialog, Quit, Interrupt
<1>4. CASE SayUser \/ ClearChat \/ Speak \/ InsertStep
  BY <1>1, <1>4 DEF SayUser, ClearChat, Speak, InsertStep, app
<1>5. CASE Launch
  BY <1>2, <1>5 DEF Launch
<1>6. CASE ReportPhase \/ TurnEnds
  BY <1>2, <1>6 DEF ReportPhase, TurnEnds
<1>7. CASE Shutdown
  BY <1>1, <1>7 DEF Shutdown, Joined, CloseOnQuit, SayClear, StatusShutdown, EndWith, ReportIsDue
<1>8. CASE EmergencyShutdown
  BY <1>1, <1>8
  DEF EmergencyShutdown, ExitJoined, ExitCloses, ExitAbandons, Abandon, EndWith, ReportIsDue
<1>9. CASE Exits \/ Crashes
  BY <1>9 DEF Exits, Crashes, Dies, Vanish, ReportIsDue
<1>10. CASE EmitStep
  BY <1>10 DEF EmitStep, Emit, app, ReportIsDue
<1>11. CASE Frame
  BY <1>11 DEF Frame, FlushIfDirty, status, ReportIsDue
<1>12. CASE Start
  BY <1>12 DEF Start, StatusRestart, ReportIsDue
<1>13. CASE Over \/ UNCHANGED vars
  BY <1>1, <1>13 DEF Over, vars, app
<1> QED
  BY <1>3, <1>4, <1>5, <1>6, <1>7, <1>8, <1>9, <1>10, <1>11, <1>12, <1>13
  DEF AppNext, Threads, UI, Agent

\* The types hold, no two threads are ever in insertMessage (Storage has no lock) and no
\* report waits without a frame to flush it, whatever the user, the threads, the exit
\* handler, a crash or the disk do.
THEOREM AppTheorem == AppSpec => []AppInv
<1>1. AppInit => ReportIsDue
  BY DEF AppInit, StatusInit, ReportIsDue
<1>2. Safe => OneWriter
  BY StoreConstants DEF Safe, ThreadInv, OneWriter
<1>3. Safe /\ StatusTypeOK => AppTypeOK
  BY DEF Safe, ControlTypes, AppTypeOK
<1>4. AppSpec => []StatusTypeOK
  BY AppImplementsStatus, StatusTypes, PTL
<1>5. Safe /\ StatusTypeOK /\ ReportIsDue => AppInv
  BY <1>2, <1>3 DEF AppInv
<1> QED
  BY <1>1, <1>4, <1>5, SafeInvariant, DueStep, PTL DEF AppSpec

\* When the host is told of the regular end, the file is closed with every message in
\* it, and no thread is left that would write another one (TuiApp::shutdown).
THEOREM ClearTheorem == AppSpec => []ClearMeansSaved
<1>1. Safe => ClearMeansSaved
  <2> SUFFICES ASSUME Safe, endedBy = "ui"
               PROVE  open = Closed /\ holder = Nobody /\ InFlight = <<>> /\ agent = "off"
    BY DEF ClearMeansSaved
  <2>1. ui \in {"down", "off"}
    BY DEF Safe, ThreadInv
  <2>2. /\ open = Closed /\ holder = Nobody /\ agent = "off"
        /\ inserting["ui"] = <<>> /\ inserting["agent"] = <<>>
    BY <2>1, StoreConstants DEF Safe, ThreadInv, NoMessage
  <2>3. <<>> \o <<>> = <<>>
    OBVIOUS
  <2> QED
    BY <2>2, <2>3 DEF InFlight
<1> QED
  BY <1>1, SafeInvariant, PTL

-----------------------------------------------------------------------------
(* The file and the session *)

\* The session is what the rows of its file were repaired to when they were read, and
\* what came since: what came answers no call from before.
KeptAs(log, rows) ==
  \E n \in Nat :
    /\ n <= 2 + 2 * Len(rows)
    /\ OwnRounds(LoadedRaw(rows), n)
    /\ Alike(log, Continued(LoadedRaw(rows), n))

Kept == file # Closed /\ ~ parted => KeptAs(conv, Rows(disk, file) \o InFlight)

\* A file that is open, or was, is on the disk.
FilesThere ==
  /\ file # Closed => file \in DOMAIN disk
  /\ open \in Known => open \in DOMAIN disk

\* One more row is one more message behind the others.
LEMMA RawPut ==
  ASSUME NEW rows \in Seq(Message), NEW m \in Message
  PROVE  /\ Fits(LoadedRaw(rows), 2 + 2 * Len(rows))
         /\ Len(rows \o <<m>>) = Len(rows) + 1
         /\ LoadedRaw(rows \o <<m>>) = Put(LoadedRaw(rows), 2 + 2 * Len(rows), m)
<1> DEFINE one == <<m>>
           more == rows \o one
           a == Say(Empty, 2, rows)
           b == Say(Empty, 2, more)
           top == 2 + 2 * Len(rows)
           size == Len(rows)
<1>1. one \in Seq(Message) /\ Len(one) = 1 /\ one[1] = m
  OBVIOUS
<1> HIDE DEF one
<1>2. /\ more \in Seq(Message) /\ Len(more) = size + 1 /\ size \in Nat
      /\ \A k \in 1 .. size : more[k] = rows[k]
      /\ more[size + 1] = m
  <2>1. size \in Nat /\ rows \in Seq(Message)
    BY LenProperties
  <2>2. /\ more \in Seq(Message) /\ Len(more) = size + 1
        /\ \A k \in 1 .. (size + 1) :
             more[k] = IF k <= size THEN rows[k] ELSE one[k - size]
    <3>1. /\ more \in Seq(Message) /\ Len(more) = size + Len(one)
          /\ \A k \in 1 .. (size + Len(one)) :
               more[k] = IF k <= size THEN rows[k] ELSE one[k - size]
      <4>1. one \in Seq(Message) /\ rows \in Seq(Message)
        BY <1>1
      <4> QED
        BY <4>1, ConcatProperties
    <3> HIDE DEF more, size
    <3> QED
      BY <1>1, <3>1
  <2> HIDE DEF more, size
  <2>3. \A k \in 1 .. size : k \in 1 .. (size + 1) /\ k <= size
    BY <2>1
  <2>4. size + 1 \in 1 .. (size + 1) /\ ~ (size + 1 <= size) /\ (size + 1) - size = 1
    BY <2>1
  <2> QED
    BY <1>1, <2>1, <2>2, <2>3, <2>4
<1> HIDE DEF more
<1>3. Fits(a, top)
  BY EmptyFits, SayFits
<1>4. /\ \A i \in DOMAIN a : \E k \in 1 .. size : i = 2 + 2 * (k - 1) /\ a[i] = rows[k]
      /\ \A k \in 1 .. size : 2 + 2 * (k - 1) \in DOMAIN a /\ a[2 + 2 * (k - 1)] = rows[k]
  BY EmptyFits, EmptyFacts, SayFacts
<1>5. /\ \A i \in DOMAIN b : \E k \in 1 .. (size + 1) : i = 2 + 2 * (k - 1) /\ b[i] = more[k]
      /\ \A k \in 1 .. (size + 1) : 2 + 2 * (k - 1) \in DOMAIN b /\ b[2 + 2 * (k - 1)] = more[k]
  <2>1. /\ \A i \in DOMAIN b : \E k \in 1 .. Len(more) : i = 2 + 2 * (k - 1) /\ b[i] = more[k]
        /\ \A k \in 1 .. Len(more) : /\ 2 + 2 * (k - 1) \in DOMAIN b
                                     /\ b[2 + 2 * (k - 1)] = more[k]
    <3>1. more \in Seq(Message) /\ Fits(Empty, 2)
      BY <1>2, EmptyFits
    <3> HIDE DEF size
    <3>2. /\ \A i \in DOMAIN b \ DOMAIN Empty :
               \E k \in 1 .. Len(more) : i = 2 + 2 * (k - 1) /\ b[i] = more[k]
          /\ \A k \in 1 .. Len(more) : /\ 2 + 2 * (k - 1) \in DOMAIN b
                                       /\ b[2 + 2 * (k - 1)] = more[k]
      BY <3>1, SayFacts
    <3> HIDE DEF b
    <3> QED
      BY <3>2, EmptyFacts
  <2>2. Len(more) = size + 1
    BY <1>2
  <2> HIDE DEF b, size
  <2> QED
    BY <2>1, <2>2
<1>6. IsLog(b) /\ b = [i \in DOMAIN b |-> b[i]]
  <2>1. Fits(b, 2 + 2 * Len(more))
    BY <1>2, EmptyFits, SayFits
  <2> QED
    BY <2>1 DEF Fits, IsLog
<1> HIDE DEF a, b, size
<1>7. top = 2 + 2 * ((size + 1) - 1)
  BY <1>2 DEF size
<1> HIDE DEF top
<1>8. top \in DOMAIN b /\ b[top] = m
  <2>1. size + 1 \in 1 .. (size + 1)
    BY <1>2
  <2> QED
    BY <1>2, <1>5, <1>7, <2>1
<1>9. \A i \in DOMAIN a : i \in DOMAIN b /\ b[i] = a[i] /\ i # top
  <2> SUFFICES ASSUME NEW i \in DOMAIN a PROVE i \in DOMAIN b /\ b[i] = a[i] /\ i # top
    OBVIOUS
  <2>1. PICK k \in 1 .. size : i = 2 + 2 * (k - 1) /\ a[i] = rows[k]
    BY <1>4
  <2>2. k \in 1 .. (size + 1) /\ more[k] = rows[k] /\ k # size + 1
    BY <1>2
  <2> QED
    BY <1>2, <1>5, <1>7, <2>1, <2>2
<1>10. \A i \in DOMAIN b : i \in DOMAIN a \/ i = top
  <2> SUFFICES ASSUME NEW i \in DOMAIN b PROVE i \in DOMAIN a \/ i = top
    OBVIOUS
  <2>1. PICK k \in 1 .. (size + 1) : i = 2 + 2 * (k - 1)
    BY <1>5
  <2>2. k \in 1 .. size \/ k = size + 1
    BY <1>2
  <2> QED
    BY <1>4, <1>7, <2>1, <2>2
<1>11. DOMAIN b = DOMAIN a \cup {top}
  BY <1>8, <1>9, <1>10
<1>12. b = [i \in DOMAIN a \cup {top} |-> IF i = top THEN m ELSE a[i]]
  BY <1>6, <1>8, <1>9, <1>11
<1>13. b = Put(a, top, m)
  BY <1>12 DEF Put
<1> QED
  BY <1>2, <1>3, <1>13 DEF a, b, top, more, one, size, LoadedRaw

\* What is written behind both keeps them together, when it answers only a call that
\* waits.
LEMMA KeptPut ==
  ASSUME NEW log, NEW n, Fits(log, n), NEW rows \in Seq(Message), KeptAs(log, rows),
         NEW m \in Message, m.role = "tool" => Waits(log)
  PROVE  KeptAs(Put(log, n, m), rows \o <<m>>)
<1> DEFINE raw == LoadedRaw(rows)
           top == 2 + 2 * Len(rows)
           more == LoadedRaw(rows \o <<m>>)
<1>1. Fits(raw, top) /\ Len(rows \o <<m>>) = Len(rows) + 1 /\ more = Put(raw, top, m)
  BY RawPut
<1>2. PICK k \in Nat : k <= top /\ OwnRounds(raw, k) /\ Alike(log, Continued(raw, k))
  BY DEF KeptAs
<1>3. top \in Nat /\ Len(rows) \in Nat
  BY LenProperties
<1>4. k <= 2 + 2 * Len(rows \o <<m>>)
  BY <1>1, <1>2, <1>3
<1> HIDE DEF raw, top, more
<1>5. /\ IsLog(raw) /\ IsLog(log) /\ n \in Nat
      /\ \A i \in DOMAIN raw : i \in Nat /\ i < top
      /\ \A i \in DOMAIN log : i < n
  BY <1>1 DEF Fits, IsLog
<1>6. Continued(more, k) = Put(Continued(raw, k), top, m)
  BY <1>1, <1>2, <1>3, <1>5, PutContinued
<1>7. IsLog(Continued(raw, k)) /\ \A i \in DOMAIN Continued(raw, k) : i < top
  <2>1. /\ IsLog(Continued(raw, k))
        /\ DOMAIN Continued(raw, k) = DOMAIN Repair(Early(raw, k)) \cup {i \in DOMAIN raw : k <= i}
        /\ \A i \in DOMAIN Repair(Early(raw, k)) : i \in DOMAIN raw
    BY <1>5, ContinuedFacts
  <2> QED
    BY <1>5, <2>1
<1>8. Alike(Put(log, n, m), Continued(more, k))
  BY <1>2, <1>3, <1>5, <1>6, <1>7, PutAlike
<1>9. OwnRounds(more, k)
  <2> SUFFICES ASSUME NEW j \in Of(more, "tool"), k <= j
               PROVE  \E i \in Of(more, "assistant") : k <= i /\ i < j
    BY DEF OwnRounds
  <2>1. /\ DOMAIN more = DOMAIN raw \cup {top} /\ more[top] = m
        /\ \A i \in DOMAIN raw : i # top /\ more[i] = raw[i]
    BY <1>1, <1>3, <1>5 DEF Put
  <2>2. \A i \in Of(raw, "assistant") : i \in Of(more, "assistant") /\ i < top
    BY <1>5, <2>1 DEF Of
  <2>3. CASE j # top
    <3>1. j \in Of(raw, "tool")
      BY <2>1, <2>3 DEF Of
    <3>2. PICK i \in Of(raw, "assistant") : k <= i /\ i < j
      BY <1>2, <3>1 DEF OwnRounds
    <3> QED
      BY <2>2, <3>2
  <2>4. CASE j = top
    <3>1. Waits(log)
      BY <2>1, <2>4 DEF Of
    <3>2. Waits(Continued(raw, k))
      BY <1>2, <1>5, <1>7, <3>1, AlikeWaits
    <3>3. PICK i \in Of(raw, "assistant") : k <= i
      BY <1>5, <3>2, WaitsBehind
    <3> QED
      BY <2>2, <2>4, <3>3
  <2> QED
    BY <2>3, <2>4
<1> QED
  BY <1>4, <1>8, <1>9 DEF KeptAs, more

\* Kept, the two are repaired to the same.
LEMMA KeptRepairs ==
  ASSUME NEW log, NEW n, Fits(log, n), NEW rows \in Seq(Message), KeptAs(log, rows)
  PROVE  Messages(Repair(log)) = Messages(Loaded(rows))
<1> DEFINE raw == LoadedRaw(rows)
           top == 2 + 2 * Len(rows)
<1>1. Fits(raw, top) /\ IsLog(raw)
  <2>1. Fits(raw, top)
    BY EmptyFits, SayFits DEF LoadedRaw
  <2> QED
    BY <2>1 DEF Fits
<1>2. PICK k \in Nat : OwnRounds(raw, k) /\ Alike(log, Continued(raw, k))
  BY DEF KeptAs
<1>3. Loaded(rows) = Repair(raw)
  BY DEF Loaded, LoadedRaw
<1> HIDE DEF raw
<1>4. Repair(Continued(raw, k)) = Repair(raw) /\ IsLog(Continued(raw, k)) /\ IsLog(log)
  BY <1>1, <1>2, RepairContinues, ContinuedFacts DEF Fits
<1>5. Alike(Repair(log), Repair(raw))
  BY <1>2, <1>4, RepairIgnoresGaps
<1>6. Fits(Repair(log), n) /\ Fits(Repair(raw), top)
  BY <1>1, LessFits
<1> QED
  BY <1>3, <1>5, <1>6, AlikeMessages

\* A file that was just read is kept, and so is one that was just made for the leading
\* messages.
LEMMA KeptAtOnce ==
  ASSUME NEW rows \in Seq(Message), NEW log, Alike(log, Loaded(rows))
  PROVE  KeptAs(log, rows)
<1> DEFINE raw == LoadedRaw(rows)
           top == 2 + 2 * Len(rows)
<1>1. Fits(raw, top)
  BY EmptyFits, SayFits DEF LoadedRaw
<1>2. IsLog(raw) /\ top \in Nat /\ \A i \in DOMAIN raw : i < top
  BY <1>1 DEF Fits
<1>3. Loaded(rows) = Repair(raw)
  BY DEF Loaded, LoadedRaw
<1> HIDE DEF raw
<1>4. Continued(raw, top) = Repair(raw) /\ OwnRounds(raw, top)
  BY <1>2, ContinuedAtEnd
<1>5. top <= 2 + 2 * Len(rows)
  BY <1>2
<1> QED
  BY <1>2, <1>3, <1>4, <1>5 DEF KeptAs, raw

LEMMA KeptWhenMade ==
  ASSUME NEW log, NEW n, Fits(log, n), \A i \in DOMAIN log : log[i].role = "system"
  PROVE  KeptAs(log, Messages(log))
<1> DEFINE rows == Messages(log)
           raw == LoadedRaw(rows)
<1>1. rows \in Seq(Message)
  BY MessagesAreRows
<1>2. IsLog(log) /\ Repair(log) = log
  BY NothingToRepair DEF Fits
<1>3. Alike(log, raw)
  BY RowsAlike
<1> HIDE DEF rows
<1>4. IsLog(raw) /\ Loaded(rows) = Repair(raw)
  <2>1. Fits(raw, 2 + 2 * Len(rows))
    BY <1>1, EmptyFits, SayFits DEF LoadedRaw
  <2> QED
    BY <2>1 DEF Fits, Loaded, LoadedRaw
<1> HIDE DEF raw
<1>5. Alike(log, Loaded(rows))
  BY <1>2, <1>3, <1>4, RepairIgnoresGaps
<1> QED
  BY <1>1, <1>5, KeptAtOnce DEF rows

\* The next result answers a call that waits.
LEMMA UnfinishedWaits ==
  ASSUME NEW log, NEW n, Fits(log, n), Unfinished(log) # {}
  PROVE  Waits(log)
<1> DEFINE last == Latest(Callers(log))
<1>1. Callers(log) # {}
  BY DEF Unfinished
<1>2. last \in Callers(log)
  <2>1. Callers(log) \in SUBSET (0 .. n) /\ n \in Nat
    BY DEF Callers, Fits, IsLog
  <2> QED
    BY <1>1, <2>1, LatestIn
<1>3. /\ \A i \in DOMAIN log \ Followers(log, last) : ~ (i > last)
      /\ log[last].calls \ {log[j].id : j \in Followers(log, last)} # {}
  BY <1>1 DEF Unfinished
<1> HIDE DEF last
<1>4. PICK id \in log[last].calls : \A j \in Followers(log, last) : log[j].id # id
  BY <1>3
<1>5. \A i \in DOMAIN log : i \in Nat
  BY DEF Fits, IsLog
<1>6. \A j \in Of(log, "tool") : last < j => j \in Followers(log, last)
  BY <1>2, <1>3, <1>5 DEF Of, Callers
<1> QED
  BY <1>2, <1>4, <1>6 DEF Waits

LEMMA FilesThereStep == Safe /\ FilesThere /\ [AppNext]_vars => FilesThere'
<1> SUFFICES ASSUME Safe, FilesThere, [AppNext]_vars PROVE FilesThere'
  OBVIOUS
<1>0. Closed \notin Known /\ Temporary \notin Known
  BY StoreAssumption DEF Known, Closed, Temporary, Recovery
<1>1. ASSUME DOMAIN disk \subseteq DOMAIN disk', open' = open \/ open' = Closed,
             file' = file \/ file' = Closed
      PROVE  FilesThere'
  BY <1>0, <1>1 DEF FilesThere
<1>2. CASE EnsureFile
  <2>1. EnsureStorage
    BY <1>2 DEF EnsureFile
  <2>2. ASSUME NEW k \in DOMAIN Files, NEW rows, disk' = Created(Files[k], rows),
               open' = Files[k], file' = Files[k]
        PROVE  FilesThere'
    <3>1. Files[k] \in DOMAIN disk'
      BY <2>2 DEF Created
    <3> QED
      BY <2>2, <3>1 DEF FilesThere
  <2>3. \/ UNCHANGED <<disk, open, file>>
        \/ \E k \in DOMAIN Files :
             /\ disk' = Created(Files[k], Messages(Restrict(conv, Of(conv, "system"))))
             /\ open' = Files[k] /\ file' = Files[k]
    BY <2>1 DEF EnsureStorage, store
  <2> QED
    BY <1>1, <2>2, <2>3
<1>3. CASE NewChat
  BY <1>1, <1>3 DEF NewChat
<1>4. CASE SwitchToDialog
  <2>1. PICK f \in Range(Files) \cap DOMAIN disk : Reached(f)
    BY <1>4 DEF SwitchToDialog
  <2>2. file' = IF open' \in Known THEN open' ELSE Closed
    BY <1>4 DEF SwitchToDialog
  <2>3. open' \in Known => open' \in DOMAIN disk'
    <3>1. Before \in Known => Before \in DOMAIN disk
      BY <1>0 DEF FilesThere, Before
    <3>2. CASE open' = (IF f \in Foreign THEN Before ELSE f) /\ disk' = disk
      BY <2>1, <3>1, <3>2
    <3>3. CASE open' \in {Before, Recovery, Closed}
               /\ disk' = IF open' = Recovery THEN Created(Recovery, <<>>) ELSE disk
      <4>1. CASE open' = Recovery
        BY <3>3, <4>1 DEF Created
      <4>2. CASE open' # Recovery
        BY <1>0, <3>1, <3>3, <4>2
      <4> QED
        BY <4>1, <4>2
    <3> QED
      BY <2>1, <3>2, <3>3 DEF Reached
  <2> QED
    BY <2>2, <2>3 DEF FilesThere
<1>5. CASE SayUser \/ ClearChat
  BY <1>1, <1>5 DEF SayUser, ClearChat
<1>6. CASE Launch
  BY <1>1, <1>6 DEF Launch, store
<1>7. CASE Shutdown
  BY <1>1, <1>7 DEF Shutdown, Joined, CloseOnQuit, CloseFile, SayClear, store
<1>8. CASE Speak
  BY <1>1, <1>8 DEF Speak
<1>9. CASE ReportPhase \/ TurnEnds
  BY <1>1, <1>9 DEF ReportPhase, TurnEnds, store
<1>10. CASE InsertStep
  <2>1. PICK t \in Writing :
          Begin(t) \/ Refuse(t) \/ Commit(t) \/ CommitInPart(t) \/ RollBack(t)
    BY <1>10 DEF InsertStep
  <2>2. UNCHANGED <<open, file>>
    BY <2>1 DEF Begin, Refuse, Commit, CommitInPart, RollBack
  <2>3. DOMAIN disk \subseteq DOMAIN disk'
    BY <2>1 DEF Begin, Refuse, Commit, CommitInPart, RollBack
  <2> QED
    BY <1>1, <2>2, <2>3
<1>11. CASE EmergencyShutdown
  BY <1>1, <1>11
  DEF EmergencyShutdown, ExitJoined, ExitCloses, CloseFile, ExitAbandons, store
<1>12. CASE Exits \/ Crashes
  BY <1>1, <1>12 DEF Exits, Crashes, Dies
<1>13. CASE Quit \/ Interrupt \/ EmitStep \/ Frame \/ Start
  BY <1>1, <1>13 DEF Quit, Interrupt, EmitStep, Frame, Start, store
<1>14. CASE Over \/ UNCHANGED vars
  BY <1>1, <1>14 DEF Over, vars, store
<1> QED
  BY <1>2, <1>3, <1>4, <1>5, <1>6, <1>7, <1>8, <1>9, <1>10, <1>11, <1>12, <1>13, <1>14
  DEF AppNext, User, Threads, UI, Agent

\* One thread at most has a message in hand.
LEMMA OneInHand ==
  ASSUME NEW hands \in [Writing -> Seq(Message)], NEW t \in Writing,
         \A u \in Writing : u # t => hands[u] = NoMessage
  PROVE  hands["ui"] \o hands["agent"] = hands[t]
<1>1. hands[t] \in Seq(Message) /\ t \in {"ui", "agent"}
  BY DEF Writing
<1>2. hands[t] \o <<>> = hands[t] /\ <<>> \o hands[t] = hands[t]
  BY <1>1, ConcatEmptySeq
<1>3. CASE t = "ui"
  BY <1>2, <1>3 DEF Writing, NoMessage
<1>4. CASE t = "agent"
  BY <1>2, <1>4 DEF Writing, NoMessage
<1> QED
  BY <1>1, <1>3, <1>4

LEMMA OthersIdle ==
  ASSUME Safe, NEW t \in Writing, inserting[t] # NoMessage
  PROVE  \A u \in Writing : u # t => inserting[u] = NoMessage
BY DEF Safe, ThreadInv, Writing

LEMMA NoneInHand ==
  ASSUME \A u \in Writing : inserting[u] = NoMessage
  PROVE  InFlight = <<>>
<1>1. <<>> \o <<>> = <<>>
  OBVIOUS
<1> QED
  BY <1>1 DEF InFlight, Writing, NoMessage

LEMMA RowsAreMessages ==
  ASSUME StoreTypeOK
  PROVE  Rows(disk, file) \in Seq(Message) /\ InFlight \in Seq(Message)
BY DEF StoreTypeOK, Rows, InFlight, Writing

\* addPersistedMessage keeps them together: the message is in the session and in hand.
LEMMA AddKept ==
  ASSUME Safe, Safe', Kept, NEW t \in Writing, NEW m \in Message, AddPersisted(t, m),
         UNCHANGED <<disk, open, holder, attached, file, faults>>,
         m.role # "system", m.role = "tool" => Waits(conv)
  PROVE  Kept'
<1> SUFFICES ASSUME file # Closed, ~ parted' PROVE KeptAs(conv', Rows(disk, file) \o InFlight')
  BY DEF Kept
<1>1. /\ inserting[t] = NoMessage /\ conv' = Put(conv, next, m)
      /\ inserting' = [inserting EXCEPT ![t] = <<m>>] /\ ~ parted
  BY DEF AddPersisted
<1>2. inserting \in [Writing -> Seq(Message)] /\ inserting' \in [Writing -> Seq(Message)]
  BY DEF Safe, StoreTypeOK
<1>3. inserting'[t] = <<m>> /\ inserting'[t] # NoMessage
  BY <1>1, <1>2 DEF NoMessage
<1>4. \A u \in Writing : u # t => inserting'[u] = NoMessage /\ inserting[u] = NoMessage
  <2>1. \A u \in Writing : u # t => inserting'[u] = NoMessage
    BY <1>3 DEF Safe, ThreadInv, Writing
  <2> QED
    BY <1>1, <1>2, <2>1
<1>5. InFlight' = <<m>> /\ InFlight = <<>>
  <2>1. InFlight' = inserting'[t]
    BY <1>2, <1>4, OneInHand DEF InFlight
  <2>2. InFlight = <<>>
    BY <1>1, <1>4, NoneInHand
  <2> QED
    BY <1>3, <2>1, <2>2
<1> DEFINE rows == Rows(disk, file)
<1>6. rows \in Seq(Message)
  BY RowsAreMessages DEF Safe
<1> HIDE DEF rows
<1>7. rows \o <<>> = rows
  BY <1>6, ConcatEmptySeq
<1>8. KeptAs(conv, rows)
  BY <1>1, <1>5, <1>7 DEF Kept, rows
<1>9. KeptAs(Put(conv, next, m), rows \o <<m>>)
  BY <1>6, <1>8, KeptPut DEF Safe, StoreTypeOK
<1> QED
  BY <1>1, <1>5, <1>9 DEF rows

\* A commit moves the message from the hand to the file.
LEMMA CommitKept ==
  ASSUME Safe, Safe', FilesThere, Kept, NEW t \in Writing, Commit(t)
  PROVE  Kept'
<1> SUFFICES ASSUME file # Closed, ~ parted' PROVE KeptAs(conv', Rows(disk', file) \o InFlight')
  BY DEF Kept, Commit
<1>1. /\ holder = t /\ open = file /\ ~ parted /\ conv' = conv /\ file' = file
      /\ inserting' = [inserting EXCEPT ![t] = NoMessage]
  BY DEF Commit, Given
<1>2. inserting \in [Writing -> Seq(Message)] /\ disk \in [DOMAIN disk -> Seq(Message)]
  BY DEF Safe, StoreTypeOK
<1>3. inserting[t] # NoMessage
  BY <1>1 DEF Safe, HolderWrites
<1>4. \A u \in Writing : u # t => inserting[u] = NoMessage
  BY <1>3, OthersIdle
<1>5. InFlight = inserting[t]
  BY <1>2, <1>4, OneInHand DEF InFlight
<1>6. InFlight' = <<>>
  <2>1. \A u \in Writing : inserting'[u] = NoMessage
    BY <1>1, <1>2, <1>4
  <2>2. <<>> \o <<>> = <<>>
    OBVIOUS
  <2> QED
    BY <2>1, <2>2 DEF InFlight, Writing, NoMessage
<1>7. file \in DOMAIN disk
  BY DEF FilesThere
<1>8. disk' = [disk EXCEPT ![file] = @ \o inserting[t]]
  BY <1>1, <1>7 DEF Commit
<1>9. Rows(disk', file) = disk[file] \o inserting[t] /\ Rows(disk, file) = disk[file]
  BY <1>2, <1>7, <1>8 DEF Rows
<1>10. Rows(disk', file) \o <<>> = Rows(disk', file)
  <2>1. disk[file] \o inserting[t] \in Seq(Message)
    BY <1>2, <1>7, ConcatProperties
  <2> QED
    BY <1>9, <2>1, ConcatEmptySeq
<1>11. KeptAs(conv, Rows(disk, file) \o InFlight)
  BY <1>1 DEF Kept
<1> QED
  BY <1>1, <1>5, <1>6, <1>9, <1>10, <1>11

\* Closing loses only what was in a transaction, and then says so.
LEMMA CloseKept ==
  ASSUME Safe, Kept, CloseFile, UNCHANGED <<disk, attached, conv, next, file, faults>>
  PROVE  Kept'
<1> SUFFICES ASSUME ~ parted' PROVE Kept'
  BY DEF Kept
<1>1. holder = Nobody /\ ~ parted
  BY DEF CloseFile
<1>2. inserting' = inserting
  BY <1>1, StoreConstants DEF CloseFile, Torn, Safe, StoreTypeOK
<1> QED
  BY <1>1, <1>2 DEF Kept, InFlight

LEMMA EnsureKept ==
  ASSUME Safe, Kept, EnsureFile
  PROVE  Kept'
<1> SUFFICES ASSUME file' # Closed, ~ parted' PROVE KeptAs(conv', Rows(disk', file') \o InFlight')
  BY DEF Kept
<1>1. UNCHANGED <<conv, inserting>> /\ EnsureStorage
  BY DEF EnsureFile, EnsureStorage, store
<1>2. CASE UNCHANGED <<disk, file, parted>>
  BY <1>1, <1>2 DEF Kept, InFlight
<1>3. ASSUME NEW k \in DOMAIN Files, Files[k] \notin DOMAIN disk,
             disk' = Created(Files[k], Messages(Restrict(conv, Of(conv, "system")))),
             file' = Files[k],
             parted' = (\E i \in DOMAIN conv : conv[i].role # "system")
      PROVE  KeptAs(conv', Rows(disk', file') \o InFlight')
  <2>1. Fits(conv, next) /\ IsLog(conv)
    BY DEF Safe, StoreTypeOK, Fits
  <2>2. \A i \in DOMAIN conv : conv[i].role = "system"
    BY <1>3
  <2>3. Of(conv, "system") = DOMAIN conv
    BY <2>2 DEF Of
  <2>4. Restrict(conv, Of(conv, "system")) = conv
    BY <2>1, <2>3 DEF Restrict, IsLog
  <2> DEFINE rows == Messages(conv)
  <2>5. KeptAs(conv, rows) /\ rows \in Seq(Message)
    BY <2>1, <2>2, KeptWhenMade, MessagesAreRows
  <2> HIDE DEF rows
  <2>6. disk' = Created(Files[k], rows)
    BY <1>3, <2>4 DEF rows
  <2>7. Rows(disk', file') = rows
    BY <1>3, <2>6 DEF Rows, Created
  <2>8. InFlight = <<>> /\ InFlight' = InFlight
    <3>1. agent = "off" /\ inserting["ui"] = NoMessage
      BY DEF EnsureFile, UIAt
    <3>2. \A u \in Writing : inserting[u] = NoMessage
      BY <3>1 DEF Safe, ThreadInv, Writing
    <3> QED
      BY <1>1, <3>2, NoneInHand DEF InFlight
  <2>9. rows \o <<>> = rows
    BY <2>5, ConcatEmptySeq
  <2> QED
    BY <1>1, <2>5, <2>7, <2>8, <2>9
<1>4. \/ UNCHANGED <<disk, file, parted>>
      \/ \E k \in DOMAIN Files :
           /\ Files[k] \notin DOMAIN disk
           /\ disk' = Created(Files[k], Messages(Restrict(conv, Of(conv, "system"))))
           /\ file' = Files[k]
           /\ parted' = (\E i \in DOMAIN conv : conv[i].role # "system")
  BY <1>1 DEF EnsureStorage, store
<1> QED
  BY <1>2, <1>3, <1>4

\* F5: the session is what was read.
LEMMA SwitchKept ==
  ASSUME Safe, Safe', SwitchToDialog
  PROVE  Kept'
<1> SUFFICES ASSUME file' # Closed, ~ parted' PROVE KeptAs(conv', Rows(disk', file') \o InFlight')
  BY DEF Kept
<1>1. file' = open'
  BY DEF SwitchToDialog
<1> DEFINE rows == Rows(disk', open')
<1>2. rows \in Seq(Message)
  BY DEF Safe, StoreTypeOK, Rows
<1>3. PICK n \in {Len(rows), Len(rows) - 1} \cap Nat :
        /\ conv' = Loaded(SubSeq(rows, 1, n))
        /\ parted' = (n < Len(rows) \/ open' = Temporary \/ InFlight # <<>>)
  BY DEF SwitchToDialog, Read
<1> HIDE DEF rows
<1>4. n = Len(rows) /\ InFlight = <<>>
  <2>1. Len(rows) \in Nat
    BY <1>2, LenProperties
  <2>2. ~ (n < Len(rows)) /\ ~ (InFlight # <<>>)
    BY <1>3
  <2>3. n = Len(rows) \/ n = Len(rows) - 1
    BY <1>3
  <2> QED
    BY <2>1, <2>2, <2>3
<1>5. SubSeq(rows, 1, n) = rows
  BY <1>2, <1>4, SubSeqFull
<1>6. \A u \in Writing : inserting[u] = NoMessage
  <2>1. inserting \in [Writing -> Seq(Message)]
    BY DEF Safe, StoreTypeOK
  <2> SUFFICES ASSUME NEW t \in Writing, inserting[t] # NoMessage PROVE FALSE
    OBVIOUS
  <2>2. InFlight = inserting[t]
    BY <2>1, OthersIdle, OneInHand DEF InFlight
  <2> QED
    BY <1>4, <2>2 DEF NoMessage
<1>7. InFlight' = <<>>
  <2>1. \A u \in Writing : inserting'[u] = NoMessage
    BY <1>6, TornTyped DEF Safe, SwitchToDialog
  <2>2. <<>> \o <<>> = <<>>
    OBVIOUS
  <2> QED
    BY <2>1, <2>2 DEF InFlight, Writing, NoMessage
<1>8. rows \o <<>> = rows
  BY <1>2, ConcatEmptySeq
<1>9. KeptAs(Loaded(rows), rows)
  BY <1>2, AlikeItself, KeptAtOnce
<1> QED
  BY <1>1, <1>3, <1>5, <1>7, <1>8, <1>9 DEF rows

LEMMA KeptStep == Safe /\ Safe' /\ FilesThere /\ Kept /\ [AppNext]_vars => Kept'
<1> SUFFICES ASSUME Safe, Safe', FilesThere, Kept, [AppNext]_vars PROVE Kept'
  OBVIOUS
<1>1. ASSUME UNCHANGED <<disk, inserting, conv, file, parted>> PROVE Kept'
  BY <1>1 DEF Kept, InFlight
<1>2. CASE EnsureFile
  BY <1>2, EnsureKept
<1>3. CASE NewChat
  BY <1>3 DEF NewChat, Kept
<1>4. CASE SwitchToDialog
  BY <1>4, SwitchKept
<1>5. CASE SayUser
  <2>1. Text("user") \in Message /\ Text("user").role = "user"
    BY MessageTypes DEF Roles, Text
  <2> QED
    BY <1>5, <2>1, AddKept, StoreConstants DEF SayUser
<1>6. CASE ClearChat
  BY <1>6 DEF ClearChat, Kept
<1>7. CASE Launch
  BY <1>1, <1>7 DEF Launch, store
<1>8. CASE Shutdown
  <2>1. CASE CloseOnQuit
    BY <2>1, CloseKept DEF CloseOnQuit
  <2> QED
    BY <1>1, <1>8, <2>1 DEF Shutdown, Joined, SayClear, store
<1>9. CASE Speak
  <2>1. PICK m \in NextMessages : AddPersisted("agent", m)
    BY <1>9 DEF Speak
  <2>2. m \in Message
    BY <2>1, NextAreMessages DEF Safe, ControlTypes
  <2>3. m.role # "system" /\ (m.role = "tool" => Unfinished(conv) # {})
    BY <2>1 DEF NextMessages, Text, Calling, Result
  <2>4. m.role = "tool" => Waits(conv)
    BY <2>3, UnfinishedWaits DEF Safe, StoreTypeOK
  <2> QED
    BY <1>9, <2>1, <2>2, <2>3, <2>4, AddKept, StoreConstants DEF Speak
<1>10. CASE ReportPhase \/ TurnEnds
  BY <1>1, <1>10 DEF ReportPhase, TurnEnds, store
<1>11. CASE InsertStep
  <2>1. PICK t \in Writing :
          Begin(t) \/ Refuse(t) \/ Commit(t) \/ CommitInPart(t) \/ RollBack(t)
    BY <1>11 DEF InsertStep
  <2>2. CASE Begin(t)
    BY <1>1, <2>2 DEF Begin
  <2>3. CASE Commit(t)
    BY <2>3, CommitKept
  <2>4. CASE Refuse(t) \/ CommitInPart(t) \/ RollBack(t)
    BY <2>4 DEF Refuse, CommitInPart, RollBack, Kept
  <2> QED
    BY <2>1, <2>2, <2>3, <2>4
<1>12. CASE EmergencyShutdown
  <2>1. CASE ExitCloses
    BY <2>1, CloseKept DEF ExitCloses
  <2> QED
    BY <1>1, <1>12, <2>1 DEF EmergencyShutdown, ExitJoined, ExitAbandons, store
<1>13. CASE Exits \/ Crashes
  BY <1>13 DEF Exits, Crashes, Dies, Kept
<1>14. CASE Quit \/ Interrupt \/ EmitStep \/ Frame \/ Start
  BY <1>1, <1>14 DEF Quit, Interrupt, EmitStep, Frame, Start, store
<1>15. CASE Over \/ UNCHANGED vars
  BY <1>1, <1>15 DEF Over, vars, store
<1> QED
  BY <1>2, <1>3, <1>4, <1>5, <1>6, <1>7, <1>8, <1>9, <1>10, <1>11, <1>12, <1>13, <1>14, <1>15
  DEF AppNext, User, Threads, UI, Agent

\* While every write succeeds, what a crash at this point would leave, loaded and
\* repaired, is what the session holds, for every number of files and messages, however
\* often the user changes between conversations and the disk fails in between.
THEOREM FileTheorem == AppSpec => []FileKeepsAll
<1>1. AppInit => FilesThere /\ Kept
  <2> SUFFICES ASSUME AppInit PROVE FilesThere /\ Kept
    OBVIOUS
  <2>1. file = Closed /\ open = Closed
    BY DEF AppInit, StoreInit
  <2>2. Closed \notin Known
    BY StoreAssumption DEF Known, Closed, Recovery
  <2> QED
    BY <2>1, <2>2 DEF FilesThere, Kept
<1>2. Safe /\ Kept => FileKeepsAll
  <2> SUFFICES ASSUME Safe, Kept, file # Closed, ~ parted
               PROVE  Messages(Repair(conv)) = Messages(Loaded(Rows(disk, file) \o InFlight))
    BY DEF FileKeepsAll
  <2> DEFINE rows == Rows(disk, file) \o InFlight
  <2>1. rows \in Seq(Message)
    BY RowsAreMessages, ConcatProperties DEF Safe
  <2>2. KeptAs(conv, rows)
    BY DEF Kept
  <2> HIDE DEF rows
  <2>3. Messages(Repair(conv)) = Messages(Loaded(rows))
    BY <2>1, <2>2, KeptRepairs DEF Safe, StoreTypeOK
  <2> QED
    BY <2>3 DEF rows
<1>3. AppSpec => [](FilesThere /\ Kept)
  BY <1>1, SafeInvariant, FilesThereStep, KeptStep, PTL DEF AppSpec
<1> QED
  BY <1>2, <1>3, SafeInvariant, PTL

-----------------------------------------------------------------------------
(* What is read back *)

\* A result answers an earlier row only with nothing but results in between.
RowsOrdered(rows) ==
  \A i, j \in DOMAIN rows :
    i < j /\ rows[j].role = "tool" /\ rows[j].id \in rows[i].calls =>
      \A k \in DOMAIN rows : i < k /\ k < j => rows[k].role = "tool"

\* Thread t holds the message m.
Holds(t, m) == inserting[t] # NoMessage /\ inserting[t][1] = m

\* The calls a result may still be written for: those of the session that wait for
\* one, and that of the result in hand.
Owed(id) ==
  \/ id \in Unfinished(conv)
  \/ \E t \in Writing : \E m \in Message : Holds(t, m) /\ m.role = "tool" /\ m.id = id

\* Whatever file is open when the next row is written: the results in the files stand
\* behind their calls, and so will those to come.
FileInOrder(rows) ==
  /\ RowsOrdered(rows)
  /\ \A i, j \in DOMAIN rows : \A id \in rows[i].calls :
       i < j /\ Owed(id) => rows[j].role = "tool"

\* No row has an id the server has still to give.
AllNamed(rows) == \A i \in DOMAIN rows : \A id \in rows[i].calls : id < named

\* No row has a call that waits.
NoneWaits(rows) == \A i \in DOMAIN rows : \A id \in rows[i].calls : id \notin Unfinished(conv)

RowsInOrder ==
  /\ \A f \in DOMAIN disk : FileInOrder(disk[f]) /\ AllNamed(disk[f])
  /\ \A t \in Writing : \A m \in Message :
       Holds(t, m) =>
         /\ \A id \in m.calls : id < named
         /\ m.role # "tool" => \A f \in DOMAIN disk : NoneWaits(disk[f])

\* A text ends the round: no call of it waits any more.
LEMMA TextEndsRound ==
  ASSUME NEW log, NEW n, Fits(log, n), NEW m \in Message, m.role # "tool", m.calls = {}
  PROVE  Unfinished(Put(log, n, m)) = {}
<1> DEFINE all == Put(log, n, m)
           last == Latest(Callers(all))
<1>1. IsLog(log) /\ n \in Nat /\ \A i \in DOMAIN log : i \in Nat /\ i < n
  BY DEF Fits, IsLog
<1>2. DOMAIN all = DOMAIN log \cup {n} /\ all[n] = m
  BY DEF Put
<1>3. n \notin Callers(all) /\ Callers(all) \in SUBSET (0 .. n)
  BY <1>1, <1>2 DEF Callers
<1>4. SUFFICES ASSUME Callers(all) # {} PROVE Unfinished(all) = {}
  BY DEF Unfinished
<1>5. last \in Callers(all)
  BY <1>1, <1>3, <1>4, LatestIn
<1>6. last \in DOMAIN log
  BY <1>2, <1>3, <1>5 DEF Callers
<1> HIDE DEF last
<1>7. n > last
  BY <1>1, <1>6
<1>8. n \in DOMAIN all \ Followers(all, last)
  BY <1>2 DEF Followers, Of
<1> HIDE DEF all
<1>9. \E i \in DOMAIN all \ Followers(all, last) : i > last
  BY <1>7, <1>8
<1> QED
  BY <1>4, <1>9 DEF Unfinished, all, last

\* Calls begin a round of their own.
LEMMA CallsBeginRound ==
  ASSUME NEW log, NEW n, Fits(log, n), NEW m \in Message, m.calls # {}
  PROVE  Unfinished(Put(log, n, m)) \subseteq m.calls
<1> DEFINE all == Put(log, n, m)
<1>1. IsLog(log) /\ n \in Nat /\ \A i \in DOMAIN log : i \in Nat /\ i < n
  BY DEF Fits, IsLog
<1>2. DOMAIN all = DOMAIN log \cup {n} /\ all[n] = m
  BY DEF Put
<1>3. n \in Callers(all) /\ Callers(all) \in SUBSET (0 .. n)
  BY <1>1, <1>2 DEF Callers
<1>4. Latest(Callers(all)) \in 0 .. n /\ n <= Latest(Callers(all))
  BY <1>1, <1>3, LatestIn
<1>5. Latest(Callers(all)) = n
  BY <1>1, <1>4
<1> QED
  BY <1>2, <1>5 DEF Unfinished

\* A result opens no call.
LEMMA ResultOpensNone ==
  ASSUME NEW log, NEW n, Fits(log, n), NEW m \in Message, m.role = "tool"
  PROVE  Unfinished(Put(log, n, m)) \subseteq Unfinished(log)
<1> DEFINE all == Put(log, n, m)
           last == Latest(Callers(log))
<1>1. IsLog(log) /\ n \in Nat /\ \A i \in DOMAIN log : i \in Nat /\ i < n
  BY DEF Fits, IsLog
<1>2. /\ DOMAIN all = DOMAIN log \cup {n} /\ all[n] = m
      /\ \A i \in DOMAIN log : all[i] = log[i] /\ i # n
  BY <1>1 DEF Put
<1>3. m.calls = {}
  BY DEF Message
<1> HIDE DEF all
<1>4. Callers(all) = Callers(log)
  BY <1>2, <1>3 DEF Callers
<1> SUFFICES ASSUME NEW id \in Unfinished(all) PROVE id \in Unfinished(log)
  BY DEF all
<1>5. Callers(log) # {} /\ last = Latest(Callers(all))
  BY <1>4 DEF Unfinished
<1>6. last \in Callers(log)
  <2>1. Callers(log) \in SUBSET (0 .. n)
    BY <1>1 DEF Callers
  <2> QED
    BY <1>1, <1>5, <2>1, LatestIn
<1> HIDE DEF last
<1>7. /\ \A i \in DOMAIN all : i > last => i \in Followers(all, last)
      /\ id \in all[last].calls
      /\ \A j \in Followers(all, last) : all[j].id # id
  BY <1>4, <1>5 DEF Unfinished
<1>8. last \in DOMAIN log /\ last \in Nat /\ last < n /\ all[last] = log[last]
  BY <1>1, <1>2, <1>6 DEF Callers
<1>9. \A i \in DOMAIN log : i \in Of(all, "tool") <=> i \in Of(log, "tool")
  BY <1>2 DEF Of
<1>10. \A i \in DOMAIN log : Between(all, last, i) = Between(log, last, i)
  BY <1>1, <1>2 DEF Between
<1>11. \A i \in DOMAIN log : i \in Followers(all, last) <=> i \in Followers(log, last)
  BY <1>9, <1>10 DEF Followers, Between
<1>12. \A i \in DOMAIN log : i > last => i \in Followers(log, last)
  BY <1>2, <1>7, <1>11
<1>13. \A j \in Followers(log, last) : log[j].id # id
  <2>1. Followers(log, last) \subseteq DOMAIN log
    BY DEF Followers, Of
  <2> QED
    BY <1>2, <1>7, <1>11, <2>1
<1> QED
  BY <1>5, <1>7, <1>8, <1>12, <1>13 DEF Unfinished, last

\* Where every call has its results none waits.
LEMMA AnsweredWaitsForNone ==
  ASSUME NEW log, NEW n, Fits(log, n), Unanswered(log) = {}
  PROVE  Unfinished(log) = {}
<1> SUFFICES ASSUME Unfinished(log) # {} PROVE FALSE
  OBVIOUS
<1>1. PICK i \in Callers(log) : \E id \in log[i].calls :
        \A j \in Of(log, "tool") : i < j => log[j].id # id
  BY UnfinishedWaits DEF Waits
<1>2. log[i].calls \subseteq Answers(log, i)
  BY DEF Unanswered
<1> QED
  BY <1>1, <1>2 DEF Answers

LEMMA NothingWaits ==
  /\ Unfinished(Prompt) = {}
  /\ \A rows \in Seq(Message) : Unfinished(Loaded(rows)) = {}
<1>1. Unfinished(Prompt) = {}
  <2>1. Text("system") \in Message /\ Text("system").role # "tool" /\ Text("system").calls = {}
    BY MessageTypes DEF Roles, Text
  <2> QED
    BY <2>1, EmptyFits, TextEndsRound DEF Prompt
<1>2. ASSUME NEW rows \in Seq(Message) PROVE Unfinished(Loaded(rows)) = {}
  <2>1. Fits(Loaded(rows), 2 + 2 * Len(rows))
    BY LoadedFits
  <2>2. Fits(Say(Empty, 2, rows), 2 + 2 * Len(rows))
    BY EmptyFits, SayFits
  <2>3. Unanswered(Loaded(rows)) = {}
    BY <2>2, RepairMends DEF Loaded, Fits
  <2> QED
    BY <2>1, <2>3, AnsweredWaitsForNone
<1> QED
  BY <1>1, <1>2

\* Rows in order, or the first of them, are read as a list in order.
LEMMA ReadInOrder ==
  ASSUME NEW rows \in Seq(Message), RowsOrdered(rows), NEW n \in 0 .. Len(rows)
  PROVE  WellPaired(Loaded(SubSeq(rows, 1, n)))
<1> DEFINE some == SubSeq(rows, 1, n)
           log == Say(Empty, 2, some)
<1>1. /\ some \in Seq(Message) /\ Len(some) = n
      /\ \A k \in 1 .. n : some[k] = rows[k] /\ k \in DOMAIN rows
  OBVIOUS
<1> HIDE DEF some
<1>2. Fits(log, 2 + 2 * n)
  BY <1>1, EmptyFits, SayFits
<1>3. /\ \A i \in DOMAIN log : \E k \in 1 .. n : i = 2 + 2 * (k - 1) /\ log[i] = rows[k]
  BY <1>1, EmptyFits, EmptyFacts, SayFacts
<1> HIDE DEF log
<1>4. Ordered(log)
  <2> SUFFICES ASSUME NEW i \in Callers(log), NEW j \in Of(log, "tool"),
                      i < j, log[j].id \in log[i].calls
               PROVE  j \in Followers(log, i)
    BY DEF Ordered
  <2>1. PICK a \in 1 .. n : i = 2 + 2 * (a - 1) /\ log[i] = rows[a]
    BY <1>3 DEF Callers
  <2>2. PICK b \in 1 .. n : j = 2 + 2 * (b - 1) /\ log[j] = rows[b]
    BY <1>3 DEF Of
  <2>3. a < b /\ rows[b].role = "tool" /\ rows[b].id \in rows[a].calls
    BY <2>1, <2>2 DEF Of
  <2>4. \A k \in DOMAIN rows : a < k /\ k < b => rows[k].role = "tool"
    BY <1>1, <2>3 DEF RowsOrdered
  <2>5. Between(log, i, j) \subseteq Of(log, "tool")
    <3> SUFFICES ASSUME NEW k \in DOMAIN log, i < k, k < j PROVE log[k].role = "tool"
      BY DEF Between, Of
    <3>1. PICK c \in 1 .. n : k = 2 + 2 * (c - 1) /\ log[k] = rows[c]
      BY <1>3
    <3>2. a < c /\ c < b /\ c \in DOMAIN rows
      BY <1>1, <2>1, <2>2, <3>1
    <3> QED
      BY <2>4, <3>1, <3>2
  <2> QED
    BY <2>5 DEF Followers
<1> QED
  BY <1>2, <1>4, RepairPairs DEF Loaded, Fits, log, some

\* A step that writes no row with a call, gives nobody a message and makes no call wait.
LEMMA RowsStay ==
  ASSUME RowsInOrder, named' = named,
         \A f \in DOMAIN disk' :
           \/ f \in DOMAIN disk /\ disk'[f] = disk[f]
           \/ \A i \in DOMAIN disk'[f] : disk'[f][i].calls = {},
         \A t \in Writing : inserting'[t] = inserting[t] \/ inserting'[t] = NoMessage,
         Unfinished(conv') \subseteq Unfinished(conv)
  PROVE  RowsInOrder'
<1>1. \A t \in Writing : \A m \in Message : Holds(t, m)' => Holds(t, m)
  BY DEF Holds
<1>2. \A id : Owed(id)' => Owed(id)
  BY <1>1 DEF Owed
<1>3. ASSUME NEW f \in DOMAIN disk', \A i \in DOMAIN disk'[f] : disk'[f][i].calls = {}
      PROVE  FileInOrder(disk[f])' /\ AllNamed(disk[f])' /\ NoneWaits(disk[f])'
  BY <1>3 DEF FileInOrder, RowsOrdered, AllNamed, NoneWaits
<1>4. ASSUME NEW f \in DOMAIN disk, disk'[f] = disk[f]
      PROVE  /\ FileInOrder(disk[f])' /\ AllNamed(disk[f])'
             /\ NoneWaits(disk[f]) => NoneWaits(disk[f])'
  BY <1>2, <1>4 DEF RowsInOrder, FileInOrder, RowsOrdered, AllNamed, NoneWaits
<1>5. \A f \in DOMAIN disk' : FileInOrder(disk[f])' /\ AllNamed(disk[f])'
  BY <1>3, <1>4
<1>6. ASSUME NEW t \in Writing, NEW m \in Message, Holds(t, m)'
      PROVE  /\ \A id \in m.calls : id < named'
             /\ m.role # "tool" => \A f \in DOMAIN disk' : NoneWaits(disk[f])'
  BY <1>1, <1>3, <1>4, <1>6 DEF RowsInOrder
<1> QED
  BY <1>5, <1>6 DEF RowsInOrder

\* A message is taken in hand: a result of a call that waits, or one behind which only
\* calls wait that no file has.
LEMMA AddInOrder ==
  ASSUME RowsInOrder, named \in Nat, named' \in Nat, named <= named', UNCHANGED disk,
         NEW t \in Writing, NEW m \in Message,
         inserting'[t] = <<m>> \/ inserting'[t] = NoMessage,
         \A u \in Writing : u # t => inserting'[u] = NoMessage,
         \A f \in DOMAIN disk : disk[f] \in Seq(Message),
         \A id \in m.calls : id < named',
         m.role = "tool" =>
           m.id \in Unfinished(conv) /\ Unfinished(conv') \subseteq Unfinished(conv),
         m.role # "tool" => \A id \in Unfinished(conv') : id >= named
  PROVE  RowsInOrder'
<1>1. ASSUME NEW u \in Writing, NEW l \in Message, Holds(u, l)' PROVE u = t /\ l = m
  <2>1. inserting'[u] # NoMessage /\ inserting'[u][1] = l
    BY <1>1 DEF Holds
  <2>2. u = t /\ inserting'[t] = <<m>>
    BY <2>1
  <2> QED
    BY <2>1, <2>2
<1>2. \A f \in DOMAIN disk : \A i \in DOMAIN disk[f] : disk[f][i].calls \subseteq Nat
  <2>1. \A f \in DOMAIN disk : \A i \in DOMAIN disk[f] : disk[f][i] \in Message
    OBVIOUS
  <2> QED
    BY <2>1 DEF Message
<1>3. \A f \in DOMAIN disk : \A i \in DOMAIN disk[f] : \A id \in disk[f][i].calls :
        id \in Nat /\ id < named
  BY <1>2 DEF RowsInOrder, AllNamed
<1>4. \A f \in DOMAIN disk : AllNamed(disk[f])'
  BY <1>3 DEF AllNamed
<1>5. CASE m.role = "tool"
  <2>1. \A id : Owed(id)' => Owed(id)
    BY <1>1, <1>5 DEF Owed
  <2>2. \A f \in DOMAIN disk : FileInOrder(disk[f])'
    BY <2>1 DEF RowsInOrder, FileInOrder
  <2> QED
    BY <1>1, <1>4, <1>5, <2>2 DEF RowsInOrder
<1>6. CASE m.role # "tool"
  <2>1. \A id : Owed(id)' => id \in Unfinished(conv')
    BY <1>1, <1>6 DEF Owed
  <2>2. \A f \in DOMAIN disk : \A i \in DOMAIN disk[f] : \A id \in disk[f][i].calls :
          id \notin Unfinished(conv')
    <3> SUFFICES ASSUME NEW f \in DOMAIN disk, NEW i \in DOMAIN disk[f],
                        NEW id \in disk[f][i].calls, id \in Unfinished(conv')
                 PROVE  FALSE
      OBVIOUS
    <3>1. id \in Nat /\ id < named /\ id >= named
      BY <1>3, <1>6
    <3> QED
      BY <3>1
  <2>3. \A f \in DOMAIN disk : FileInOrder(disk[f])' /\ NoneWaits(disk[f])'
    BY <2>1, <2>2 DEF RowsInOrder, FileInOrder, NoneWaits
  <2> QED
    BY <1>1, <1>4, <2>3 DEF RowsInOrder
<1> QED
  BY <1>5, <1>6

\* The message in hand, or as much of its calls as could be written, becomes a row.
LEMMA RowWritten ==
  ASSUME StoreTypeOK, RowsInOrder, NEW t \in Writing, NEW m \in Message, Holds(t, m),
         NEW row \in Message, row.role = m.role, row.id = m.id, row.calls \subseteq m.calls,
         open \in DOMAIN disk, disk' = [disk EXCEPT ![open] = Append(disk[open], row)],
         UNCHANGED <<conv, named>>, \A u \in Writing : inserting'[u] = NoMessage
  PROVE  RowsInOrder'
<1> DEFINE old == disk[open]
           all == Append(old, row)
           size == Len(old)
<1>1. disk \in [DOMAIN disk -> Seq(Message)] /\ old \in Seq(Message)
  BY DEF StoreTypeOK
<1>2. /\ size \in Nat /\ DOMAIN old = 1 .. size /\ DOMAIN all = 1 .. (size + 1)
      /\ \A k \in 1 .. size : all[k] = old[k]
      /\ all[size + 1] = row
  BY <1>1
<1>3. /\ DOMAIN disk' = DOMAIN disk
      /\ \A f \in DOMAIN disk : disk'[f] = IF f = open THEN all ELSE disk[f]
  BY <1>1
<1>4. /\ \A u \in Writing : \A l \in Message : ~ Holds(u, l)'
      /\ \A id : Owed(id)' <=> id \in Unfinished(conv)
      /\ \A id : Owed(id)' => Owed(id)
  BY DEF Holds, Owed
<1>5. /\ m.role = "tool" => Owed(m.id)
      /\ m.role # "tool" => NoneWaits(old)
      /\ \A id \in m.calls : id < named
  BY DEF Owed, RowsInOrder
<1>6. FileInOrder(old) /\ AllNamed(old)
  BY DEF RowsInOrder
<1> HIDE DEF all, old, size
<1>7. RowsOrdered(all)
  <2> SUFFICES ASSUME NEW i \in DOMAIN all, NEW j \in DOMAIN all, i < j, all[j].role = "tool",
                      all[j].id \in all[i].calls,
                      NEW k \in DOMAIN all, i < k, k < j
               PROVE  all[k].role = "tool"
    BY DEF RowsOrdered
  <2>1. i \in 1 .. size /\ k \in 1 .. size /\ all[i] = old[i] /\ all[k] = old[k]
    BY <1>2
  <2>2. CASE j \in 1 .. size
    BY <1>2, <1>6, <2>1, <2>2 DEF FileInOrder, RowsOrdered
  <2>3. CASE j = size + 1
    <3>1. Owed(m.id) /\ m.id \in old[i].calls
      BY <1>2, <1>5, <2>1, <2>3
    <3> QED
      BY <1>2, <1>6, <2>1, <3>1 DEF FileInOrder
  <2> QED
    BY <1>2, <2>2, <2>3
<1>8. \A i, j \in DOMAIN all : \A id \in all[i].calls :
        i < j /\ Owed(id)' => all[j].role = "tool"
  <2> SUFFICES ASSUME NEW i \in DOMAIN all, NEW j \in DOMAIN all, NEW id \in all[i].calls,
                      i < j, Owed(id)'
               PROVE  all[j].role = "tool"
    OBVIOUS
  <2>1. i \in 1 .. size /\ all[i] = old[i] /\ id \in Unfinished(conv) /\ Owed(id)
    BY <1>2, <1>4
  <2>2. CASE j \in 1 .. size
    BY <1>2, <1>6, <2>1, <2>2 DEF FileInOrder
  <2>3. CASE j = size + 1
    BY <1>2, <1>5, <2>1, <2>3 DEF NoneWaits
  <2> QED
    BY <1>2, <2>2, <2>3
<1>9. \A i \in DOMAIN all : \A id \in all[i].calls : id < named
  BY <1>2, <1>5, <1>6 DEF AllNamed
<1>10. ASSUME NEW f \in DOMAIN disk PROVE FileInOrder(disk[f])' /\ AllNamed(disk[f])'
  <2>1. CASE f = open
    <3>1. disk'[f] = all
      BY <1>3, <2>1
    <3> QED
      BY <1>7, <1>8, <1>9, <3>1 DEF FileInOrder, RowsOrdered, AllNamed
  <2>2. CASE f # open
    <3>1. disk'[f] = disk[f]
      BY <1>3, <2>2
    <3> QED
      BY <1>4, <3>1 DEF RowsInOrder, FileInOrder, AllNamed
  <2> QED
    BY <2>1, <2>2
<1> QED
  BY <1>3, <1>4, <1>10 DEF RowsInOrder

\* A new file has no calls in it.
LEMMA SystemRows ==
  ASSUME StoreTypeOK
  PROVE  LET rows == Messages(Restrict(conv, Of(conv, "system")))
         IN  \A i \in DOMAIN rows : rows[i].calls = {}
<1> DEFINE first == Restrict(conv, Of(conv, "system"))
           rows == Messages(first)
<1>1. Fits(conv, next)
  BY DEF StoreTypeOK
<1>2. /\ DOMAIN first = Of(conv, "system") /\ Of(conv, "system") \subseteq DOMAIN conv
      /\ \A i \in DOMAIN first : first[i] = conv[i]
      /\ first = [i \in DOMAIN first |-> first[i]]
  BY DEF Restrict, Of
<1> HIDE DEF first
<1>3. Fits(first, next)
  BY <1>1, <1>2 DEF Fits, IsLog
<1>4. \A i \in DOMAIN first : first[i].calls = {}
  BY <1>1, <1>2 DEF Fits, IsLog, Message, Of
<1>5. /\ \A k \in 1 .. Cardinality(DOMAIN first) : \E i \in DOMAIN first : Rank(first, i) = k - 1
      /\ \A i \in DOMAIN first : rows[Rank(first, i) + 1] = first[i]
      /\ DOMAIN rows = 1 .. Cardinality(DOMAIN first)
      /\ Cardinality(DOMAIN first) \in Nat
  BY <1>3, RowOfRank DEF Messages
<1> HIDE DEF rows
<1>6. \A k \in DOMAIN rows : rows[k].calls = {}
  <2> SUFFICES ASSUME NEW k \in DOMAIN rows PROVE rows[k].calls = {}
    OBVIOUS
  <2>1. PICK i \in DOMAIN first : Rank(first, i) = k - 1
    BY <1>5
  <2>2. (k - 1) + 1 = k
    BY <1>5
  <2> QED
    BY <1>4, <1>5, <2>1, <2>2
<1> QED
  BY <1>6 DEF rows, first

\* F5 changes no row; recovery.db begins empty.
LEMMA SwitchFacts ==
  ASSUME Safe, SwitchToDialog
  PROVE  /\ \A f \in DOMAIN disk' :
              \/ f \in DOMAIN disk /\ disk'[f] = disk[f]
              \/ disk'[f] = <<>>
         /\ named' = named
         /\ \A t \in Writing : inserting'[t] = inserting[t] \/ inserting'[t] = NoMessage
<1>1. PICK f \in Range(Files) \cap DOMAIN disk : Reached(f)
  BY DEF SwitchToDialog
<1>2. disk' = disk \/ disk' = Created(Recovery, <<>>)
  BY <1>1 DEF Reached
<1>3. \A g \in DOMAIN disk' :
        \/ g \in DOMAIN disk /\ disk'[g] = disk[g]
        \/ disk'[g] = <<>>
  BY <1>2 DEF Created
<1> QED
  BY <1>3, TornTyped DEF SwitchToDialog, Safe

LEMMA SwitchRead ==
  ASSUME Safe, Safe', SwitchToDialog
  PROVE  /\ Rows(disk', open') \in Seq(Message)
         /\ \E n \in 0 .. Len(Rows(disk', open')) :
              conv' = Loaded(SubSeq(Rows(disk', open'), 1, n))
<1> DEFINE rows == Rows(disk', open')
<1>1. rows \in Seq(Message)
  BY DEF Safe, StoreTypeOK, Rows
<1>2. PICK n \in {Len(rows), Len(rows) - 1} \cap Nat : conv' = Loaded(SubSeq(rows, 1, n))
  BY DEF SwitchToDialog, Read
<1> HIDE DEF rows
<1>3. n \in 0 .. Len(rows)
  <2>1. Len(rows) \in Nat
    BY <1>1
  <2> QED
    BY <1>2, <2>1
<1> QED
  BY <1>1, <1>2, <1>3 DEF rows

LEMMA SwitchInOrder ==
  ASSUME Safe, Safe', RowsInOrder, SwitchToDialog
  PROVE  RowsInOrder'
<1>1. PICK n \in 0 .. Len(Rows(disk', open')) :
        conv' = Loaded(SubSeq(Rows(disk', open'), 1, n))
  BY SwitchRead
<1>2. SubSeq(Rows(disk', open'), 1, n) \in Seq(Message)
  BY SwitchRead
<1>3. Unfinished(conv') = {}
  BY <1>1, <1>2, NothingWaits
<1>4. \A f \in DOMAIN disk' :
        \/ f \in DOMAIN disk /\ disk'[f] = disk[f]
        \/ \A i \in DOMAIN disk'[f] : disk'[f][i].calls = {}
  BY SwitchFacts
<1> QED
  BY <1>3, <1>4, SwitchFacts, RowsStay

\* What is read are rows in order, or the first of them.
LEMMA SwitchIsPaired ==
  ASSUME Safe, Safe', RowsInOrder, SwitchToDialog
  PROVE  WellPaired(conv')
<1> DEFINE rows == Rows(disk', open')
<1>1. rows \in Seq(Message)
  BY SwitchRead
<1>2. PICK n \in 0 .. Len(rows) : conv' = Loaded(SubSeq(rows, 1, n))
  BY SwitchRead
<1>3. RowsOrdered(rows)
  <2>1. RowsOrdered(<<>>)
    BY DEF RowsOrdered
  <2>2. \A f \in DOMAIN disk : RowsOrdered(disk[f])
    BY DEF RowsInOrder, FileInOrder
  <2> QED
    BY <2>1, <2>2, SwitchFacts DEF Rows
<1> HIDE DEF rows
<1> QED
  BY <1>1, <1>2, <1>3, ReadInOrder

LEMMA CommitInOrder ==
  ASSUME Safe, RowsInOrder, named' = named, NEW t \in Writing, Commit(t) \/ CommitInPart(t)
  PROVE  RowsInOrder'
<1> DEFINE m == inserting[t][1]
<1>1. /\ inserting[t] # NoMessage /\ inserting[t] \in Seq(Message) /\ Len(inserting[t]) <= 1
      /\ holder = t /\ Given(t) /\ UNCHANGED <<open, conv>>
  <2>1. holder = t /\ Given(t) /\ UNCHANGED <<open, conv>>
    BY DEF Commit, CommitInPart
  <2> QED
    BY <2>1 DEF Safe, StoreTypeOK, HolderWrites
<1>2. m \in Message /\ inserting[t] = <<m>> /\ Holds(t, m)
  BY <1>1, OneOrNone DEF NoMessage, Holds
<1>3. \A u \in Writing : inserting'[u] = NoMessage
  <2>1. \A u \in Writing : u # t => inserting[u] = NoMessage
    BY <1>1, OthersIdle
  <2>2. inserting \in [Writing -> Seq(Message)] /\ NoMessage \in Seq(Message)
    BY StoreConstants DEF Safe, StoreTypeOK
  <2> QED
    BY <1>1, <2>1, <2>2 DEF Given
<1> HIDE DEF m
<1>4. disk \in [DOMAIN disk -> Seq(Message)]
  BY DEF Safe, StoreTypeOK
<1>5. ASSUME NEW row \in Message, row.role = m.role, row.id = m.id, row.calls \subseteq m.calls,
             open \in DOMAIN disk, disk' = [disk EXCEPT ![open] = Append(disk[open], row)]
      PROVE  RowsInOrder'
  BY <1>1, <1>2, <1>3, <1>5, RowWritten DEF Safe
<1>6. CASE Commit(t)
  <2>1. CASE open \in DOMAIN disk
    <3>1. disk' = [disk EXCEPT ![open] = disk[open] \o inserting[t]]
      BY <1>6, <2>1 DEF Commit
    <3>2. disk[open] \o <<m>> = Append(disk[open], m)
      <4>1. disk[open] \in Seq(Message)
        BY <1>4, <2>1
      <4> QED
        BY <1>2, <4>1
    <3> QED
      BY <1>2, <1>5, <2>1, <3>1, <3>2
  <2>2. CASE open \notin DOMAIN disk
    BY <1>1, <1>3, <1>6, <2>2, RowsStay DEF Commit
  <2> QED
    BY <2>1, <2>2
<1>7. CASE CommitInPart(t)
  <2>1. PICK k \in m.calls :
          disk' = [disk EXCEPT ![open] =
                    Append(@, [m EXCEPT !.calls = {id \in @ : id < k}])]
    BY <1>7 DEF CommitInPart, m
  <2> DEFINE part == [m EXCEPT !.calls = {id \in @ : id < k}]
  <2>2. /\ part \in Message /\ part.role = m.role /\ part.id = m.id
        /\ part.calls \subseteq m.calls
    BY <1>2 DEF Message
  <2> HIDE DEF part
  <2>3. open \in DOMAIN disk
    BY <1>7 DEF CommitInPart
  <2>4. disk' = [disk EXCEPT ![open] = Append(disk[open], part)]
    BY <2>1, <2>3 DEF part
  <2> QED
    BY <1>5, <2>2, <2>3, <2>4
<1> QED
  BY <1>6, <1>7

\* What the agent says: the id of a call is new, that of a result is one that waits.
LEMMA SpeakInOrder ==
  ASSUME Safe, Safe', RowsInOrder, Speak
  PROVE  RowsInOrder'
<1>1. PICK m \in NextMessages :
        AddPersisted("agent", m) /\ named' = IF m.calls = {} THEN named ELSE named + 2
  BY DEF Speak
<1>2. /\ m \in Message /\ named \in Nat /\ UNCHANGED disk /\ agent = "running"
      /\ Fits(conv, next) /\ conv' = Put(conv, next, m)
      /\ \A f \in DOMAIN disk : disk[f] \in Seq(Message)
  BY <1>1, NextAreMessages DEF Safe, StoreTypeOK, ControlTypes, Speak, AddPersisted
<1>3. named' \in Nat /\ named <= named'
  BY <1>1, <1>2
<1>4. /\ inserting'["agent"] = <<m>> \/ inserting'["agent"] = NoMessage
      /\ \A u \in Writing : u # "agent" => inserting'[u] = NoMessage
  <2>1. inserting \in [Writing -> Seq(Message)] /\ inserting["agent"] = NoMessage
    BY <1>1 DEF AddPersisted, Safe, StoreTypeOK
  <2>2. \A u \in Writing : u # "agent" => inserting[u] = NoMessage
    BY <1>2 DEF Safe, ThreadInv, Writing
  <2> QED
    BY <1>1, <2>1, <2>2, StoreConstants DEF AddPersisted
<1>5. CASE m = Text("assistant")
  <2>1. m.role # "tool" /\ m.calls = {}
    BY <1>5 DEF Text
  <2>2. Unfinished(conv') = {}
    BY <1>2, <2>1, TextEndsRound
  <2> QED
    BY <1>2, <1>3, <1>4, <2>1, <2>2, AddInOrder, StoreConstants
<1>6. CASE m = Calling({named, named + 1})
  <2>1. m.role # "tool" /\ m.calls = {named, named + 1}
    BY <1>6 DEF Calling, Text
  <2>2. Unfinished(conv') \subseteq {named, named + 1}
    BY <1>2, <2>1, CallsBeginRound
  <2>3. named' = named + 2
    BY <1>1, <2>1
  <2>4. /\ \A id \in Unfinished(conv') : id >= named
        /\ \A id \in m.calls : id < named'
    BY <1>2, <2>1, <2>2, <2>3
  <2> QED
    BY <1>2, <1>3, <1>4, <2>1, <2>4, AddInOrder, StoreConstants
<1>7. CASE Unfinished(conv) # {}
  <2> DEFINE first == CHOOSE id \in Unfinished(conv) : \A other \in Unfinished(conv) : id <= other
  <2>1. m = Result(first, FALSE)
    BY <1>1, <1>7 DEF NextMessages
  <2>2. first \in Unfinished(conv)
    <3>1. Unfinished(conv) \in SUBSET Nat
      BY UnfinishedAreIds DEF Safe
    <3>2. \E id \in Unfinished(conv) : \A other \in Unfinished(conv) : id <= other
      BY <1>7, <3>1, SmallestExists
    <3> QED
      BY <3>2
  <2> HIDE DEF first
  <2>3. m.role = "tool" /\ m.calls = {} /\ m.id \in Unfinished(conv)
    BY <2>1, <2>2 DEF Result
  <2>4. Unfinished(conv') \subseteq Unfinished(conv)
    BY <1>2, <2>3, ResultOpensNone
  <2> QED
    BY <1>2, <1>3, <1>4, <2>3, <2>4, AddInOrder, StoreConstants
<1> QED
  BY <1>1, <1>5, <1>6, <1>7 DEF NextMessages

LEMMA RowsInit == AppInit => RowsInOrder
<1> SUFFICES ASSUME AppInit PROVE RowsInOrder
  OBVIOUS
<1>1. \A t \in Writing : \A m \in Message : ~ Holds(t, m)
  BY DEF AppInit, StoreInit, Holds
<1>2. \A id : ~ Owed(id)
  BY <1>1, NothingWaits DEF Owed, AppInit, StoreInit
<1>3. \A f \in DOMAIN disk : disk[f] = HalfWritten
  BY DEF AppInit, StoreInit
<1>4. /\ DOMAIN HalfWritten = 1 .. 2
      /\ HalfWritten[1].calls = {} /\ HalfWritten[1].role # "tool"
      /\ HalfWritten[2].calls = {4} /\ HalfWritten[2].role # "tool"
  BY DEF HalfWritten, Text, Calling
<1>5. RowsOrdered(HalfWritten) /\ AllNamed(HalfWritten)
  BY <1>4 DEF RowsOrdered, AllNamed, AppInit
<1> QED
  BY <1>1, <1>2, <1>3, <1>5 DEF RowsInOrder, FileInOrder

LEMMA RowsStep == Safe /\ Safe' /\ RowsInOrder /\ [AppNext]_vars => RowsInOrder'
<1> SUFFICES ASSUME Safe, Safe', RowsInOrder, [AppNext]_vars PROVE RowsInOrder'
  OBVIOUS
<1>1. ASSUME UNCHANGED <<disk, inserting, conv, named>> PROVE RowsInOrder'
  BY <1>1, RowsStay
<1>2. CASE EnsureFile
  <2>1. EnsureStorage /\ UNCHANGED named
    BY <1>2 DEF EnsureFile
  <2>2. CASE UNCHANGED <<disk, inserting, conv>>
    BY <1>1, <2>1, <2>2
  <2>3. ASSUME NEW k \in DOMAIN Files, UNCHANGED <<inserting, conv>>,
               disk' = Created(Files[k], Messages(Restrict(conv, Of(conv, "system"))))
        PROVE  RowsInOrder'
    <3> DEFINE rows == Messages(Restrict(conv, Of(conv, "system")))
    <3>1. \A i \in DOMAIN rows : rows[i].calls = {}
      BY SystemRows DEF Safe
    <3> HIDE DEF rows
    <3>2. disk' = Created(Files[k], rows)
      BY <2>3 DEF rows
    <3>3. \A f \in DOMAIN disk' :
            \/ f \in DOMAIN disk /\ disk'[f] = disk[f]
            \/ \A i \in DOMAIN disk'[f] : disk'[f][i].calls = {}
      BY <3>1, <3>2 DEF Created
    <3> QED
      BY <2>1, <2>3, <3>3, RowsStay
  <2> QED
    BY <2>1, <2>2, <2>3 DEF EnsureStorage, store
<1>3. CASE NewChat
  BY <1>3, TornTyped, NothingWaits, RowsStay DEF NewChat, Safe
<1>4. CASE SwitchToDialog
  BY <1>4, SwitchInOrder
<1>5. CASE SayUser
  <2>1. Text("user") \in Message /\ Text("user").role # "tool" /\ Text("user").calls = {}
    BY MessageTypes DEF Roles, Text
  <2> DEFINE m == Text("user")
  <2> HIDE DEF m
  <2>2. /\ AddPersisted("ui", m) /\ UNCHANGED <<disk, named>>
        /\ Fits(conv, next) /\ conv' = Put(conv, next, m) /\ agent = "off"
        /\ named \in Nat /\ \A f \in DOMAIN disk : disk[f] \in Seq(Message)
    BY <1>5 DEF SayUser, UIAt, AddPersisted, Safe, StoreTypeOK, ControlTypes, ThreadInv, m
  <2>3. Unfinished(conv') = {}
    BY <2>1, <2>2, TextEndsRound DEF m
  <2>4. /\ inserting'["ui"] = <<m>> \/ inserting'["ui"] = NoMessage
        /\ \A u \in Writing : u # "ui" => inserting'[u] = NoMessage
    <3>1. inserting \in [Writing -> Seq(Message)] /\ inserting["ui"] = NoMessage
      BY <2>2 DEF AddPersisted, Safe, StoreTypeOK
    <3>2. \A u \in Writing : u # "ui" => inserting[u] = NoMessage
      BY <2>2 DEF Safe, ThreadInv, Writing
    <3> QED
      BY <2>2, <3>1, <3>2, StoreConstants DEF AddPersisted
  <2> QED
    BY <2>1, <2>2, <2>3, <2>4, AddInOrder, StoreConstants DEF m
<1>6. CASE ClearChat
  <2>1. Text("system") \in Message /\ Text("system").role # "tool" /\ Text("system").calls = {}
    BY MessageTypes DEF Roles, Text
  <2> DEFINE m == Text("system")
  <2> HIDE DEF m
  <2>2. /\ UNCHANGED <<disk, named>> /\ agent = "off" /\ inserting["ui"] = NoMessage
        /\ named \in Nat /\ \A f \in DOMAIN disk : disk[f] \in Seq(Message)
        /\ conv' = Prompt
        /\ inserting' = [inserting EXCEPT !["ui"] = IF attached /\ open # Closed THEN <<m>> ELSE @]
    BY <1>6 DEF ClearChat, UIAt, Safe, StoreTypeOK, ControlTypes, ThreadInv, m
  <2>3. /\ inserting'["ui"] = <<m>> \/ inserting'["ui"] = NoMessage
        /\ \A u \in Writing : u # "ui" => inserting'[u] = NoMessage
    <3>1. inserting \in [Writing -> Seq(Message)]
      BY DEF Safe, StoreTypeOK
    <3>2. \A u \in Writing : u # "ui" => inserting[u] = NoMessage
      BY <2>2 DEF Safe, ThreadInv, Writing
    <3> QED
      BY <2>2, <3>1, <3>2, StoreConstants
  <2> QED
    BY <2>1, <2>2, <2>3, NothingWaits, AddInOrder, StoreConstants DEF m
<1>7. CASE Speak
  BY <1>7, SpeakInOrder
<1>8. CASE InsertStep
  <2>1. PICK t \in Writing :
          Begin(t) \/ Refuse(t) \/ Commit(t) \/ CommitInPart(t) \/ RollBack(t)
    BY <1>8 DEF InsertStep
  <2>2. named' = named
    BY <1>8 DEF InsertStep, app
  <2>3. CASE Commit(t) \/ CommitInPart(t)
    BY <2>2, <2>3, CommitInOrder
  <2>4. CASE Begin(t) \/ Refuse(t) \/ RollBack(t)
    <3>1. UNCHANGED <<disk, conv>>
      BY <2>4 DEF Begin, Refuse, RollBack
    <3>2. \A u \in Writing : inserting'[u] = inserting[u] \/ inserting'[u] = NoMessage
      BY <2>4, InsertTyped
    <3> QED
      BY <2>2, <3>1, <3>2, RowsStay
  <2> QED
    BY <2>1, <2>3, <2>4
<1>9. ASSUME CloseFile, UNCHANGED <<disk, conv, named>> PROVE RowsInOrder'
  BY <1>9, TornTyped, RowsStay DEF CloseFile, Safe
<1>10. CASE Shutdown
  BY <1>1, <1>9, <1>10 DEF Shutdown, Joined, CloseOnQuit, SayClear, store
<1>11. CASE EmergencyShutdown
  BY <1>1, <1>9, <1>11 DEF EmergencyShutdown, ExitJoined, ExitCloses, ExitAbandons, store
<1>12. CASE Exits \/ Crashes
  BY <1>12, NothingWaits, RowsStay DEF Exits, Crashes, Dies
<1>13. CASE Launch \/ ReportPhase \/ TurnEnds \/ Quit \/ Interrupt \/ EmitStep \/ Frame \/ Start
             \/ Over \/ UNCHANGED vars
  BY <1>1, <1>13
  DEF Launch, ReportPhase, TurnEnds, Quit, Interrupt, EmitStep, Frame, Start, Over, vars, store, app
<1> QED
  BY <1>2, <1>3, <1>4, <1>5, <1>6, <1>7, <1>8, <1>10, <1>11, <1>12, <1>13
  DEF AppNext, User, Threads, UI, Agent

\* Whatever a crash, a torn write, a failed insert or a write into the file of another
\* conversation left in a file, the conversation it is opened as is one the API accepts
\* (TuiApp::switchToDialog, Session::loadMessages).
THEOREM LoadedTheorem == AppSpec => LoadedIsPaired
<1>1. Safe /\ Safe' /\ RowsInOrder /\ [AppNext]_vars
        => [SwitchToDialog => WellPaired(conv')]_vars
  BY SwitchIsPaired, RowsStep
<1>2. AppSpec => []RowsInOrder
  BY RowsInit, RowsStep, SafeInvariant, PTL DEF AppSpec
<1> QED
  BY <1>1, <1>2, SafeInvariant, PTL DEF AppSpec, LoadedIsPaired

=============================================================================
