----------------------------- MODULE SessionProofs -----------------------------
(***************************************************************************)
(* Theorems about Session, for every set of call ids and any number of     *)
(* messages and calls, and about Shrinking, for every length and count:    *)
(* numbers and recursion, rows and logs, counts, deletions, and the        *)
(* theorem that ties the two modules.                                      *)
(***************************************************************************)
EXTENDS Messages, ConversationProofs, FiniteSetTheorems, SequenceTheorems, WellFoundedInduction

\* A message added goes behind all others.
LEMMA AddType == TypeOK /\ AddMessage => TypeOK'
<1>1. SUFFICES ASSUME TypeOK, AddMessage
               PROVE  TypeOK'
  OBVIOUS
<1>2. PICK m \in NewMessages : log' = Put(log, next, m)
  BY <1>1 DEF AddMessage
<1>3. m \in Message
  <2>1. \A ids \in SUBSET CallIds : ids \in SUBSET Nat
    BY SessionAssumption
  <2>2. \A id \in CallIds : id \in Nat
    BY SessionAssumption
  <2> QED
    BY <1>2, <2>1, <2>2, MessageTypes DEF NewMessages, Roles
<1>4. next \in Nat /\ IsLog(log)
  BY <1>1 DEF TypeOK, Fits
<1>5. IsLog(log') /\ DOMAIN log' = DOMAIN log \cup {next}
  BY <1>2, <1>3, <1>4, PutFacts
<1>6. next' = next + 2 /\ op' = "other"
  BY <1>1 DEF AddMessage
<1>7. \A i \in DOMAIN log' : i < next'
  BY <1>1, <1>5, <1>6 DEF TypeOK, Fits, IsLog
<1>8. next' \in Nat \ {0} /\ next' % 2 = 0
  BY <1>1, <1>6 DEF TypeOK, Fits
<1> QED
  BY <1>5, <1>6, <1>7, <1>8 DEF TypeOK, Fits, Ops

\* A call that returns a conversation at positions in use keeps the types.
LEMMA CallType ==
  ASSUME NEW name \in Ops, NEW result, TypeOK, Call(name, result),
         IsLog(result), \A i \in DOMAIN result : i < next
  PROVE  TypeOK'
BY DEF TypeOK, Fits, Call

\* The types hold after any sequence of calls: an operation of the session returns
\* well-formed messages at positions no later message will take.
THEOREM SessionTypes == Spec => []TypeOK
<1>1. Init => TypeOK
  BY EmptyFacts DEF Init, TypeOK, Fits, Ops
<1>2. TypeOK /\ [Next]_vars => TypeOK'
  <2>1. SUFFICES ASSUME TypeOK, [Next]_vars
                 PROVE  TypeOK'
    OBVIOUS
  <2>2. IsLog(log) /\ next \in Nat /\ next > 0 /\ next % 2 = 0 /\ \A i \in DOMAIN log : i < next
    BY <2>1 DEF TypeOK, Fits
  <2>3. CASE AddMessage
    BY <2>1, <2>3, AddType
  <2>4. CASE RepairOrphanedToolCalls
    <3>1. "repair" \in Ops /\ Call("repair", Repair(log))
      BY <2>4 DEF RepairOrphanedToolCalls, Ops
    <3> QED
      BY <2>1, <2>2, <3>1, RepairFacts, CallType
  <2>5. CASE StripOrphanedToolCalls
    <3>1. "other" \in Ops /\ Call("other", StripLast(log))
      BY <2>5 DEF StripOrphanedToolCalls, Ops
    <3> QED
      BY <2>1, <2>2, <3>1, StripLastFacts, CallType
  <2>6. CASE SoftStripLastToolCalls
    <3>1. "softStripLast" \in Ops /\ Call("softStripLast", SoftStripLast(log))
      BY <2>6 DEF SoftStripLastToolCalls, Ops
    <3> QED
      BY <2>1, <2>2, <3>1, SoftStripLastFacts, CallType
  <2>7. CASE ClearLastToolCalls
    <3>1. "other" \in Ops /\ Call("other", ClearLastCalls(log))
      BY <2>7 DEF ClearLastToolCalls, Ops
    <3> QED
      BY <2>1, <2>2, <3>1, ClearLastFacts, CallType
  <2>8. CASE PopLast
    <3>1. "other" \in Ops /\ Call("other", PopLastAssistant(log))
      BY <2>8 DEF PopLast, Ops
    <3> QED
      BY <2>1, <2>2, <3>1, PopLastFacts, CallType
  <2>9. CASE PruneForContext
    <3>1. PICK cut \in PruneCuts(log) : Call("prune", Prune(log, cut))
      BY <2>9 DEF PruneForContext
    <3>2. "prune" \in Ops
      BY DEF Ops
    <3> QED
      BY <2>1, <2>2, <3>1, <3>2, PruneFacts, CallType
  <2>10. CASE ApplyCompaction
    <3>1. "compact" \in Ops /\ Call("compact", Compact(log))
      BY <2>10 DEF ApplyCompaction, Ops
    <3> QED
      BY <2>1, <2>2, <3>1, CompactFacts, CallType
  <2>11. CASE UNCHANGED vars
    BY <2>1, <2>11 DEF TypeOK, vars
  <2> QED
    BY <2>1, <2>3, <2>4, <2>5, <2>6, <2>7, <2>8, <2>9, <2>10, <2>11 DEF Next
<1> QED
  BY <1>1, <1>2, PTL DEF Spec

\* Right after repairOrphanedToolCalls no call waits for a result and no result
\* lacks its call, whatever calls built the conversation.
THEOREM RepairTheorem == Spec => []RepairedHasNoOrphans
<1>1. Init => RepairedHasNoOrphans
  BY DEF Init, RepairedHasNoOrphans
<1>2. TypeOK /\ RepairedHasNoOrphans /\ [Next]_vars => RepairedHasNoOrphans'
  <2>1. SUFFICES ASSUME TypeOK, RepairedHasNoOrphans, [Next]_vars, op' = "repair"
                 PROVE  Unanswered(log') = {} /\ Uncalled(log') = {}
    BY DEF RepairedHasNoOrphans
  <2>2. CASE RepairOrphanedToolCalls
    <3>1. log' = Repair(log) /\ IsLog(log)
      BY <2>1, <2>2 DEF RepairOrphanedToolCalls, Call, TypeOK, Fits
    <3> QED
      BY <3>1, RepairMends
  <2>3. CASE UNCHANGED vars
    BY <2>1, <2>3 DEF vars, RepairedHasNoOrphans
  <2>4. ~ (Next /\ ~ RepairOrphanedToolCalls)
    BY <2>1 DEF Next, AddMessage, StripOrphanedToolCalls, SoftStripLastToolCalls,
                ClearLastToolCalls, PopLast, PruneForContext, ApplyCompaction, Call
  <2> QED
    BY <2>1, <2>2, <2>3, <2>4
<1> QED
  BY <1>1, <1>2, SessionTypes, PTL DEF Spec

\* Neither a compaction nor a pruning moves the leading system block, whatever the
\* messages behind it and wherever the cut goes.
THEOREM PrefixTheorem == Spec => PrefixIsStable
<1>1. TypeOK /\ [Next]_vars =>
        (op' \in {"prune", "compact"} => {i \in Lead(log) : ~ IsSummary(i)} \subseteq Lead(log'))
      \/ UNCHANGED vars
  <2>1. SUFFICES ASSUME TypeOK, Next, op' \in {"prune", "compact"},
                        NEW i \in Lead(log), ~ IsSummary(i)
                 PROVE  i \in Lead(log')
    OBVIOUS
  <2>2. IsLog(log) /\ next \in Nat /\ next > 0 /\ next % 2 = 0 /\ \A j \in DOMAIN log : j < next
    BY <2>1 DEF TypeOK, Fits
  <2>3. CASE PruneForContext
    <3>1. PICK cut \in PruneCuts(log) : log' = Prune(log, cut)
      BY <2>3 DEF PruneForContext, Call
    <3> DEFINE S == {j \in DOMAIN log \ Lead(log) : j < cut}
    <3>2. i \notin S /\ log' = Erase(log, S)
      BY <2>1, <3>1 DEF Prune
    <3> HIDE DEF S
    <3> QED
      BY <2>1, <2>2, <3>2, EraseKeepsLead
  <2>4. CASE ApplyCompaction
    <3>1. log' = Compact(log)
      BY <2>4 DEF ApplyCompaction, Call
    <3> QED
      BY <2>1, <2>2, <3>1, CompactKeepsLead
  <2>5. PruneForContext \/ ApplyCompaction
    BY <2>1 DEF Next, AddMessage, RepairOrphanedToolCalls, StripOrphanedToolCalls,
                SoftStripLastToolCalls, ClearLastToolCalls, PopLast, Call
  <2> QED
    BY <2>3, <2>4, <2>5
<1>2. TypeOK /\ [Next]_vars =>
        [op' \in {"prune", "compact"} => {i \in Lead(log) : ~ IsSummary(i)} \subseteq Lead(log')]_vars
  BY <1>1
<1> QED
  BY <1>2, SessionTypes, PTL DEF Spec, PrefixIsStable
-----------------------------------------------------------------------------
(* The user message and the one summary *)

\* No user message stands where a summary does.
SummariesAreSystem == \A i \in DOMAIN log : IsSummary(i) => log[i].role = "system"

\* An operation that only takes messages away puts none in a summary's place.
LEMMA KeepsSummaries ==
  ASSUME NEW result, SummariesAreSystem, log' = result, TakesAway(log, result)
  PROVE  SummariesAreSystem'
BY DEF TakesAway, SummariesAreSystem

LEMMA SummariesStay == Spec => []SummariesAreSystem
<1>1. Init => SummariesAreSystem
  BY EmptyFacts DEF Init, SummariesAreSystem
<1>2. TypeOK /\ SummariesAreSystem /\ [Next]_vars => SummariesAreSystem'
  <2>1. SUFFICES ASSUME TypeOK, SummariesAreSystem, [Next]_vars
                 PROVE  SummariesAreSystem'
    OBVIOUS
  <2>2. IsLog(log) /\ next \in Nat /\ next > 0 /\ next % 2 = 0 /\ \A i \in DOMAIN log : i < next
    BY <2>1 DEF TypeOK, Fits
  <2>3. CASE AddMessage
    <3>1. PICK m \in NewMessages : log' = Put(log, next, m)
      BY <2>3 DEF AddMessage
    <3>2. ~ IsSummary(next)
      BY <2>2 DEF IsSummary
    <3> QED
      BY <2>1, <3>1, <3>2 DEF Put, SummariesAreSystem
  <2>4. CASE RepairOrphanedToolCalls
    BY <2>1, <2>2, <2>4, RepairTakesAway, KeepsSummaries DEF RepairOrphanedToolCalls, Call
  <2>5. CASE StripOrphanedToolCalls
    BY <2>1, <2>2, <2>5, StripLastTakesAway, KeepsSummaries DEF StripOrphanedToolCalls, Call
  <2>6. CASE SoftStripLastToolCalls
    BY <2>1, <2>2, <2>6, SoftStripLastTakesAway, KeepsSummaries DEF SoftStripLastToolCalls, Call
  <2>7. CASE ClearLastToolCalls
    BY <2>1, <2>2, <2>7, ClearLastTakesAway, KeepsSummaries DEF ClearLastToolCalls, Call
  <2>8. CASE PopLast
    <3> DEFINE S == {i \in Of(log, "assistant") \ Callers(log) : i = Latest(DOMAIN log)}
    <3>1. log' = Erase(log, S)
      BY <2>8 DEF PopLast, Call, PopLastAssistant
    <3> HIDE DEF S
    <3>2. TakesAway(log, Erase(log, S))
      BY <2>2, EraseTakesAway
    <3> QED
      BY <2>1, <3>1, <3>2, KeepsSummaries
  <2>9. CASE PruneForContext
    <3>1. PICK cut \in PruneCuts(log) : log' = Prune(log, cut)
      BY <2>9 DEF PruneForContext, Call
    <3> DEFINE S == {i \in DOMAIN log \ Lead(log) : i < cut}
    <3>2. log' = Erase(log, S)
      BY <3>1 DEF Prune
    <3> HIDE DEF S
    <3>3. TakesAway(log, Erase(log, S))
      BY <2>2, EraseTakesAway
    <3> QED
      BY <2>1, <3>2, <3>3, KeepsSummaries
  <2>10. CASE ApplyCompaction
    <3>1. log' = Compact(log) /\ Summarized(log) # {}
      BY <2>10 DEF ApplyCompaction, Call
    <3> QED
      BY <2>2, <3>1, CompactLeaves DEF SummariesAreSystem
  <2>11. CASE UNCHANGED vars
    BY <2>1, <2>11 DEF SummariesAreSystem, vars
  <2> QED
    BY <2>1, <2>3, <2>4, <2>5, <2>6, <2>7, <2>8, <2>9, <2>10, <2>11 DEF Next
<1> QED
  BY <1>1, <1>2, SessionTypes, PTL DEF Spec

\* A compaction keeps a user message when there is one and leaves exactly one summary,
\* whatever calls built the conversation and however often it was compacted before.
THEOREM UserTheorem == Spec => CompactionKeepsUser
<1>1. TypeOK /\ SummariesAreSystem /\ [Next]_vars =>
        [op' = "compact" =>
           /\ Of(log, "user") # {} => Of(log', "user") # {}
           /\ Cardinality({i \in DOMAIN log' : IsSummary(i)}) = 1]_vars
  <2>1. SUFFICES ASSUME TypeOK, SummariesAreSystem, Next, op' = "compact"
                 PROVE  /\ Of(log, "user") # {} => Of(log', "user") # {}
                        /\ Cardinality({i \in DOMAIN log' : IsSummary(i)}) = 1
    OBVIOUS
  <2>2. IsLog(log) /\ next \in Nat /\ next > 0 /\ next % 2 = 0 /\ \A i \in DOMAIN log : i < next
    BY <2>1 DEF TypeOK, Fits
  <2>3. ApplyCompaction
    BY <2>1 DEF Next, AddMessage, RepairOrphanedToolCalls, StripOrphanedToolCalls,
                SoftStripLastToolCalls, ClearLastToolCalls, PopLast, PruneForContext, Call
  <2>4. log' = Compact(log) /\ Summarized(log) # {}
    BY <2>3 DEF ApplyCompaction, Call
  <2>5. /\ \E slot : {i \in DOMAIN log' : IsSummary(i)} = {slot}
        /\ \A i \in DOMAIN log \ Summarized(log) :
             log[i].role # "tool" => i \in DOMAIN log' /\ log'[i].role = log[i].role
    BY <2>2, <2>4, CompactLeaves
  <2>6. Cardinality({i \in DOMAIN log' : IsSummary(i)}) = 1
    BY <2>5, FS_Singleton
  <2>7. ASSUME Of(log, "user") # {} PROVE Of(log', "user") # {}
    <3>1. \A i \in DOMAIN log : IsSummary(i) => log[i].role = "system"
      BY <2>1 DEF SummariesAreSystem
    <3>2. Of(log, "user") \ Summarized(log) # {}
      BY <2>2, <2>7, <3>1, UserIsKept
    <3> QED
      BY <2>5, <3>2 DEF Of
  <2> QED
    BY <2>6, <2>7
<1> QED
  BY <1>1, SessionTypes, SummariesStay, PTL DEF Spec, CompactionKeepsUser

-----------------------------------------------------------------------------
(* The pairs *)

\* No message takes position 0, in front of which no summary could go.
ZeroFree == 0 \notin DOMAIN log

\* An operation that returns no position but those it had, or a summary's, takes none.
LEMMA KeepsZero ==
  ASSUME NEW result, ZeroFree, log' = result,
         \A i \in DOMAIN result : IsSummary(i) \/ i \in DOMAIN log
  PROVE  ZeroFree'
<1>1. ~ IsSummary(0)
  BY DEF IsSummary
<1> QED
  BY <1>1 DEF ZeroFree

LEMMA ZeroIsFree == Spec => []ZeroFree
<1>1. Init => ZeroFree
  BY EmptyFacts DEF Init, ZeroFree
<1>2. TypeOK /\ ZeroFree /\ [Next]_vars => ZeroFree'
  <2>1. SUFFICES ASSUME TypeOK, ZeroFree, [Next]_vars
                 PROVE  ZeroFree'
    OBVIOUS
  <2>2. IsLog(log) /\ next \in Nat /\ next > 0 /\ next % 2 = 0 /\ \A i \in DOMAIN log : i < next
    BY <2>1 DEF TypeOK, Fits
  <2>3. CASE AddMessage
    <3>1. PICK m \in NewMessages : log' = Put(log, next, m)
      BY <2>3 DEF AddMessage
    <3>2. DOMAIN log' = DOMAIN log \cup {next}
      BY <3>1 DEF Put
    <3> QED
      BY <2>1, <2>2, <3>2 DEF ZeroFree
  <2>4. CASE RepairOrphanedToolCalls
    BY <2>1, <2>2, <2>4, RepairFacts, KeepsZero DEF RepairOrphanedToolCalls, Call
  <2>5. CASE StripOrphanedToolCalls
    BY <2>1, <2>2, <2>5, StripLastFacts, KeepsZero DEF StripOrphanedToolCalls, Call
  <2>6. CASE SoftStripLastToolCalls
    BY <2>1, <2>2, <2>6, SoftStripLastFacts, KeepsZero DEF SoftStripLastToolCalls, Call
  <2>7. CASE ClearLastToolCalls
    BY <2>1, <2>2, <2>7, ClearLastFacts, KeepsZero DEF ClearLastToolCalls, Call
  <2>8. CASE PopLast
    BY <2>1, <2>2, <2>8, PopLastFacts, KeepsZero DEF PopLast, Call
  <2>9. CASE PruneForContext
    BY <2>1, <2>2, <2>9, PruneFacts, KeepsZero DEF PruneForContext, Call
  <2>10. CASE ApplyCompaction
    <3>1. log' = Compact(log) /\ Summarized(log) # {}
      BY <2>10 DEF ApplyCompaction, Call
    <3> QED
      BY <2>1, <2>2, <3>1, CompactLeaves, KeepsZero
  <2>11. CASE UNCHANGED vars
    BY <2>1, <2>11 DEF ZeroFree, vars
  <2> QED
    BY <2>1, <2>3, <2>4, <2>5, <2>6, <2>7, <2>8, <2>9, <2>10, <2>11 DEF Next
<1> QED
  BY <1>1, <1>2, SessionTypes, PTL DEF Spec

\* As long as no id is used twice, a conversation the API accepts is still one it
\* accepts after a repair (which changes nothing), after softStripLastToolCalls (the
\* last round goes), after a pruning (no cut runs through a round) and after a
\* compaction (a round is summarized as a whole or kept, and the summary goes in front
\* of every call).
THEOREM PairsTheorem == Spec => ShrinkingKeepsPairs
<1>1. TypeOK /\ SummariesAreSystem /\ ZeroFree /\ [Next]_vars =>
        [op' \in {"repair", "softStripLast", "prune", "compact"} /\ UniqueIds /\ WellPaired(log)
           => WellPaired(log')]_vars
  <2>1. SUFFICES ASSUME TypeOK, SummariesAreSystem, ZeroFree, Next,
                        op' \in {"repair", "softStripLast", "prune", "compact"},
                        UniqueIds, WellPaired(log)
                 PROVE  WellPaired(log')
    OBVIOUS
  <2>2. Fits(log, next) /\ IsLog(log) /\ next \in Nat /\ \A i \in DOMAIN log : i < next
    BY <2>1 DEF TypeOK, Fits
  <2>3. Distinct(log)
    BY <2>1 DEF UniqueIds, Distinct
  <2>4. Rounds(log)
    BY <2>1, <2>2, <2>3, PairedIsRounds
  <2>5. CASE RepairOrphanedToolCalls
    BY <2>1, <2>2, <2>5, RepairOfPaired DEF RepairOrphanedToolCalls, Call
  <2>6. CASE SoftStripLastToolCalls
    <3>1. log' = SoftStripLast(log)
      BY <2>6 DEF SoftStripLastToolCalls, Call
    <3> QED
      BY <2>2, <2>4, <3>1, SoftStripPaired, SoftStripLastFacts, RoundsArePaired
  <2>7. CASE PruneForContext
    <3>1. PICK cut \in PruneCuts(log) : log' = Prune(log, cut)
      BY <2>7 DEF PruneForContext, Call
    <3> QED
      BY <2>2, <2>4, <3>1, PrunePaired, PruneFacts, RoundsArePaired
  <2>8. CASE ApplyCompaction
    <3>1. log' = Compact(log)
      BY <2>8 DEF ApplyCompaction, Call
    <3>2. next > 0 /\ next % 2 = 0
      BY <2>1 DEF TypeOK, Fits
    <3>3. IsLog(Compact(log))
      BY <2>2, <3>2, CompactFacts
    <3>4. Rounds(Compact(log))
      BY <2>1, <2>2, <2>3, <2>4, CompactPaired DEF SummariesAreSystem, ZeroFree
    <3> QED
      BY <3>1, <3>3, <3>4, RoundsArePaired
  <2>9. ~ (AddMessage \/ StripOrphanedToolCalls \/ ClearLastToolCalls \/ PopLast)
    BY <2>1 DEF AddMessage, StripOrphanedToolCalls, ClearLastToolCalls, PopLast, Call
  <2> QED
    BY <2>1, <2>5, <2>6, <2>7, <2>8, <2>9 DEF Next
<1> QED
  BY <1>1, SessionTypes, SummariesStay, ZeroIsFree, PTL DEF Spec, ShrinkingKeepsPairs

-----------------------------------------------------------------------------
(* Numbers and recursion *)

\* The least of some numbers.
LEMMA LeastNumber ==
  ASSUME NEW S, S \subseteq Nat, S # {}
  PROVE  \E k \in S : \A j \in S : k <= j
<1> DEFINE Lower == OpToRel(<, Nat)
<1>1. IsWellFoundedOn(Lower, Nat)
  BY NatLessThanWellFounded, Zenon
<1>2. \A j, k \in Nat : j < k => <<j, k>> \in Lower
  BY DEF OpToRel
<1> HIDE DEF Lower
<1>3. PICK k \in S : \A j \in S : ~ (<<j, k>> \in Lower)
  BY <1>1, WFMin
<1>4. ASSUME NEW j \in S PROVE k <= j
  <2>1. j \in Nat /\ k \in Nat
    OBVIOUS
  <2>2. ~ (j < k)
    BY <1>2, <1>3, <2>1
  <2> QED BY <2>1, <2>2
<1> QED BY <1>4

\* Induction over the numbers up to some n.
LEMMA UpTo ==
  ASSUME NEW n \in Nat, NEW Good, 0 \in Good,
         \A m \in 0 .. n - 1 : m \in Good => m + 1 \in Good
  PROVE  0 .. n \subseteq Good
<1> DEFINE Bad == {m \in 0 .. n : m \notin Good}
<1> SUFFICES ASSUME Bad # {} PROVE FALSE
  OBVIOUS
<1>0. Bad \subseteq Nat /\ \A k : k \in Bad <=> k \in 0 .. n /\ k \notin Good
  OBVIOUS
<1> HIDE DEF Bad
<1>1. PICK k \in Bad : \A j \in Bad : k <= j
  BY <1>0, LeastNumber
<1>2. k \in 0 .. n /\ k \notin Good /\ k # 0
  BY <1>0, <1>1
<1>3. k - 1 \in 0 .. n - 1 /\ k - 1 \in 0 .. n /\ ~ (k <= k - 1)
  BY <1>2
<1>4. k - 1 \in Good
  BY <1>0, <1>1, <1>3
<1>5. (k - 1) + 1 = k
  BY <1>2
<1>6. (k - 1) + 1 \in Good
  BY <1>3, <1>4
<1> QED BY <1>2, <1>5, <1>6

\* Recursion over the numbers up to some n has a solution.
RunOf(f, n, S, a, onward) ==
  /\ f \in [0 .. n -> S]
  /\ f[0] = a /\ \A i \in 1 .. n : f[i] = onward[<<i, f[i - 1]>>]

\* A recursion along 1 .. n has a solution.
LEMMA Recursion ==
  ASSUME NEW n \in Nat, NEW S, NEW a \in S, NEW onward \in [(1 .. n) \X S -> S]
  PROVE  \E f : RunOf(f, n, S, a, onward)
<1> DEFINE IsRun(f, m) == RunOf(f, m, S, a, onward)
           Good == {m \in 0 .. n : \E f : IsRun(f, m)}
<1>1. 0 \in Good
  <2>1. IsRun([i \in 0 .. 0 |-> a], 0)
    BY DEF RunOf
  <2> HIDE DEF IsRun
  <2> QED BY <2>1
<1>2. ASSUME NEW m \in 0 .. n - 1, m \in Good PROVE m + 1 \in Good
  <2>1. PICK f : IsRun(f, m)
    BY <1>2
  <2> DEFINE then == onward[<<m + 1, f[m]>>]
             g == [i \in 0 .. m + 1 |-> IF i <= m THEN f[i] ELSE then]
  <2>2. then \in S /\ m \in Nat
    <3>1. f[m] \in S
      BY <2>1 DEF RunOf
    <3>2. <<m + 1, f[m]>> \in (1 .. n) \X S
      BY <3>1
    <3> QED BY <3>2
  <2>3. ASSUME NEW i \in 0 .. m + 1 PROVE g[i] = IF i <= m THEN f[i] ELSE then
    OBVIOUS
  <2>4. g \in [0 .. m + 1 -> S]
    <3>1. ASSUME NEW i \in 0 .. m + 1 PROVE (IF i <= m THEN f[i] ELSE then) \in S
      BY <2>1, <2>2 DEF RunOf
    <3> HIDE DEF then
    <3> QED BY <3>1
  <2>5. ASSUME NEW i \in 1 .. m + 1 PROVE g[i] = onward[<<i, g[i - 1]>>]
    <3>1. g[i - 1] = f[i - 1]
      BY <2>2, <2>3
    <3>2. CASE i <= m
      <4>1. g[i] = f[i]
        BY <2>3, <3>2
      <4> QED BY <2>1, <2>2, <3>1, <3>2, <4>1 DEF RunOf
    <3>3. CASE i = m + 1
      <4>1. g[i] = then /\ i - 1 = m
        BY <2>2, <2>3, <3>3
      <4> QED BY <3>1, <3>3, <4>1
    <3> QED BY <2>2, <3>2, <3>3
  <2>6. g[0] = a
    BY <2>1, <2>2 DEF RunOf
  <2>7. IsRun(g, m + 1)
    <3> HIDE DEF g
    <3> QED BY <2>4, <2>5, <2>6 DEF RunOf
  <2>8. m + 1 \in 0 .. n
    OBVIOUS
  <2> HIDE DEF IsRun, g
  <2> QED BY <2>7, <2>8
<1> HIDE DEF Good
<1>3. n \in Good
  <2>1. 0 .. n \subseteq Good
    BY <1>1, <1>2, UpTo
  <2> QED BY <2>1
<1>4. PICK f : IsRun(f, n)
  BY <1>3 DEF Good
<1> QED BY <1>4

\* What holds at the beginning of a run, and of every step, holds all along.
LEMMA AllAlong ==
  ASSUME NEW n \in Nat, NEW S, NEW run, run[0] \in S,
         \A i \in 1 .. n : run[i - 1] \in S => run[i] \in S
  PROVE  \A i \in 0 .. n : run[i] \in S
<1> DEFINE Good == {i \in 0 .. n : run[i] \in S}
<1>1. 0 \in Good
  OBVIOUS
<1>2. ASSUME NEW m \in 0 .. n - 1, m \in Good PROVE m + 1 \in Good
  <2>1. m + 1 \in 1 .. n /\ (m + 1) - 1 = m
    OBVIOUS
  <2> QED BY <1>2, <2>1
<1> HIDE DEF Good
<1>3. 0 .. n \subseteq Good
  BY <1>1, <1>2, UpTo
<1> QED BY <1>3 DEF Good

\* The same solution, as a function is written.
Solution(f, n, S, a, onward) ==
  /\ f \in [0 .. n -> S]
  /\ f = [i \in 0 .. n |-> IF i = 0 THEN a ELSE onward[<<i, f[i - 1]>>]]

\* ... and so has the recursive function that states it, which CHOOSEs one.
LEMMA RecursiveFunction ==
  ASSUME NEW n \in Nat, NEW S, NEW a \in S, NEW onward \in [(1 .. n) \X S -> S]
  PROVE  \E f : Solution(f, n, S, a, onward)
<1>1. PICK f : RunOf(f, n, S, a, onward)
  BY Recursion
<1> USE <1>1 DEF RunOf
<1>2. ASSUME NEW i \in 0 .. n PROVE f[i] = IF i = 0 THEN a ELSE onward[<<i, f[i - 1]>>]
  BY <1>1
<1>3. f = [i \in 0 .. n |-> f[i]]
  OBVIOUS
<1> QED BY <1>2, <1>3 DEF Solution

Rank(S, key, x) == Cardinality({y \in S : key[y] < key[x]})

\* A greater key has a greater rank.
LEMMA RanksGrow ==
  ASSUME NEW S, IsFiniteSet(S), NEW key, \A x \in S : key[x] \in Nat,
         NEW x \in S, NEW y \in S, key[x] < key[y]
  PROVE  Rank(S, key, x) < Rank(S, key, y)
<1> DEFINE A == {z \in S : key[z] < key[x]}
           B == {z \in S : key[z] < key[y]}
           D == B \ {x}
<1>1. A \subseteq D /\ B \subseteq S /\ x \in B
  <2>1. \A z \in A : key[z] < key[y] /\ z # x
    <3>1. \A a, b, c \in Nat : a < b /\ b < c => a < c
      OBVIOUS
    <3>2. \A a \in Nat : ~ (a < a)
      OBVIOUS
    <3> QED BY <3>1, <3>2
  <2> QED BY <2>1
<1> HIDE DEF A, B
<1>2. IsFiniteSet(B)
  BY <1>1, FS_Subset
<1>3. IsFiniteSet(D) /\ Cardinality(D) = Cardinality(B) - 1
  BY <1>1, <1>2, FS_RemoveElement
<1> HIDE DEF D
<1>4. IsFiniteSet(A) /\ Cardinality(A) <= Cardinality(D)
  BY <1>1, <1>3, FS_Subset
<1>5. Cardinality(A) \in Nat /\ Cardinality(B) \in Nat
  BY <1>2, <1>4, FS_CardinalityType
<1>6. Cardinality(A) < Cardinality(B)
  BY <1>3, <1>4, <1>5
<1> QED BY <1>6 DEF Rank, A, B

(* Among finitely many with different keys, each has its own place, and    *)
(* every place is taken.                                                   *)
Ranked(S, key) ==
  /\ Cardinality(S) \in Nat
  /\ \A x \in S : Rank(S, key, x) \in 0 .. Cardinality(S) - 1
  /\ \A x, y \in S : Rank(S, key, x) = Rank(S, key, y) => x = y
  /\ \A k \in 0 .. Cardinality(S) - 1 : \E x \in S : Rank(S, key, x) = k

\* The ranks of n elements with different keys are 0 .. n - 1.
LEMMA RanksAreAll ==
  ASSUME NEW S, IsFiniteSet(S), NEW key, \A x \in S : key[x] \in Nat,
         \A x, y \in S : key[x] = key[y] => x = y
  PROVE  Ranked(S, key)
<1> DEFINE n == Cardinality(S)
           T == 0 .. n - 1
           r == [x \in S |-> Rank(S, key, x)]
<1>1. n \in Nat
  BY FS_CardinalityType
<1>2. ASSUME NEW x \in S PROVE Rank(S, key, x) \in T
  <2> DEFINE A == {y \in S : key[y] < key[x]}
             D == S \ {x}
  <2>1. A \subseteq D
    <3>1. \A a \in Nat : ~ (a < a)
      OBVIOUS
    <3> QED BY <3>1
  <2> HIDE DEF A
  <2>2. IsFiniteSet(D) /\ Cardinality(D) = n - 1
    BY FS_RemoveElement
  <2> HIDE DEF D
  <2>3. IsFiniteSet(A) /\ Cardinality(A) <= Cardinality(D)
    BY <2>1, <2>2, FS_Subset
  <2>4. Cardinality(A) \in Nat
    BY <2>3, FS_CardinalityType
  <2> HIDE DEF n
  <2> QED BY <1>1, <2>2, <2>3, <2>4 DEF Rank, A
<1>3. ASSUME NEW x \in S, NEW y \in S, Rank(S, key, x) = Rank(S, key, y) PROVE x = y
  <2>1. key[x] \in Nat /\ key[y] \in Nat
    OBVIOUS
  <2>2. key[x] < key[y] \/ key[y] < key[x] \/ key[x] = key[y]
    BY <2>1
  <2>3. Rank(S, key, x) \in Nat /\ ~ (Rank(S, key, x) < Rank(S, key, x))
    BY <1>1, <1>2
  <2>4. ~ (key[x] < key[y]) /\ ~ (key[y] < key[x])
    BY <1>3, <2>3, RanksGrow
  <2> QED BY <2>2, <2>4
<1> HIDE DEF n
<1>4. r \in Injection(S, T)
  BY <1>2, <1>3 DEF Injection, IsInjective
<1>5. IsFiniteSet(T) /\ Cardinality(T) = n
  BY <1>1, FS_Interval
<1> HIDE DEF T
<1>6. r \in Surjection(S, T)
  <2> HIDE DEF r
  <2>1. Cardinality(S) = Cardinality(T)
    BY <1>5 DEF n
  <2> QED BY <1>4, <1>5, <2>1, FS_Injection
<1>7. \A k \in T : \E x \in S : Rank(S, key, x) = k
  BY <1>6 DEF Surjection
<1> QED BY <1>1, <1>2, <1>3, <1>7 DEF n, T, Ranked

-----------------------------------------------------------------------------
\* Positions in their order.

\* h numbers the positions D in their order.
Numbers(h, n, D) ==
  /\ h \in [1 .. n -> D]
  /\ \A j, k \in 1 .. n : j < k => h[j] < h[k]
  /\ \A p \in D : \E k \in 1 .. n : h[k] = p

\* Finitely many positions have an order.
LEMMA PlacesAreNumbered ==
  ASSUME NEW D, D \subseteq Nat, IsFiniteSet(D)
  PROVE  \E h : Numbers(h, Cardinality(D), D)
<1> DEFINE key == [x \in D |-> x]
           n == Cardinality(D)
           h == [k \in 1 .. n |-> CHOOSE x \in D : Rank(D, key, x) = k - 1]
<1>1. /\ \A x \in D : key[x] \in Nat
      /\ \A x, y \in D : key[x] = key[y] => x = y
      /\ \A x \in D : key[x] = x
  OBVIOUS
<1> HIDE DEF key
<1>2. Ranked(D, key)
  BY <1>1, RanksAreAll
<1>3. ASSUME NEW k \in 1 .. n PROVE h[k] \in D /\ Rank(D, key, h[k]) = k - 1
  <2>1. k - 1 \in 0 .. n - 1
    BY <1>2 DEF Ranked
  <2>2. \E x \in D : Rank(D, key, x) = k - 1
    BY <1>2, <2>1 DEF Ranked
  <2> QED BY <2>2, Zenon
<1>4. h \in [1 .. n -> D]
  BY <1>3
<1> HIDE DEF h
<1>5. ASSUME NEW j \in 1 .. n, NEW k \in 1 .. n, j < k PROVE h[j] < h[k]
  <2>1. h[j] \in D /\ h[k] \in D /\ h[j] \in Nat /\ h[k] \in Nat
    BY <1>3
  <2>2. h[j] # h[k]
    BY <1>3, <1>5
  <2>3. ~ (h[k] < h[j])
    <3>1. ~ (k - 1 < j - 1)
      BY <1>5
    <3>2. SUFFICES ASSUME h[k] < h[j] PROVE FALSE
      OBVIOUS
    <3>3. key[h[k]] < key[h[j]]
      BY <1>1, <2>1, <3>2
    <3>4. Rank(D, key, h[k]) < Rank(D, key, h[j])
      BY <1>1, <2>1, <3>3, RanksGrow
    <3> QED BY <1>3, <3>1, <3>4
  <2> QED BY <2>1, <2>2, <2>3
<1>6. ASSUME NEW p \in D PROVE \E k \in 1 .. n : h[k] = p
  <2> DEFINE k == Rank(D, key, p) + 1
  <2>1. k \in 1 .. n /\ k - 1 = Rank(D, key, p)
    BY <1>2 DEF Ranked
  <2>2. h[k] \in D /\ Rank(D, key, h[k]) = Rank(D, key, p)
    BY <1>3, <2>1
  <2>3. h[k] = p
    BY <1>2, <2>2 DEF Ranked
  <2> QED BY <2>1, <2>3
<1> QED BY <1>4, <1>5, <1>6 DEF Numbers

\* There is one way to number positions, and it is Nth.
LEMMA NumberIsNth ==
  ASSUME NEW D, D \subseteq Nat, NEW n \in Nat, NEW h, Numbers(h, n, D)
  PROVE  /\ IsFiniteSet(D) /\ Cardinality(D) = n
         /\ \A k \in 1 .. n : Nth(D, k) = h[k]
<1>1. /\ h \in [1 .. n -> D]
      /\ \A j, k \in 1 .. n : j < k => h[j] < h[k]
      /\ \A p \in D : \E k \in 1 .. n : h[k] = p
  BY DEF Numbers
<1>2. \A j, k \in 1 .. n : (h[j] < h[k] <=> j < k) /\ (h[j] = h[k] => j = k)
  <2> SUFFICES ASSUME NEW j \in 1 .. n, NEW k \in 1 .. n
               PROVE  (h[j] < h[k] <=> j < k) /\ (h[j] = h[k] => j = k)
    OBVIOUS
  <2>1. h[j] \in Nat /\ h[k] \in Nat
    BY <1>1
  <2>2. (j < k => h[j] < h[k]) /\ (k < j => h[k] < h[j])
    BY <1>1
  <2> QED BY <2>1, <2>2
<1>3. ASSUME NEW m \in 0 .. n, NEW E, E = {h[j] : j \in 1 .. m}
      PROVE  IsFiniteSet(E) /\ Cardinality(E) = m
  <2>1. IsFiniteSet(1 .. m) /\ Cardinality(1 .. m) = m
    BY FS_Interval
  <2> DEFINE g == [j \in 1 .. m |-> h[j]]
  <2>2. g \in Bijection(1 .. m, E)
    <3>1. g \in Injection(1 .. m, E)
      BY <1>2, <1>3 DEF Injection, IsInjective
    <3>2. g \in Surjection(1 .. m, E)
      BY <1>3 DEF Surjection
    <3> QED BY <3>1, <3>2 DEF Bijection
  <2> HIDE DEF g
  <2>3. ExistsBijection(1 .. m, E)
    BY <2>2 DEF ExistsBijection
  <2> QED BY <2>1, <2>3, FS_Bijection
<1>4. IsFiniteSet(D) /\ Cardinality(D) = n
  <2>1. D = {h[j] : j \in 1 .. n}
    BY <1>1
  <2> QED BY <1>3, <2>1
<1>5. ASSUME NEW k \in 1 .. n PROVE Cardinality({q \in D : q < h[k]}) = k - 1
  <2>1. {q \in D : q < h[k]} = {h[j] : j \in 1 .. k - 1}
    <3>1. \A j \in 1 .. k - 1 : j \in 1 .. n /\ j < k
      OBVIOUS
    <3>2. \A j \in 1 .. n : j < k => j \in 1 .. k - 1
      OBVIOUS
    <3>3. ASSUME NEW q \in D, q < h[k] PROVE \E j \in 1 .. k - 1 : q = h[j]
      <4>1. PICK j \in 1 .. n : h[j] = q
        BY <1>1
      <4>2. j < k
        BY <1>2, <3>3, <4>1
      <4> QED BY <3>2, <4>1, <4>2
    <3>4. ASSUME NEW j \in 1 .. k - 1 PROVE h[j] \in D /\ h[j] < h[k]
      BY <1>1, <3>1, <3>4
    <3> QED BY <3>3, <3>4
  <2>2. k - 1 \in 0 .. n
    OBVIOUS
  <2> QED BY <1>3, <2>1, <2>2
<1>6. ASSUME NEW k \in 1 .. n PROVE Nth(D, k) = h[k]
  <2>1. h[k] \in D
    BY <1>1
  <2>2. Nth(D, k) \in D /\ Cardinality({q \in D : q < Nth(D, k)}) = k - 1
    BY <1>5, <2>1, Zenon DEF Nth
  <2>3. PICK j \in 1 .. n : h[j] = Nth(D, k)
    BY <1>1, <2>2
  <2>4. j - 1 = k - 1
    BY <1>5, <2>2, <2>3
  <2> QED BY <2>3, <2>4
<1> QED BY <1>4, <1>6

\* So Nth numbers finitely many.
LEMMA NthNumbers ==
  ASSUME NEW D, D \subseteq Nat, IsFiniteSet(D)
  PROVE  /\ Cardinality(D) \in Nat
         /\ Numbers([k \in 1 .. Cardinality(D) |-> Nth(D, k)], Cardinality(D), D)
<1> DEFINE n == Cardinality(D)
<1>1. n \in Nat
  BY FS_CardinalityType
<1>2. PICK h : Numbers(h, n, D)
  BY PlacesAreNumbered
<1> HIDE DEF n
<1>3. \A k \in 1 .. n : Nth(D, k) = h[k]
  BY <1>1, <1>2, NumberIsNth
<1>4. h = [k \in 1 .. n |-> Nth(D, k)]
  BY <1>2, <1>3 DEF Numbers
<1> QED BY <1>1, <1>2, <1>4 DEF n

-----------------------------------------------------------------------------
\* What the pairing rules see of a message.

\* A log of messages with their counts.
Counted(l) ==
  /\ DOMAIN l \subseteq Nat
  /\ l = [i \in DOMAIN l |-> l[i]]
  /\ \A i \in DOMAIN l : l[i] \in Sized

\* The shape of a message is a message of Conversation.
LEMMA ShapeIs ==
  ASSUME NEW m
  PROVE  /\ Shape(m).role = m.role /\ Shape(m).calls = m.calls
         /\ Shape(m).id = m.id /\ Shape(m).marked = m.marked
         /\ m \in Sized => Shape(m) \in Message
<1>1. /\ Shape(m).role = m.role /\ Shape(m).calls = m.calls
      /\ Shape(m).id = m.id /\ Shape(m).marked = m.marked
  BY DEF Shape
<1>2. ASSUME m \in Sized PROVE Shape(m) \in Message
  <2>1. /\ m.role \in Roles /\ m.calls \in SUBSET Nat /\ m.id \in Nat /\ m.marked \in BOOLEAN
        /\ m.calls # {} => m.role = "assistant"
    BY <1>2 DEF Sized
  <2>2. Shape(m) \in [role: Roles, calls: SUBSET Nat, id: Nat, marked: BOOLEAN]
    BY <2>1 DEF Shape
  <2> QED BY <1>1, <2>1, <2>2 DEF Message
<1> QED BY <1>1, <1>2

LEMMA ShapesAre ==
  ASSUME NEW l
  PROVE  /\ DOMAIN Shapes(l) = DOMAIN l
         /\ \A i \in DOMAIN l : Shapes(l)[i] = Shape(l[i])
         /\ \A i \in DOMAIN l :
              /\ Shapes(l)[i].role = l[i].role /\ Shapes(l)[i].calls = l[i].calls
              /\ Shapes(l)[i].id = l[i].id /\ Shapes(l)[i].marked = l[i].marked
         /\ Counted(l) => IsLog(Shapes(l))
<1>1. DOMAIN Shapes(l) = DOMAIN l /\ \A i \in DOMAIN l : Shapes(l)[i] = Shape(l[i])
  BY DEF Shapes
<1>2. Shapes(l) = [i \in DOMAIN Shapes(l) |-> Shapes(l)[i]]
  BY DEF Shapes
<1>3. ASSUME Counted(l) PROVE IsLog(Shapes(l))
  <2>1. \A i \in DOMAIN l : Shapes(l)[i] \in Message
    BY <1>1, <1>3, ShapeIs DEF Counted
  <2> QED BY <1>1, <1>2, <1>3, <2>1 DEF IsLog, Counted
<1> QED BY <1>1, <1>3, ShapeIs

\* The rules see the same in the shapes.
LEMMA ShapesSame ==
  ASSUME NEW l
  PROVE  /\ Callers(Shapes(l)) = Callers(l) /\ Lead(Shapes(l)) = Lead(l)
         /\ \A r : Of(Shapes(l), r) = Of(l, r)
         /\ \A i, j : Between(Shapes(l), i, j) = Between(l, i, j)
         /\ \A i : Followers(Shapes(l), i) = Followers(l, i)
         /\ Unanswered(Shapes(l)) = Unanswered(l) /\ Uncalled(Shapes(l)) = Uncalled(l)
<1>1. /\ DOMAIN Shapes(l) = DOMAIN l
      /\ \A i \in DOMAIN l :
              /\ Shapes(l)[i].role = l[i].role /\ Shapes(l)[i].calls = l[i].calls
              /\ Shapes(l)[i].id = l[i].id
  BY ShapesAre
<1>2. Callers(Shapes(l)) = Callers(l)
  BY <1>1 DEF Callers
<1>3. Lead(Shapes(l)) = Lead(l)
  BY <1>1 DEF Lead
<1>4. \A r : Of(Shapes(l), r) = Of(l, r)
  BY <1>1 DEF Of
<1>5. \A i, j : Between(Shapes(l), i, j) = Between(l, i, j)
  BY <1>1 DEF Between
<1>6. \A i : Followers(Shapes(l), i) = Followers(l, i)
  BY <1>4, <1>5 DEF Followers
<1>7. ASSUME NEW i PROVE Answers(Shapes(l), i) = Answers(l, i)
  <2>1. \A k \in Of(l, "tool") : Shapes(l)[k].id = l[k].id
    BY <1>1 DEF Of
  <2> QED BY <1>4, <1>5, <2>1 DEF Answers
<1>8. Unanswered(Shapes(l)) = Unanswered(l)
  <2>1. \A i \in Callers(l) : Shapes(l)[i].calls = l[i].calls
    BY <1>1 DEF Callers
  <2> QED BY <1>2, <1>7, <2>1 DEF Unanswered
<1>9. Uncalled(Shapes(l)) = Uncalled(l)
  <2>1. \A i \in Callers(l) : Shapes(l)[i].calls = l[i].calls
    BY <1>1 DEF Callers
  <2>2. \A j \in Of(l, "tool") : Shapes(l)[j].id = l[j].id
    BY <1>1 DEF Of
  <2> QED BY <1>2, <1>4, <2>1, <2>2 DEF Uncalled
<1> QED BY <1>2, <1>3, <1>4, <1>5, <1>6, <1>8, <1>9

\* Calls taken off a message, and messages erased, of the shapes as well.
LEMMA BareIs ==
  ASSUME NEW m \in Sized
  PROVE  /\ Bare(m) \in Sized /\ Shape(Bare(m)) = Bare(Shape(m))
         /\ Bare(m).role = m.role /\ Bare(m).id = m.id /\ Bare(m).summary = m.summary
<1>1. /\ m \in [role: Roles, calls: SUBSET Nat, id: Nat, marked: BOOLEAN,
                text: Nat, reasoning: Nat, args: Nat, summary: BOOLEAN]
      /\ m.summary => m.role = "system"
  BY DEF Sized
<1>2. /\ Bare(m) \in [role: Roles, calls: SUBSET Nat, id: Nat, marked: BOOLEAN,
                      text: Nat, reasoning: Nat, args: Nat, summary: BOOLEAN]
      /\ Bare(m).calls = {} /\ Bare(m).role = m.role /\ Bare(m).id = m.id
      /\ Bare(m).marked = m.marked /\ Bare(m).summary = m.summary
  BY <1>1 DEF Bare
<1>3. Bare(m) \in Sized
  BY <1>1, <1>2 DEF Sized
<1>4. Shape(Bare(m)) = Bare(Shape(m))
  BY <1>2 DEF Shape, Bare
<1> QED BY <1>2, <1>3, <1>4

LEMMA StripShapes ==
  ASSUME NEW l, Counted(l), NEW S
  PROVE  /\ Counted(Strip(l, S)) /\ DOMAIN Strip(l, S) = DOMAIN l
         /\ Shapes(Strip(l, S)) = Strip(Shapes(l), S)
<1>1. /\ DOMAIN Strip(l, S) = DOMAIN l
      /\ \A i \in DOMAIN l : Strip(l, S)[i] = IF i \in S THEN Bare(l[i]) ELSE l[i]
      /\ Strip(l, S) = [i \in DOMAIN Strip(l, S) |-> Strip(l, S)[i]]
  BY DEF Strip
<1>2. \A i \in DOMAIN l : l[i] \in Sized
  BY DEF Counted
<1>3. Counted(Strip(l, S))
  BY <1>1, <1>2, BareIs DEF Counted
<1>4. Shapes(Strip(l, S)) = [i \in DOMAIN l |-> Shape(Strip(l, S)[i])]
  BY <1>1 DEF Shapes
<1>5. Strip(Shapes(l), S)
        = [i \in DOMAIN l |-> IF i \in S THEN Bare(Shapes(l)[i]) ELSE Shapes(l)[i]]
  BY ShapesAre DEF Strip
<1>6. \A i \in DOMAIN l : Shape(Strip(l, S)[i])
        = IF i \in S THEN Bare(Shapes(l)[i]) ELSE Shapes(l)[i]
  BY <1>1, <1>2, BareIs, ShapesAre
<1> QED BY <1>1, <1>3, <1>4, <1>5, <1>6

LEMMA EraseShapes ==
  ASSUME NEW l, Counted(l), NEW S
  PROVE  /\ Counted(Erase(l, S)) /\ DOMAIN Erase(l, S) = DOMAIN l \ S
         /\ \A i \in DOMAIN l \ S : Erase(l, S)[i] = l[i]
         /\ Shapes(Erase(l, S)) = Erase(Shapes(l), S)
<1>1. Erase(l, S) = [i \in DOMAIN l \ S |-> l[i]]
  BY DEF Erase, Restrict
<1>2. Erase(Shapes(l), S) = [i \in DOMAIN l \ S |-> Shapes(l)[i]]
  BY ShapesAre DEF Erase, Restrict
<1>3. Counted(Erase(l, S))
  BY <1>1 DEF Counted
<1>4. Shapes(Erase(l, S)) = Erase(Shapes(l), S)
  BY <1>1, <1>2, ShapesAre DEF Shapes
<1> QED BY <1>1, <1>3, <1>4

\* A sequence of messages is such a log.
LEMMA SeqCounts ==
  ASSUME NEW s \in Seq(Sized)
  PROVE  /\ Counted(s) /\ DOMAIN s = 1 .. Len(s) /\ Len(s) \in Nat
         /\ IsLog(Shapes(s)) /\ DOMAIN Shapes(s) = 1 .. Len(s)
<1>1. DOMAIN s = 1 .. Len(s) /\ Len(s) \in Nat /\ s = [i \in DOMAIN s |-> s[i]]
  OBVIOUS
<1>2. Counted(s)
  BY <1>1 DEF Counted
<1> QED BY <1>1, <1>2, ShapesAre

\* A log at the positions 1 .. n is a sequence.
LEMMA CountedSeq ==
  ASSUME NEW l, Counted(l), NEW n \in Nat, DOMAIN l = 1 .. n
  PROVE  l \in Seq(Sized) /\ Len(l) = n
<1>1. l \in [1 .. n -> Sized]
  BY DEF Counted
<1> QED BY <1>1

-----------------------------------------------------------------------------
\* Messages in a row and with gaps.

LEMMA CarriesShapes ==
  ASSUME NEW a, NEW b, NEW h, Carries(h, a, b)
  PROVE  Carries(h, Shapes(a), Shapes(b))
<1>1. \A i \in DOMAIN a : h[i] \in DOMAIN b /\ b[h[i]] = a[i]
  BY DEF Carries
<1>2. \A i \in DOMAIN a : Shapes(b)[h[i]] = Shapes(a)[i]
  BY <1>1, ShapesAre
<1> QED BY <1>2, ShapesAre DEF Carries

LEMMA CarriesThrough ==
  ASSUME NEW a, NEW b, NEW c, NEW h, NEW g, Carries(h, a, b), Carries(g, b, c)
  PROVE  Carries([i \in DOMAIN a |-> g[h[i]]], a, c)
<1> DEFINE f == [i \in DOMAIN a |-> g[h[i]]]
<1>1. \A i \in DOMAIN a : h[i] \in DOMAIN b /\ f[i] = g[h[i]]
  BY DEF Carries
<1>2. f \in [DOMAIN a -> DOMAIN c]
  BY <1>1 DEF Carries
<1> HIDE DEF f
<1>3. \A i, j \in DOMAIN a : i < j => f[i] < f[j]
  BY <1>1 DEF Carries
<1>4. \A k \in DOMAIN c : \E i \in DOMAIN a : f[i] = k
  BY <1>1 DEF Carries
<1>5. \A i \in DOMAIN a : c[f[i]] = a[i]
  BY <1>1 DEF Carries
<1> QED BY <1>2, <1>3, <1>4, <1>5 DEF Carries, f

\* What is alike has no call and no result alone either.
LEMMA AlikePaired ==
  ASSUME NEW a, IsLog(a), NEW b, IsLog(b), Alike(a, b), Unanswered(b) = {}, Uncalled(b) = {}
  PROVE  Unanswered(a) = {} /\ Uncalled(a) = {}
<1>1. PICK h : Carries(h, a, b)
  BY DEF Alike
<1>2. \A i \in DOMAIN a : h[i] \in DOMAIN b /\ b[h[i]] = a[i]
  BY <1>1 DEF Carries
<1>3. ASSUME NEW i \in Unanswered(a) PROVE FALSE
  <2>1. i \in DOMAIN a /\ a[i].calls # {} /\ ~ (a[i].calls \subseteq Answers(a, i))
    BY <1>3 DEF Unanswered, Callers
  <2>2. Answers(a, i) = Answers(b, h[i])
    BY <1>1, <2>1, CarriesAnswers
  <2>3. h[i] \in Unanswered(b)
    BY <1>2, <2>1, <2>2 DEF Unanswered, Callers
  <2> QED BY <2>3
<1>4. ASSUME NEW j \in Uncalled(a) PROVE FALSE
  <2>1. j \in DOMAIN a
    BY <1>4 DEF Uncalled, Of
  <2>2. h[j] \in Uncalled(b)
    BY <1>1, <1>4, <2>1, CarriesUncalled
  <2> QED BY <2>2
<1> QED BY <1>3, <1>4

\* A row without some of its messages is the row with gaps, pushed together.
LEMMA WithoutIs ==
  ASSUME NEW s \in Seq(Sized), NEW S
  PROVE  LET kept == DOMAIN s \ S
             h    == [k \in 1 .. Cardinality(kept) |-> Nth(kept, k)]
         IN  /\ Without(s, S) \in Seq(Sized)
             /\ Cardinality(kept) \in Nat /\ Len(Without(s, S)) = Cardinality(kept)
             /\ Numbers(h, Cardinality(kept), kept)
             /\ Carries(h, Without(s, S), Erase(s, S))
             /\ Carries(h, Shapes(Without(s, S)), Erase(Shapes(s), S))
<1> DEFINE kept == DOMAIN s \ S
           n == Cardinality(kept)
           h == [k \in 1 .. n |-> Nth(kept, k)]
           w == Without(s, S)
<1>1. kept \subseteq Nat /\ IsFiniteSet(kept)
  <2>1. DOMAIN s = 1 .. Len(s) /\ Len(s) \in Nat
    BY SeqCounts
  <2>2. IsFiniteSet(DOMAIN s)
    BY <2>1, FS_Interval
  <2> QED BY <2>1, <2>2, FS_Subset
<1>2. kept \subseteq DOMAIN s /\ kept = DOMAIN s \ S
  OBVIOUS
<1> HIDE DEF kept
<1>3. n \in Nat /\ Numbers(h, n, kept)
  BY <1>1, NthNumbers
<1>4. w = [k \in 1 .. n |-> s[Nth(kept, k)]]
  BY DEF Without, kept
<1> HIDE DEF w
<1>5. \A k \in 1 .. n : h[k] = Nth(kept, k) /\ h[k] \in kept
  BY <1>3 DEF Numbers
<1> HIDE DEF h, n
<1>6. ASSUME NEW k \in 1 .. n PROVE w[k] = s[h[k]] /\ w[k] \in Sized
  <2>1. h[k] \in DOMAIN s /\ w[k] = s[h[k]]
    BY <1>2, <1>4, <1>5
  <2>2. \A i \in DOMAIN s : s[i] \in Sized
    BY SeqCounts DEF Counted
  <2> QED BY <2>1, <2>2
<1>7. w \in [1 .. n -> Sized]
  BY <1>4, <1>6
<1>8. w \in Seq(Sized) /\ Len(w) = n /\ DOMAIN w = 1 .. n
  BY <1>3, <1>7
<1>9. DOMAIN Erase(s, S) = kept /\ \A i \in kept : Erase(s, S)[i] = s[i]
  BY <1>2, SeqCounts, EraseShapes
<1>10. Carries(h, w, Erase(s, S))
  BY <1>3, <1>5, <1>6, <1>8, <1>9 DEF Carries, Numbers
<1>11. Carries(h, Shapes(w), Erase(Shapes(s), S))
  <2>1. Carries(h, Shapes(w), Shapes(Erase(s, S)))
    BY <1>10, CarriesShapes
  <2>2. Shapes(Erase(s, S)) = Erase(Shapes(s), S)
    BY SeqCounts, EraseShapes
  <2> QED BY <2>1, <2>2
<1> QED BY <1>3, <1>8, <1>10, <1>11 DEF kept, n, h, w

\* A row that is alike a log is the log's messages in their order.
LEMMA InOrderIs ==
  ASSUME NEW s \in Seq(Sized), NEW l, DOMAIN l \subseteq Nat, Alike(Shapes(s), Shapes(l))
  PROVE  Shapes(s) = InOrder(l)
<1> DEFINE n == Len(s)
<1>1. PICK h : Carries(h, Shapes(s), Shapes(l))
  BY DEF Alike
<1>2. DOMAIN Shapes(s) = 1 .. n /\ n \in Nat /\ DOMAIN Shapes(l) = DOMAIN l
  BY SeqCounts, ShapesAre
<1> HIDE DEF n
<1>3. Numbers(h, n, DOMAIN l)
  BY <1>1, <1>2 DEF Carries, Numbers
<1>4. Cardinality(DOMAIN l) = n /\ \A k \in 1 .. n : Nth(DOMAIN l, k) = h[k]
  BY <1>2, <1>3, NumberIsNth
<1>5. ASSUME NEW k \in 1 .. n PROVE Shapes(s)[k] = Shape(l[h[k]])
  <2>1. h[k] \in DOMAIN l /\ Shapes(l)[h[k]] = Shapes(s)[k]
    BY <1>1, <1>2 DEF Carries
  <2> QED BY <2>1, ShapesAre
<1>6. Shapes(s) = [k \in 1 .. n |-> Shapes(s)[k]]
  BY <1>2 DEF Shapes
<1> QED BY <1>4, <1>5, <1>6 DEF InOrder

\* The repair of a row is the repair of a log, pushed together.
LEMMA RepairedIs ==
  ASSUME NEW s \in Seq(Sized)
  PROVE  /\ Repaired(s) \in Seq(Sized)
         /\ Unanswered(Repaired(s)) = {} /\ Uncalled(Repaired(s)) = {}
<1> DEFINE t == RepairCalls(s)
           u == Uncalled(t)
<1>1. /\ Counted(s) /\ IsLog(Shapes(s)) /\ DOMAIN s = 1 .. Len(s) /\ Len(s) \in Nat
  BY SeqCounts
<1>2. /\ Counted(t) /\ DOMAIN t = DOMAIN s
      /\ Shapes(t) = Strip(Shapes(s), Unanswered(Shapes(s)))
  BY <1>1, StripShapes, ShapesSame DEF RepairCalls
<1>3. t \in Seq(Sized)
  BY <1>1, <1>2, CountedSeq
<1>4. Repaired(s) = Without(t, u)
  BY DEF Repaired
<1>5. u = Uncalled(Shapes(t))
  BY ShapesSame
<1>6. Erase(Shapes(t), u) = Repair(Shapes(s))
  BY <1>2, <1>5 DEF Repair
<1> HIDE DEF t, u
<1>7. /\ Repaired(s) \in Seq(Sized)
      /\ Alike(Shapes(Repaired(s)), Repair(Shapes(s)))
  BY <1>3, <1>4, <1>6, WithoutIs DEF Alike
<1>8. /\ IsLog(Repair(Shapes(s))) /\ IsLog(Shapes(Repaired(s)))
      /\ Unanswered(Repair(Shapes(s))) = {} /\ Uncalled(Repair(Shapes(s))) = {}
  BY <1>1, <1>7, RepairMends, RepairFacts, SeqCounts
<1>9. Unanswered(Shapes(Repaired(s))) = {} /\ Uncalled(Shapes(Repaired(s))) = {}
  BY <1>7, <1>8, AlikePaired
<1> QED BY <1>7, <1>9, ShapesSame

-----------------------------------------------------------------------------
\* The leading system block, and the results behind a call.

\* From a on, how far everything is good.
LEMMA GoodUntil ==
  ASSUME NEW n \in Nat, NEW a \in 0 .. n, NEW Good
  PROVE  \E e \in a .. n : a + 1 .. e \subseteq Good /\ (e < n => e + 1 \notin Good)
<1> DEFINE Bad == {k \in a + 1 .. n : k \notin Good}
<1>1. CASE Bad = {}
  <2>1. n \in a .. n /\ a + 1 .. n \subseteq Good /\ ~ (n < n)
    BY <1>1
  <2> QED BY <2>1
<1>2. CASE Bad # {}
  <2>1. Bad \subseteq Nat
    OBVIOUS
  <2>2. PICK k \in Bad : \A j \in Bad : k <= j
    BY <1>2, <2>1, LeastNumber
  <2>3. k - 1 \in a .. n /\ (k - 1) + 1 = k /\ k \notin Good
    BY <2>2
  <2>4. ASSUME NEW j \in a + 1 .. k - 1 PROVE j \in Good
    <3>1. j \in a + 1 .. n /\ ~ (k <= j)
      BY <2>2
    <3> QED BY <2>2, <3>1
  <2> QED BY <2>3, <2>4
<1> QED BY <1>1, <1>2

LEMMA LeadIs ==
  ASSUME NEW s \in Seq(Sized)
  PROVE  /\ SystemCount(s) \in 0 .. Len(s)
         /\ Lead(s) = 1 .. SystemCount(s)
         /\ \A i \in 1 .. SystemCount(s) : s[i].role = "system"
         /\ SystemCount(s) < Len(s) => s[SystemCount(s) + 1].role # "system"
<1> DEFINE n == Len(s)
           Good == {i \in 1 .. n : s[i].role = "system"}
<1>1. DOMAIN s = 1 .. n /\ n \in Nat
  BY SeqCounts
<1> HIDE DEF n
<1>2. PICK c \in 0 .. n : 0 + 1 .. c \subseteq Good /\ (c < n => c + 1 \notin Good)
  <2>1. 0 \in 0 .. n
    BY <1>1
  <2> HIDE DEF Good
  <2> QED BY <1>1, <2>1, GoodUntil
<1>3. 1 .. c \subseteq Good /\ (c < n => c + 1 \in 1 .. n /\ c + 1 \notin Good)
  BY <1>1, <1>2
<1>4. Lead(s) = {i \in 1 .. n : \A j \in 1 .. n : j <= i => s[j].role = "system"}
  BY <1>1 DEF Lead
<1>5. ASSUME NEW i \in 1 .. c
      PROVE  i \in 1 .. n /\ \A j \in 1 .. n : j <= i => s[j].role = "system"
  <2>1. \A j \in 1 .. n : j <= i => j \in 1 .. c
    BY <1>1
  <2> QED BY <1>1, <1>3, <2>1
<1>6. ASSUME NEW i \in 1 .. n, i \notin 1 .. c
      PROVE  \E j \in 1 .. n : j <= i /\ s[j].role # "system"
  <2>1. c < n /\ c + 1 <= i
    BY <1>1, <1>6
  <2> QED BY <1>3, <2>1
<1>7. Lead(s) = 1 .. c
  BY <1>4, <1>5, <1>6
<1>8. SystemCount(s) = c
  BY <1>7, FS_Interval DEF SystemCount
<1> QED BY <1>3, <1>7, <1>8 DEF n

LEMMA FollowersAre ==
  ASSUME NEW s \in Seq(Sized), NEW i \in 1 .. Len(s)
  PROVE  \E e \in i .. Len(s) :
           /\ Followers(s, i) = i + 1 .. e
           /\ \A j \in i + 1 .. e : s[j].role = "tool"
           /\ e < Len(s) => s[e + 1].role # "tool"
<1> DEFINE n == Len(s)
           Good == {j \in 1 .. n : s[j].role = "tool"}
<1>1. DOMAIN s = 1 .. n /\ n \in Nat
  BY SeqCounts
<1>2. i \in 1 .. n /\ i \in 0 .. n
  OBVIOUS
<1> HIDE DEF n
<1>3. PICK e \in i .. n : i + 1 .. e \subseteq Good /\ (e < n => e + 1 \notin Good)
  BY <1>1, <1>2, GoodUntil
<1>4. e < n => e + 1 \in 1 .. n /\ s[e + 1].role # "tool"
  BY <1>1, <1>2, <1>3
<1>5. Followers(s, i) = {j \in Good : i < j /\ {k \in 1 .. n : i < k /\ k < j} \subseteq Good}
  BY <1>1 DEF Followers, Between, Of
<1>6. ASSUME NEW j \in i + 1 .. e
      PROVE  j \in Good /\ i < j /\ {k \in 1 .. n : i < k /\ k < j} \subseteq Good
  <2>1. \A k \in 1 .. n : i < k /\ k < j => k \in i + 1 .. e
    BY <1>1, <1>2
  <2> QED BY <1>3, <2>1
<1>7. ASSUME NEW j \in Good, i < j, {k \in 1 .. n : i < k /\ k < j} \subseteq Good
      PROVE  j \in i + 1 .. e
  <2>1. SUFFICES ASSUME ~ (j <= e) PROVE FALSE
    BY <1>1, <1>2, <1>7
  <2>2. e + 1 \in 1 .. n /\ i < e + 1 /\ e + 1 <= j /\ e < n
    BY <1>1, <1>2, <1>3, <2>1
  <2>3. e + 1 \in Good
    <3>1. CASE e + 1 = j
      BY <3>1
    <3>2. CASE e + 1 < j
      BY <1>7, <2>2, <3>2
    <3> QED BY <2>2, <3>1, <3>2
  <2> QED BY <1>3, <2>2, <2>3
<1>8. Followers(s, i) = i + 1 .. e
  BY <1>5, <1>6, <1>7
<1> QED BY <1>3, <1>4, <1>8 DEF n

\* One row behind another.
LEMMA BehindIs ==
  ASSUME NEW T, NEW a \in Seq(T), NEW b \in Seq(T)
  PROVE  /\ a \o b \in Seq(T) /\ Len(a \o b) = Len(a) + Len(b)
         /\ Len(a) \in Nat /\ Len(b) \in Nat
         /\ \A i \in 1 .. Len(a) : (a \o b)[i] = a[i]
         /\ \A i \in 1 .. Len(b) : (a \o b)[Len(a) + i] = b[i]
OBVIOUS

-----------------------------------------------------------------------------
\* Outside of doCompaction nothing is alone.

LEMMA SummaryIsSized == NewSummary \in Sized /\ [NewSummary EXCEPT !.summary = FALSE] \in Sized
<1>1. Notice \in Nat /\ 0 \in Nat
  BY ShrinkingAssumption
<1> QED BY <1>1 DEF NewSummary, Sized, Roles

\* The repair a compaction does itself.
Quiet(l) == {i \in Callers(l) : l[i].calls \cap {l[j].id : j \in Of(l, "tool")} = {}}
Hushed(l) == Strip(l, Quiet(l))
Closed(l) == Erase(Hushed(l), Uncalled(Hushed(l)))

\* w is r with a summary behind its system block.
Inserted(r, w) ==
  /\ r \in Seq(Sized) /\ w \in Seq(Sized) /\ Len(w) = Len(r) + 1
  /\ \A i \in 1 .. Len(w) :
       w[i] = IF i <= SystemCount(r) THEN r[i]
              ELSE IF i = SystemCount(r) + 1 THEN NewSummary ELSE r[i - 1]

Summed(r) == InsertAt(r, SystemCount(r) + 1, NewSummary)

\* A plan carried out on any row leaves a row.
LEMMA AppliedIs ==
  ASSUME NEW s \in Seq(Sized), NEW S
  PROVE  LET kept     == Without(s, S)
             stripped == Hushed(Summed(kept))
         IN  /\ Applied(s, S) = Without(stripped, Uncalled(stripped))
             /\ Inserted(kept, Summed(kept)) /\ stripped \in Seq(Sized)
             /\ Applied(s, S) \in Seq(Sized)
<1> DEFINE kept     == Without(s, S)
           c        == SystemCount(kept)
           summed   == InsertAt(kept, c + 1, NewSummary)
           stripped == Hushed(summed)
<1>1. Applied(s, S) = Without(stripped, Uncalled(stripped))
  BY DEF Applied, Hushed, Quiet
<1>2. kept \in Seq(Sized) /\ c \in 0 .. Len(kept)
  BY WithoutIs, LeadIs
<1>3. /\ summed \in Seq(Sized) /\ Len(summed) = Len(kept) + 1
      /\ \A i \in 1 .. Len(summed) :
            summed[i] = IF i <= c THEN kept[i] ELSE IF i = c + 1 THEN NewSummary ELSE kept[i - 1]
  <2> HIDE DEF kept, c
  <2>1. summed = (SubSeq(kept, 1, (c + 1) - 1) \o <<NewSummary>>) \o SubSeq(kept, c + 1, Len(kept))
    BY DEF InsertAt
  <2> DEFINE x == SubSeq(kept, 1, c)
             y == SubSeq(kept, c + 1, Len(kept))
  <2>2. /\ x \in Seq(Sized) /\ Len(x) = c /\ \A i \in 1 .. c : x[i] = kept[i]
    BY <1>2
  <2>3. /\ y \in Seq(Sized) /\ Len(y) = Len(kept) - c
        /\ \A i \in 1 .. Len(kept) - c : y[i] = kept[c + i]
    BY <1>2
  <2>4. (c + 1) - 1 = c
    BY <1>2
  <2>5. summed = (x \o <<NewSummary>>) \o y
    BY <2>1, <2>4
  <2> HIDE DEF summed, x, y
  <2> DEFINE z == x \o <<NewSummary>>
  <2>6. /\ z \in Seq(Sized) /\ Len(z) = c + 1
        /\ \A i \in 1 .. c : z[i] = x[i] /\ z[c + 1] = NewSummary
        /\ z[c + 1] = NewSummary
    BY <1>2, <2>2, SummaryIsSized
  <2>7. summed = z \o y
    BY <2>5
  <2> HIDE DEF z
  <2>8. summed \in Seq(Sized) /\ Len(summed) = Len(kept) + 1
    BY <1>2, <2>3, <2>6, <2>7
  <2>9. ASSUME NEW i \in 1 .. Len(summed)
        PROVE  summed[i] = IF i <= c THEN kept[i]
                           ELSE IF i = c + 1 THEN NewSummary ELSE kept[i - 1]
    <3>0. Len(kept) \in Nat /\ i \in Nat
      BY <1>2
    <3>1. CASE i <= c
      <4>1. i \in 1 .. c /\ i \in 1 .. Len(z)
        BY <1>2, <2>6, <3>1
      <4>2. summed[i] = z[i]
        BY <2>3, <2>6, <2>7, <4>1, BehindIs
      <4> QED BY <2>2, <2>6, <3>1, <4>1, <4>2
    <3>2. CASE i = c + 1
      <4>1. i \in 1 .. Len(z) /\ ~ (i <= c)
        BY <1>2, <2>6, <3>2
      <4>2. summed[i] = z[i]
        BY <2>3, <2>6, <2>7, <4>1, BehindIs
      <4> QED BY <2>6, <3>2, <4>1, <4>2
    <3>3. CASE i > c + 1
      <4> DEFINE k == i - (c + 1)
      <4>1. k \in 1 .. Len(kept) - c /\ Len(z) + k = i /\ c + k = i - 1
        BY <1>2, <2>6, <2>8, <3>0, <3>3
      <4> HIDE DEF k
      <4>2. summed[i] = y[k]
        <5>1. k \in 1 .. Len(y)
          BY <2>3, <4>1
        <5>2. (z \o y)[Len(z) + k] = y[k]
          BY <2>3, <2>6, <5>1, BehindIs
        <5> QED BY <2>7, <4>1, <5>2
      <4>3. y[k] = kept[i - 1]
        BY <2>3, <4>1
      <4>4. ~ (i <= c) /\ ~ (i = c + 1)
        BY <1>2, <3>0, <3>3
      <4> QED BY <4>2, <4>3, <4>4
    <3> QED BY <1>2, <3>0, <3>1, <3>2, <3>3
  <2> QED BY <2>8, <2>9
<1>4. Summed(kept) = summed
  BY DEF Summed
<1> HIDE DEF kept, c, summed
<1>5. stripped \in Seq(Sized)
  <2>1. Counted(summed) /\ DOMAIN summed = 1 .. Len(summed) /\ Len(summed) \in Nat
    BY <1>3, SeqCounts
  <2>2. Counted(stripped) /\ DOMAIN stripped = 1 .. Len(summed)
    BY <2>1, StripShapes DEF Hushed
  <2> QED BY <2>1, <2>2, CountedSeq
<1>6. Inserted(kept, summed)
  BY <1>2, <1>3 DEF Inserted, c
<1> HIDE DEF stripped
<1>7. Applied(s, S) \in Seq(Sized)
  BY <1>1, <1>5, WithoutIs
<1> QED BY <1>1, <1>4, <1>5, <1>6, <1>7 DEF kept, stripped

-----------------------------------------------------------------------------
\* Sums of amounts.

LEMMA RowOf ==
  ASSUME NEW T, NEW n \in Nat, NEW f \in [1 .. n -> T]
  PROVE  f \in Seq(T) /\ Len(f) = n
OBVIOUS

LEMMA AddingRun ==
  ASSUME NEW a \in Seq(Nat)
  PROVE  /\ Adding(a)[0] = 0
         /\ \A n \in 1 .. Len(a) : Adding(a)[n] = Adding(a)[n - 1] + a[n]
         /\ \A n \in 0 .. Len(a) : Adding(a)[n] \in Nat
         /\ Total(a) = Adding(a)[Len(a)] /\ Total(a) \in Nat /\ Len(a) \in Nat
<1> DEFINE N == Len(a)
           onward == [p \in (1 .. N) \X Nat |-> p[2] + a[p[1]]]
           IsRun(f) == f = [n \in 0 .. N |-> IF n = 0 THEN 0 ELSE f[n - 1] + a[n]]
           run == Adding(a)
<1>a. N \in Nat /\ \A n \in 1 .. N : a[n] \in Nat
  OBVIOUS
<1> SUFFICES /\ run[0] = 0
             /\ \A n \in 1 .. N : run[n] = run[n - 1] + a[n]
             /\ \A n \in 0 .. N : run[n] \in Nat
  BY <1>a DEF Total
<1>1. onward \in [(1 .. N) \X Nat -> Nat]
  <2> HIDE DEF N
  <2> QED BY <1>a
<1>2. \A n \in 1 .. N, x \in Nat : onward[<<n, x>>] = x + a[n]
  <2> HIDE DEF N
  <2> QED OBVIOUS
<1>3. IsRun(run)
  <2> HIDE DEF N, onward
  <2>1. PICK f : Solution(f, N, Nat, 0, onward)
    BY <1>a, <1>1, RecursiveFunction
  <2> USE <2>1 DEF Solution
  <2>2. ASSUME NEW n \in 0 .. N, n # 0 PROVE onward[<<n, f[n - 1]>>] = f[n - 1] + a[n]
    <3>1. n \in 1 .. N /\ n - 1 \in 0 .. N
      BY <1>a, <2>2
    <3>2. f[n - 1] \in Nat
      BY <3>1
    <3> QED BY <1>2, <3>1, <3>2
  <2>3. IsRun(f)
    BY <2>1, <2>2
  <2> QED BY <2>3, Zenon DEF Adding, N
<1> HIDE DEF run, N
<1>7. run[0] = 0
  BY <1>3, <1>a
<1>8. ASSUME NEW n \in 1 .. N PROVE run[n] = run[n - 1] + a[n]
  <2>1. n \in 0 .. N /\ n # 0
    BY <1>a
  <2> QED BY <1>3, <2>1
<1>9. \A n \in 0 .. N : run[n] \in Nat
  <2>1. ASSUME NEW n \in 1 .. N, run[n - 1] \in Nat PROVE run[n] \in Nat
    <3>1. a[n] \in Nat
      BY <1>a
    <3>2. \A x, y \in Nat : x + y \in Nat
      OBVIOUS
    <3> QED BY <1>8, <2>1, <3>1, <3>2, Zenon
  <2>2. \A n \in 1 .. N : run[n - 1] \in Nat => run[n] \in Nat
    BY <2>1
  <2>3. run[0] \in Nat
    BY <1>7
  <2> HIDE <2>1
  <2> QED BY <1>a, <2>2, <2>3, AllAlong
<1> QED BY <1>7, <1>8, <1>9

\* The sum of sums, a greater sum, and the sum of one amount.
LEMMA TotalsAdd ==
  ASSUME NEW n \in Nat, NEW a \in [1 .. n -> Nat], NEW b \in [1 .. n -> Nat],
         NEW c \in [1 .. n -> Nat], \A i \in 1 .. n : a[i] = b[i] + c[i]
  PROVE  Total(a) = Total(b) + Total(c)
<1>0. /\ a \in Seq(Nat) /\ b \in Seq(Nat) /\ c \in Seq(Nat)
      /\ Len(a) = n /\ Len(b) = n /\ Len(c) = n
  BY RowOf
<1> DEFINE A == Adding(a)
           B == Adding(b)
           C == Adding(c)
           Good == {m \in 0 .. n : A[m] = B[m] + C[m]}
<1>1. /\ n \in Nat /\ A[0] = 0 /\ B[0] = 0 /\ C[0] = 0
      /\ \A m \in 1 .. n : A[m] = A[m - 1] + a[m] /\ B[m] = B[m - 1] + b[m] /\ C[m] = C[m - 1] + c[m]
      /\ \A m \in 0 .. n : A[m] \in Nat /\ B[m] \in Nat /\ C[m] \in Nat
      /\ Total(a) = A[n] /\ Total(b) = B[n] /\ Total(c) = C[n]
  BY <1>0, AddingRun
<1>2. \A m \in 1 .. n : a[m] \in Nat /\ b[m] \in Nat /\ c[m] \in Nat /\ a[m] = b[m] + c[m]
  OBVIOUS
<1> HIDE DEF A, B, C
<1>3. 0 \in Good
  BY <1>1
<1>4. ASSUME NEW m \in 0 .. n - 1, m \in Good PROVE m + 1 \in Good
  <2>1. m + 1 \in 1 .. n /\ m + 1 \in 0 .. n /\ (m + 1) - 1 = m /\ m \in 0 .. n
    BY <1>1
  <2>2. /\ A[m + 1] = A[m] + a[m + 1] /\ B[m + 1] = B[m] + b[m + 1] /\ C[m + 1] = C[m] + c[m + 1]
    BY <1>1, <2>1
  <2>3. A[m] \in Nat /\ B[m] \in Nat /\ C[m] \in Nat /\ A[m] = B[m] + C[m]
    BY <1>1, <1>4, <2>1
  <2>4. a[m + 1] \in Nat /\ b[m + 1] \in Nat /\ c[m + 1] \in Nat /\ a[m + 1] = b[m + 1] + c[m + 1]
    BY <1>2, <2>1
  <2>5. \A x, y, z, u \in Nat : (x + y) + (z + u) = (x + z) + (y + u)
    OBVIOUS
  <2>6. A[m + 1] = B[m + 1] + C[m + 1]
    <3> DEFINE x == B[m]  y == C[m]  z == b[m + 1]  u == c[m + 1]
    <3>1. A[m + 1] = (x + y) + (z + u)
      BY <2>2, <2>3, <2>4
    <3>2. B[m + 1] + C[m + 1] = (x + z) + (y + u)
      BY <2>2
    <3>3. x \in Nat /\ y \in Nat /\ z \in Nat /\ u \in Nat
      BY <2>3, <2>4
    <3> HIDE DEF x, y, z, u
    <3> QED BY <2>5, <3>1, <3>2, <3>3
  <2> QED BY <2>1, <2>6
<1> HIDE DEF Good
<1>5. 0 .. n \subseteq Good
  BY <1>1, <1>3, <1>4, UpTo
<1>6. n \in Good
  BY <1>1, <1>5
<1> QED BY <1>1, <1>6 DEF Good

LEMMA TotalsBelow ==
  ASSUME NEW n \in Nat, NEW a \in [1 .. n -> Nat], NEW b \in [1 .. n -> Nat],
         \A i \in 1 .. n : a[i] <= b[i]
  PROVE  Total(a) <= Total(b)
<1> DEFINE c == [i \in 1 .. n |-> b[i] - a[i]]
<1>1. \A i \in 1 .. n : a[i] \in Nat /\ b[i] \in Nat /\ c[i] \in Nat /\ b[i] = a[i] + c[i]
  OBVIOUS
<1>2. c \in [1 .. n -> Nat]
  BY <1>1
<1> HIDE DEF c
<1>3. Total(b) = Total(a) + Total(c)
  BY <1>1, <1>2, TotalsAdd
<1>4. Total(a) \in Nat /\ Total(b) \in Nat /\ Total(c) \in Nat
  BY <1>2, AddingRun, RowOf
<1> QED BY <1>3, <1>4

LEMMA TotalOne ==
  ASSUME NEW n \in Nat, NEW k \in 1 .. n, NEW x \in Nat
  PROVE  Total([i \in 1 .. n |-> IF i = k THEN x ELSE 0]) = x
<1> DEFINE a == [i \in 1 .. n |-> IF i = k THEN x ELSE 0]
           A == Adding(a)
           Good == {m \in 0 .. n : A[m] = IF m < k THEN 0 ELSE x}
<1>1. a \in Seq(Nat) /\ Len(a) = n
  OBVIOUS
<1>2. \A m \in 1 .. n : a[m] = IF m = k THEN x ELSE 0
  OBVIOUS
<1> HIDE DEF a
<1>3. /\ A[0] = 0 /\ \A m \in 1 .. n : A[m] = A[m - 1] + a[m]
      /\ Total(a) = A[n]
  BY <1>1, AddingRun
<1> HIDE DEF A
<1>4. 0 \in Good
  BY <1>3
<1>5. ASSUME NEW m \in 0 .. n - 1, m \in Good PROVE m + 1 \in Good
  <2>1. m + 1 \in 1 .. n /\ m + 1 \in 0 .. n /\ (m + 1) - 1 = m
    OBVIOUS
  <2>2. A[m + 1] = A[m] + a[m + 1] /\ a[m + 1] = IF m + 1 = k THEN x ELSE 0
    BY <1>2, <1>3, <2>1
  <2>3. A[m] = IF m < k THEN 0 ELSE x
    BY <1>5
  <2>4. A[m + 1] = IF m + 1 < k THEN 0 ELSE x
    BY <2>2, <2>3
  <2> QED BY <2>1, <2>4
<1> HIDE DEF Good
<1>6. 0 .. n \subseteq Good
  BY <1>4, <1>5, UpTo
<1>7. n \in Good
  BY <1>6
<1> QED BY <1>3, <1>7 DEF Good, a

-----------------------------------------------------------------------------
\* Rows without some messages in the middle.

\* The messages behind the gap move up.
LEMMA WithoutRange ==
  ASSUME NEW s \in Seq(Sized), NEW a \in Nat, NEW e \in Nat, a <= e, e <= Len(s)
  PROVE  LET w == Without(s, a + 1 .. e)
         IN  /\ w \in Seq(Sized) /\ Len(w) = Len(s) - (e - a)
             /\ \A k \in 1 .. a : w[k] = s[k]
             /\ \A k \in a + 1 .. Len(s) - (e - a) : w[k] = s[k + (e - a)]
<1> DEFINE S == a + 1 .. e
           kept == DOMAIN s \ S
           n == Len(s) - (e - a)
           h == [k \in 1 .. n |-> IF k <= a THEN k ELSE k + (e - a)]
           w == Without(s, S)
<1>1. DOMAIN s = 1 .. Len(s) /\ Len(s) \in Nat /\ n \in Nat
  BY SeqCounts
<1>2. kept \subseteq Nat /\ Numbers(h, n, kept)
  <2>1. \A k \in 1 .. n : h[k] = IF k <= a THEN k ELSE k + (e - a)
    OBVIOUS
  <2>2. \A k \in 1 .. n : h[k] \in kept
    BY <1>1, <2>1
  <2>3. \A j, k \in 1 .. n : j < k => h[j] < h[k]
    BY <1>1, <2>1
  <2>4. ASSUME NEW p \in kept PROVE \E k \in 1 .. n : h[k] = p
    <3>1. CASE p <= a
      <4>1. p \in 1 .. n /\ h[p] = p
        BY <1>1, <3>1
      <4> QED BY <4>1
    <3>2. CASE ~ (p <= a)
      <4> DEFINE k == p - (e - a)
      <4>1. k \in 1 .. n /\ ~ (k <= a) /\ k + (e - a) = p
        BY <1>1, <3>2
      <4> QED BY <2>1, <4>1
    <3> QED BY <3>1, <3>2
  <2>5. h \in [1 .. n -> kept]
    <3> HIDE DEF n, kept
    <3> QED BY <2>2
  <2>6. kept \subseteq Nat
    BY <1>1
  <2> HIDE DEF h, n, kept
  <2> QED BY <2>3, <2>4, <2>5, <2>6 DEF Numbers
<1> HIDE DEF kept
<1>3. Cardinality(kept) = n /\ \A k \in 1 .. n : Nth(kept, k) = h[k]
  BY <1>1, <1>2, NumberIsNth
<1>4. w = [k \in 1 .. n |-> s[Nth(kept, k)]]
  BY <1>3 DEF Without, kept
<1>5. ASSUME NEW k \in 1 .. n PROVE w[k] = IF k <= a THEN s[k] ELSE s[k + (e - a)]
  <2>1. w[k] = s[h[k]]
    BY <1>3, <1>4
  <2> QED BY <2>1
<1>6. w \in Seq(Sized) /\ Len(w) = n
  BY <1>3, WithoutIs DEF kept
<1>7. \A k \in 1 .. a : k \in 1 .. n /\ k <= a
  BY <1>1
<1>8. \A k \in a + 1 .. n : k \in 1 .. n /\ ~ (k <= a)
  BY <1>1
<1> HIDE DEF w, n
<1>9. /\ \A k \in 1 .. a : w[k] = s[k]
      /\ \A k \in a + 1 .. n : w[k] = s[k + (e - a)]
  BY <1>5, <1>7, <1>8
<1> QED BY <1>6, <1>9 DEF w, n

-----------------------------------------------------------------------------
\* Counting a row.

LEMMA SizedIs ==
  ASSUME NEW m \in Sized
  PROVE  /\ m.text \in Nat /\ m.reasoning \in Nat /\ m.args \in Nat /\ Tokens(m) \in Nat
         /\ \A x \in Nat : LET t == [m EXCEPT !.text = x]
                           IN  /\ t \in Sized /\ Shape(t) = Shape(m) /\ t.text = x
                               /\ t.role = m.role /\ t.calls = m.calls
                               /\ Tokens(t) + m.text = Tokens(m) + x
<1>1. /\ m \in [role: Roles, calls: SUBSET Nat, id: Nat, marked: BOOLEAN,
                text: Nat, reasoning: Nat, args: Nat, summary: BOOLEAN]
      /\ m.calls # {} => m.role = "assistant"
      /\ m.summary => m.role = "system"
  BY DEF Sized
<1>2. m.text \in Nat /\ m.reasoning \in Nat /\ m.args \in Nat /\ Tokens(m) \in Nat
  BY <1>1 DEF Tokens
<1>3. ASSUME NEW x \in Nat, NEW t, t = [m EXCEPT !.text = x]
      PROVE  /\ t \in Sized /\ Shape(t) = Shape(m) /\ t.text = x
             /\ t.role = m.role /\ t.calls = m.calls
             /\ Tokens(t) + m.text = Tokens(m) + x
  <2>1. /\ t \in [role: Roles, calls: SUBSET Nat, id: Nat, marked: BOOLEAN,
                  text: Nat, reasoning: Nat, args: Nat, summary: BOOLEAN]
        /\ t.role = m.role /\ t.calls = m.calls /\ t.id = m.id /\ t.marked = m.marked
        /\ t.text = x /\ t.reasoning = m.reasoning /\ t.args = m.args /\ t.summary = m.summary
    BY <1>1, <1>3
  <2>2. t \in Sized
    BY <1>1, <2>1 DEF Sized
  <2>3. Shape(t) = Shape(m)
    BY <2>1 DEF Shape
  <2>4. Tokens(t) + m.text = Tokens(m) + x
    BY <1>2, <2>1 DEF Tokens
  <2> QED BY <2>1, <2>2, <2>3, <2>4
<1> QED BY <1>2, <1>3

Amounts(s) == [i \in DOMAIN s |-> Tokens(s[i])]

LEMMA CountIs ==
  ASSUME NEW s \in Seq(Sized)
  PROVE  /\ Amounts(s) \in [1 .. Len(s) -> Nat] /\ Len(s) \in Nat
         /\ \A i \in 1 .. Len(s) : Amounts(s)[i] = Tokens(s[i]) /\ Tokens(s[i]) \in Nat
         /\ CountTokens(s) = Total(Amounts(s)) /\ CountTokens(s) \in Nat
<1>1. DOMAIN s = 1 .. Len(s) /\ Len(s) \in Nat /\ \A i \in 1 .. Len(s) : s[i] \in Sized
  BY SeqCounts DEF Counted
<1>2. \A i \in 1 .. Len(s) : Tokens(s[i]) \in Nat
  BY <1>1, SizedIs
<1>3. Amounts(s) \in [1 .. Len(s) -> Nat]
  BY <1>1, <1>2 DEF Amounts
<1>4. Amounts(s) \in Seq(Nat) /\ Len(Amounts(s)) = Len(s)
  BY <1>1, <1>3
<1>5. CountTokens(s) = Total(Amounts(s))
  BY DEF CountTokens, Amounts
<1>6. CountTokens(s) \in Nat
  BY <1>4, <1>5, AddingRun
<1>7. \A i \in 1 .. Len(s) : Amounts(s)[i] = Tokens(s[i])
  BY <1>1 DEF Amounts
<1> QED BY <1>1, <1>2, <1>3, <1>5, <1>6, <1>7

\* a and b tell the same amounts but for the k-th, of which there are x fewer and y fewer
\* than of one that is in both.
OneChanged(n, a, b, k, x, y) ==
  /\ n \in Nat /\ a \in [1 .. n -> Nat] /\ b \in [1 .. n -> Nat] /\ k \in 1 .. n
  /\ \A i \in 1 .. n : i # k => a[i] = b[i]
  /\ x \in Nat /\ y \in Nat /\ a[k] + x = b[k] + y

\* A sum with an amount changed.
LEMMA TotalChanged ==
  ASSUME NEW n, NEW a, NEW b, NEW k, NEW x, NEW y, OneChanged(n, a, b, k, x, y)
  PROVE  Total(a) + x = Total(b) + y
<1>0. /\ n \in Nat /\ a \in [1 .. n -> Nat] /\ b \in [1 .. n -> Nat] /\ k \in 1 .. n
      /\ \A i \in 1 .. n : i # k => a[i] = b[i]
      /\ x \in Nat /\ y \in Nat /\ a[k] + x = b[k] + y
  BY DEF OneChanged
<1> USE <1>0
<1> DEFINE p == [i \in 1 .. n |-> IF i = k THEN x ELSE 0]
           q == [i \in 1 .. n |-> IF i = k THEN y ELSE 0]
           c == [i \in 1 .. n |-> a[i] + p[i]]
<1>1. Total(p) = x /\ Total(q) = y
  BY TotalOne
<1>2. \A i \in 1 .. n : p[i] = (IF i = k THEN x ELSE 0) /\ q[i] = IF i = k THEN y ELSE 0
  OBVIOUS
<1>3. p \in [1 .. n -> Nat] /\ q \in [1 .. n -> Nat]
  OBVIOUS
<1> HIDE DEF p, q
<1>4. \A i \in 1 .. n : a[i] \in Nat /\ b[i] \in Nat /\ p[i] \in Nat /\ q[i] \in Nat
  BY <1>3
<1>5. \A i \in 1 .. n : c[i] = a[i] + p[i]
  OBVIOUS
<1>6. c \in [1 .. n -> Nat]
  <2>1. ASSUME NEW i \in 1 .. n PROVE a[i] + p[i] \in Nat
    <3>1. a[i] \in Nat /\ p[i] \in Nat
      BY <1>4
    <3> HIDE <1>0
    <3> QED BY <3>1
  <2> QED BY <2>1
<1> HIDE DEF c
<1>7. ASSUME NEW i \in 1 .. n PROVE c[i] = b[i] + q[i]
  <2>1. CASE i = k
    BY <1>2, <1>5, <2>1
  <2>2. CASE i # k
    BY <1>2, <1>5, <2>2
  <2> QED BY <2>1, <2>2
<1>8. Total(c) = Total(a) + Total(p)
  BY <1>3, <1>5, <1>6, TotalsAdd
<1>9. Total(c) = Total(b) + Total(q)
  <2>1. \A i \in 1 .. n : c[i] = b[i] + q[i]
    BY <1>7
  <2> HIDE <1>7
  <2> QED BY <1>3, <1>6, <2>1, TotalsAdd
<1> QED BY <1>1, <1>8, <1>9

-----------------------------------------------------------------------------
\* Steps 2 and 3 of pruneForContext.

Rows == [msgs: Seq(Sized), total: Nat]

\* A total that is not below the count.
Covers(acc) == CountTokens(acc.msgs) <= acc.total

LEMMA LoweredIs ==
  ASSUME NEW total \in Nat, NEW by \in Nat
  PROVE  /\ Lowered(total, by) \in Nat
         /\ \A old, new \in Nat : old <= total /\ new + by <= old => new <= Lowered(total, by)
BY DEF Lowered

LEMMA DifferenceIs ==
  ASSUME NEW before \in Nat, NEW after \in Nat
  PROVE  /\ Difference(before, after) \in Nat
         /\ after <= before => Difference(before, after) + after <= before
<1>1. Word \in Nat /\ Word > 0
  BY ShrinkingAssumption
<1>2. (before - after) % Word \in Nat
  BY <1>1
<1>3. ASSUME after <= before PROVE (before - after) % Word <= before - after
  <2>1. \A d, w \in Nat : w > 0 => d % w <= d
    OBVIOUS
  <2>2. before - after \in Nat
    BY <1>3
  <2> QED BY <1>1, <2>1, <2>2
<1>4. after <= before => Difference(before, after) + after <= before
  BY <1>2, <1>3 DEF Difference
<1> QED BY <1>2, <1>4 DEF Difference

\* One text shortened.
LEMMA TruncateIs ==
  ASSUME NEW acc \in Rows, NEW i \in 1 .. Len(acc.msgs)
  PROVE  LET t == Truncate(acc, i)
         IN  /\ t \in Rows /\ Len(t.msgs) = Len(acc.msgs)
             /\ \A j \in 1 .. Len(acc.msgs) :
                  /\ j # i => t.msgs[j] = acc.msgs[j]
                  /\ Shape(t.msgs[j]) = Shape(acc.msgs[j])
             /\ Covers(acc) /\ Notice <= acc.msgs[i].text => Covers(t)
<1> DEFINE s == acc.msgs
           t == Truncate(acc, i)
           w == [s EXCEPT ![i].text = Notice]
           by == Difference(s[i].text, Notice)
<1>0. Notice \in Nat
  BY ShrinkingAssumption
<1>1. s \in Seq(Sized) /\ acc.total \in Nat
  BY DEF Rows
<1>2. /\ DOMAIN s = 1 .. Len(s) /\ Len(s) \in Nat /\ i \in 1 .. Len(s)
      /\ \A j \in 1 .. Len(s) : s[j] \in Sized
  BY <1>1, SeqCounts DEF Counted
<1>3. t.msgs = w /\ t.total = Lowered(acc.total, by) /\ t = [msgs |-> t.msgs, total |-> t.total]
  BY DEF Truncate
<1> HIDE DEF s, t
<1>4. /\ \A j \in 1 .. Len(s) : w[j] = IF j = i THEN [s[i] EXCEPT !.text = Notice] ELSE s[j]
      /\ DOMAIN w = 1 .. Len(s) /\ w = [j \in 1 .. Len(s) |-> w[j]]
  BY <1>1, <1>2
<1> HIDE DEF w
<1>5. /\ w[i] \in Sized /\ Shape(w[i]) = Shape(s[i])
      /\ Tokens(w[i]) + s[i].text = Tokens(s[i]) + Notice /\ s[i].text \in Nat
      /\ Tokens(w[i]) \in Nat /\ Tokens(s[i]) \in Nat
  BY <1>0, <1>2, <1>4, SizedIs
<1>6. w \in [1 .. Len(s) -> Sized]
  <2>1. \A j \in 1 .. Len(s) : w[j] \in Sized
    BY <1>2, <1>4, <1>5
  <2> QED BY <1>4, <2>1
<1>7. w \in Seq(Sized) /\ Len(w) = Len(s)
  BY <1>2, <1>6
<1>8. by \in Nat /\ (Notice <= s[i].text => by + Notice <= s[i].text)
  BY <1>0, <1>5, DifferenceIs
<1> HIDE DEF by
<1>9. t \in Rows
  <2>1. t.total \in Nat
    BY <1>1, <1>3, <1>8, LoweredIs
  <2> QED BY <1>3, <1>7, <2>1 DEF Rows
<1>10. CountTokens(w) + s[i].text = CountTokens(s) + Notice
  <2>1. /\ Amounts(w) \in [1 .. Len(s) -> Nat] /\ Amounts(s) \in [1 .. Len(s) -> Nat]
        /\ \A j \in 1 .. Len(s) : Amounts(w)[j] = Tokens(w[j]) /\ Amounts(s)[j] = Tokens(s[j])
        /\ CountTokens(w) = Total(Amounts(w)) /\ CountTokens(s) = Total(Amounts(s))
    BY <1>1, <1>7, CountIs
  <2>2. \A j \in 1 .. Len(s) : j # i => Amounts(w)[j] = Amounts(s)[j]
    BY <1>4, <2>1
  <2>3. Amounts(w)[i] + s[i].text = Amounts(s)[i] + Notice
    BY <1>2, <1>5, <2>1
  <2>4. Total(Amounts(w)) + s[i].text = Total(Amounts(s)) + Notice
    <3> DEFINE a == Amounts(w)  b == Amounts(s)  n == Len(s)  x == s[i].text
    <3>1. OneChanged(n, a, b, i, x, Notice)
      BY <1>0, <1>2, <1>5, <2>1, <2>2, <2>3 DEF OneChanged
    <3> HIDE DEF a, b, n, x
    <3>2. Total(a) + x = Total(b) + Notice
      BY <3>1, TotalChanged
    <3> QED BY <3>2 DEF a, b, x
  <2> QED BY <2>1, <2>4
<1>11. ASSUME Covers(acc), Notice <= s[i].text PROVE Covers(t)
  <2>1. CountTokens(s) \in Nat /\ CountTokens(w) \in Nat /\ CountTokens(s) <= acc.total
    BY <1>1, <1>7, <1>11, CountIs DEF Covers, s
  <2>2. CountTokens(w) + by <= CountTokens(s)
    <3>1. \A x, y, p, n, d \in Nat : x + p = y + n /\ d + n <= p => x + d <= y
      OBVIOUS
    <3>2. by + Notice <= s[i].text
      BY <1>8, <1>11
    <3> QED BY <1>0, <1>5, <1>8, <1>10, <2>1, <3>1, <3>2
  <2>3. CountTokens(w) <= Lowered(acc.total, by)
    BY <1>1, <1>8, <2>1, <2>2, LoweredIs
  <2> QED BY <1>3, <2>3 DEF Covers
<1>12. \A j \in 1 .. Len(s) : (j # i => w[j] = s[j]) /\ Shape(w[j]) = Shape(s[j])
  BY <1>4, <1>5
<1> QED BY <1>3, <1>7, <1>9, <1>11, <1>12 DEF s, t

\* A pass over a row, message by message.
LEMMA TruncatingRun ==
  ASSUME NEW acc \in Rows, NEW S
  PROVE  LET run == Truncating(acc, S)
             N   == Len(acc.msgs)
         IN  /\ run[0] = acc /\ N \in Nat
             /\ \A n \in 1 .. N : run[n] = IF n \in S THEN Truncate(run[n - 1], n) ELSE run[n - 1]
             /\ \A n \in 0 .. N : run[n] \in Rows /\ Len(run[n].msgs) = N
<1> DEFINE N == Len(acc.msgs)
           R == {t \in Rows : Len(t.msgs) = N}
           Step(n, x) == IF n \in S THEN Truncate(x, n) ELSE x
           onward == [p \in (1 .. N) \X R |-> Step(p[1], p[2])]
           IsRun(f) == f = [n \in 0 .. N |->
                              IF n = 0 THEN acc
                              ELSE IF n \in S THEN Truncate(f[n - 1], n) ELSE f[n - 1]]
           run == Truncating(acc, S)
<1>a. N \in Nat /\ acc \in R
  BY DEF Rows
<1>b. ASSUME NEW n \in 1 .. N, NEW x \in R PROVE Step(n, x) \in R
  <2>1. x \in Rows /\ Len(x.msgs) = N
    OBVIOUS
  <2>2. Truncate(x, n) \in Rows /\ Len(Truncate(x, n).msgs) = N
    BY <2>1, TruncateIs
  <2> QED BY <2>1, <2>2
<1> SUFFICES /\ run[0] = acc
             /\ \A n \in 1 .. N : run[n] = Step(n, run[n - 1])
             /\ \A n \in 0 .. N : run[n] \in R
  BY <1>a
<1>1. onward \in [(1 .. N) \X R -> R]
  <2> HIDE DEF N, R, Step
  <2> QED BY <1>b
<1>2. \A n \in 1 .. N, x \in R : onward[<<n, x>>] = Step(n, x)
  <2> HIDE DEF N, R, Step
  <2> QED OBVIOUS
<1>3. IsRun(run)
  <2> HIDE DEF N, R, onward
  <2>1. PICK f : Solution(f, N, R, acc, onward)
    BY <1>a, <1>1, RecursiveFunction
  <2> USE <2>1 DEF Solution
  <2>2. ASSUME NEW n \in 0 .. N, n # 0 PROVE onward[<<n, f[n - 1]>>] = Step(n, f[n - 1])
    <3>1. n \in 1 .. N /\ n - 1 \in 0 .. N
      BY <1>a, <2>2
    <3>2. f[n - 1] \in R
      BY <3>1
    <3> HIDE DEF Step
    <3> QED BY <1>2, <3>1, <3>2
  <2>3. IsRun(f)
    BY <2>1, <2>2
  <2> QED BY <2>3, Zenon DEF Truncating, N
<1> HIDE DEF run, N, R
<1>4. run[0] = acc
  BY <1>3, <1>a
<1>5. ASSUME NEW n \in 1 .. N PROVE run[n] = Step(n, run[n - 1])
  <2>1. n \in 0 .. N /\ n # 0
    BY <1>a
  <2> QED BY <1>3, <2>1
<1> HIDE DEF Step
<1>6. \A n \in 0 .. N : run[n] \in R
  <2>1. \A n \in 1 .. N : run[n - 1] \in R => run[n] \in R
    BY <1>b, <1>5
  <2>2. run[0] \in R
    BY <1>a, <1>4
  <2> QED BY <1>a, <2>1, <2>2, AllAlong
<1> QED BY <1>4, <1>5, <1>6

\* Steps 2 and 3 change some texts, and the total never falls below the count unless
\* a text gets longer.
LEMMA TruncatedIs ==
  ASSUME NEW acc \in Rows, NEW S
  PROVE  LET t == Truncated(acc, S)
         IN  /\ t \in Rows /\ Len(t.msgs) = Len(acc.msgs)
             /\ Shapes(t.msgs) = Shapes(acc.msgs)
             /\ \A j \in 1 .. Len(acc.msgs) : j \notin S => t.msgs[j] = acc.msgs[j]
             /\ Covers(acc) /\ (\A i \in 1 .. Len(acc.msgs) : i \in S => Notice <= acc.msgs[i].text)
                  => Covers(t)
<1> DEFINE run == Truncating(acc, S)
           N == Len(acc.msgs)
           Long == \A i \in 1 .. N : i \in S => Notice <= acc.msgs[i].text
           Same(n, j) == /\ j \notin S \/ n < j => run[n].msgs[j] = acc.msgs[j]
                         /\ Shape(run[n].msgs[j]) = Shape(acc.msgs[j])
           Good == {n \in 0 .. N : (\A j \in 1 .. N : Same(n, j)) /\ (Covers(acc) /\ Long => Covers(run[n]))}
<1>1. /\ run[0] = acc /\ N \in Nat
      /\ \A n \in 1 .. N : run[n] = IF n \in S THEN Truncate(run[n - 1], n) ELSE run[n - 1]
      /\ \A n \in 0 .. N : run[n] \in Rows /\ Len(run[n].msgs) = N
  BY TruncatingRun
<1>2. Truncated(acc, S) = run[N]
  BY DEF Truncated
<1> HIDE DEF run, N
<1>3. 0 \in Good
  BY <1>1
<1>4. ASSUME NEW n \in 0 .. N - 1, n \in Good PROVE n + 1 \in Good
  <2>1. n + 1 \in 1 .. N /\ n + 1 \in 0 .. N /\ (n + 1) - 1 = n /\ n \in 0 .. N /\ n < n + 1
    BY <1>1
  <2>2. (\A j \in 1 .. N : Same(n, j)) /\ (Covers(acc) /\ Long => Covers(run[n]))
    BY <1>4
  <2>3. run[n] \in Rows /\ Len(run[n].msgs) = N
    BY <1>1, <2>1
  <2>4. run[n + 1] = IF n + 1 \in S THEN Truncate(run[n], n + 1) ELSE run[n]
    BY <1>1, <2>1
  <2>5. CASE n + 1 \notin S
    <3>1. run[n + 1] = run[n]
      BY <2>4, <2>5
    <3>2. ASSUME NEW j \in 1 .. N PROVE Same(n + 1, j)
      <4>1. n + 1 < j => n < j
        OBVIOUS
      <4> QED BY <2>2, <3>1, <4>1
    <3> QED BY <2>1, <2>2, <3>1, <3>2
  <2>6. CASE n + 1 \in S
    <3> DEFINE t == Truncate(run[n], n + 1)
    <3>1. run[n + 1] = t
      BY <2>4, <2>6
    <3>2. /\ \A j \in 1 .. N : /\ j # n + 1 => t.msgs[j] = run[n].msgs[j]
                               /\ Shape(t.msgs[j]) = Shape(run[n].msgs[j])
          /\ Covers(run[n]) /\ Notice <= run[n].msgs[n + 1].text => Covers(t)
      BY <2>1, <2>3, TruncateIs
    <3> HIDE DEF t
    <3>3. ASSUME NEW j \in 1 .. N PROVE Same(n + 1, j)
      <4>1. n + 1 < j => n < j /\ j # n + 1
        OBVIOUS
      <4> QED BY <2>2, <2>6, <3>1, <3>2, <4>1
    <3>4. run[n].msgs[n + 1] = acc.msgs[n + 1]
      BY <2>1, <2>2
    <3>5. Covers(acc) /\ Long => Covers(run[n + 1])
      BY <2>1, <2>2, <2>6, <3>1, <3>2, <3>4
    <3> QED BY <2>1, <3>3, <3>5
  <2> QED BY <2>5, <2>6
<1> HIDE DEF Good
<1>5. 0 .. N \subseteq Good
  BY <1>1, <1>3, <1>4, UpTo
<1>6. N \in Good /\ N \in 0 .. N
  BY <1>1, <1>5
<1>7. (\A j \in 1 .. N : Same(N, j)) /\ (Covers(acc) /\ Long => Covers(run[N]))
  BY <1>6 DEF Good
<1>8. run[N] \in Rows /\ Len(run[N].msgs) = N
  BY <1>1, <1>6
<1>9. Shapes(run[N].msgs) = Shapes(acc.msgs)
  <2>1. run[N].msgs \in Seq(Sized) /\ acc.msgs \in Seq(Sized)
    BY <1>8 DEF Rows
  <2>2. DOMAIN run[N].msgs = 1 .. N /\ DOMAIN acc.msgs = 1 .. N
    BY <1>8, <2>1, SeqCounts DEF N
  <2> QED BY <1>7, <2>2 DEF Shapes
<1> QED BY <1>2, <1>7, <1>8, <1>9 DEF N

LEMMA ShortenedIs ==
  ASSUME NEW s \in Seq(Sized)
  PROVE  LET t == Shortened(s)
         IN  /\ t \in Rows /\ Len(t.msgs) = Len(s) /\ Shapes(t.msgs) = Shapes(s)
             /\ (\A i \in OldResults(s) : s[i].text >= Notice) => Covers(t)
<1> DEFINE counted == [msgs |-> s, total |-> IF CountTokens(s) > 1 THEN CountTokens(s) ELSE 1]
           results == Truncated(counted, OldResults(s))
           t == Truncated(results, OldTexts(s))
<1>1. Shortened(s) = t
  BY DEF Shortened
<1>2. counted \in Rows /\ counted.msgs = s /\ Covers(counted)
  BY CountIs DEF Rows, Covers
<1> HIDE DEF counted
<1>3. /\ results \in Rows /\ Len(results.msgs) = Len(s) /\ Shapes(results.msgs) = Shapes(s)
      /\ \A j \in 1 .. Len(s) : j \notin OldResults(s) => results.msgs[j] = s[j]
      /\ (\A i \in 1 .. Len(s) : i \in OldResults(s) => Notice <= s[i].text) => Covers(results)
  BY <1>2, TruncatedIs
<1> HIDE DEF results
<1>4. /\ t \in Rows /\ Len(t.msgs) = Len(s) /\ Shapes(t.msgs) = Shapes(s)
      /\ Covers(results) /\ (\A i \in 1 .. Len(s) : i \in OldTexts(s) => Notice <= results.msgs[i].text)
           => Covers(t)
  BY <1>3, TruncatedIs
<1> HIDE DEF t
<1>5. ASSUME NEW i \in 1 .. Len(s), i \in OldTexts(s) PROVE Notice <= results.msgs[i].text
  <2>1. s[i].role \in {"user", "assistant"} /\ s[i].text > ShortText /\ i \in DOMAIN s
    BY <1>5 DEF OldTexts, OldWords, IsText
  <2>2. i \notin OldResults(s)
    BY <2>1 DEF OldResults, Of
  <2>3. s[i].text \in Nat
    BY SeqCounts, SizedIs DEF Counted
  <2>4. Notice <= ShortText /\ Notice \in Nat /\ ShortText \in Nat
    BY ShrinkingAssumption
  <2> QED BY <1>3, <2>1, <2>2, <2>3, <2>4
<1>6. ASSUME \A i \in OldResults(s) : s[i].text >= Notice PROVE Covers(t)
  <2>1. ASSUME NEW i \in 1 .. Len(s), i \in OldResults(s) PROVE Notice <= s[i].text
    <3>1. s[i].text >= Notice /\ s[i].text \in Nat /\ Notice \in Nat
      BY <1>6, <2>1, SeqCounts, SizedIs, ShrinkingAssumption DEF Counted
    <3> QED BY <3>1
  <2> QED BY <1>3, <1>4, <1>5, <2>1
<1> QED BY <1>1, <1>4, <1>6

-----------------------------------------------------------------------------
\* Step 4 of pruneForContext, one deletion.

\* What goes is a message and, if it has calls, the results right behind it.
Group(s, i, e) ==
  /\ e \in i .. Len(s) /\ GroupAt(s, i) = i .. e
  /\ s[i].calls = {} => e = i
  /\ s[i].calls # {} => \A j \in i + 1 .. e : s[j].role = "tool"
  /\ s[i].calls # {} /\ e < Len(s) => s[e + 1].role # "tool"

LEMMA GroupIs ==
  ASSUME NEW s \in Seq(Sized), NEW i \in 1 .. Len(s)
  PROVE  \E e : Group(s, i, e)
<1>0. Len(s) \in Nat
  OBVIOUS
<1>1. CASE s[i].calls = {}
  <2>1. GroupAt(s, i) = {i}
    BY <1>1 DEF GroupAt
  <2>2. {i} = i .. i /\ i \in i .. Len(s)
    BY <1>0
  <2>3. Group(s, i, i)
    BY <1>1, <2>1, <2>2 DEF Group
  <2> QED BY <2>3
<1>2. CASE s[i].calls # {}
  <2>1. PICK e \in i .. Len(s) : /\ Followers(s, i) = i + 1 .. e
                                 /\ \A j \in i + 1 .. e : s[j].role = "tool"
                                 /\ e < Len(s) => s[e + 1].role # "tool"
    BY FollowersAre
  <2>2. GroupAt(s, i) = {i} \cup (i + 1 .. e)
    BY <1>2, <2>1 DEF GroupAt
  <2>3. {i} \cup (i + 1 .. e) = i .. e
    BY <1>0
  <2>4. GroupAt(s, i) = i .. e
    BY <2>2, <2>3
  <2>5. Group(s, i, e)
    BY <1>2, <2>1, <2>4 DEF Group
  <2> QED BY <2>5
<1> QED BY <1>1, <1>2

\* b has the amounts of z but for those from a on up to e, which are nothing.
RestOf(b, z, n, a, e) ==
  /\ n \in Nat /\ a \in Nat /\ e \in Nat /\ a <= e /\ e <= n
  /\ z \in [1 .. n -> Nat] /\ \A k \in a + 1 .. e : z[k] = 0
  /\ b \in [1 .. n - (e - a) -> Nat] /\ \A k \in 1 .. a : b[k] = z[k]
  /\ \A k \in a + 1 .. n - (e - a) : b[k] = z[k + (e - a)]

\* The sum of what is left counts what is gone as nothing.
LEMMA TotalOfRest ==
  ASSUME NEW b, NEW z, NEW n, NEW a, NEW e, RestOf(b, z, n, a, e)
  PROVE  Total(z) = Total(b)
<1> USE DEF RestOf
<1> DEFINE N == n - (e - a)
           Z == Adding(z)
           B == Adding(b)
           at(m) == IF m <= a THEN m ELSE IF m <= e THEN a ELSE m - (e - a)
           Good == {m \in 0 .. n : Z[m] = B[at(m)]}
<1>0. N \in Nat
  OBVIOUS
<1>1. z \in Seq(Nat) /\ Len(z) = n /\ b \in Seq(Nat) /\ Len(b) = N
  BY <1>0, RowOf
<1> HIDE DEF N
<1>2. /\ Z[0] = 0 /\ \A m \in 1 .. n : Z[m] = Z[m - 1] + z[m]
      /\ B[0] = 0 /\ \A m \in 1 .. N : B[m] = B[m - 1] + b[m]
      /\ \A m \in 0 .. N : B[m] \in Nat
      /\ Total(z) = Z[n] /\ Total(b) = B[N]
  BY <1>1, AddingRun
<1> HIDE DEF Z, B
<1>3. 0 \in Good
  BY <1>2
<1>4. ASSUME NEW m \in 0 .. n - 1, m \in Good PROVE m + 1 \in Good
  <2>1. m + 1 \in 1 .. n /\ m + 1 \in 0 .. n /\ (m + 1) - 1 = m
    OBVIOUS
  <2>2. Z[m + 1] = Z[m] + z[m + 1] /\ Z[m] = B[at(m)]
    BY <1>2, <1>4, <2>1
  <2>3. CASE m + 1 <= a
    <3>1. m + 1 \in 1 .. N /\ m + 1 \in 1 .. a /\ at(m) = m /\ at(m + 1) = m + 1
      BY <2>3 DEF N
    <3>2. B[m + 1] = B[m] + b[m + 1] /\ b[m + 1] = z[m + 1]
      BY <1>2, <2>1, <3>1
    <3> HIDE DEF at
    <3> QED BY <2>1, <2>2, <3>1, <3>2
  <2>4. CASE a < m + 1 /\ m + 1 <= e
    <3>1. m + 1 \in a + 1 .. e /\ at(m) = a /\ at(m + 1) = a /\ a \in 0 .. N
      BY <2>4 DEF N
    <3>2. z[m + 1] = 0 /\ B[a] \in Nat
      BY <1>2, <3>1
    <3> HIDE DEF at
    <3>3. Z[m + 1] = B[a] + 0
      BY <2>2, <3>1, <3>2
    <3> QED BY <2>1, <3>1, <3>2, <3>3
  <2>5. CASE e < m + 1
    <3> DEFINE k == m + 1 - (e - a)
    <3>1. /\ k \in 1 .. N /\ k \in a + 1 .. N /\ k + (e - a) = m + 1
          /\ at(m) = k - 1 /\ at(m + 1) = k
      BY <2>5 DEF N
    <3> HIDE DEF k, at
    <3>2. B[k] = B[k - 1] + b[k] /\ b[k] = z[m + 1]
      BY <1>2, <3>1 DEF N
    <3> QED BY <2>1, <2>2, <3>1, <3>2
  <2> QED BY <2>3, <2>4, <2>5
<1> HIDE DEF Good
<1>5. 0 .. n \subseteq Good
  BY <1>3, <1>4, UpTo
<1>6. n \in Good
  BY <1>5
<1>7. at(n) = N
  BY DEF N
<1> QED BY <1>2, <1>6, <1>7 DEF Good

\* What is counted off is no more than what is gone.
LEMMA DeletedBelow ==
  ASSUME NEW s \in Seq(Sized), NEW a \in Nat, NEW e \in Nat, a < e, e <= Len(s)
  PROVE  LET S == a + 1 .. e
         IN  /\ DeletedTokens(s, S) \in Nat
             /\ CountTokens(Without(s, S)) + DeletedTokens(s, S) <= CountTokens(s)
<1> DEFINE S == a + 1 .. e
           n == Len(s)
           w == Without(s, S)
           A == Amounts(s)
           B == Amounts(w)
           x == s[a + 1].args
           Z == [j \in 1 .. n |-> IF j \in S THEN 0 ELSE A[j]]
           D == [j \in 1 .. n |-> IF j \in S THEN s[j].text ELSE 0]
           P == [j \in 1 .. n |-> IF j = a + 1 THEN x ELSE 0]
           E == [j \in 1 .. n |-> D[j] + P[j]]
           F == [j \in 1 .. n |-> Z[j] + E[j]]
<1>1. /\ DOMAIN s = 1 .. n /\ n \in Nat /\ a + 1 \in 1 .. n
      /\ \A j \in 1 .. n : s[j] \in Sized
  BY SeqCounts DEF Counted
<1>2. \A j \in 1 .. n : /\ s[j].text \in Nat /\ s[j].args \in Nat /\ s[j].reasoning \in Nat
                        /\ A[j] = s[j].text + s[j].reasoning + s[j].args /\ A[j] \in Nat
  BY <1>1, SizedIs, CountIs DEF Tokens
<1>3. x \in Nat
  BY <1>1, <1>2
<1>4. A \in [1 .. n -> Nat] /\ CountTokens(s) = Total(A)
  BY CountIs
<1>5. /\ w \in Seq(Sized) /\ Len(w) = n - (e - a)
      /\ \A k \in 1 .. a : w[k] = s[k]
      /\ \A k \in a + 1 .. n - (e - a) : w[k] = s[k + (e - a)]
  BY WithoutRange
<1>6. DeletedTokens(s, S) = x + Total(D)
  <2>1. Earliest(S) = a + 1
    <3>1. a + 1 \in S /\ \A j \in S : a + 1 <= j
      OBVIOUS
    <3>2. Earliest(S) \in S /\ \A j \in S : Earliest(S) <= j
      BY <3>1, Zenon DEF Earliest
    <3>3. Earliest(S) <= a + 1 /\ a + 1 <= Earliest(S)
      BY <3>1, <3>2
    <3> QED BY <3>2, <3>3
  <2> HIDE DEF S
  <2> QED BY <1>1, <2>1 DEF DeletedTokens
<1>7. /\ B \in [1 .. n - (e - a) -> Nat] /\ CountTokens(w) = Total(B)
      /\ \A k \in 1 .. n - (e - a) : B[k] = Tokens(w[k])
  BY <1>5, CountIs
<1> HIDE DEF n, w, A, B, x
<1>8. /\ \A j \in 1 .. n : Z[j] = IF j \in S THEN 0 ELSE A[j]
      /\ \A j \in 1 .. n : D[j] = IF j \in S THEN s[j].text ELSE 0
      /\ \A j \in 1 .. n : P[j] = IF j = a + 1 THEN x ELSE 0
  OBVIOUS
<1>9. Z \in [1 .. n -> Nat] /\ D \in [1 .. n -> Nat] /\ P \in [1 .. n -> Nat]
  BY <1>2, <1>3
<1>10. Total(P) = x
  BY <1>1, <1>3, TotalOne
<1>11. Total(Z) = Total(B)
  <2>1. \A k \in a + 1 .. e : Z[k] = 0
    BY <1>1, <1>8 DEF n
  <2>2. ASSUME NEW k \in 1 .. a PROVE B[k] = Z[k]
    <3>1. k \in 1 .. n /\ k \in 1 .. n - (e - a) /\ k \notin S
      BY <1>1 DEF n
    <3>2. B[k] = Tokens(s[k]) /\ A[k] = Tokens(s[k])
      BY <1>5, <1>7, <3>1, CountIs DEF A, n
    <3> HIDE DEF Z, S
    <3> QED BY <1>8, <3>1, <3>2
  <2>3. ASSUME NEW k \in a + 1 .. n - (e - a) PROVE B[k] = Z[k + (e - a)]
    <3> DEFINE j == k + (e - a)
    <3>1. j \in 1 .. n /\ k \in 1 .. n - (e - a) /\ j \notin S
      BY <1>1 DEF n
    <3>2. B[k] = Tokens(s[j]) /\ A[j] = Tokens(s[j])
      BY <1>5, <1>7, <3>1, CountIs DEF A, n
    <3> HIDE DEF Z, S, j
    <3>3. Z[j] = A[j]
      BY <1>8, <3>1
    <3> QED BY <3>2, <3>3 DEF j
  <2>4. a <= e /\ e <= n /\ n \in Nat
    BY <1>1 DEF n
  <2> HIDE DEF Z
  <2>5. RestOf(B, Z, n, a, e)
    BY <1>7, <1>9, <2>1, <2>2, <2>3, <2>4 DEF RestOf
  <2> QED BY <2>5, TotalOfRest
<1> HIDE DEF Z, D, P
<1>12. \A j \in 1 .. n : /\ Z[j] \in Nat /\ D[j] \in Nat /\ P[j] \in Nat
                         /\ E[j] = D[j] + P[j] /\ F[j] = Z[j] + E[j]
  BY <1>9
<1>13. E \in [1 .. n -> Nat]
  <2>1. \A j \in 1 .. n : D[j] + P[j] \in Nat
    BY <1>12
  <2> QED BY <2>1
<1> HIDE DEF E
<1>14. F \in [1 .. n -> Nat]
  <2>1. \A j \in 1 .. n : E[j] \in Nat
    BY <1>13
  <2>2. \A j \in 1 .. n : Z[j] + E[j] \in Nat
    BY <1>12, <2>1
  <2> QED BY <2>2
<1> HIDE DEF F
<1>15. Total(E) = Total(D) + Total(P) /\ Total(F) = Total(Z) + Total(E)
  BY <1>1, <1>9, <1>12, <1>13, <1>14, TotalsAdd
<1>16. Total(F) <= Total(A)
  <2>1. ASSUME NEW j \in 1 .. n PROVE F[j] <= A[j]
    <3>1. F[j] = Z[j] + (D[j] + P[j])
      BY <1>12
    <3>2. CASE j \in S
      <4>1. Z[j] = 0 /\ D[j] = s[j].text /\ P[j] <= s[j].args /\ P[j] \in Nat
        BY <1>2, <1>8, <1>12, <3>2 DEF x
      <4>2. \A p, d, g, h \in Nat : p <= h => 0 + (d + p) <= d + g + h
        OBVIOUS
      <4>3. 0 + (s[j].text + P[j]) <= s[j].text + s[j].reasoning + s[j].args
        BY <1>2, <4>1, <4>2
      <4> QED BY <1>2, <3>1, <4>1, <4>3
    <3>3. CASE j \notin S
      <4>1. j # a + 1
        BY <3>3
      <4>2. Z[j] = A[j] /\ D[j] = 0 /\ P[j] = 0
        BY <1>8, <3>3, <4>1
      <4> QED BY <1>2, <3>1, <4>2
    <3> QED BY <3>2, <3>3
  <2> QED BY <1>1, <1>4, <1>14, <2>1, TotalsBelow
<1>17. Total(D) \in Nat /\ Total(Z) \in Nat /\ Total(A) \in Nat
  BY <1>1, <1>4, <1>9, RowOf, AddingRun
<1>18. DeletedTokens(s, S) \in Nat
  BY <1>3, <1>6, <1>17
<1>19. CountTokens(w) + DeletedTokens(s, S) <= CountTokens(s)
  <2>1. \A z, d, p, t \in Nat : z + (d + p) <= t => z + (p + d) <= t
    OBVIOUS
  <2>2. Total(Z) + (Total(D) + x) <= Total(A)
    BY <1>10, <1>15, <1>16
  <2>3. Total(Z) + (x + Total(D)) <= Total(A)
    BY <1>3, <1>17, <2>1, <2>2
  <2> QED BY <1>4, <1>6, <1>7, <1>11, <2>3
<1> QED BY <1>18, <1>19 DEF w

\* Rows are the same when their messages are.
LEMMA SameRow ==
  ASSUME NEW T, NEW a \in Seq(T), NEW b \in Seq(T), Len(a) = Len(b),
         \A i \in 1 .. Len(a) : a[i] = b[i]
  PROVE  a = b
OBVIOUS

\* Nothing is taken away.
LEMMA WithoutNothing ==
  ASSUME NEW s \in Seq(Sized), NEW a \in 0 .. Len(s)
  PROVE  Without(s, a + 1 .. a) = s
<1> DEFINE w == Without(s, a + 1 .. a)
<1>1. Len(s) \in Nat /\ a \in Nat /\ a <= Len(s) /\ a <= a
  OBVIOUS
<1>2. /\ w \in Seq(Sized) /\ Len(w) = Len(s) - (a - a)
      /\ \A k \in 1 .. a : w[k] = s[k]
      /\ \A k \in a + 1 .. Len(s) - (a - a) : w[k] = s[k + (a - a)]
  BY <1>1, WithoutRange
<1>3. Len(w) = Len(s)
  BY <1>1, <1>2
<1> HIDE DEF w
<1>4. ASSUME NEW k \in 1 .. Len(w) PROVE w[k] = s[k]
  <2>1. k \in 1 .. a \/ k \in a + 1 .. Len(s) - (a - a)
    BY <1>1, <1>3
  <2>2. k + (a - a) = k
    BY <1>1
  <2> QED BY <1>2, <2>1, <2>2
<1>5. w = s
  BY <1>2, <1>3, <1>4, SameRow
<1> QED BY <1>5 DEF w

LEMMA DeleteFromIs ==
  ASSUME NEW acc \in Rows, NEW lead \in Nat
  PROVE  LET r == DeleteFrom(acc, lead)
         IN  /\ r \in Rows
             /\ Covers(acc) => Covers(r)
             /\ \/ r = acc /\ (acc.total <= AvailableInput \/ Len(acc.msgs) <= lead + 1)
                \/ /\ ~ (acc.total <= AvailableInput) /\ lead + 1 < Len(acc.msgs)
                   /\ \E e : Group(acc.msgs, lead + 1, e) /\ r.msgs = Without(acc.msgs, lead + 1 .. e)
<1> DEFINE r == DeleteFrom(acc, lead)
           s == acc.msgs
           Stop == acc.total <= AvailableInput \/ Len(s) <= lead + 1
           group == GroupAt(s, lead + 1)
<1>1. s \in Seq(Sized) /\ acc.total \in Nat /\ Len(s) \in Nat
  BY DEF Rows
<1>2. r = IF Stop THEN acc
          ELSE [msgs |-> Without(s, group), total |-> Lowered(acc.total, DeletedTokens(s, group))]
  BY DEF DeleteFrom
<1>3. CASE Stop
  BY <1>2, <1>3
<1>4. CASE ~ Stop
  <2>1. lead + 1 < Len(s) /\ lead + 1 \in 1 .. Len(s)
    BY <1>1, <1>4
  <2>2. PICK e : Group(s, lead + 1, e)
    BY <1>1, <2>1, GroupIs
  <2>3. /\ group = lead + 1 .. e /\ e \in Nat /\ lead < e /\ e <= Len(s)
    BY <1>1, <2>2 DEF Group
  <2>4. /\ r.msgs = Without(s, lead + 1 .. e)
        /\ r.total = Lowered(acc.total, DeletedTokens(s, lead + 1 .. e))
        /\ r = [msgs |-> r.msgs, total |-> r.total]
    BY <1>2, <1>4, <2>3
  <2> HIDE DEF r, s
  <2>5. /\ DeletedTokens(s, lead + 1 .. e) \in Nat
        /\ CountTokens(r.msgs) + DeletedTokens(s, lead + 1 .. e) <= CountTokens(s)
    BY <1>1, <2>3, <2>4, DeletedBelow
  <2>6. r.msgs \in Seq(Sized)
    BY <1>1, <2>4, WithoutIs
  <2>7. r \in Rows
    BY <1>1, <2>4, <2>5, <2>6, LoweredIs DEF Rows
  <2>8. Covers(acc) => Covers(r)
    <3>1. CountTokens(s) \in Nat /\ CountTokens(r.msgs) \in Nat
      BY <1>1, <2>6, CountIs
    <3>2. ASSUME Covers(acc) PROVE CountTokens(r.msgs) <= r.total
      <4>1. CountTokens(s) <= acc.total
        BY <3>2 DEF Covers, s
      <4> QED BY <1>1, <2>4, <2>5, <3>1, <4>1, LoweredIs
    <3> QED BY <3>2 DEF Covers
  <2> QED BY <1>4, <2>1, <2>2, <2>4, <2>7, <2>8 DEF r, s
<1> QED BY <1>3, <1>4

LEMMA DeletingRun ==
  ASSUME NEW s \in Seq(Sized)
  PROVE  LET run == Deleting(s)
         IN  /\ run[0] = Shortened(s)
             /\ \A n \in 1 .. Len(s) : run[n] = DeleteFrom(run[n - 1], SystemCount(s))
             /\ \A n \in 0 .. Len(s) : run[n] \in Rows
<1> DEFINE N == Len(s)
           start == Shortened(s)
           Step(x) == DeleteFrom(x, SystemCount(s))
           onward == [p \in (1 .. N) \X Rows |-> Step(p[2])]
           IsRun(f) == f = [n \in 0 .. N |-> IF n = 0 THEN start ELSE Step(f[n - 1])]
           run == Deleting(s)
<1>a. N \in Nat /\ start \in Rows
  BY ShortenedIs
<1>b. ASSUME NEW x \in Rows PROVE Step(x) \in Rows
  <2>1. SystemCount(s) \in Nat
    BY LeadIs
  <2> QED BY <2>1, DeleteFromIs
<1> SUFFICES /\ run[0] = start
             /\ \A n \in 1 .. N : run[n] = Step(run[n - 1])
             /\ \A n \in 0 .. N : run[n] \in Rows
  OBVIOUS
<1>1. onward \in [(1 .. N) \X Rows -> Rows]
  <2> HIDE DEF N, Step
  <2> QED BY <1>b
<1>2. \A n \in 1 .. N, x \in Rows : onward[<<n, x>>] = Step(x)
  <2> HIDE DEF N, Step
  <2> QED OBVIOUS
<1>3. IsRun(run)
  <2> HIDE DEF N, start, onward
  <2>1. PICK f : Solution(f, N, Rows, start, onward)
    BY <1>a, <1>1, RecursiveFunction
  <2> USE <2>1 DEF Solution
  <2>2. ASSUME NEW n \in 0 .. N, n # 0 PROVE onward[<<n, f[n - 1]>>] = Step(f[n - 1])
    <3>1. n \in 1 .. N /\ n - 1 \in 0 .. N
      BY <1>a, <2>2
    <3>2. f[n - 1] \in Rows
      BY <3>1
    <3> HIDE DEF Step
    <3> QED BY <1>2, <3>1, <3>2
  <2>3. IsRun(f)
    BY <2>1, <2>2
  <2> QED BY <2>3, Zenon DEF Deleting, N, start
<1> HIDE DEF run, N, start
<1>4. run[0] = start
  BY <1>3, <1>a
<1>5. ASSUME NEW n \in 1 .. N PROVE run[n] = Step(run[n - 1])
  <2>1. n \in 0 .. N /\ n # 0
    BY <1>a
  <2> QED BY <1>3, <2>1
<1> HIDE DEF Step
<1>6. \A n \in 0 .. N : run[n] \in Rows
  <2>1. \A n \in 1 .. N : run[n - 1] \in Rows => run[n] \in Rows
    BY <1>b, <1>5
  <2>2. run[0] \in Rows
    BY <1>a, <1>4
  <2> QED BY <1>a, <2>1, <2>2, AllAlong
<1> QED BY <1>4, <1>5, <1>6

-----------------------------------------------------------------------------
\* Where the deletions stop.

(* Behind the system block t goes up to the m-th message: the next is no   *)
(* result of a call that is gone, or none is left and there were some      *)
(* results in the last deletion.                                           *)
NoFollower(t, a, i) == \A g \in Callers(t) : a < g => i \notin Followers(t, g)

CutAt(t, a, m) ==
  /\ m < Len(t) => NoFollower(t, a, m + 1)
  /\ m = Len(t) /\ a < m =>
       \E g \in Callers(t) : a < g /\ g < m /\ Followers(t, g) = g + 1 .. m /\ NoFollower(t, a, g)

\* r is t up to such a place, and the next group of r ends with the e-th message.
CutOnce(t, a, m, r, e) ==
  /\ t \in Seq(Sized) /\ a \in Nat /\ m \in a .. Len(t) /\ CutAt(t, a, m)
  /\ r \in Seq(Sized) /\ r = Without(t, a + 1 .. m) /\ a + 1 < Len(r)
  /\ Group(r, a + 1, e)

\* A deletion goes on to the next such place.
LEMMA NextCut ==
  ASSUME NEW t, NEW a, NEW m, NEW r, NEW e, CutOnce(t, a, m, r, e)
  PROVE  /\ m + (e - a) \in a .. Len(t) /\ CutAt(t, a, m + (e - a))
         /\ Without(r, a + 1 .. e) = Without(t, a + 1 .. m + (e - a))
         /\ e > a /\ e <= Len(r) /\ Len(r) = Len(t) - (m - a)
<1>0. /\ t \in Seq(Sized) /\ a \in Nat /\ m \in a .. Len(t) /\ CutAt(t, a, m)
      /\ r \in Seq(Sized) /\ r = Without(t, a + 1 .. m) /\ a + 1 < Len(r)
      /\ Group(r, a + 1, e)
  BY DEF CutOnce
<1> USE <1>0
<1> DEFINE d == m - a
           n == Len(t)
           k == m + (e - a)
<1>1. n \in Nat /\ a <= m /\ m <= n /\ m \in Nat /\ DOMAIN t = 1 .. n
  BY SeqCounts
<1>2. /\ Len(r) = n - d
      /\ \A i \in 1 .. a : r[i] = t[i]
      /\ \A i \in a + 1 .. n - d : r[i] = t[i + d]
  BY <1>1, WithoutRange
<1>3. /\ e \in a + 1 .. n - d
      /\ r[a + 1].calls = {} => e = a + 1
      /\ r[a + 1].calls # {} => \A j \in a + 2 .. e : r[j].role = "tool"
      /\ r[a + 1].calls # {} /\ e < n - d => r[e + 1].role # "tool"
  BY <1>2 DEF Group
<1>4. k \in a .. n /\ e \in Nat /\ a < e /\ m + 1 < n /\ m < k /\ k <= n
  <2>1. a + 1 < n - d /\ e \in a + 1 .. n - d
    BY <1>2, <1>3
  <2> QED BY <1>1, <2>1
<1>a. n - d - (e - a) = n - (k - a) /\ n - (k - a) \in Nat /\ k \in Nat /\ a <= k /\ a <= e
  BY <1>1, <1>4
<1>b. e <= Len(r) /\ Len(r) - (e - a) = n - (k - a)
  <2>1. e \in a + 1 .. n - d
    BY <1>3
  <2>2. Len(r) = n - d
    BY <1>2
  <2> QED BY <1>1, <1>4, <2>1, <2>2
<1>5. Without(r, a + 1 .. e) = Without(t, a + 1 .. k)
  <2> HIDE DEF k
  <2>1. /\ Without(t, a + 1 .. k) \in Seq(Sized) /\ Len(Without(t, a + 1 .. k)) = n - (k - a)
        /\ \A i \in 1 .. a : Without(t, a + 1 .. k)[i] = t[i]
        /\ \A i \in a + 1 .. n - (k - a) : Without(t, a + 1 .. k)[i] = t[i + (k - a)]
    BY <1>4, <1>a, WithoutRange
  <2>2. /\ Without(r, a + 1 .. e) \in Seq(Sized) /\ Len(Without(r, a + 1 .. e)) = n - (k - a)
        /\ \A i \in 1 .. a : Without(r, a + 1 .. e)[i] = r[i]
        /\ \A i \in a + 1 .. n - (k - a) : Without(r, a + 1 .. e)[i] = r[i + (e - a)]
    <3>1. /\ Without(r, a + 1 .. e) \in Seq(Sized)
          /\ Len(Without(r, a + 1 .. e)) = Len(r) - (e - a)
          /\ \A i \in 1 .. a : Without(r, a + 1 .. e)[i] = r[i]
          /\ \A i \in a + 1 .. Len(r) - (e - a) : Without(r, a + 1 .. e)[i] = r[i + (e - a)]
      BY <1>4, <1>a, <1>b, WithoutRange
    <3> QED BY <1>b, <3>1
  <2>4. ASSUME NEW i \in 1 .. n - (k - a) PROVE Without(r, a + 1 .. e)[i] = Without(t, a + 1 .. k)[i]
    <3>1. CASE i <= a
      <4>1. i \in 1 .. a
        BY <3>1
      <4> QED BY <1>2, <2>1, <2>2, <4>1
    <3>2. CASE a < i
      <4>1. i \in a + 1 .. n - (k - a) /\ i + (e - a) \in a + 1 .. n - d
            /\ (i + (e - a)) + d = i + (k - a)
        BY <1>1, <1>4, <3>2 DEF k
      <4>2. Without(r, a + 1 .. e)[i] = r[i + (e - a)]
        BY <2>2, <4>1
      <4>3. r[i + (e - a)] = t[i + (k - a)]
        BY <1>2, <4>1
      <4>4. Without(t, a + 1 .. k)[i] = t[i + (k - a)]
        BY <2>1, <4>1
      <4> QED BY <4>2, <4>3, <4>4
    <3> QED BY <1>1, <3>1, <3>2
  <2> QED BY <1>a, <2>1, <2>2, <2>4, SameRow
<1>6. NoFollower(t, a, m + 1)
  BY <1>4 DEF CutAt
<1>7. r[a + 1] = t[m + 1] /\ m + 1 \in 1 .. n
  <2>1. a + 1 \in a + 1 .. n - d /\ (a + 1) + d = m + 1
    BY <1>1, <1>4
  <2> QED BY <1>1, <1>2, <1>4, <2>1
<1> HIDE DEF n, k, d
<1>8. CASE r[a + 1].calls = {}
  <2>1. k = m + 1 /\ k < n
    BY <1>1, <1>3, <1>4, <1>8 DEF k
  <2>2. ASSUME NEW g \in Callers(t), a < g, k + 1 \in Followers(t, g) PROVE FALSE
    <3>1. g \in 1 .. n /\ t[g].calls # {}
      BY <1>1 DEF Callers
    <3>2. g < k + 1 /\ \A j \in 1 .. n : g < j /\ j < k + 1 => t[j].role = "tool"
      BY <1>1, <2>2 DEF Followers, Between, Of
    <3>3. g # m + 1
      BY <1>7, <1>8, <3>1
    <3>4. g < m + 1
      BY <1>1, <2>1, <3>1, <3>2, <3>3
    <3>5. t[m + 1].role = "tool"
      BY <1>1, <1>7, <2>1, <3>2, <3>4
    <3>6. \A j \in 1 .. n : g < j /\ j < m + 1 => t[j].role = "tool"
      BY <1>1, <2>1, <3>2
    <3>7. m + 1 \in Followers(t, g)
      BY <1>1, <1>7, <3>4, <3>5, <3>6 DEF Followers, Between, Of
    <3> QED BY <1>6, <2>2, <3>7 DEF NoFollower
  <2>3. NoFollower(t, a, k + 1)
    BY <2>2 DEF NoFollower
  <2>4. CutAt(t, a, k)
    BY <2>1, <2>3 DEF CutAt, n
  <2> QED BY <1>2, <1>3, <1>4, <1>5, <2>4 DEF n, k, d
<1>9. CASE r[a + 1].calls # {}
  <2>1. m + 1 \in Callers(t)
    BY <1>1, <1>7, <1>9 DEF Callers
  <2>2. \A j \in m + 2 .. k : t[j].role = "tool"
    <3>1. ASSUME NEW j \in m + 2 .. k PROVE t[j].role = "tool"
      <4>1. j - d \in a + 2 .. e /\ j - d \in a + 1 .. n - d /\ (j - d) + d = j
        BY <1>1, <1>3, <1>4 DEF d, k, n
      <4> QED BY <1>2, <1>3, <1>9, <4>1
    <3> QED BY <3>1
  <2>3. CASE k < n
    <3>1. e < n - d /\ e + 1 \in a + 1 .. n - d /\ (e + 1) + d = k + 1
      <4>1. m + (e - a) < n
        BY <2>3 DEF k
      <4> HIDE <1>3
      <4> QED BY <1>1, <1>4, <4>1 DEF d, k
    <3>2. t[k + 1].role # "tool"
      BY <1>2, <1>3, <1>9, <3>1
    <3>3. NoFollower(t, a, k + 1)
      BY <3>2 DEF NoFollower, Followers, Of
    <3>4. CutAt(t, a, k)
      BY <2>3, <3>3 DEF CutAt, n
    <3> QED BY <1>2, <1>3, <1>4, <1>5, <3>4 DEF n, k, d
  <2>4. CASE k = n
    <3>1. PICK f \in m + 1 .. n : Followers(t, m + 1) = (m + 1) + 1 .. f /\ (f < n => t[f + 1].role # "tool")
      BY <1>7, FollowersAre DEF n
    <3>2. f = n
      <4>1. ASSUME f < n PROVE FALSE
        <5>1. f + 1 \in m + 2 .. k
          BY <1>1, <2>4, <3>1, <4>1
        <5> QED BY <2>2, <3>1, <4>1, <5>1
      <4> QED BY <1>1, <3>1, <4>1
    <3>3. CutAt(t, a, k)
      <4>1. a < m + 1 /\ m + 1 < n /\ ~ (k < n)
        BY <1>1, <1>4, <2>4
      <4>2. Followers(t, m + 1) = (m + 1) + 1 .. k
        BY <2>4, <3>1, <3>2
      <4> QED BY <1>6, <2>1, <2>4, <4>1, <4>2 DEF CutAt, n
    <3> QED BY <1>2, <1>3, <1>4, <1>5, <3>3 DEF n, k, d
  <2> QED BY <1>1, <1>4, <2>3, <2>4
<1> QED BY <1>8, <1>9

\* All deletions.
Cut(s, t, r, m) ==
  m \in SystemCount(s) .. Len(t) /\ r = Without(t, SystemCount(s) + 1 .. m) /\ CutAt(t, SystemCount(s), m)

Settled(s, r) == r.total <= AvailableInput \/ Len(r.msgs) <= SystemCount(s) + 1

LEMMA DeletedIs ==
  ASSUME NEW s \in Seq(Sized)
  PROVE  LET t == Shortened(s)
             r == Deleting(s)[Len(s)]
         IN  /\ r \in Rows /\ \E m : Cut(s, t.msgs, r.msgs, m)
             /\ Covers(t) => Covers(r)
             /\ Settled(s, r)
<1> DEFINE run == Deleting(s)
           N == Len(s)
           lead == SystemCount(s)
           t == Shortened(s).msgs
           Fine(n) == /\ \E m : Cut(s, t, run[n].msgs, m)
                      /\ Covers(run[0]) => Covers(run[n])
                      /\ Settled(s, run[n]) \/ Len(run[n].msgs) <= N - n
           Good == {n \in 0 .. N : Fine(n)}
<1>1. /\ run[0] = Shortened(s)
      /\ \A n \in 1 .. N : run[n] = DeleteFrom(run[n - 1], lead)
      /\ \A n \in 0 .. N : run[n] \in Rows
  BY DeletingRun
<1>2. Shortened(s) \in Rows /\ t \in Seq(Sized) /\ Len(t) = N /\ N \in Nat /\ lead \in 0 .. N
  BY ShortenedIs, LeadIs DEF Rows
<1> HIDE DEF run, N, lead, t
<1>3. 0 \in Good
  <2>4. t = Without(t, lead + 1 .. lead)
    BY <1>2, WithoutNothing
  <2>5. CutAt(t, lead, lead)
    <3>1. ASSUME NEW g \in Callers(t), lead < g, lead + 1 \in Followers(t, g) PROVE FALSE
      <4>1. g \in Nat /\ g < lead + 1
        BY <1>2, <3>1, SeqCounts DEF Callers, Followers
      <4> QED BY <1>2, <3>1, <4>1
    <3>2. ~ (lead < lead)
      BY <1>2
    <3> QED BY <3>1, <3>2 DEF CutAt, NoFollower
  <2>6. Cut(s, t, run[0].msgs, lead)
    BY <1>1, <1>2, <2>4, <2>5 DEF Cut, lead, t
  <2>7. Len(run[0].msgs) <= N - 0
    BY <1>1, <1>2 DEF t
  <2> QED BY <1>2, <2>6, <2>7
<1>4. ASSUME NEW n \in 0 .. N - 1, n \in Good PROVE n + 1 \in Good
  <2>1. n + 1 \in 1 .. N /\ n + 1 \in 0 .. N /\ (n + 1) - 1 = n /\ n \in 0 .. N
    BY <1>2
  <2> DEFINE acc == run[n]
             r == DeleteFrom(acc, lead)
  <2>2. Fine(n)
    BY <1>4
  <2>3. acc \in Rows /\ run[n + 1] = r /\ acc.msgs \in Seq(Sized) /\ Len(acc.msgs) \in Nat
    BY <1>1, <2>1 DEF Rows
  <2> HIDE DEF acc
  <2>4. /\ r \in Rows
        /\ Covers(acc) => Covers(r)
        /\ \/ r = acc /\ (acc.total <= AvailableInput \/ Len(acc.msgs) <= lead + 1)
           \/ /\ ~ (acc.total <= AvailableInput) /\ lead + 1 < Len(acc.msgs)
              /\ \E e : Group(acc.msgs, lead + 1, e) /\ r.msgs = Without(acc.msgs, lead + 1 .. e)
    BY <1>2, <2>3, DeleteFromIs
  <2> HIDE DEF r
  <2>5. Covers(run[0]) => Covers(r)
    BY <2>2, <2>4 DEF acc
  <2>6. CASE r = acc /\ (acc.total <= AvailableInput \/ Len(acc.msgs) <= lead + 1)
    <3>1. Settled(s, r)
      BY <2>6 DEF Settled, lead
    <3>2. \E m : Cut(s, t, r.msgs, m)
      BY <2>2, <2>6 DEF acc
    <3> QED BY <2>1, <2>3, <2>5, <3>1, <3>2
  <2>7. ASSUME ~ (acc.total <= AvailableInput), lead + 1 < Len(acc.msgs),
               NEW e, Group(acc.msgs, lead + 1, e), r.msgs = Without(acc.msgs, lead + 1 .. e)
        PROVE  n + 1 \in Good
    <3>1. PICK m : Cut(s, t, acc.msgs, m)
      BY <2>2 DEF acc
    <3>2. m \in lead .. Len(t) /\ acc.msgs = Without(t, lead + 1 .. m) /\ CutAt(t, lead, m)
      BY <3>1 DEF Cut, lead
    <3> DEFINE k == m + (e - lead)
    <3>3. /\ k \in lead .. Len(t) /\ CutAt(t, lead, k)
          /\ Without(acc.msgs, lead + 1 .. e) = Without(t, lead + 1 .. k)
          /\ e > lead /\ e <= Len(acc.msgs) /\ e \in Nat
      <4>1. lead \in Nat
        BY <1>2
      <4>2. e \in lead + 1 .. Len(acc.msgs)
        BY <2>7 DEF Group
      <4>3. e \in Nat
        BY <4>1, <4>2
      <4> DEFINE q == acc.msgs
      <4>4. /\ t \in Seq(Sized) /\ q \in Seq(Sized) /\ m \in lead .. Len(t)
            /\ CutAt(t, lead, m) /\ q = Without(t, lead + 1 .. m)
            /\ lead + 1 < Len(q) /\ Group(q, lead + 1, e)
        BY <1>2, <2>3, <2>7, <3>2
      <4> HIDE DEF q
      <4>5. /\ m + (e - lead) \in lead .. Len(t) /\ CutAt(t, lead, m + (e - lead))
            /\ Without(q, lead + 1 .. e) = Without(t, lead + 1 .. m + (e - lead))
            /\ e > lead /\ e <= Len(q) /\ Len(q) = Len(t) - (m - lead)
        <5>1. CutOnce(t, lead, m, q, e)
          BY <4>1, <4>4 DEF CutOnce
        <5> QED BY <5>1, NextCut, Zenon
      <4> QED BY <4>3, <4>5 DEF q, k
    <3> HIDE DEF k
    <3>4. Cut(s, t, r.msgs, k)
      BY <2>7, <3>3 DEF Cut, lead
    <3>5. Len(r.msgs) = Len(acc.msgs) - (e - lead)
      <4> DEFINE q == acc.msgs
      <4>1. /\ q \in Seq(Sized) /\ r.msgs = Without(q, lead + 1 .. e)
            /\ lead \in Nat /\ e \in Nat /\ lead <= e /\ e <= Len(q)
        BY <1>2, <2>3, <2>7, <3>3
      <4> HIDE DEF q
      <4>2. Len(Without(q, lead + 1 .. e)) = Len(q) - (e - lead)
        BY <4>1, WithoutRange, Zenon
      <4> QED BY <4>1, <4>2 DEF q
    <3>6. Settled(s, r) \/ Len(r.msgs) <= N - (n + 1)
      <4>1. ~ Settled(s, acc)
        <5>1. ~ (Len(acc.msgs) <= lead + 1)
          BY <1>2, <2>3, <2>7
        <5> QED BY <2>7, <5>1 DEF Settled, lead
      <4>2. Len(acc.msgs) <= N - n
        BY <2>2, <4>1 DEF acc
      <4>3. \A x, y, z, u, v \in Nat : x <= y - z /\ u < v => x - (v - u) <= y - (z + 1)
        OBVIOUS
      <4>4. lead \in Nat /\ n \in Nat
        BY <1>2
      <4> QED BY <1>2, <2>3, <3>3, <3>5, <4>2, <4>3, <4>4
    <3> QED BY <2>1, <2>3, <2>5, <3>4, <3>6
  <2> QED BY <2>4, <2>6, <2>7
<1> HIDE DEF Good
<1>5. 0 .. N \subseteq Good
  BY <1>2, <1>3, <1>4, UpTo
<1>6. N \in Good /\ N \in 0 .. N
  BY <1>2, <1>5
<1>7. Fine(N) /\ run[N] \in Rows
  BY <1>1, <1>6 DEF Good
<1>8. Settled(s, run[N])
  <2>1. CASE Len(run[N].msgs) <= N - N
    <3>1. Len(run[N].msgs) <= lead + 1
      <4>1. Len(run[N].msgs) \in Nat
        BY <1>7 DEF Rows
      <4> QED BY <1>2, <2>1, <4>1
    <3> QED BY <3>1 DEF Settled, lead
  <2> QED BY <1>7, <2>1
<1> QED BY <1>1, <1>7, <1>8 DEF run, N, t

\* The system block is that of the row before.
LEMMA LeadStays ==
  ASSUME NEW s \in Seq(Sized), NEW t \in Seq(Sized), Shapes(t) = Shapes(s)
  PROVE  Len(t) = Len(s) /\ Lead(t) = Lead(s) /\ SystemCount(t) = SystemCount(s)
<1>1. Lead(t) = Lead(s)
  BY ShapesSame
<1>2. 1 .. Len(t) = 1 .. Len(s) /\ Len(t) \in Nat /\ Len(s) \in Nat
  BY SeqCounts, ShapesAre
<1>3. Len(t) = Len(s)
  <2>1. ASSUME NEW m \in Nat, NEW n \in Nat, 1 .. m = 1 .. n PROVE m = n
    <3>1. m <= n
      <4>1. m = 0 \/ m \in 1 .. n
        BY <2>1
      <4> QED BY <4>1
    <3>2. n <= m
      <4>1. n = 0 \/ n \in 1 .. m
        BY <2>1
      <4> QED BY <4>1
    <3> QED BY <3>1, <3>2
  <2> QED BY <1>2, <2>1
<1> QED BY <1>1, <1>3 DEF SystemCount

\* What is pruned is a row, and it fits.
LEMMA PrunedIs ==
  ASSUME NEW s \in Seq(Sized)
  PROVE  Pruned(s) \in Seq(Sized)
<1>1. Deleting(s)[Len(s)].msgs \in Seq(Sized)
  BY DeletedIs DEF Rows
<1> QED BY <1>1 DEF Pruned

LEMMA PrunedFitsIn ==
  ASSUME NEW s \in Seq(Sized), settings \in Windows, \A i \in OldResults(s) : s[i].text >= Notice
  PROVE  FitsBudget(Pruned(s))
<1> DEFINE lead == SystemCount(s)
           t == Shortened(s).msgs
           r == Deleting(s)[Len(s)]
<1>1. AvailableInput \in Int
  <2>1. settings \in [window: Nat, maxTokens: Nat] /\ Reserve \in Nat /\ Headroom \in Nat
    BY ShrinkingAssumption
  <2>2. settings.window \in Nat /\ settings.maxTokens \in Nat
    BY <2>1
  <2> QED BY <2>1, <2>2 DEF AvailableInput
<1>2. CASE CountTokens(s) <= AvailableInput
  BY <1>2 DEF Pruned, FitsBudget
<1>3. CASE ~ (CountTokens(s) <= AvailableInput)
  <2>1. Pruned(s) = r.msgs
    BY <1>3 DEF Pruned
  <2>2. /\ r \in Rows /\ \E m : Cut(s, t, r.msgs, m)
        /\ Covers(Shortened(s)) => Covers(r)
        /\ Settled(s, r)
    BY DeletedIs
  <2>3. Shortened(s) \in Rows /\ Shapes(t) = Shapes(s) /\ Covers(Shortened(s)) /\ t \in Seq(Sized)
    BY ShortenedIs DEF Rows
  <2>4. lead = SystemCount(t) /\ lead \in 0 .. Len(t) /\ \A i \in 1 .. lead : t[i].role = "system"
    BY <2>3, LeadStays, LeadIs
  <2>5. r.msgs \in Seq(Sized) /\ r.total \in Nat
    BY <2>2 DEF Rows
  <2> HIDE DEF r, t, lead
  <2>6. CASE r.total <= AvailableInput
    <3>1. CountTokens(r.msgs) <= r.total /\ CountTokens(r.msgs) \in Nat
      BY <2>2, <2>3, <2>5, CountIs DEF Covers
    <3>2. CountTokens(r.msgs) <= AvailableInput
      BY <1>1, <2>5, <2>6, <3>1
    <3> QED BY <2>1, <3>2 DEF FitsBudget
  <2>7. CASE Len(r.msgs) <= lead + 1
    <3> DEFINE q == r.msgs
               c == SystemCount(q)
    <3>1. PICK m \in lead .. Len(t) : q = Without(t, lead + 1 .. m)
      BY <2>2 DEF Cut, lead
    <3>2. /\ q \in Seq(Sized) /\ Len(q) = Len(t) - (m - lead)
          /\ \A k \in 1 .. lead : q[k] = t[k]
      <4>1. lead \in Nat /\ m \in Nat /\ lead <= m /\ m <= Len(t)
        BY <2>3, <2>4
      <4>2. /\ Len(Without(t, lead + 1 .. m)) = Len(t) - (m - lead)
            /\ \A k \in 1 .. lead : Without(t, lead + 1 .. m)[k] = t[k]
        BY <2>3, <4>1, WithoutRange, Zenon
      <4> QED BY <2>5, <3>1, <4>2
    <3>3. c \in 0 .. Len(q) /\ (c < Len(q) => q[c + 1].role # "system") /\ Len(q) \in Nat
      BY <3>2, LeadIs
    <3> HIDE DEF c, q
    <3>4. lead <= c
      <4>1. ASSUME c < lead PROVE FALSE
        <5>1. c < Len(q) /\ c + 1 \in 1 .. lead
          BY <2>3, <2>4, <3>1, <3>2, <3>3, <4>1
        <5>2. q[c + 1] = t[c + 1] /\ t[c + 1].role = "system"
          BY <2>4, <3>2, <5>1
        <5> QED BY <3>3, <5>1, <5>2
      <4> QED BY <2>4, <3>3, <4>1
    <3>5. Len(q) <= c + 1
      BY <2>4, <2>7, <3>3, <3>4 DEF q
    <3> QED BY <2>1, <3>5 DEF FitsBudget, q, c
  <2> QED BY <2>2, <2>6, <2>7 DEF Settled, lead
<1> QED BY <1>2, <1>3

-----------------------------------------------------------------------------
\* A row and its log.

\* What the rules say of a row they say of a log that carries it.
LEMMA CarriesRules ==
  ASSUME NEW a, IsLog(a), NEW b, IsLog(b), NEW h, Carries(h, a, b)
  PROVE  /\ \A i \in DOMAIN a : i \in Lead(a) <=> h[i] \in Lead(b)
         /\ \A i \in DOMAIN a : i \in Callers(a) <=> h[i] \in Callers(b)
         /\ \A i, j \in DOMAIN a : j \in Followers(a, i) <=> h[j] \in Followers(b, h[i])
<1>1. /\ \A i \in DOMAIN a : i \in Nat /\ h[i] \in DOMAIN b /\ h[i] \in Nat /\ b[h[i]] = a[i]
      /\ \A i, j \in DOMAIN a : i < j <=> h[i] < h[j]
      /\ \A i, j \in DOMAIN a : h[i] = h[j] => i = j
      /\ \A k \in DOMAIN b : \E i \in DOMAIN a : h[i] = k
  BY CarriesOrder DEF Carries
<1>2. \A i, j \in DOMAIN a : i <= j <=> h[i] <= h[j]
  <2> SUFFICES ASSUME NEW i \in DOMAIN a, NEW j \in DOMAIN a PROVE i <= j <=> h[i] <= h[j]
    OBVIOUS
  <2>1. \A x, y \in Nat : x <= y <=> ~ (y < x)
    OBVIOUS
  <2> QED BY <1>1, <2>1
<1>3. ASSUME NEW i \in DOMAIN a PROVE i \in Lead(a) <=> h[i] \in Lead(b)
  <2>1. i \in Lead(a) <=> \A j \in DOMAIN a : j <= i => a[j].role = "system"
    BY DEF Lead
  <2>2. h[i] \in Lead(b) <=> \A k \in DOMAIN b : k <= h[i] => b[k].role = "system"
    BY <1>1 DEF Lead
  <2> QED BY <1>1, <1>2, <2>1, <2>2
<1>4. ASSUME NEW i \in DOMAIN a PROVE i \in Callers(a) <=> h[i] \in Callers(b)
  BY <1>1 DEF Callers
<1>5. ASSUME NEW i \in DOMAIN a, NEW j \in DOMAIN a
      PROVE  j \in Followers(a, i) <=> h[j] \in Followers(b, h[i])
  <2>1. j \in Followers(a, i) <=>
          /\ a[j].role = "tool" /\ i < j
          /\ \A k \in DOMAIN a : i < k /\ k < j => a[k].role = "tool"
    BY DEF Followers, Between, Of
  <2>2. h[j] \in Followers(b, h[i]) <=>
          /\ b[h[j]].role = "tool" /\ h[i] < h[j]
          /\ \A k \in DOMAIN b : h[i] < k /\ k < h[j] => b[k].role = "tool"
    BY <1>1 DEF Followers, Between, Of
  <2>3. (\A k \in DOMAIN a : i < k /\ k < j => a[k].role = "tool")
          <=> \A k \in DOMAIN b : h[i] < k /\ k < h[j] => b[k].role = "tool"
    BY <1>1
  <2> QED BY <1>1, <2>1, <2>2, <2>3
<1> QED BY <1>3, <1>4, <1>5

Places(s) == [i \in DOMAIN s |-> PositionOf(s, i)]

LEMMA LogIs ==
  ASSUME NEW s \in Seq(Sized)
  PROVE  /\ Counted(LogOf(s)) /\ IsLog(Shapes(LogOf(s)))
         /\ Carries(Places(s), s, LogOf(s)) /\ Carries(Places(s), Shapes(s), Shapes(LogOf(s)))
         /\ \A i \in DOMAIN s : Places(s)[i] = PositionOf(s, i) /\ Places(s)[i] \in DOMAIN LogOf(s)
         /\ \A p \in DOMAIN LogOf(s) : \E i \in DOMAIN s : Places(s)[i] = p
<1> DEFINE L == LogOf(s)
           h == Places(s)
<1>1. /\ DOMAIN s = 1 .. Len(s) /\ Len(s) \in Nat /\ \A i \in DOMAIN s : s[i] \in Sized
  BY SeqCounts DEF Counted
<1>2. /\ \A i \in DOMAIN s : h[i] = PositionOf(s, i)
      /\ h = [i \in DOMAIN s |-> h[i]]
  BY DEF Places
<1>3. ASSUME NEW i \in DOMAIN s
      PROVE  /\ h[i] \in Nat /\ (h[i] + 1) \div 2 = i
             /\ 2 * i - 1 <= h[i] /\ h[i] <= 2 * i
  <2>1. i \in Nat /\ i >= 1
    BY <1>1
  <2>2. h[i] = 2 * i - 1 \/ h[i] = 2 * i
    BY <1>2 DEF PositionOf
  <2>3. CASE h[i] = 2 * i - 1
    <3>1. h[i] \in Nat /\ h[i] + 1 = 2 * i /\ h[i] <= 2 * i
      BY <2>1, <2>3
    <3>2. (2 * i) \div 2 = i
      BY <2>1
    <3> QED BY <2>3, <3>1, <3>2
  <2>4. CASE h[i] = 2 * i
    <3>1. h[i] \in Nat /\ h[i] + 1 = 2 * i + 1 /\ 2 * i - 1 <= h[i]
      BY <2>1, <2>4
    <3>2. (2 * i + 1) \div 2 = i
      BY <2>1
    <3> QED BY <2>4, <3>1, <3>2
  <2> QED BY <2>2, <2>3, <2>4
<1>4. /\ DOMAIN L = {h[i] : i \in DOMAIN s}
      /\ L = [p \in DOMAIN L |-> L[p]]
      /\ \A p \in DOMAIN L : L[p] = s[(p + 1) \div 2]
  BY <1>2 DEF LogOf
<1> HIDE DEF L, h
<1>5. \A i \in DOMAIN s : h[i] \in DOMAIN L /\ L[h[i]] = s[i]
  BY <1>3, <1>4
<1>6. \A p \in DOMAIN L : \E i \in DOMAIN s : h[i] = p
  BY <1>4
<1>7. ASSUME NEW i \in DOMAIN s, NEW j \in DOMAIN s, i < j PROVE h[i] < h[j]
  <2>1. i \in Nat /\ j \in Nat /\ i + 1 <= j
    BY <1>1, <1>7
  <2>2. h[i] \in Nat /\ h[j] \in Nat /\ h[i] <= 2 * i /\ 2 * j - 1 <= h[j]
    BY <1>3
  <2> QED BY <2>1, <2>2
<1>8. Carries(h, s, L)
  BY <1>2, <1>5, <1>6, <1>7 DEF Carries
<1>9. Counted(L)
  <2>1. DOMAIN L \subseteq Nat
    BY <1>3, <1>4
  <2>2. \A p \in DOMAIN L : L[p] \in Sized
    BY <1>1, <1>5, <1>6
  <2> QED BY <1>4, <2>1, <2>2 DEF Counted
<1>10. IsLog(Shapes(L)) /\ Carries(h, Shapes(s), Shapes(L))
  BY <1>8, <1>9, CarriesShapes, ShapesAre
<1> QED BY <1>2, <1>5, <1>6, <1>8, <1>9, <1>10 DEF L, h

\* The rules on a row and on its log.
LEMMA LogRules ==
  ASSUME NEW s \in Seq(Sized)
  PROVE  LET L == LogOf(s)
             h == Places(s)
         IN  /\ \A i \in DOMAIN s : i \in Lead(s) <=> h[i] \in Lead(L)
             /\ \A i \in DOMAIN s : i \in Callers(s) <=> h[i] \in Callers(L)
             /\ \A i, j \in DOMAIN s : j \in Followers(s, i) <=> h[j] \in Followers(L, h[i])
             /\ \A i, j \in DOMAIN s : i < j <=> h[i] < h[j]
             /\ \A i \in DOMAIN s : i \in Nat /\ h[i] \in Nat
<1>1. IsLog(Shapes(s)) /\ DOMAIN Shapes(s) = DOMAIN s
  BY SeqCounts
<1>2. IsLog(Shapes(LogOf(s))) /\ Carries(Places(s), Shapes(s), Shapes(LogOf(s)))
  BY LogIs
<1>3. /\ \A i \in DOMAIN s : i \in Lead(Shapes(s)) <=> Places(s)[i] \in Lead(Shapes(LogOf(s)))
      /\ \A i \in DOMAIN s : i \in Callers(Shapes(s)) <=> Places(s)[i] \in Callers(Shapes(LogOf(s)))
      /\ \A i, j \in DOMAIN s : j \in Followers(Shapes(s), i)
                                  <=> Places(s)[j] \in Followers(Shapes(LogOf(s)), Places(s)[i])
      /\ \A i, j \in DOMAIN s : i < j <=> Places(s)[i] < Places(s)[j]
      /\ \A i \in DOMAIN s : i \in Nat /\ Places(s)[i] \in Nat
  BY <1>1, <1>2, CarriesRules, CarriesOrder
<1> QED BY <1>3, ShapesSame

-----------------------------------------------------------------------------
\* A pruning is a cut.

\* What is alike a row that is alike a log is alike the log.
LEMMA AlikeThrough ==
  ASSUME NEW a, NEW b, NEW c, Alike(a, b), Alike(b, c)
  PROVE  Alike(a, c)
<1>1. PICK h : Carries(h, a, b)
  BY DEF Alike
<1>2. PICK g : Carries(g, b, c)
  BY DEF Alike
<1>3. Carries([i \in DOMAIN a |-> g[h[i]]], a, c)
  BY <1>1, <1>2, CarriesThrough, Zenon
<1> QED BY <1>3 DEF Alike

\* Messages of a row that go where those of its log go leave the same.
LEMMA ErasedAlike ==
  ASSUME NEW s \in Seq(Sized), NEW t \in Seq(Sized), Shapes(t) = Shapes(s), NEW S, NEW T,
         \A i \in DOMAIN s : i \in S <=> Places(s)[i] \in T
  PROVE  Alike(Shapes(Without(t, S)), Erase(Shapes(LogOf(s)), T))
<1> DEFINE h == Places(s)
           L == LogOf(s)
           e == Erase(Shapes(s), S)
           f == Erase(Shapes(L), T)
<1>1. IsLog(Shapes(s)) /\ DOMAIN Shapes(s) = DOMAIN s
  BY SeqCounts
<1>2. IsLog(Shapes(L)) /\ Carries(h, Shapes(s), Shapes(L))
  BY LogIs
<1>3. \A i \in DOMAIN Shapes(s) : i \in S <=> h[i] \in T
  BY <1>1
<1> HIDE DEF h, L
<1>4. Carries([i \in DOMAIN Shapes(s) \ S |-> h[i]], e, f)
  BY <1>1, <1>2, <1>3, CarriesErase
<1>5. Alike(e, f)
  BY <1>4 DEF Alike
<1>6. Alike(Shapes(Without(t, S)), e)
  BY WithoutIs DEF Alike
<1> HIDE DEF e, f
<1>7. Alike(Shapes(Without(t, S)), f)
  BY <1>5, <1>6, AlikeThrough
<1> QED BY <1>7 DEF f, L

LEMMA ErasedIs ==
  ASSUME NEW s \in Seq(Sized), NEW t \in Seq(Sized), Shapes(t) = Shapes(s), NEW S, NEW T,
         \A i \in DOMAIN s : i \in S <=> Places(s)[i] \in T
  PROVE  Shapes(Without(t, S)) = InOrder(Erase(LogOf(s), T))
<1> DEFINE L == LogOf(s)
<1>1. Without(t, S) \in Seq(Sized) /\ Alike(Shapes(Without(t, S)), Erase(Shapes(L), T))
  BY WithoutIs, ErasedAlike
<1>2. Counted(L)
  BY LogIs
<1> HIDE DEF L
<1>3. Counted(Erase(L, T)) /\ Erase(Shapes(L), T) = Shapes(Erase(L, T))
  BY <1>2, EraseShapes
<1>4. DOMAIN Erase(L, T) \subseteq Nat
  BY <1>3 DEF Counted
<1>5. Shapes(Without(t, S)) = InOrder(Erase(L, T))
  BY <1>1, <1>3, <1>4, InOrderIs
<1> QED BY <1>5 DEF L

\* t is the row s with other counts, and S are the messages of it up to a cut.
UpToCut(s, t, S, cut) ==
  /\ s \in Seq(Sized) /\ t \in Seq(Sized) /\ Shapes(t) = Shapes(s)
  /\ \A i \in DOMAIN s : i \in S <=> i \notin Lead(s) /\ Places(s)[i] < cut

LEMMA CutIsPrune ==
  ASSUME NEW s, NEW t, NEW S, NEW cut, UpToCut(s, t, S, cut)
  PROVE  Shapes(Without(t, S)) = InOrder(Prune(LogOf(s), cut))
<1>0. /\ s \in Seq(Sized) /\ t \in Seq(Sized) /\ Shapes(t) = Shapes(s)
      /\ \A i \in DOMAIN s : i \in S <=> i \notin Lead(s) /\ Places(s)[i] < cut
  BY DEF UpToCut
<1> DEFINE T == {p \in DOMAIN LogOf(s) \ Lead(LogOf(s)) : p < cut}
<1>1. ASSUME NEW i \in DOMAIN s PROVE i \in S <=> Places(s)[i] \in T
  <2>1. Places(s)[i] \in DOMAIN LogOf(s)
    BY <1>0, LogIs
  <2>2. i \in Lead(s) <=> Places(s)[i] \in Lead(LogOf(s))
    BY <1>0, LogRules
  <2> QED BY <1>0, <2>1, <2>2
<1>2. Prune(LogOf(s), cut) = Erase(LogOf(s), T)
  BY DEF Prune
<1> HIDE DEF T
<1> QED BY <1>0, <1>1, <1>2, ErasedIs

\* Two elements.
LEMMA TwoAreMore ==
  ASSUME NEW S, IsFiniteSet(S), NEW x \in S, NEW y \in S, x # y
  PROVE  Cardinality(S) > 1
<1>1. Cardinality({x}) = 1 /\ IsFiniteSet({x})
  BY FS_Singleton
<1>2. Cardinality({x} \cup {y}) = Cardinality({x}) + 1 /\ IsFiniteSet({x} \cup {y})
  BY <1>1, FS_AddElement
<1>3. {x} \cup {y} \subseteq S
  OBVIOUS
<1>4. Cardinality({x} \cup {y}) <= Cardinality(S) /\ Cardinality(S) \in Nat
  BY <1>3, FS_Subset, FS_CardinalityType
<1> QED BY <1>1, <1>2, <1>4

\* What the code leaves is what Conversation says of a cut.
LEMMA PrunedIsCut ==
  ASSUME NEW s \in Seq(Sized)
  PROVE  Shapes(Pruned(s)) \in
           {Shapes(s)} \cup {InOrder(Prune(LogOf(s), cut)) : cut \in PruneCuts(LogOf(s))}
<1> DEFINE lead == SystemCount(s)
           t == Shortened(s).msgs
           L == LogOf(s)
           h == Places(s)
           rest == DOMAIN L \ Lead(L)
           groups == rest \ UNION {Followers(L, i) : i \in Callers(L) \cap rest}
           lastGroup == {j \in rest : \A i \in groups : i <= j}
<1>1. SUFFICES ASSUME Pruned(s) = Deleting(s)[Len(s)].msgs
               PROVE  \/ Shapes(Pruned(s)) = Shapes(s)
                      \/ \E cut \in PruneCuts(L) : Shapes(Pruned(s)) = InOrder(Prune(L, cut))
  BY DEF Pruned
<1>2. PICK m : Cut(s, t, Pruned(s), m)
  BY <1>1, DeletedIs
<1>3. m \in lead .. Len(t) /\ Pruned(s) = Without(t, lead + 1 .. m) /\ CutAt(t, lead, m)
  BY <1>2 DEF Cut
<1>4. t \in Seq(Sized) /\ Shapes(t) = Shapes(s) /\ Len(t) = Len(s)
  BY ShortenedIs DEF Rows
<1>5. Callers(t) = Callers(s) /\ \A g : Followers(t, g) = Followers(s, g)
  BY <1>4, ShapesSame
<1>6. /\ lead \in 0 .. Len(s) /\ Lead(s) = 1 .. lead /\ Len(s) \in Nat
      /\ DOMAIN s = 1 .. Len(s) /\ \A i \in Lead(s) : s[i].role = "system"
  BY LeadIs, SeqCounts
<1>7. /\ \A i \in DOMAIN s : h[i] \in DOMAIN L /\ h[i] \in Nat
      /\ \A p \in DOMAIN L : \E i \in DOMAIN s : h[i] = p
      /\ \A i \in DOMAIN s : i \in Lead(s) <=> h[i] \in Lead(L)
      /\ \A i \in DOMAIN s : i \in Callers(s) <=> h[i] \in Callers(L)
      /\ \A i, j \in DOMAIN s : j \in Followers(s, i) <=> h[j] \in Followers(L, h[i])
      /\ \A i, j \in DOMAIN s : i < j <=> h[i] < h[j]
  BY LogIs, LogRules
<1>8. PruneCuts(L) = IF Cardinality(lastGroup) > 1 THEN groups \cup {Latest(rest) + 1} ELSE groups
  BY DEF PruneCuts
<1>9. \A i, j \in DOMAIN s : i <= j <=> h[i] <= h[j]
  <2>1. \A x, y \in Nat : x <= y <=> ~ (y < x)
    OBVIOUS
  <2>2. \A i \in DOMAIN s : i \in Nat
    BY <1>6
  <2> QED BY <1>7, <2>1, <2>2
<1> HIDE DEF lead, t, L, h
<1>10. \A i \in DOMAIN s : i > lead <=> h[i] \in rest
  BY <1>6, <1>7
<1>11. ASSUME NEW k \in DOMAIN s, k > lead, NoFollower(t, lead, k)
       PROVE  h[k] \in groups
  <2>1. h[k] \in rest
    BY <1>10, <1>11
  <2>2. ASSUME NEW p \in Callers(L) \cap rest PROVE h[k] \notin Followers(L, p)
    <3>1. PICK g \in DOMAIN s : h[g] = p
      BY <1>7
    <3>2. g \in Callers(s) /\ g > lead
      BY <1>7, <1>10, <3>1
    <3>3. k \notin Followers(s, g)
      BY <1>5, <1>11, <3>2 DEF NoFollower
    <3> QED BY <1>7, <3>1, <3>3
  <2> QED BY <2>1, <2>2
<1>12. CASE m = lead
  <2>1. Pruned(s) = t
    BY <1>3, <1>4, <1>6, <1>12, WithoutNothing
  <2> QED BY <1>4, <2>1
<1>13. CASE lead < m /\ m < Len(t)
  <2>1. m + 1 \in DOMAIN s /\ m + 1 > lead /\ NoFollower(t, lead, m + 1)
    BY <1>3, <1>4, <1>6, <1>13 DEF CutAt
  <2>2. h[m + 1] \in PruneCuts(L)
    BY <1>8, <1>11, <2>1
  <2>3. \A i \in DOMAIN s : i \in lead + 1 .. m <=> i \notin Lead(s) /\ h[i] < h[m + 1]
    <3> TAKE i \in DOMAIN s
    <3>1. i < m + 1 <=> h[i] < h[m + 1]
      BY <1>7, <2>1
    <3> QED BY <1>3, <1>6, <3>1
  <2>4. Shapes(Pruned(s)) = InOrder(Prune(L, h[m + 1]))
    <3> DEFINE S == lead + 1 .. m
               cut == h[m + 1]
    <3>1. UpToCut(s, t, S, cut)
      BY <1>4, <2>3 DEF UpToCut, h
    <3>2. Pruned(s) = Without(t, S)
      BY <1>3
    <3> HIDE DEF S, cut
    <3>3. Shapes(Without(t, S)) = InOrder(Prune(LogOf(s), cut))
      BY <3>1, CutIsPrune, Zenon
    <3> QED BY <3>2, <3>3 DEF L, cut
  <2> QED BY <2>2, <2>4
<1>14. CASE lead < m /\ m = Len(t)
  <2>1. PICK g \in Callers(t) : lead < g /\ g < m /\ Followers(t, g) = g + 1 .. m /\ NoFollower(t, lead, g)
    BY <1>3, <1>14 DEF CutAt
  <2>2. /\ g \in DOMAIN s /\ m \in DOMAIN s /\ g \in Nat /\ m \in Nat
        /\ Followers(s, g) = g + 1 .. m /\ g \in Callers(s)
    BY <1>4, <1>5, <1>6, <1>14, <2>1 DEF Callers
  <2>3. h[g] \in rest /\ h[m] \in rest /\ h[g] # h[m] /\ h[g] < h[m]
    BY <1>7, <1>10, <1>14, <2>1, <2>2
  <2>4. \A p \in rest : p <= h[m]
    <3> TAKE p \in rest
    <3>1. PICK k \in DOMAIN s : h[k] = p
      BY <1>7
    <3>2. k <= m
      BY <1>4, <1>6, <1>14, <3>1
    <3> QED BY <1>9, <2>2, <3>1, <3>2
  <2>5. Latest(rest) = h[m]
    <3>1. \A p \in rest : (\A q \in rest : q <= p) => p = h[m]
      <4> TAKE p \in rest
      <4>1. p \in Nat /\ h[m] \in Nat
        BY <1>7, <2>2
      <4> QED BY <2>3, <2>4, <4>1
    <3> HIDE DEF rest
    <3> QED BY <2>3, <2>4, <3>1 DEF Latest
  <2>6. \A p \in groups : p <= h[g] /\ p <= h[m]
    <3> TAKE p \in groups
    <3>1. PICK k \in DOMAIN s : h[k] = p
      BY <1>7
    <3>2. p \notin Followers(L, h[g])
      BY <1>7, <2>2, <2>3
    <3>3. k \notin g + 1 .. m
      BY <1>7, <2>2, <3>1, <3>2
    <3>4. k <= g
      BY <1>4, <1>6, <1>14, <2>2, <3>1, <3>3
    <3> QED BY <1>9, <2>2, <2>4, <3>1, <3>4
  <2>7. h[g] \in lastGroup /\ h[m] \in lastGroup
    BY <2>3, <2>6
  <2>8. IsFiniteSet(lastGroup)
    <3>0. h[m] \in Nat /\ \A p \in rest : p \in Nat
      BY <1>7, <2>2
    <3>1. rest \subseteq 0 .. h[m]
      BY <2>4, <3>0
    <3>2. IsFiniteSet(0 .. h[m])
      <4>1. 0 \in Int /\ h[m] \in Int
        BY <3>0
      <4> QED BY <4>1, FS_Interval
    <3>3. lastGroup \subseteq 0 .. h[m]
      BY <3>1
    <3> HIDE DEF lastGroup
    <3> QED BY <3>2, <3>3, FS_Subset
  <2>9. Cardinality(lastGroup) > 1
    <3> HIDE DEF lastGroup
    <3> QED BY <2>3, <2>7, <2>8, TwoAreMore
  <2>10. h[m] + 1 \in PruneCuts(L)
    BY <1>8, <2>5, <2>9
  <2>11. \A i \in DOMAIN s : i \in lead + 1 .. m <=> i \notin Lead(s) /\ h[i] < h[m] + 1
    <3> TAKE i \in DOMAIN s
    <3>1. i <= m <=> h[i] <= h[m]
      BY <1>9, <2>2
    <3>2. h[i] <= h[m] <=> h[i] < h[m] + 1
      <4>1. h[i] \in Nat /\ h[m] \in Nat
        BY <1>7, <2>2
      <4>2. \A x, y \in Nat : x <= y <=> x < y + 1
        OBVIOUS
      <4> QED BY <4>1, <4>2
    <3> QED BY <1>3, <1>6, <3>1, <3>2
  <2>12. Shapes(Pruned(s)) = InOrder(Prune(L, h[m] + 1))
    <3> DEFINE S == lead + 1 .. m
               cut == h[m] + 1
    <3>1. UpToCut(s, t, S, cut)
      BY <1>4, <2>11 DEF UpToCut, h
    <3>2. Pruned(s) = Without(t, S)
      BY <1>3
    <3> HIDE DEF S, cut
    <3>3. Shapes(Without(t, S)) = InOrder(Prune(LogOf(s), cut))
      BY <3>1, CutIsPrune, Zenon
    <3> QED BY <3>2, <3>3 DEF L, cut
  <2> QED BY <2>10, <2>12
<1>15. lead = m \/ (lead < m /\ m < Len(t)) \/ (lead < m /\ m = Len(t))
  BY <1>3, <1>4, <1>6
<1> QED BY <1>12, <1>13, <1>14, <1>15

-----------------------------------------------------------------------------
\* A log of messages, with their counts or without.
Mixed(l) ==
  /\ DOMAIN l \subseteq Nat
  /\ l = [i \in DOMAIN l |-> l[i]]
  /\ \A i \in DOMAIN l : l[i] \in Sized \cup Message

LEMMA MixedIs ==
  ASSUME NEW m \in Sized \cup Message
  PROVE  Shape(m) \in Message /\ Shape(Bare(m)) = Bare(Shape(m))
<1>1. CASE m \in Sized
  BY <1>1, ShapeIs, BareIs
<1>2. CASE m \in Message
  <2>1. m \in [role: Roles, calls: SUBSET Nat, id: Nat, marked: BOOLEAN]
        /\ (m.calls # {} => m.role = "assistant")
    BY <1>2 DEF Message
  <2>2. Shape(m) \in Message
    BY <2>1 DEF Shape, Message
  <2>3. Shape(Bare(m)) = Bare(Shape(m))
    BY <2>1 DEF Shape, Bare
  <2> QED BY <2>2, <2>3
<1> QED BY <1>1, <1>2

LEMMA ClosedShapes ==
  ASSUME NEW l, Mixed(l)
  PROVE  /\ IsLog(Shapes(l)) /\ IsLog(Hushed(Shapes(l))) /\ IsLog(Closed(Shapes(l)))
         /\ Shapes(Closed(l)) = Closed(Shapes(l))
         /\ DOMAIN Closed(l) \subseteq Nat
<1>1. IsLog(Shapes(l))
  <2>1. \A i \in DOMAIN l : Shapes(l)[i] \in Message
    BY ShapesAre, MixedIs DEF Mixed
  <2>2. DOMAIN Shapes(l) = DOMAIN l /\ Shapes(l) = [i \in DOMAIN Shapes(l) |-> Shapes(l)[i]]
    BY DEF Shapes
  <2> QED BY <2>1, <2>2 DEF IsLog, Mixed
<1>2. Quiet(Shapes(l)) = Quiet(l)
  <2>1. /\ Callers(Shapes(l)) = Callers(l) /\ Of(Shapes(l), "tool") = Of(l, "tool")
        /\ \A i \in DOMAIN l : Shapes(l)[i].calls = l[i].calls /\ Shapes(l)[i].id = l[i].id
    BY ShapesSame, ShapesAre
  <2>2. Callers(l) \subseteq DOMAIN l /\ Of(l, "tool") \subseteq DOMAIN l
    BY DEF Callers, Of
  <2>3. {Shapes(l)[j].id : j \in Of(l, "tool")} = {l[j].id : j \in Of(l, "tool")}
    BY <2>1, <2>2
  <2> QED BY <2>1, <2>2, <2>3 DEF Quiet
<1> DEFINE S == Quiet(l)
           t == Hushed(l)
<1>3. Shapes(t) = Hushed(Shapes(l)) /\ DOMAIN t = DOMAIN l
  <2>1. /\ DOMAIN t = DOMAIN l
        /\ \A i \in DOMAIN l : t[i] = IF i \in S THEN Bare(l[i]) ELSE l[i]
    BY DEF Strip, Hushed
  <2>2. Shapes(t) = [i \in DOMAIN l |-> Shape(t[i])]
    BY <2>1 DEF Shapes
  <2>3. Hushed(Shapes(l)) = [i \in DOMAIN l |-> IF i \in S THEN Bare(Shapes(l)[i]) ELSE Shapes(l)[i]]
    BY <1>2, ShapesAre DEF Strip, Hushed
  <2> HIDE DEF S, t
  <2>4. \A i \in DOMAIN l : Shape(t[i]) = IF i \in S THEN Bare(Shapes(l)[i]) ELSE Shapes(l)[i]
    BY <2>1, MixedIs, ShapesAre DEF Mixed
  <2> QED BY <2>1, <2>2, <2>3, <2>4
<1>4. IsLog(Hushed(Shapes(l))) /\ IsLog(Closed(Shapes(l)))
  BY <1>1, StripFacts, EraseFacts DEF Hushed, Closed
<1>5. Uncalled(t) = Uncalled(Shapes(t))
  BY ShapesSame
<1> HIDE DEF t
<1>6. /\ Erase(t, Uncalled(t)) = [i \in DOMAIN t \ Uncalled(t) |-> t[i]]
      /\ Erase(Shapes(t), Uncalled(t)) = [i \in DOMAIN t \ Uncalled(t) |-> Shapes(t)[i]]
  BY ShapesAre DEF Erase, Restrict
<1>7. Shapes(Erase(t, Uncalled(t))) = Erase(Shapes(t), Uncalled(t))
  BY <1>6, ShapesAre DEF Shapes
<1>8. Closed(l) = Erase(t, Uncalled(t))
  BY DEF Closed, t
<1>9. Shapes(Closed(l)) = Closed(Shapes(l))
  BY <1>3, <1>5, <1>7, <1>8 DEF Closed
<1>10. DOMAIN Closed(l) \subseteq Nat
  BY <1>3, <1>6, <1>8 DEF Mixed
<1> QED BY <1>1, <1>4, <1>9, <1>10

\* It depends on the order of the messages only.
LEMMA ClosedAlike ==
  ASSUME NEW a, IsLog(a), NEW b, IsLog(b), Alike(a, b)
  PROVE  Alike(Closed(a), Closed(b))
<1>1. PICK h : Carries(h, a, b)
  BY DEF Alike
<1>2. /\ \A k \in DOMAIN a : h[k] \in DOMAIN b /\ b[h[k]] = a[k]
      /\ \A k \in DOMAIN b : \E l \in DOMAIN a : h[l] = k
  BY <1>1 DEF Carries
<1>3. {a[j].id : j \in Of(a, "tool")} = {b[j].id : j \in Of(b, "tool")}
  <2>1. ASSUME NEW j \in Of(a, "tool") PROVE h[j] \in Of(b, "tool") /\ b[h[j]].id = a[j].id
    BY <1>2 DEF Of
  <2>2. ASSUME NEW k \in Of(b, "tool") PROVE \E j \in Of(a, "tool") : a[j].id = b[k].id
    BY <1>2 DEF Of
  <2> QED BY <2>1, <2>2
<1>4. \A i \in DOMAIN a : i \in Quiet(a) <=> h[i] \in Quiet(b)
  BY <1>2, <1>3 DEF Quiet, Callers
<1> DEFINE s == Hushed(a)
           t == Hushed(b)
<1>5. /\ s = [i \in DOMAIN a |-> IF i \in Quiet(a) THEN Bare(a[i]) ELSE a[i]]
      /\ t = [i \in DOMAIN b |-> IF i \in Quiet(b) THEN Bare(b[i]) ELSE b[i]]
  BY DEF Hushed, Strip
<1>6. IsLog(s) /\ IsLog(t)
  BY StripFacts DEF Hushed
<1> HIDE DEF s, t
<1>7. Carries(h, s, t)
  BY <1>1, <1>2, <1>4, <1>5 DEF Carries
<1>8. \A i \in DOMAIN s : i \in Uncalled(s) <=> h[i] \in Uncalled(t)
  BY <1>6, <1>7, CarriesUncalled
<1>9. Carries([i \in DOMAIN s \ Uncalled(s) |-> h[i]], Erase(s, Uncalled(s)), Erase(t, Uncalled(t)))
  BY <1>6, <1>7, <1>8, CarriesErase
<1> QED BY <1>9 DEF Alike, Closed, s, t

\* K is a log of kept messages.
KeptLog(K, n) ==
  IsLog(K) /\ n \in Nat /\ \A p \in DOMAIN K : 0 < p /\ p <= n /\ ~ IsSummary(p)

\* The summary of a log has its place where that of the row has.
LEMMA InsertedAlike ==
  ASSUME NEW r, NEW w, Inserted(r, w), NEW K, NEW n, KeptLog(K, n), NEW g, Carries(g, Shapes(r), K)
  PROVE  Alike(Shapes(w), Put(K, SummarySlot(K), Text("system")))
<1> DEFINE c == SystemCount(r)
           N == Len(r)
           last == Latest({0} \cup Lead(K))
           slot == SummarySlot(K)
           put == Put(K, slot, Text("system"))
           k == [i \in 1 .. N + 1 |-> IF i <= c THEN g[i] ELSE IF i = c + 1 THEN slot ELSE g[i - 1]]
<1>1. /\ r \in Seq(Sized) /\ w \in Seq(Sized) /\ Len(w) = N + 1
      /\ \A i \in 1 .. N + 1 :
           w[i] = IF i <= c THEN r[i] ELSE IF i = c + 1 THEN NewSummary ELSE r[i - 1]
  BY DEF Inserted
<1>2. IsLog(K) /\ n \in Nat /\ \A p \in DOMAIN K : p \in Nat /\ 0 < p /\ p <= n /\ p % 2 = 0
  <2>1. \A p \in Nat : ~ IsSummary(p) => p % 2 = 0
    BY DEF IsSummary
  <2> QED BY <2>1 DEF KeptLog, IsLog
<1>3. /\ c \in 0 .. N /\ N \in Nat /\ Lead(Shapes(r)) = 1 .. c
      /\ DOMAIN Shapes(r) = 1 .. N /\ IsLog(Shapes(r)) /\ DOMAIN Shapes(w) = 1 .. N + 1
  <2>1. DOMAIN Shapes(w) = 1 .. Len(w)
    BY <1>1, SeqCounts
  <2> QED BY <1>1, <2>1, LeadIs, SeqCounts, ShapesSame
<1>4. /\ \A i \in 1 .. N : g[i] \in DOMAIN K /\ K[g[i]] = Shapes(r)[i]
      /\ \A p \in DOMAIN K : \E i \in 1 .. N : g[i] = p
      /\ \A i, j \in 1 .. N : i < j => g[i] < g[j]
      /\ \A i \in 1 .. N : i \in 1 .. c <=> g[i] \in Lead(K)
  BY <1>2, <1>3, CarriesRules DEF Carries
<1> HIDE DEF c, N, k, put
<1>5. last \in {0} \cup Lead(K) /\ \A p \in {0} \cup Lead(K) : p <= last
  <2> DEFINE S == {0} \cup Lead(K)
  <2>1. S \in SUBSET (0 .. n) /\ S # {}
    BY <1>2 DEF Lead
  <2> HIDE DEF S
  <2>2. Latest(S) \in S /\ \A p \in S : p <= Latest(S)
    BY <1>2, <2>1, LatestIn
  <2> QED BY <2>2 DEF S
<1>6. slot = 2 * (last \div 2) + 1
  BY DEF SummarySlot
<1> HIDE DEF last, slot
<1>7. last \in Nat /\ last % 2 = 0 /\ slot = last + 1 /\ slot \in Nat
  <2>1. last \in Nat /\ last % 2 = 0
    BY <1>2, <1>5 DEF Lead
  <2> QED BY <1>6, <2>1
<1>8. \A i \in 1 .. c : g[i] < slot
  <2> TAKE i \in 1 .. c
  <2>0. i \in 1 .. N /\ i \in 1 .. c
    BY <1>3
  <2>1. g[i] \in Lead(K) /\ g[i] \in Nat
    BY <1>2, <1>4, <2>0
  <2> QED BY <1>5, <1>7, <2>1
<1>9. \A i \in c + 1 .. N : slot < g[i]
  <2> TAKE i \in c + 1 .. N
  <2>0. i \in 1 .. N /\ ~ (i \in 1 .. c)
    BY <1>3
  <2>1. g[i] \in DOMAIN K /\ g[i] \in Nat /\ 0 < g[i] /\ g[i] % 2 = 0
    BY <1>2, <1>4, <2>0
  <2>2. last < g[i]
    <3>1. CASE last = 0
      BY <2>1, <3>1
    <3>2. CASE last \in Lead(K)
      <4>1. PICK j \in 1 .. N : g[j] = last
        BY <1>4, <3>2 DEF Lead
      <4>2. j \in 1 .. c
        BY <1>4, <3>2, <4>1
      <4>3. j < i
        BY <1>3, <4>2
      <4> QED BY <1>4, <2>0, <4>1, <4>3
    <3> QED BY <1>5, <3>1, <3>2
  <2>3. \A x, y \in Nat : x % 2 = 0 /\ y % 2 = 0 /\ x < y => x + 1 < y
    OBVIOUS
  <2> QED BY <1>7, <2>1, <2>2, <2>3
<1>10. slot \notin DOMAIN K
  <2>1. (last + 1) % 2 # 0
    BY <1>7
  <2> QED BY <1>2, <1>7, <2>1
<1>11. /\ DOMAIN put = DOMAIN K \cup {slot} /\ put[slot] = Text("system")
       /\ \A p \in DOMAIN K : put[p] = K[p]
  BY <1>10 DEF Put, put
<1>12. /\ \A i \in 1 .. N + 1 : k[i] = IF i <= c THEN g[i] ELSE IF i = c + 1 THEN slot ELSE g[i - 1]
       /\ k = [i \in 1 .. N + 1 |-> k[i]]
  BY DEF k
<1>13. ASSUME NEW i \in 1 .. N + 1
       PROVE  \/ i \in 1 .. c /\ i \in 1 .. N /\ i <= c
              \/ i = c + 1 /\ ~ (i <= c)
              \/ i - 1 \in c + 1 .. N /\ i - 1 \in 1 .. N /\ ~ (i <= c) /\ i # c + 1
  BY <1>3
<1>14. \A i \in 1 .. N + 1 : k[i] \in DOMAIN put
  BY <1>4, <1>11, <1>12, <1>13
<1>15. \A i \in 1 .. N + 1 : put[k[i]] = Shapes(w)[i]
  <2>1. Shape(NewSummary) = Text("system")
    BY DEF Shape, NewSummary, Text
  <2>2. \A i \in 1 .. N + 1 : Shapes(w)[i] = Shape(w[i])
    BY <1>3, ShapesAre
  <2>3. \A i \in 1 .. N : Shapes(r)[i] = Shape(r[i])
    BY <1>3, ShapesAre
  <2> TAKE i \in 1 .. N + 1
  <2>4. k[i] = IF i <= c THEN g[i] ELSE IF i = c + 1 THEN slot ELSE g[i - 1]
    BY <1>12
  <2>5. w[i] = IF i <= c THEN r[i] ELSE IF i = c + 1 THEN NewSummary ELSE r[i - 1]
    BY <1>1
  <2>6. \A j \in 1 .. N : put[g[j]] = Shape(r[j])
    BY <1>4, <1>11, <2>3
  <2>7. Shapes(w)[i] = Shape(w[i])
    BY <2>2
  <2> QED BY <1>11, <1>13, <2>1, <2>4, <2>5, <2>6, <2>7
<1>16. \A p \in DOMAIN put : \E i \in 1 .. N + 1 : k[i] = p
  <2> TAKE p \in DOMAIN put
  <2>1. CASE p = slot
    <3>1. c + 1 \in 1 .. N + 1 /\ ~ (c + 1 <= c)
      BY <1>3
    <3> QED BY <1>12, <2>1, <3>1
  <2>2. CASE p \in DOMAIN K
    <3>1. PICK i \in 1 .. N : g[i] = p
      BY <1>4, <2>2
    <3>2. CASE i <= c
      <4>1. i \in 1 .. N + 1
        BY <1>3
      <4> QED BY <1>12, <3>1, <3>2, <4>1
    <3>3. CASE ~ (i <= c)
      <4>1. i + 1 \in 1 .. N + 1 /\ ~ (i + 1 <= c) /\ i + 1 # c + 1 /\ (i + 1) - 1 = i
        BY <1>3, <3>3
      <4> QED BY <1>12, <3>1, <4>1
    <3> QED BY <3>2, <3>3
  <2> QED BY <1>11, <2>1, <2>2
<1>17. ASSUME NEW i \in 1 .. N + 1, NEW j \in 1 .. N + 1, i < j PROVE k[i] < k[j]
  <2>1. \A x \in 1 .. N : g[x] \in Nat
    BY <1>2, <1>4
  <2>2. CASE j <= c
    <3>1. i <= c /\ i \in 1 .. N /\ j \in 1 .. N
      BY <1>3, <1>17, <2>2
    <3> QED BY <1>4, <1>12, <1>17, <2>2, <3>1
  <2>3. CASE j = c + 1
    <3>1. i <= c /\ i \in 1 .. c /\ ~ (j <= c)
      BY <1>3, <1>17, <2>3
    <3> QED BY <1>8, <1>12, <2>3, <3>1
  <2>4. CASE j > c + 1
    <3>1. j - 1 \in c + 1 .. N /\ j - 1 \in 1 .. N /\ ~ (j <= c) /\ j # c + 1
      BY <1>3, <2>4
    <3>2. CASE i <= c
      <4>1. i \in 1 .. N /\ i < j - 1
        BY <1>3, <3>1, <3>2
      <4> QED BY <1>4, <1>12, <3>1, <3>2, <4>1
    <3>3. CASE i = c + 1
      <4>1. ~ (i <= c)
        BY <1>3, <3>3
      <4> QED BY <1>9, <1>12, <3>1, <3>3, <4>1
    <3>4. CASE i > c + 1
      <4>1. i - 1 \in 1 .. N /\ i - 1 < j - 1 /\ ~ (i <= c) /\ i # c + 1
        BY <1>3, <1>17, <3>4
      <4> QED BY <1>4, <1>12, <3>1, <4>1
    <3> QED BY <1>3, <3>2, <3>3, <3>4
  <2> QED BY <1>3, <2>2, <2>3, <2>4
<1>18. Carries(k, Shapes(w), put)
  <2>1. k \in [1 .. N + 1 -> DOMAIN put]
    BY <1>12, <1>14
  <2> QED BY <1>3, <1>15, <1>16, <1>17, <2>1 DEF Carries
<1> QED BY <1>18 DEF Alike, put, slot

\* A plan carried out on the messages it was made for is a compaction.
LEMMA PlanIsCompaction ==
  ASSUME NEW s \in Seq(Sized), PlanFor(s) # {}
  PROVE  Shapes(Applied(s, PlanFor(s))) = InOrder(Compact(LogOf(s)))
<1> DEFINE S == PlanFor(s)
           L == LogOf(s)
           T == Summarized(L)
           keptL == Erase(L, T)
           K == Erase(Shapes(L), T)
           summedL == Put(keptL, SummarySlot(keptL), Text("system"))
           put == Put(K, SummarySlot(K), Text("system"))
           kept == Without(s, S)
           summed == Summed(kept)
           stripped == Hushed(summed)
<1>1. /\ \A i \in DOMAIN s : Places(s)[i] = PositionOf(s, i) /\ Places(s)[i] \in DOMAIN L
      /\ \A p \in DOMAIN L : \E i \in DOMAIN s : Places(s)[i] = p
      /\ Counted(L)
  BY LogIs
<1>2. \A i \in DOMAIN s : i \in S <=> Places(s)[i] \in T
  BY <1>1 DEF PlanFor
<1>3. T # {}
  <2>1. PICK i \in S : TRUE
    OBVIOUS
  <2>2. i \in DOMAIN s
    BY <2>1 DEF PlanFor
  <2> QED BY <1>2, <2>1, <2>2
<1>4. kept \in Seq(Sized) /\ Alike(Shapes(kept), K)
  BY <1>2, WithoutIs, ErasedAlike
<1>5. Compact(L) = Closed(summedL)
  BY <1>3 DEF Compact, Closed, Hushed, Quiet
<1>6. /\ Applied(s, S) = Without(stripped, Uncalled(stripped))
      /\ stripped \in Seq(Sized) /\ Applied(s, S) \in Seq(Sized)
      /\ Inserted(kept, summed) /\ summed \in Seq(Sized)
  BY AppliedIs DEF Inserted
<1>7. \A p \in DOMAIN K : p \in DOMAIN L /\ ~ IsSummary(p)
  <2>1. T = DOMAIN L \ Pinned(L)
    BY <1>3 DEF Summarized
  <2>2. DOMAIN K = DOMAIN L \ T
    BY ShapesAre DEF Erase, Restrict
  <2> QED BY <2>1, <2>2 DEF Pinned
<1>8. Shapes(keptL) = K /\ Counted(keptL) /\ IsLog(K)
  <2> HIDE DEF L, T
  <2>1. Shapes(keptL) = K /\ Counted(keptL)
    BY <1>1, EraseShapes
  <2> QED BY <2>1, ShapesAre
<1> HIDE DEF S, L, T
<1>9. SummarySlot(keptL) = SummarySlot(K)
  <2>1. Lead(K) = Lead(keptL)
    BY <1>8, ShapesSame
  <2> QED BY <2>1 DEF SummarySlot
<1>10. KeptLog(K, 2 * Len(s))
  <2>1. DOMAIN s = 1 .. Len(s) /\ Len(s) \in Nat
    BY SeqCounts
  <2>2. \A i \in DOMAIN s : PositionOf(s, i) > 0 /\ PositionOf(s, i) <= 2 * Len(s)
    BY <2>1 DEF PositionOf
  <2>3. \A p \in DOMAIN L : 0 < p /\ p <= 2 * Len(s)
    BY <1>1, <2>2
  <2>4. 2 * Len(s) \in Nat
    BY <2>1
  <2> HIDE DEF K
  <2> QED BY <1>7, <1>8, <2>3, <2>4 DEF KeptLog
<1> HIDE DEF K, keptL, kept, summed
<1>11. Alike(Shapes(summed), put)
  <2>1. PICK g : Carries(g, Shapes(kept), K)
    BY <1>4 DEF Alike
  <2> QED BY <1>6, <1>10, <2>1, InsertedAlike
<1> DEFINE slot == SummarySlot(K)
<1>12. Mixed(summedL) /\ Shapes(summedL) = put
  <2>1. Text("system") \in Message
    BY MessageTypes DEF Roles
  <2>2. Shape(Text("system")) = Text("system")
    BY DEF Shape, Text
  <2>3. slot \in Nat
    <3>1. DOMAIN K \subseteq 0 .. 2 * Len(s) /\ 2 * Len(s) \in Nat
      BY <1>10 DEF KeptLog, IsLog
    <3> DEFINE lead == {0} \cup Lead(K)
    <3>2. lead \in SUBSET (0 .. 2 * Len(s)) /\ lead # {}
      BY <3>1 DEF Lead
    <3>3. Latest(lead) \in Nat
      <4> HIDE DEF lead
      <4> DEFINE n == 2 * Len(s)
      <4>1. n \in Nat /\ lead \in SUBSET (0 .. n) /\ lead # {}
        BY <3>1, <3>2
      <4> HIDE DEF n
      <4>2. Latest(lead) \in lead
        BY <4>1, LatestIn
      <4>3. \A p \in 0 .. n : p \in Nat
        BY <4>1
      <4> QED BY <4>1, <4>2, <4>3
    <3>4. slot = 2 * (Latest(lead) \div 2) + 1
      BY DEF SummarySlot
    <3> HIDE DEF lead
    <3> QED BY <3>3, <3>4
  <2> HIDE DEF slot
  <2>4. summedL = [i \in DOMAIN keptL \cup {slot} |-> IF i = slot THEN Text("system") ELSE keptL[i]]
    BY <1>9 DEF Put, slot
  <2>5. put = [i \in DOMAIN K \cup {slot} |-> IF i = slot THEN Text("system") ELSE K[i]]
    BY DEF Put, slot
  <2>6. DOMAIN K = DOMAIN keptL /\ \A i \in DOMAIN keptL : K[i] = Shape(keptL[i])
    BY <1>8, ShapesAre
  <2> HIDE DEF summedL, put
  <2>7. Mixed(summedL)
    BY <1>8, <2>1, <2>3, <2>4 DEF Mixed, Counted
  <2>8. Shapes(summedL) = [i \in DOMAIN keptL \cup {slot} |-> Shape(summedL[i])]
    BY <2>4 DEF Shapes
  <2>9. \A i \in DOMAIN keptL \cup {slot} :
          Shape(summedL[i]) = IF i = slot THEN Text("system") ELSE K[i]
    BY <2>2, <2>4, <2>6
  <2> QED BY <2>5, <2>6, <2>7, <2>8, <2>9
<1>13. Mixed(summed)
  <2>1. Counted(summed)
    BY <1>6, SeqCounts
  <2> QED BY <2>1 DEF Counted, Mixed
<1>14. /\ IsLog(Shapes(summed)) /\ IsLog(put)
       /\ Shapes(Closed(summed)) = Closed(Shapes(summed))
       /\ Shapes(Closed(summedL)) = Closed(put) /\ DOMAIN Closed(summedL) \subseteq Nat
  <2> HIDE DEF summedL, put
  <2> QED BY <1>12, <1>13, ClosedShapes
<1>15. Alike(Closed(Shapes(summed)), Closed(put))
  <2> HIDE DEF put
  <2> QED BY <1>11, <1>14, ClosedAlike
<1>16. Alike(Shapes(Applied(s, S)), Closed(Shapes(summed)))
  <2> DEFINE u == Uncalled(stripped)
  <2>1. Closed(summed) = Erase(stripped, u)
    BY DEF Closed
  <2> HIDE DEF stripped, u
  <2>2. Alike(Shapes(Without(stripped, u)), Erase(Shapes(stripped), u))
    BY <1>6, WithoutIs DEF Alike
  <2>3. Erase(Shapes(stripped), u) = Shapes(Erase(stripped, u))
    BY <1>6, SeqCounts, EraseShapes
  <2> QED BY <1>6, <1>14, <2>1, <2>2, <2>3 DEF u
<1> HIDE DEF put, summedL
<1>17. Alike(Shapes(Applied(s, S)), Shapes(Compact(L)))
  BY <1>5, <1>14, <1>15, <1>16, AlikeThrough
<1>18. Shapes(Applied(s, S)) = InOrder(Compact(L))
  BY <1>5, <1>6, <1>14, <1>17, InOrderIs
<1> QED BY <1>18 DEF S, L

-----------------------------------------------------------------------------
\* The types, and the pairs outside of doCompaction.

Complete(s) == Unanswered(s) = {} /\ Uncalled(s) = {}

\* A row of rounds behind another.
LEMMA AddedIsComplete ==
  ASSUME NEW a \in Seq(Sized), NEW b \in Seq(Sized), Complete(a), Complete(b)
  PROVE  a \o b \in Seq(Sized) /\ Complete(a \o b)
<1> DEFINE s == a \o b
           n == Len(a)
<1>1. /\ s \in Seq(Sized) /\ Len(s) = n + Len(b) /\ n \in Nat /\ Len(b) \in Nat
      /\ \A i \in 1 .. n : s[i] = a[i]
      /\ \A i \in 1 .. Len(b) : s[n + i] = b[i]
  BY BehindIs
<1>2. DOMAIN s = 1 .. n + Len(b) /\ DOMAIN a = 1 .. n /\ DOMAIN b = 1 .. Len(b)
  BY <1>1, SeqCounts
<1> HIDE DEF s, n
<1>3. /\ \A i \in DOMAIN a : i \in DOMAIN s /\ s[i] = a[i] /\ i \in Nat /\ i <= n
      /\ \A i \in DOMAIN b : n + i \in DOMAIN s /\ s[n + i] = b[i] /\ i \in Nat
  BY <1>1, <1>2
<1>4. \A k \in DOMAIN s : k \in DOMAIN a \/ (k > n /\ \E i \in DOMAIN b : k = n + i)
  <2> TAKE k \in DOMAIN s
  <2>1. CASE k <= n
    BY <1>1, <1>2, <2>1
  <2>2. CASE k > n
    <3>1. k - n \in DOMAIN b /\ k = n + (k - n)
      BY <1>1, <1>2, <2>2
    <3> QED BY <2>2, <3>1
  <2> QED BY <1>1, <1>2, <2>1, <2>2
<1>5. Unanswered(s) = {}
  <2>1. SUFFICES ASSUME NEW c \in Callers(s), NEW id \in s[c].calls
                 PROVE  \E j \in Of(s, "tool") :
                          c < j /\ Between(s, c, j) \cap Of(s, "assistant") = {} /\ s[j].id = id
    BY DEF Unanswered, Answers
  <2>2. CASE c \in DOMAIN a
    <3>1. c \in Callers(a) /\ id \in a[c].calls
      BY <1>3, <2>2 DEF Callers
    <3>2. PICK j \in Of(a, "tool") :
             c < j /\ Between(a, c, j) \cap Of(a, "assistant") = {} /\ a[j].id = id
      BY <3>1 DEF Complete, Unanswered, Answers
    <3>3. j \in DOMAIN a /\ j \in Of(s, "tool") /\ s[j].id = id
      BY <1>3, <3>2 DEF Of
    <3>4. ASSUME NEW k \in Between(s, c, j) PROVE s[k].role # "assistant"
      <4>1. k \in DOMAIN s /\ c < k /\ k < j
        BY DEF Between
      <4>2. k \in DOMAIN a
        BY <1>1, <1>2, <1>3, <3>3, <4>1
      <4> QED BY <1>3, <3>2, <4>1, <4>2 DEF Between, Of
    <3> QED BY <3>2, <3>3, <3>4 DEF Of
  <2>3. ASSUME NEW i \in DOMAIN b, c = n + i
        PROVE  \E j \in Of(s, "tool") :
                 c < j /\ Between(s, c, j) \cap Of(s, "assistant") = {} /\ s[j].id = id
    <3>1. i \in Callers(b) /\ id \in b[i].calls
      BY <1>3, <2>3 DEF Callers
    <3>2. PICK j \in Of(b, "tool") :
             i < j /\ Between(b, i, j) \cap Of(b, "assistant") = {} /\ b[j].id = id
      BY <3>1 DEF Complete, Unanswered, Answers
    <3>3. n + j \in Of(s, "tool") /\ s[n + j].id = id /\ c < n + j /\ j \in Nat /\ i \in Nat
      BY <1>1, <1>3, <2>3, <3>2 DEF Of
    <3>4. ASSUME NEW k \in Between(s, c, n + j) PROVE s[k].role # "assistant"
      <4>1. k \in DOMAIN s /\ c < k /\ k < n + j
        BY DEF Between
      <4>2. PICK l \in DOMAIN b : k = n + l
        BY <1>1, <1>2, <1>3, <1>4, <2>3, <3>3, <4>1
      <4>3. l \in Nat /\ i < l /\ l < j /\ s[k] = b[l]
        BY <1>1, <1>3, <2>3, <3>3, <4>1, <4>2
      <4> QED BY <3>2, <4>2, <4>3 DEF Between, Of
    <3> QED BY <3>3, <3>4 DEF Of
  <2> QED BY <1>4, <2>2, <2>3 DEF Callers
<1>6. Uncalled(s) = {}
  <2>1. SUFFICES ASSUME NEW j \in Of(s, "tool")
                 PROVE  \E i \in Callers(s) : i < j /\ s[j].id \in s[i].calls
    BY DEF Uncalled
  <2>2. CASE j \in DOMAIN a
    <3>1. PICK i \in Callers(a) : i < j /\ a[j].id \in a[i].calls
      BY <1>3, <2>2 DEF Complete, Uncalled, Of
    <3> QED BY <1>3, <2>2, <3>1 DEF Callers
  <2>3. ASSUME NEW k \in DOMAIN b, j = n + k
        PROVE  \E i \in Callers(s) : i < j /\ s[j].id \in s[i].calls
    <3>1. PICK i \in Callers(b) : i < k /\ b[k].id \in b[i].calls
      BY <1>3, <2>3 DEF Complete, Uncalled, Of
    <3>2. n + i \in Callers(s) /\ n + i < j /\ s[n + i].calls = b[i].calls
      BY <1>1, <1>3, <2>3, <3>1 DEF Callers
    <3> QED BY <1>3, <2>3, <3>1, <3>2
  <2> QED BY <1>4, <2>2, <2>3 DEF Of
<1> QED BY <1>1, <1>5, <1>6 DEF Complete, s

LEMMA FewAreComplete ==
  /\ <<>> \in Seq(Sized) /\ Complete(<<>>)
  /\ \A s \in Seq(Sized) : Complete(s) =>
       /\ Append(s, [NewSummary EXCEPT !.summary = FALSE]) \in Seq(Sized)
       /\ Complete(Append(s, [NewSummary EXCEPT !.summary = FALSE]))
<1>1. <<>> \in Seq(Sized) /\ Complete(<<>>)
  BY DEF Complete, Unanswered, Uncalled, Callers, Of
<1> DEFINE p == [NewSummary EXCEPT !.summary = FALSE]
<1>2. p \in Sized /\ p.role = "system" /\ p.calls = {}
  <2>1. p.role = "system" /\ p.calls = {}
    BY DEF NewSummary
  <2> QED BY <2>1, SummaryIsSized
<1> HIDE DEF p
<1>3. <<p>> \in Seq(Sized) /\ Complete(<<p>>)
  <2>1. <<p>> \in Seq(Sized) /\ DOMAIN <<p>> = {1} /\ <<p>>[1] = p
    BY <1>2
  <2>2. Callers(<<p>>) = {} /\ Of(<<p>>, "tool") = {}
    BY <1>2, <2>1 DEF Callers, Of
  <2> QED BY <2>1, <2>2 DEF Complete, Unanswered, Uncalled
<1>4. ASSUME NEW s \in Seq(Sized), Complete(s)
      PROVE  Append(s, p) \in Seq(Sized) /\ Complete(Append(s, p))
  <2>1. Append(s, p) = s \o <<p>>
    BY <1>2
  <2> QED BY <1>3, <1>4, <2>1, AddedIsComplete
<1> QED BY <1>1, <1>4 DEF p

ShrinkIInv == ShrinkTypeOK /\ IdleIsPaired

LEMMA ShrinkStarts == ShrinkInit => ShrinkIInv
<1> SUFFICES ASSUME ShrinkInit PROVE ShrinkIInv
  OBVIOUS
<1>1. settings \in Windows
  BY ShrinkingAssumption DEF ShrinkInit
<1>2. msgs = <<>> /\ screen = "cleared" /\ opened = 0 /\ stage = "idle" /\ planned = 0
  BY DEF ShrinkInit
<1>3. 0 \in 0 .. MaxOpened /\ 0 \in 0 .. 0
  BY ShrinkingAssumption
<1>4. msgs \in Seq(Sized) /\ Complete(msgs)
  BY <1>2, FewAreComplete
<1> QED BY <1>1, <1>2, <1>3, <1>4 DEF ShrinkIInv, ShrinkTypeOK, IdleIsPaired, Complete

\* doCompaction and the turn around it.
LEMMA AgentSteps ==
  ASSUME ShrinkIInv
  PROVE  /\ \A force \in BOOLEAN : PlanCompaction(force) => ShrinkIInv'
         /\ \A force, cancelled \in BOOLEAN : SkipCompaction(force, cancelled) => ShrinkIInv'
         /\ ApplyPlan => ShrinkIInv'
         /\ SummaryFails => ShrinkIInv'
         /\ PruneMessages => ShrinkIInv'
         /\ RepairSession => ShrinkIInv'
         /\ AddMessages => ShrinkIInv'
<1> USE DEF ShrinkIInv, ShrinkTypeOK, IdleIsPaired
<1>1. ASSUME NEW force \in BOOLEAN, PlanCompaction(force) PROVE ShrinkIInv'
  <2>1. opened \in 0 .. opened
    BY ShrinkingAssumption
  <2> QED BY <1>1, <2>1 DEF PlanCompaction
<1>2. ASSUME NEW force \in BOOLEAN, NEW cancelled \in BOOLEAN, SkipCompaction(force, cancelled)
      PROVE  ShrinkIInv'
  BY <1>2 DEF SkipCompaction
<1>3. ASSUME ApplyPlan PROVE ShrinkIInv'
  <2>1. msgs' \in Seq(Sized)
    BY <1>3, AppliedIs DEF ApplyPlan
  <2> QED BY <1>3, <2>1 DEF ApplyPlan
<1>4. ASSUME SummaryFails PROVE ShrinkIInv'
  BY <1>4 DEF SummaryFails
<1>5. ASSUME PruneMessages PROVE ShrinkIInv'
  <2>1. msgs' \in Seq(Sized)
    BY <1>5, PrunedIs DEF PruneMessages
  <2> QED BY <1>5, <2>1 DEF PruneMessages
<1>6. ASSUME RepairSession PROVE ShrinkIInv'
  <2>1. msgs' \in Seq(Sized) /\ Unanswered(msgs') = {} /\ Uncalled(msgs') = {}
    BY <1>6, RepairedIs DEF RepairSession, RepairPruned
  <2> QED BY <1>6, <2>1 DEF RepairSession, RepairPruned
<1>7. ASSUME AddMessages PROVE ShrinkIInv'
  <2>1. PICK ms \in Said : msgs' = msgs \o ms
    BY <1>7 DEF AddMessages
  <2>2. ms \in Seq(Sized) /\ Complete(ms)
    BY ShrinkingAssumption DEF Complete
  <2>3. msgs \in Seq(Sized) /\ Complete(msgs)
    BY <1>7 DEF AddMessages, Complete
  <2>4. msgs' \in Seq(Sized) /\ Complete(msgs')
    BY <2>1, <2>2, <2>3, AddedIsComplete
  <2> QED BY <1>7, <2>4 DEF AddMessages, Complete
<1> QED BY <1>1, <1>2, <1>3, <1>4, <1>5, <1>6, <1>7

\* The UI thread.
LEMMA ScreenSteps ==
  ASSUME ShrinkIInv
  PROVE  /\ LeaveConversation => ShrinkIInv'
         /\ AddPrompt => ShrinkIInv'
         /\ LoadMessages => ShrinkIInv'
         /\ SetModel => ShrinkIInv'
<1> USE DEF ShrinkIInv, ShrinkTypeOK, IdleIsPaired
<1>1. ASSUME LeaveConversation PROVE ShrinkIInv'
  <2>1. msgs' \in Seq(Sized) /\ Complete(msgs')
    BY <1>1, FewAreComplete DEF LeaveConversation
  <2>2. MaxOpened \in Nat
    BY ShrinkingAssumption
  <2>3. opened + 1 \in 0 .. MaxOpened /\ planned \in 0 .. opened + 1
    BY <1>1, <2>2 DEF LeaveConversation
  <2> QED BY <1>1, <2>1, <2>3 DEF LeaveConversation, Complete
<1>2. ASSUME AddPrompt PROVE ShrinkIInv'
  <2>1. msgs' \in Seq(Sized) /\ (stage = "idle" => Complete(msgs'))
    <3>1. msgs' = Append(msgs, [NewSummary EXCEPT !.summary = FALSE])
      BY <1>2 DEF AddPrompt
    <3>2. [NewSummary EXCEPT !.summary = FALSE] \in Sized
      BY SummaryIsSized
    <3> DEFINE p == [NewSummary EXCEPT !.summary = FALSE]
    <3>3. stage = "idle" => Complete(Append(msgs, p))
      BY FewAreComplete DEF Complete
    <3> HIDE DEF p
    <3>4. Append(msgs, p) \in Seq(Sized)
      BY <3>2 DEF p
    <3> QED BY <3>1, <3>3, <3>4 DEF p
  <2> QED BY <1>2, <2>1 DEF AddPrompt, Complete
<1>3. ASSUME LoadMessages PROVE ShrinkIInv'
  <2>1. msgs' \in Seq(Sized) /\ Complete(msgs')
    BY <1>3, ShrinkingAssumption, RepairedIs DEF LoadMessages, Complete
  <2> QED BY <1>3, <2>1 DEF LoadMessages, Complete
<1>4. ASSUME SetModel PROVE ShrinkIInv'
  BY <1>4 DEF SetModel
<1> QED BY <1>1, <1>2, <1>3, <1>4

\* What the invariant says of the conversation follows for every row.
LEMMA ShrinkHolds == ShrinkIInv => ShrinkInv
<1> SUFFICES ASSUME ShrinkIInv PROVE ShrinkInv
  OBVIOUS
<1>1. msgs \in Seq(Sized) /\ settings \in Windows
  BY DEF ShrinkIInv, ShrinkTypeOK
<1>2. PruneIsACut
  BY <1>1, PrunedIsCut DEF PruneIsACut
<1>3. PlanIsCompact
  BY <1>1, PlanIsCompaction DEF PlanIsCompact
<1>4. PrunedFits
  BY <1>1, PrunedFitsIn DEF PrunedFits, LengthensNone
<1> QED BY <1>2, <1>3, <1>4 DEF ShrinkInv, ShrinkIInv

\* Whatever the token counts, the plans and the conversations: pruneForContext deletes
\* up to a cut that keeps rounds whole and stops only where the rest fits; a plan
\* carried out on its own conversation is a compaction; and outside of doCompaction no
\* call and no result is alone.
THEOREM ShrinkTheorem == MessagesSpec => []ShrinkInv
<1>1. MessagesInit => ShrinkIInv
  BY ShrinkStarts DEF MessagesInit
<1>2. ShrinkIInv /\ [MessagesNext]_<<vars, shrinkVars>> => ShrinkIInv'
  <2> SUFFICES ASSUME ShrinkIInv, [MessagesNext]_<<vars, shrinkVars>> PROVE ShrinkIInv'
    OBVIOUS
  <2>1. CASE UNCHANGED shrinkVars
    BY <2>1 DEF shrinkVars, ShrinkIInv, ShrinkTypeOK, IdleIsPaired
  <2>2. CASE ShrinkNext
    BY <2>2, AgentSteps, ScreenSteps DEF ShrinkNext
  <2> QED BY <2>1, <2>2 DEF MessagesNext
<1>3. ShrinkIInv => ShrinkInv
  BY ShrinkHolds
<1> QED BY <1>1, <1>2, <1>3, PTL DEF MessagesSpec
=============================================================================
