------------------------- MODULE ConversationProofs -------------------------
(***************************************************************************)
(* What the repair of a Session establishes, for every conversation, and   *)
(* that the operations on a conversation return conversations.             *)
(***************************************************************************)
EXTENDS Conversation, Sequences, WellFoundedInduction, TLAPS

\* Bare and Strip only take calls away.
LEMMA StripFacts ==
  ASSUME NEW log, IsLog(log), NEW S
  PROVE  /\ DOMAIN Strip(log, S) = DOMAIN log
         /\ \A i \in DOMAIN log : /\ Strip(log, S)[i].role = log[i].role
                                  /\ Strip(log, S)[i].id = log[i].id
                                  /\ Strip(log, S)[i].marked = log[i].marked
                                  /\ Strip(log, S)[i].calls = IF i \in S THEN {} ELSE log[i].calls
         /\ IsLog(Strip(log, S))
<1>1. \A i \in DOMAIN log : Bare(log[i]) \in Message /\ Bare(log[i]).calls = {}
                            /\ Bare(log[i]).role = log[i].role
                            /\ Bare(log[i]).id = log[i].id
                            /\ Bare(log[i]).marked = log[i].marked
  BY DEF IsLog, Message, Bare
<1>2. \A i \in DOMAIN log : Strip(log, S)[i] = IF i \in S THEN Bare(log[i]) ELSE log[i]
  BY DEF Strip
<1>3. IsLog(Strip(log, S))
  BY <1>1, <1>2 DEF IsLog, Strip
<1> QED
  BY <1>1, <1>2, <1>3 DEF Strip

LEMMA EraseFacts ==
  ASSUME NEW log, IsLog(log), NEW S
  PROVE  /\ DOMAIN Erase(log, S) = DOMAIN log \ S
         /\ \A i \in DOMAIN log \ S : Erase(log, S)[i] = log[i]
         /\ IsLog(Erase(log, S))
BY DEF IsLog, Erase, Restrict

LEMMA EraseShrinks ==
  ASSUME NEW log, IsLog(log), NEW S
  PROVE  IsLog(Erase(log, S)) /\ DOMAIN Erase(log, S) \subseteq DOMAIN log
<1>1. DOMAIN Erase(log, S) = DOMAIN log \ S /\ IsLog(Erase(log, S))
  BY EraseFacts
<1>2. DOMAIN log \ S \subseteq DOMAIN log
  OBVIOUS
<1> QED
  BY <1>1, <1>2

\* Once the calls without an answer are stripped, every call left has its answer.
LEMMA StripAnswers ==
  ASSUME NEW log, IsLog(log)
  PROVE  Unanswered(Strip(log, Unanswered(log))) = {}
<1> DEFINE stripped == Strip(log, Unanswered(log))
<1>1. /\ DOMAIN stripped = DOMAIN log
      /\ \A i \in DOMAIN log : /\ stripped[i].role = log[i].role
                               /\ stripped[i].id = log[i].id
                               /\ stripped[i].calls =
                                    IF i \in Unanswered(log) THEN {} ELSE log[i].calls
  BY StripFacts
<1> HIDE DEF stripped
<1>2. \A role : Of(stripped, role) = Of(log, role)
  BY <1>1 DEF Of
<1>3. \A i, k : Between(stripped, i, k) = Between(log, i, k)
  BY <1>1 DEF Between
<1>4. \A i : Answers(stripped, i) = Answers(log, i)
  <2> TAKE i
  <2> DEFINE K == {k \in Of(log, "tool") : i < k /\ Between(log, i, k) \cap Of(log, "assistant") = {}}
  <2>1. Answers(log, i) = {log[j].id : j \in K}
    BY DEF Answers
  <2>2. Answers(stripped, i) = {stripped[j].id : j \in K}
    BY <1>2, <1>3 DEF Answers
  <2>3. \A j \in K : stripped[j].id = log[j].id
    BY <1>1 DEF Of
  <2> HIDE DEF K
  <2> QED
    BY <2>1, <2>2, <2>3
<1>5. \A i \in Callers(stripped) : i \in Callers(log) \ Unanswered(log) /\ stripped[i].calls = log[i].calls
  BY <1>1 DEF Callers
<1> QED
  BY <1>4, <1>5 DEF Unanswered, stripped

\* Erasing the results nobody called for takes no answer away.
LEMMA EraseKeepsAnswers ==
  ASSUME NEW log, IsLog(log), Unanswered(log) = {}
  PROVE  Unanswered(Erase(log, Uncalled(log))) = {}
<1> DEFINE kept == Erase(log, Uncalled(log))
<1>1. /\ DOMAIN kept = DOMAIN log \ Uncalled(log)
      /\ \A i \in DOMAIN log \ Uncalled(log) : kept[i] = log[i]
  BY EraseFacts
<1> HIDE DEF kept
<1>2. SUFFICES ASSUME NEW i \in Callers(kept), NEW id \in kept[i].calls
               PROVE  id \in Answers(kept, i)
  BY DEF Unanswered, kept
<1>3. i \in Callers(log) /\ id \in log[i].calls
  BY <1>1 DEF Callers
<1>4. id \in Answers(log, i)
  BY <1>3 DEF Unanswered
<1>5. PICK j \in Of(log, "tool") :
        /\ i < j /\ Between(log, i, j) \cap Of(log, "assistant") = {}
        /\ log[j].id = id
  BY <1>4 DEF Answers
<1>6. j \notin Uncalled(log)
  BY <1>3, <1>5 DEF Uncalled
<1>7. j \in Of(kept, "tool") /\ kept[j].id = id
  BY <1>1, <1>5, <1>6 DEF Of
<1>8. Between(kept, i, j) \cap Of(kept, "assistant") = {}
  BY <1>1, <1>5 DEF Between, Of
<1> QED
  BY <1>5, <1>7, <1>8 DEF Answers

\* After Session::repairOrphanedToolCalls no assistant waits for a result and no
\* result lacks a call before it, whatever the conversation was: the two passes do
\* not undo each other's work.
THEOREM RepairMends ==
  ASSUME NEW log, IsLog(log)
  PROVE  /\ IsLog(Repair(log))
         /\ Unanswered(Repair(log)) = {}
         /\ Uncalled(Repair(log)) = {}
<1> DEFINE stripped == Strip(log, Unanswered(log))
<1>1. IsLog(stripped) /\ Unanswered(stripped) = {}
  BY StripFacts, StripAnswers
<1> HIDE DEF stripped
<1>2. Repair(log) = Erase(stripped, Uncalled(stripped))
  BY DEF Repair, stripped
<1>3. /\ DOMAIN Repair(log) = DOMAIN stripped \ Uncalled(stripped)
      /\ \A i \in DOMAIN stripped \ Uncalled(stripped) : Repair(log)[i] = stripped[i]
      /\ IsLog(Repair(log))
  <2> DEFINE gone == Uncalled(stripped)
  <2>1. /\ DOMAIN Erase(stripped, gone) = DOMAIN stripped \ gone
        /\ \A i \in DOMAIN stripped \ gone : Erase(stripped, gone)[i] = stripped[i]
        /\ IsLog(Erase(stripped, gone))
    <3> HIDE DEF gone
    <3> QED
      BY <1>1, EraseFacts
  <2> QED
    BY <1>2, <2>1
<1>4. Unanswered(Repair(log)) = {}
  BY <1>1, <1>2, EraseKeepsAnswers
<1>5. Uncalled(Repair(log)) = {}
  <2>1. SUFFICES ASSUME NEW j \in Of(Repair(log), "tool")
                 PROVE  \E i \in Callers(Repair(log)) :
                          i < j /\ Repair(log)[j].id \in Repair(log)[i].calls
    BY DEF Uncalled
  <2>2. j \in Of(stripped, "tool") /\ j \notin Uncalled(stripped)
    BY <1>3 DEF Of
  <2>3. PICK i \in Callers(stripped) : i < j /\ stripped[j].id \in stripped[i].calls
    BY <2>2 DEF Uncalled
  <2>4. stripped[i].role = "assistant"
    BY <1>1, <2>3 DEF Callers, IsLog, Message
  <2>5. i \notin Uncalled(stripped)
    BY <2>4 DEF Uncalled, Of
  <2> QED
    BY <1>3, <2>2, <2>3, <2>5 DEF Callers, Of
<1> QED
  BY <1>4, <1>5, <1>3

\* A second repair changes nothing: run() may call repairSession right behind
\* doCompaction, which ends with one.
THEOREM RepairIsIdempotent ==
  ASSUME NEW log, IsLog(log)
  PROVE  Repair(Repair(log)) = Repair(log)
<1> DEFINE mended == Repair(log)
<1>1. IsLog(mended) /\ Unanswered(mended) = {} /\ Uncalled(mended) = {}
  BY RepairMends
<1> HIDE DEF mended
<1>2. Strip(mended, {}) = mended
  BY <1>1 DEF Strip, IsLog
<1>3. Erase(mended, {}) = mended
  BY <1>1 DEF Erase, Restrict, IsLog
<1>4. Repair(mended) = mended
  BY <1>1, <1>2, <1>3 DEF Repair
<1> QED
  BY <1>4 DEF mended

-----------------------------------------------------------------------------
(* Conversations stay conversations *)

\* A set of naturals has a smallest element.
LEMMA SmallestExists ==
  ASSUME NEW S \in SUBSET Nat, S # {}
  PROVE  \E m \in S : \A i \in S : m <= i
<1> DEFINE R == {ss \in Nat \X Nat : ss[1] < ss[2]}
<1>1. IsWellFoundedOn(R, Nat)
  BY NatLessThanWellFounded DEF OpToRel
<1>2. \A x, y \in Nat : x < y => <<x, y>> \in R
  OBVIOUS
<1> HIDE DEF R
<1>3. PICK m \in S : \A k \in S : ~ (<<k, m>> \in R)
  BY <1>1, WFMin
<1>4. \A k \in S : ~ (k < m)
  BY <1>2, <1>3
<1> QED
  BY <1>4

\* Latest finds an element of a bounded set.
LEMMA LatestIn ==
  ASSUME NEW n \in Nat, NEW S \in SUBSET (0 .. n), S # {}
  PROVE  Latest(S) \in S /\ \A i \in S : i <= Latest(S)
<1> DEFINE T == {n - i : i \in S}
<1>1. T \in SUBSET Nat /\ T # {}
  <2>1. \A i \in S : n - i \in Nat
    OBVIOUS
  <2>2. T \subseteq Nat
    BY <2>1
  <2>3. PICK i \in S : TRUE
    OBVIOUS
  <2>4. n - i \in T
    OBVIOUS
  <2> QED
    BY <2>2, <2>4
<1> HIDE DEF T
<1>2. PICK m \in T : \A k \in T : m <= k
  BY <1>1, SmallestExists
<1>3. PICK last \in S : m = n - last
  BY DEF T
<1>4. \A i \in S : i <= last
  <2> TAKE i \in S
  <2>1. n - i \in T
    BY DEF T
  <2> QED
    BY <1>2, <1>3, <2>1
<1> QED
  BY <1>4 DEF Latest

LEMMA MessageTypes ==
  /\ \A role \in Roles : Text(role) \in Message /\ Failure(role) \in Message
  /\ \A ids \in SUBSET Nat : Calling(ids) \in Message
  /\ \A id \in Nat, failed \in BOOLEAN : Result(id, failed) \in Message
BY DEF Roles, Text, Failure, Calling, Result, Message

LEMMA EmptyFacts == IsLog(Empty) /\ DOMAIN Empty = {}
BY DEF IsLog, Empty

LEMMA PutFacts ==
  ASSUME NEW log, IsLog(log), NEW at \in Nat, NEW m \in Message
  PROVE  IsLog(Put(log, at, m)) /\ DOMAIN Put(log, at, m) = DOMAIN log \cup {at}
BY DEF IsLog, Put

\* Each of these returns a conversation at positions of the old one.
LEMMA StripLastFacts ==
  ASSUME NEW log, IsLog(log)
  PROVE  IsLog(StripLast(log)) /\ DOMAIN StripLast(log) = DOMAIN log
<1> DEFINE S == {Latest(Callers(log))}
<1>1. IsLog(Strip(log, S)) /\ DOMAIN Strip(log, S) = DOMAIN log
  <2> HIDE DEF S
  <2> QED
    BY StripFacts
<1> QED
  BY <1>1 DEF StripLast

LEMMA ClearLastFacts ==
  ASSUME NEW log, IsLog(log)
  PROVE  IsLog(ClearLastCalls(log)) /\ DOMAIN ClearLastCalls(log) = DOMAIN log
<1> DEFINE S == {Latest(DOMAIN log)}
<1>1. IsLog(Strip(log, S)) /\ DOMAIN Strip(log, S) = DOMAIN log
  <2> HIDE DEF S
  <2> QED
    BY StripFacts
<1> QED
  BY <1>1 DEF ClearLastCalls

LEMMA PopLastFacts ==
  ASSUME NEW log, IsLog(log)
  PROVE  IsLog(PopLastAssistant(log)) /\ DOMAIN PopLastAssistant(log) \subseteq DOMAIN log
<1> DEFINE S == {i \in Of(log, "assistant") \ Callers(log) : i = Latest(DOMAIN log)}
<1>1. IsLog(Erase(log, S)) /\ DOMAIN Erase(log, S) \subseteq DOMAIN log
  <2> HIDE DEF S
  <2> QED
    BY EraseShrinks
<1> QED
  BY <1>1 DEF PopLastAssistant

LEMMA PruneFacts ==
  ASSUME NEW log, IsLog(log), NEW cut
  PROVE  IsLog(Prune(log, cut)) /\ DOMAIN Prune(log, cut) \subseteq DOMAIN log
<1> DEFINE S == {i \in DOMAIN log \ Lead(log) : i < cut}
<1>1. IsLog(Erase(log, S)) /\ DOMAIN Erase(log, S) \subseteq DOMAIN log
  <2> HIDE DEF S
  <2> QED
    BY EraseShrinks
<1> QED
  BY <1>1 DEF Prune

LEMMA RepairFacts ==
  ASSUME NEW log, IsLog(log)
  PROVE  IsLog(Repair(log)) /\ DOMAIN Repair(log) \subseteq DOMAIN log
<1> DEFINE stripped == Strip(log, Unanswered(log))
           S == Uncalled(stripped)
<1>1. IsLog(stripped) /\ DOMAIN stripped = DOMAIN log
  BY StripFacts
<1>2. Repair(log) = Erase(stripped, S)
  BY DEF Repair
<1> HIDE DEF stripped, S
<1> QED
  BY <1>1, <1>2, EraseShrinks

LEMMA SoftStripLastFacts ==
  ASSUME NEW log, IsLog(log)
  PROVE  IsLog(SoftStripLast(log)) /\ DOMAIN SoftStripLast(log) \subseteq DOMAIN log
<1> DEFINE last   == Latest(Callers(log))
           behind == Followers(log, last)
           merged == [i \in DOMAIN log |->
                        IF i # last THEN log[i]
                        ELSE [Bare(log[i]) EXCEPT
                                !.marked = \E j \in behind \cup {i} : log[j].marked]]
<1>1. SoftStripLast(log) = IF Callers(log) = {} THEN log ELSE Erase(merged, behind)
  BY DEF SoftStripLast
<1>2. \A i \in DOMAIN log, b \in BOOLEAN : [Bare(log[i]) EXCEPT !.marked = b] \in Message
  BY DEF IsLog, Message, Bare
<1>3. \A i \in DOMAIN log : merged[i] \in Message
  BY <1>2 DEF IsLog
<1>4. IsLog(merged) /\ DOMAIN merged = DOMAIN log
  BY <1>3 DEF IsLog
<1> HIDE DEF merged, behind
<1> QED
  BY <1>1, <1>4, EraseShrinks

\* The summary goes to a position below the next message's.
LEMMA SlotIsBelow ==
  ASSUME NEW log, IsLog(log), NEW next \in Nat, next % 2 = 0, next > 0,
         \A i \in DOMAIN log : i < next
  PROVE  SummarySlot(log) \in Nat /\ SummarySlot(log) < next
<1> DEFINE lead == {0} \cup Lead(log)
<1>1. lead \in SUBSET (0 .. next - 1) /\ lead # {}
  BY DEF Lead, IsLog
<1>2. Latest(lead) \in 0 .. next - 1
  <2> HIDE DEF lead
  <2>1. next - 1 \in Nat
    OBVIOUS
  <2> QED
    BY <1>1, <2>1, LatestIn
<1>3. SummarySlot(log) = 2 * (Latest(lead) \div 2) + 1
  BY DEF SummarySlot
<1> QED
  BY <1>2, <1>3

LEMMA CompactFacts ==
  ASSUME NEW log, IsLog(log), NEW next \in Nat, next % 2 = 0, next > 0,
         \A i \in DOMAIN log : i < next
  PROVE  IsLog(Compact(log)) /\ \A i \in DOMAIN Compact(log) : i < next
<1> DEFINE gone     == Summarized(log)
           kept     == Erase(log, gone)
           slot     == SummarySlot(kept)
           summed   == Put(kept, slot, Text("system"))
           ids      == {summed[j].id : j \in Of(summed, "tool")}
           silent   == {i \in Callers(summed) : summed[i].calls \cap ids = {}}
           stripped == Strip(summed, silent)
           stray    == Uncalled(stripped)
<1>1. Compact(log) = IF gone = {} THEN log ELSE Erase(stripped, stray)
  BY DEF Compact
<1>2. IsLog(kept) /\ DOMAIN kept \subseteq DOMAIN log
  <2> HIDE DEF gone
  <2> QED
    BY EraseShrinks
<1>3. slot \in Nat /\ slot < next
  <2>1. \A i \in DOMAIN kept : i < next
    BY <1>2
  <2> HIDE DEF kept
  <2> QED
    BY <1>2, <2>1, SlotIsBelow
<1>4. IsLog(summed) /\ \A i \in DOMAIN summed : i < next
  <2>1. Text("system") \in Message
    BY MessageTypes DEF Roles
  <2>2. IsLog(Put(kept, slot, Text("system")))
        /\ DOMAIN Put(kept, slot, Text("system")) = DOMAIN kept \cup {slot}
    <3> HIDE DEF kept, slot
    <3> QED
      BY <1>2, <1>3, <2>1, PutFacts
  <2>3. \A i \in DOMAIN kept \cup {slot} : i < next
    BY <1>2, <1>3
  <2> QED
    BY <2>2, <2>3
<1>5. IsLog(stripped) /\ DOMAIN stripped = DOMAIN summed
  <2> HIDE DEF summed, silent
  <2> QED
    BY <1>4, StripFacts
<1>6. IsLog(Erase(stripped, stray)) /\ DOMAIN Erase(stripped, stray) \subseteq DOMAIN stripped
  <2> HIDE DEF stripped, stray
  <2> QED
    BY <1>5, EraseShrinks
<1> QED
  BY <1>1, <1>4, <1>5, <1>6

-----------------------------------------------------------------------------
(* The leading system block *)

\* What stands in the lead stays there when other messages go.
LEMMA EraseKeepsLead ==
  ASSUME NEW log, IsLog(log), NEW S, NEW i \in Lead(log), i \notin S
  PROVE  i \in Lead(Erase(log, S))
<1>1. DOMAIN Erase(log, S) = DOMAIN log \ S
  BY EraseFacts
<1>2. \A j \in DOMAIN log \ S : Erase(log, S)[j] = log[j]
  BY EraseFacts
<1>3. i \in DOMAIN log /\ \A j \in DOMAIN log : j <= i => log[j].role = "system"
  BY DEF Lead
<1>4. \A j \in DOMAIN Erase(log, S) : j <= i => Erase(log, S)[j].role = "system"
  BY <1>1, <1>2, <1>3
<1> QED
  BY <1>1, <1>3, <1>4 DEF Lead

LEMMA StripKeepsLead ==
  ASSUME NEW log, IsLog(log), NEW S
  PROVE  Lead(Strip(log, S)) = Lead(log)
<1>1. DOMAIN Strip(log, S) = DOMAIN log
  BY StripFacts
<1>2. \A i \in DOMAIN log : Strip(log, S)[i].role = log[i].role
  BY StripFacts
<1> QED
  BY <1>1, <1>2 DEF Lead

\* A system message put anywhere breaks no lead.
LEMMA PutKeepsLead ==
  ASSUME NEW log, IsLog(log), NEW at \in Nat, NEW i \in Lead(log)
  PROVE  i \in Lead(Put(log, at, Text("system")))
<1>1. Text("system").role = "system"
  BY DEF Text
<1> QED
  BY <1>1 DEF Lead, Put

\* Compaction pins the leading system block, older summaries aside.
LEMMA LeadIsPinned ==
  ASSUME NEW log, NEW i \in Lead(log), ~ IsSummary(i)
  PROVE  i \notin Summarized(log)
BY DEF Summarized, Pinned, KeepUser, PinPartners

\* Only tool results are erased as uncalled.
LEMMA UncalledAreResults ==
  ASSUME NEW log, IsLog(log), NEW i \in Lead(log)
  PROVE  i \notin Uncalled(log)
<1>1. i \in Nat /\ i <= i
  BY DEF IsLog, Lead
<1>2. log[i].role = "system"
  BY <1>1 DEF Lead
<1> QED
  BY <1>2 DEF Uncalled, Of

LEMMA CompactKeepsLead ==
  ASSUME NEW log, IsLog(log), NEW next \in Nat, next % 2 = 0, next > 0,
         \A i \in DOMAIN log : i < next,
         NEW i \in Lead(log), ~ IsSummary(i)
  PROVE  i \in Lead(Compact(log))
<1> DEFINE gone     == Summarized(log)
           kept     == Erase(log, gone)
           slot     == SummarySlot(kept)
           summed   == Put(kept, slot, Text("system"))
           ids      == {summed[j].id : j \in Of(summed, "tool")}
           silent   == {c \in Callers(summed) : summed[c].calls \cap ids = {}}
           stripped == Strip(summed, silent)
           stray    == Uncalled(stripped)
<1>1. Compact(log) = IF gone = {} THEN log ELSE Erase(stripped, stray)
  BY DEF Compact
<1>2. IsLog(kept) /\ DOMAIN kept \subseteq DOMAIN log
  <2> HIDE DEF gone
  <2> QED
    BY EraseShrinks
<1>3. slot \in Nat
  <2>1. \A j \in DOMAIN kept : j < next
    BY <1>2
  <2> HIDE DEF kept
  <2> QED
    BY <1>2, <2>1, SlotIsBelow
<1>4. i \in Lead(kept)
  <2>1. i \notin gone
    BY LeadIsPinned
  <2> HIDE DEF gone
  <2> QED
    BY <2>1, EraseKeepsLead
<1>5. i \in Lead(summed) /\ IsLog(summed)
  <2>1. Text("system") \in Message
    BY MessageTypes DEF Roles
  <2> HIDE DEF kept, slot
  <2>2. i \in Lead(Put(kept, slot, Text("system")))
    BY <1>2, <1>3, <1>4, PutKeepsLead
  <2>3. IsLog(Put(kept, slot, Text("system")))
    BY <1>2, <1>3, <2>1, PutFacts
  <2> QED
    BY <2>2, <2>3
<1>6. i \in Lead(stripped) /\ IsLog(stripped)
  <2> HIDE DEF summed, silent
  <2> QED
    BY <1>5, StripFacts, StripKeepsLead
<1>7. i \in Lead(Erase(stripped, stray))
  <2>1. i \notin stray
    <3> HIDE DEF stripped
    <3> QED
      BY <1>6, UncalledAreResults
  <2> HIDE DEF stripped, stray
  <2> QED
    BY <1>6, <2>1, EraseKeepsLead
<1> QED
  BY <1>1, <1>7
-----------------------------------------------------------------------------
(* Roles, summaries and user messages *)

\* What is left of log has its position, its role and its id, and some of its calls.
TakesAway(log, result) ==
  /\ DOMAIN result \subseteq DOMAIN log
  /\ \A i \in DOMAIN result : /\ result[i].role = log[i].role
                              /\ result[i].id = log[i].id
                              /\ result[i].calls \subseteq log[i].calls

LEMMA StripTakesAway ==
  ASSUME NEW log, IsLog(log), NEW S
  PROVE  TakesAway(log, Strip(log, S))
<1>1. /\ DOMAIN Strip(log, S) = DOMAIN log
      /\ \A i \in DOMAIN log : /\ Strip(log, S)[i].role = log[i].role
                               /\ Strip(log, S)[i].id = log[i].id
                               /\ Strip(log, S)[i].calls = IF i \in S THEN {} ELSE log[i].calls
  BY StripFacts
<1> QED
  BY <1>1 DEF TakesAway

LEMMA EraseTakesAway ==
  ASSUME NEW log, IsLog(log), NEW S
  PROVE  TakesAway(log, Erase(log, S))
<1>1. DOMAIN Erase(log, S) = DOMAIN log \ S
  BY EraseFacts
<1>2. \A i \in DOMAIN log \ S : Erase(log, S)[i] = log[i]
  BY EraseFacts
<1> QED
  BY <1>1, <1>2 DEF TakesAway

LEMMA RepairTakesAway ==
  ASSUME NEW log, IsLog(log)
  PROVE  TakesAway(log, Repair(log))
<1> DEFINE stripped == Strip(log, Unanswered(log))
           S == Uncalled(stripped)
<1>1. IsLog(stripped)
  BY StripFacts
<1>2. TakesAway(log, stripped)
  BY StripTakesAway
<1>3. TakesAway(stripped, Erase(stripped, S))
  <2> HIDE DEF stripped, S
  <2> QED
    BY <1>1, EraseTakesAway
<1>4. Repair(log) = Erase(stripped, S)
  BY DEF Repair
<1> HIDE DEF stripped, S
<1> QED
  BY <1>2, <1>3, <1>4 DEF TakesAway

LEMMA StripLastTakesAway ==
  ASSUME NEW log, IsLog(log)
  PROVE  TakesAway(log, StripLast(log))
<1>1. TakesAway(log, Strip(log, {Latest(Callers(log))}))
  BY StripTakesAway
<1>2. TakesAway(log, log)
  BY DEF TakesAway
<1> QED
  BY <1>1, <1>2 DEF StripLast

LEMMA ClearLastTakesAway ==
  ASSUME NEW log, IsLog(log)
  PROVE  TakesAway(log, ClearLastCalls(log))
<1>1. TakesAway(log, Strip(log, {Latest(DOMAIN log)}))
  BY StripTakesAway
<1>2. TakesAway(log, log)
  BY DEF TakesAway
<1> QED
  BY <1>1, <1>2 DEF ClearLastCalls

LEMMA SoftStripLastTakesAway ==
  ASSUME NEW log, IsLog(log)
  PROVE  TakesAway(log, SoftStripLast(log))
<1> DEFINE last   == Latest(Callers(log))
           behind == Followers(log, last)
           merged == [i \in DOMAIN log |->
                        IF i # last THEN log[i]
                        ELSE [Bare(log[i]) EXCEPT
                                !.marked = \E j \in behind \cup {i} : log[j].marked]]
<1>1. TakesAway(log, log)
  BY DEF TakesAway
<1>2. DOMAIN merged = DOMAIN log
      /\ \A i \in DOMAIN log : /\ merged[i].role = log[i].role
                               /\ merged[i].id = log[i].id
                               /\ merged[i].calls \subseteq log[i].calls
  <2> HIDE DEF last, behind
  <2>1. \A i \in DOMAIN log : log[i] \in Message
    BY DEF IsLog
  <2> QED
    BY <2>1 DEF Bare, Message
<1>3. SoftStripLast(log) = IF Callers(log) = {} THEN log
                           ELSE Restrict(merged, DOMAIN merged \ behind)
  BY DEF SoftStripLast, Erase
<1>4. TakesAway(log, Restrict(merged, DOMAIN merged \ behind))
  <2> HIDE DEF merged, behind
  <2> QED
    BY <1>2 DEF TakesAway, Restrict
<1> HIDE DEF merged, behind
<1> QED
  BY <1>1, <1>3, <1>4

\* A summary gets a position of its own, which is odd.
LEMMA SlotIsOdd ==
  ASSUME NEW log, IsLog(log), NEW next \in Nat, next % 2 = 0, next > 0,
         \A i \in DOMAIN log : i < next
  PROVE  IsSummary(SummarySlot(log))
<1> DEFINE lead == {0} \cup Lead(log)
<1>1. lead \in SUBSET (0 .. next - 1) /\ lead # {}
  BY DEF Lead, IsLog
<1>2. Latest(lead) \in lead
  <2> HIDE DEF lead
  <2>1. next - 1 \in Nat
    OBVIOUS
  <2> QED
    BY <1>1, <2>1, LatestIn
<1>3. Latest(lead) \in Nat
  BY <1>1, <1>2
<1> HIDE DEF lead
<1>4. SummarySlot(log) = 2 * (Latest(lead) \div 2) + 1
  BY DEF SummarySlot, lead
<1>5. PICK half \in Nat : half = Latest(lead) \div 2
  BY <1>3
<1> QED
  BY <1>4, <1>5 DEF IsSummary

\* What a compaction that summarizes something leaves: one summary, and of the
\* messages it keeps all but, maybe, some results.
LEMMA CompactLeaves ==
  ASSUME NEW log, IsLog(log), NEW next \in Nat, next % 2 = 0, next > 0,
         \A i \in DOMAIN log : i < next, Summarized(log) # {}
  PROVE  /\ \E slot : {i \in DOMAIN Compact(log) : IsSummary(i)} = {slot}
         /\ \A i \in DOMAIN Compact(log) : IsSummary(i) => Compact(log)[i].role = "system"
         /\ \A i \in DOMAIN Compact(log) : IsSummary(i) \/ i \in DOMAIN log
         /\ \A i \in DOMAIN log \ Summarized(log) :
              log[i].role # "tool" =>
                i \in DOMAIN Compact(log) /\ Compact(log)[i].role = log[i].role
<1> DEFINE gone     == Summarized(log)
           kept     == Erase(log, gone)
           slot     == SummarySlot(kept)
           summed   == Put(kept, slot, Text("system"))
           ids      == {summed[j].id : j \in Of(summed, "tool")}
           silent   == {c \in Callers(summed) : summed[c].calls \cap ids = {}}
           stripped == Strip(summed, silent)
           stray    == Uncalled(stripped)
<1>1. Compact(log) = Erase(stripped, stray)
  BY DEF Compact
<1>2. IsLog(kept) /\ DOMAIN kept = DOMAIN log \ gone
      /\ \A i \in DOMAIN kept : kept[i] = log[i]
  <2> HIDE DEF gone
  <2> QED
    BY EraseFacts
<1>3. slot \in Nat /\ IsSummary(slot)
  <2>1. \A j \in DOMAIN kept : j < next
    BY <1>2
  <2> HIDE DEF kept
  <2> QED
    BY <1>2, <2>1, SlotIsBelow, SlotIsOdd
<1>4. \A i \in DOMAIN kept : ~ IsSummary(i)
  BY <1>2 DEF Summarized, Pinned
<1>5. /\ IsLog(summed) /\ DOMAIN summed = DOMAIN kept \cup {slot}
      /\ summed[slot].role = "system"
      /\ \A i \in DOMAIN kept : summed[i].role = log[i].role
  <2>1. Text("system") \in Message /\ Text("system").role = "system"
    BY MessageTypes DEF Roles, Text
  <2> HIDE DEF gone, kept, slot
  <2>2. IsLog(Put(kept, slot, Text("system")))
        /\ DOMAIN Put(kept, slot, Text("system")) = DOMAIN kept \cup {slot}
    BY <1>2, <1>3, <2>1, PutFacts
  <2>3. \A i \in DOMAIN kept : i # slot
    BY <1>3, <1>4
  <2> QED
    BY <1>2, <2>1, <2>2, <2>3 DEF Put
<1>6. IsLog(stripped) /\ DOMAIN stripped = DOMAIN summed
      /\ \A i \in DOMAIN summed : stripped[i].role = summed[i].role
  <2> HIDE DEF summed, silent
  <2> QED
    BY <1>5, StripFacts
<1>7. DOMAIN Compact(log) = DOMAIN stripped \ stray
      /\ \A i \in DOMAIN stripped \ stray : Compact(log)[i] = stripped[i]
  <2> HIDE DEF stripped, stray
  <2>1. IsLog(stripped)
    BY <1>6
  <2>2. /\ DOMAIN Erase(stripped, stray) = DOMAIN stripped \ stray
        /\ \A i \in DOMAIN stripped \ stray : Erase(stripped, stray)[i] = stripped[i]
    BY <2>1, EraseFacts
  <2> QED
    BY <1>1, <2>2
<1>8. \A i \in stray : stripped[i].role = "tool"
  BY DEF Uncalled, Of
<1> HIDE DEF gone, kept, slot, summed, stripped, stray
<1>9. slot \in DOMAIN Compact(log) /\ Compact(log)[slot].role = "system"
  BY <1>5, <1>6, <1>7, <1>8
<1>10. \A i \in DOMAIN Compact(log) : i # slot => ~ IsSummary(i)
  BY <1>4, <1>5, <1>6, <1>7
<1>11. {i \in DOMAIN Compact(log) : IsSummary(i)} = {slot}
  BY <1>3, <1>9, <1>10
<1>12. \A i \in DOMAIN log \ gone :
         log[i].role # "tool" => i \in DOMAIN Compact(log) /\ Compact(log)[i].role = log[i].role
  BY <1>2, <1>5, <1>6, <1>7, <1>8
<1>13. \A i \in DOMAIN Compact(log) : i = slot \/ i \in DOMAIN log
  BY <1>2, <1>5, <1>6, <1>7
<1> QED
  BY <1>3, <1>9, <1>10, <1>11, <1>12, <1>13 DEF gone

\* Of the user messages one is kept: a pinned one, or the last.
LEMMA UserIsKept ==
  ASSUME NEW log, IsLog(log), NEW next \in Nat, \A i \in DOMAIN log : i < next,
         \A i \in DOMAIN log : IsSummary(i) => log[i].role = "system",
         Of(log, "user") # {}
  PROVE  Of(log, "user") \ Summarized(log) # {}
<1> DEFINE users   == Of(log, "user")
           chosen  == Recent(log) \cup Lead(log) \cup {i \in DOMAIN log : log[i].marked}
           paired  == PinPartners(log, PinPartners(log, PinPartners(log, chosen)))
           last    == Latest(users)
<1>1. Pinned(log) = {i \in KeepUser(log, paired) : ~ IsSummary(i)}
  BY DEF Pinned
<1>2. last \in users
  <2>1. next - 1 \in Nat /\ users \in SUBSET (0 .. next - 1)
    BY DEF Of, IsLog
  <2> HIDE DEF users
  <2> QED
    BY <2>1, LatestIn DEF users
<1>3. PICK u \in users : u \in KeepUser(log, paired)
  <2> HIDE DEF paired
  <2> QED
    BY <1>2 DEF KeepUser
<1>4. u \in DOMAIN log /\ log[u].role = "user"
  BY <1>3 DEF Of
<1>5. ~ IsSummary(u)
  BY <1>4
<1>6. u \in Pinned(log)
  BY <1>1, <1>3, <1>5
<1> QED
  BY <1>3, <1>6 DEF Summarized

-----------------------------------------------------------------------------
(* What the repair needs to pair every call with its results *)

\* A result that answers an earlier call stands behind it with nothing but results in
\* between.
Ordered(log) ==
  \A i \in Callers(log), j \in Of(log, "tool") :
    i < j /\ log[j].id \in log[i].calls => j \in Followers(log, i)

\* A conversation as an agent keeps it: the prompt in front, at the position of the
\* first message, the results in order, and no call with an id above `ids`.
Sound(log, ids) ==
  /\ 2 \in Lead(log)
  /\ Ordered(log)
  /\ \A i \in Callers(log) : log[i].calls \subseteq 0 .. ids

LEMMA CallersAreAssistants ==
  ASSUME NEW log, IsLog(log), NEW i \in Callers(log)
  PROVE  i \in Nat /\ log[i].role = "assistant" /\ i \notin Of(log, "tool") /\ i \notin Lead(log)
<1>1. i \in DOMAIN log /\ log[i].calls # {}
  BY DEF Callers
<1>2. i \in Nat /\ log[i].role = "assistant"
  BY <1>1 DEF IsLog, Message
<1>3. i \notin Of(log, "tool")
  BY <1>2 DEF Of
<1>4. i <= i
  BY <1>2
<1>5. i \notin Lead(log)
  BY <1>1, <1>2, <1>4 DEF Lead
<1> QED
  BY <1>2, <1>3, <1>5

\* What only takes away keeps the order,
LEMMA LessOrdered ==
  ASSUME NEW log, NEW r, Ordered(log), TakesAway(log, r)
  PROVE  Ordered(r)
<1> SUFFICES ASSUME NEW i \in Callers(r), NEW j \in Of(r, "tool"), i < j, r[j].id \in r[i].calls
             PROVE  j \in Followers(r, i)
  BY DEF Ordered
<1>1. i \in Callers(log) /\ log[j].id \in log[i].calls
  BY DEF TakesAway, Callers, Of
<1>2. j \in Of(log, "tool")
  BY DEF TakesAway, Of
<1>3. Between(log, i, j) \subseteq Of(log, "tool")
  BY <1>1, <1>2 DEF Ordered, Followers
<1>4. Between(r, i, j) \subseteq Of(r, "tool")
  BY <1>3 DEF TakesAway, Between, Of
<1> QED
  BY <1>4 DEF Followers

\* and a prompt it does not erase,
LEMMA LessLead ==
  ASSUME NEW log, NEW r, TakesAway(log, r), NEW i \in Lead(log), i \in DOMAIN r
  PROVE  i \in Lead(r)
BY DEF TakesAway, Lead

LEMMA LessSound ==
  ASSUME NEW log, NEW ids, Sound(log, ids), NEW r, TakesAway(log, r), 2 \in DOMAIN r
  PROVE  Sound(r, ids)
<1>1. Ordered(r)
  BY LessOrdered DEF Sound
<1>2. 2 \in Lead(r)
  BY LessLead DEF Sound
<1>3. \A i \in Callers(r) : i \in Callers(log) /\ r[i].calls \subseteq log[i].calls
  BY DEF TakesAway, Callers
<1> QED
  BY <1>1, <1>2, <1>3 DEF Sound

\* The repair pairs what is in order: every call left has its results, right behind
\* it, and every result left is one of them.
THEOREM RepairPairs ==
  ASSUME NEW log, IsLog(log), Ordered(log)
  PROVE  WellPaired(Repair(log))
<1> DEFINE mended == Repair(log)
<1>1. Unanswered(mended) = {} /\ Uncalled(mended) = {}
  BY RepairMends
<1>2. Ordered(mended)
  BY LessOrdered, RepairTakesAway
<1> HIDE DEF mended
<1>3. NoStrayResult(mended)
  <2> SUFFICES ASSUME NEW j \in Of(mended, "tool") PROVE Attached(mended, j)
    BY DEF NoStrayResult
  <2>1. PICK i \in Callers(mended) : i < j /\ mended[j].id \in mended[i].calls
    BY <1>1 DEF Uncalled
  <2> QED
    BY <2>1, <1>2 DEF Ordered, Attached
<1> QED
  BY <1>1, <1>3 DEF WellPaired, mended

-----------------------------------------------------------------------------
(* The operations keep a conversation below the position of the next message *)

LEMMA SayFits ==
  ASSUME NEW l, NEW n, Fits(l, n), NEW ms \in Seq(Message)
  PROVE  Fits(Say(l, n, ms), n + 2 * Len(ms))
<1> DEFINE places == {n + 2 * (k - 1) : k \in DOMAIN ms}
           new(i) == (i - n) \div 2 + 1
<1>1. n \in Nat /\ n > 0 /\ n % 2 = 0 /\ IsLog(l) /\ \A i \in DOMAIN l : i < n
  BY DEF Fits
<1>2. Len(ms) \in Nat /\ DOMAIN ms = 1 .. Len(ms) /\ \A k \in 1 .. Len(ms) : ms[k] \in Message
  OBVIOUS
<1>3. \A i \in places : i \in Nat /\ i < n + 2 * Len(ms) /\ new(i) \in DOMAIN ms
  BY <1>1, <1>2
<1>4. \A i \in DOMAIN l \cup places : IF i \in DOMAIN l THEN l[i] \in Message
                                                       ELSE ms[new(i)] \in Message
  BY <1>1, <1>2, <1>3 DEF IsLog
<1>5. DOMAIN l \cup places \in SUBSET Nat
  BY <1>1, <1>3 DEF IsLog
<1>6. Say(l, n, ms) = [i \in DOMAIN l \cup places |-> IF i \in DOMAIN l THEN l[i] ELSE ms[new(i)]]
  BY DEF Say
<1>7. \A i \in DOMAIN l \cup places : i < n + 2 * Len(ms)
  BY <1>1, <1>2, <1>3 DEF IsLog
<1>8. n + 2 * Len(ms) \in Nat \ {0} /\ (n + 2 * Len(ms)) % 2 = 0
  BY <1>1, <1>2
<1> HIDE DEF places, new
<1>9. IsLog(Say(l, n, ms))
  BY <1>4, <1>5, <1>6 DEF IsLog
<1> QED
  BY <1>6, <1>7, <1>8, <1>9 DEF Fits

LEMMA PutFits ==
  ASSUME NEW l, NEW n, Fits(l, n), NEW m \in Message
  PROVE  Fits(Put(l, n, m), n + 2)
<1>1. n \in Nat /\ n > 0 /\ n % 2 = 0 /\ IsLog(l) /\ \A i \in DOMAIN l : i < n
  BY DEF Fits
<1>2. IsLog(Put(l, n, m)) /\ DOMAIN Put(l, n, m) = DOMAIN l \cup {n}
  BY <1>1, PutFacts
<1>3. \A i \in DOMAIN l \cup {n} : i < n + 2
  BY <1>1 DEF IsLog
<1>4. n + 2 \in Nat \ {0} /\ (n + 2) % 2 = 0
  BY <1>1
<1> QED
  BY <1>2, <1>3, <1>4 DEF Fits

\* What the operations that only take away leave fits where the old one did.
LEMMA LessFits ==
  ASSUME NEW l, NEW n, Fits(l, n), NEW cut
  PROVE  /\ Fits(Repair(l), n) /\ Fits(StripLast(l), n) /\ Fits(SoftStripLast(l), n)
         /\ Fits(ClearLastCalls(l), n) /\ Fits(PopLastAssistant(l), n) /\ Fits(Prune(l, cut), n)
         /\ Fits(Compact(l), n)
<1>1. n \in Nat /\ n > 0 /\ n % 2 = 0 /\ IsLog(l) /\ \A i \in DOMAIN l : i < n
  BY DEF Fits
<1>2. \A r : IsLog(r) /\ DOMAIN r \subseteq DOMAIN l => Fits(r, n)
  BY <1>1 DEF Fits
<1>3. Fits(Repair(l), n)
  BY <1>1, <1>2, RepairFacts
<1>4. Fits(StripLast(l), n)
  BY <1>1, <1>2, StripLastFacts
<1>5. Fits(SoftStripLast(l), n)
  BY <1>1, <1>2, SoftStripLastFacts
<1>6. Fits(ClearLastCalls(l), n)
  BY <1>1, <1>2, ClearLastFacts
<1>7. Fits(PopLastAssistant(l), n)
  BY <1>1, <1>2, PopLastFacts
<1>8. Fits(Prune(l, cut), n)
  BY <1>1, <1>2, PruneFacts
<1>9. Fits(Compact(l), n)
  BY <1>1, CompactFacts DEF Fits
<1> QED
  BY <1>3, <1>4, <1>5, <1>6, <1>7, <1>8, <1>9

-----------------------------------------------------------------------------
(* Appended messages *)

LEMMA SayFacts ==
  ASSUME NEW l, NEW n, Fits(l, n), NEW ms \in Seq(Message)
  PROVE  /\ \A i \in DOMAIN l : i \in Nat /\ i < n
         /\ \A i \in DOMAIN l : i \in DOMAIN Say(l, n, ms) /\ Say(l, n, ms)[i] = l[i]
         /\ \A i \in DOMAIN Say(l, n, ms) \ DOMAIN l :
              \E k \in 1 .. Len(ms) : i = n + 2 * (k - 1) /\ Say(l, n, ms)[i] = ms[k]
         /\ \A k \in 1 .. Len(ms) : /\ n + 2 * (k - 1) \in DOMAIN Say(l, n, ms)
                                    /\ Say(l, n, ms)[n + 2 * (k - 1)] = ms[k]
<1>1. n \in Nat /\ \A i \in DOMAIN l : i \in Nat /\ i < n
  BY DEF Fits, IsLog
<1>2. DOMAIN ms = 1 .. Len(ms) /\ Len(ms) \in Nat
  OBVIOUS
<1> DEFINE places == {n + 2 * (k - 1) : k \in DOMAIN ms}
<1>3. \A k \in 1 .. Len(ms) : /\ n + 2 * (k - 1) \in places /\ n + 2 * (k - 1) \notin DOMAIN l
                              /\ ((n + 2 * (k - 1)) - n) \div 2 + 1 = k
  BY <1>1, <1>2
<1>4. \A i \in places : \E k \in 1 .. Len(ms) : i = n + 2 * (k - 1)
  BY <1>2
<1>5. Say(l, n, ms) = [i \in DOMAIN l \cup places |->
                         IF i \in DOMAIN l THEN l[i] ELSE ms[(i - n) \div 2 + 1]]
  BY DEF Say
<1> HIDE DEF places
<1>6. \A k \in 1 .. Len(ms) : Say(l, n, ms)[n + 2 * (k - 1)] = ms[k]
  BY <1>3, <1>5
<1>7. \A i \in DOMAIN l : i \in DOMAIN Say(l, n, ms) /\ Say(l, n, ms)[i] = l[i]
  BY <1>5
<1>8. DOMAIN Say(l, n, ms) = DOMAIN l \cup places
  BY <1>5
<1>9. \A i \in DOMAIN Say(l, n, ms) \ DOMAIN l :
        \E k \in 1 .. Len(ms) : i = n + 2 * (k - 1) /\ Say(l, n, ms)[i] = ms[k]
  BY <1>4, <1>6, <1>8
<1> QED
  BY <1>1, <1>3, <1>6, <1>7, <1>8, <1>9

\* A silent write, and a write of one message as Put does it.
LEMMA SayLittle ==
  ASSUME NEW l, NEW n, Fits(l, n)
  PROVE  Say(l, n, <<>>) = l /\ \A m : Put(l, n, m) = Say(l, n, <<m>>)
<1>1. n \in Nat /\ n \notin DOMAIN l /\ l = [i \in DOMAIN l |-> l[i]]
  BY DEF Fits, IsLog
<1>2. Say(l, n, <<>>) = l
  <2>1. {n + 2 * (k - 1) : k \in DOMAIN <<>>} = {}
    OBVIOUS
  <2>2. DOMAIN l \cup {} = DOMAIN l
    OBVIOUS
  <2>3. Say(l, n, <<>>) = [i \in DOMAIN l |-> IF i \in DOMAIN l THEN l[i] ELSE <<>>[(i - n) \div 2 + 1]]
    BY <2>1, <2>2 DEF Say
  <2>4. [i \in DOMAIN l |-> IF i \in DOMAIN l THEN l[i] ELSE <<>>[(i - n) \div 2 + 1]]
          = [i \in DOMAIN l |-> l[i]]
    OBVIOUS
  <2> QED
    BY <1>1, <2>3, <2>4
<1>3. ASSUME NEW m PROVE Put(l, n, m) = Say(l, n, <<m>>)
  <2> DEFINE one == <<m>>
  <2>1. DOMAIN one = {1} /\ one[1] = m
    OBVIOUS
  <2> HIDE DEF one
  <2>2. {n + 2 * (k - 1) : k \in DOMAIN one} = {n}
    BY <1>1, <2>1
  <2>3. (n - n) \div 2 + 1 = 1
    BY <1>1
  <2>4. \A i \in DOMAIN l \cup {n} : (IF i = n THEN m ELSE l[i])
                                   = (IF i \in DOMAIN l THEN l[i] ELSE one[(i - n) \div 2 + 1])
    BY <1>1, <2>1, <2>3
  <2> QED
    BY <2>2, <2>4 DEF Put, Say, one
<1> QED
  BY <1>2, <1>3

\* Messages written behind a sound conversation leave it sound, when their calls come
\* last and their results answer no call but the last message's.
LEMMA SaySound ==
  ASSUME NEW l, NEW n, Fits(l, n), NEW ids, Sound(l, ids), NEW ms \in Seq(Message),
         NEW more, 0 .. ids \subseteq 0 .. more,
         \A k \in 1 .. Len(ms) : ms[k].calls # {} => k = Len(ms) /\ ms[k].calls \subseteq 0 .. more,
         \A k \in 1 .. Len(ms), i \in Callers(l) :
           ms[k].role = "tool" /\ ms[k].id \in l[i].calls =>
             /\ \A j \in DOMAIN l : j <= i
             /\ \A before \in 1 .. (k - 1) : ms[before].role = "tool"
  PROVE  Sound(Say(l, n, ms), more)
<1> DEFINE said == Say(l, n, ms)
<1>1. /\ n \in Nat /\ 2 \in DOMAIN l /\ Len(ms) \in Nat
      /\ \A i \in DOMAIN l : i \in Nat /\ i < n
  BY DEF Fits, IsLog, Sound, Lead
<1>2. /\ \A i \in DOMAIN l : i \in DOMAIN said /\ said[i] = l[i]
      /\ \A i \in DOMAIN said \ DOMAIN l :
           \E k \in 1 .. Len(ms) : i = n + 2 * (k - 1) /\ said[i] = ms[k]
  BY SayFacts
<1> HIDE DEF said
<1>3. \A i \in DOMAIN said \ DOMAIN l : i \in Nat /\ i >= n
  BY <1>1, <1>2
<1>4. 2 \in Lead(said)
  BY <1>1, <1>2, <1>3 DEF Sound, Lead
<1>5. \A i \in Callers(said) :
        \/ i \in Callers(l) /\ said[i] = l[i]
        \/ /\ i \notin DOMAIN l /\ i = n + 2 * (Len(ms) - 1)
           /\ said[i].calls \subseteq 0 .. more
  BY <1>2 DEF Callers
<1>6. \A i \in DOMAIN said \ DOMAIN l : i <= n + 2 * (Len(ms) - 1)
  BY <1>1, <1>2
<1>7. Ordered(said)
  <2> SUFFICES ASSUME NEW i \in Callers(said), NEW j \in Of(said, "tool"),
                      i < j, said[j].id \in said[i].calls
               PROVE  Between(said, i, j) \subseteq Of(said, "tool")
    BY DEF Ordered, Followers
  <2>1. j \in DOMAIN said /\ said[j].role = "tool"
    BY DEF Of
  <2>2. i \in Callers(l) /\ said[i] = l[i] /\ i \in DOMAIN l
    BY <1>1, <1>3, <1>5, <1>6, <2>1 DEF Callers
  <2>3. CASE j \in DOMAIN l
    <3>1. j \in Of(l, "tool") /\ l[j].id \in l[i].calls
      BY <1>2, <2>1, <2>2, <2>3 DEF Of
    <3>2. Between(l, i, j) \subseteq Of(l, "tool")
      BY <2>2, <3>1 DEF Sound, Ordered, Followers
    <3>3. \A k \in Between(said, i, j) : k \in Between(l, i, j)
      BY <1>1, <1>3, <2>3 DEF Between
    <3> QED
      BY <1>2, <3>2, <3>3 DEF Of
  <2>4. CASE j \notin DOMAIN l
    <3>1. PICK k \in 1 .. Len(ms) : j = n + 2 * (k - 1) /\ said[j] = ms[k]
      BY <1>2, <2>1, <2>4
    <3>2. /\ \A b \in DOMAIN l : b <= i
          /\ \A before \in 1 .. (k - 1) : ms[before].role = "tool"
      BY <2>1, <2>2, <3>1
    <3>3. ASSUME NEW b \in Between(said, i, j) PROVE b \in Of(said, "tool")
      <4>1. b \in DOMAIN said /\ i < b /\ b < j
        BY <3>3 DEF Between
      <4>2. b \notin DOMAIN l
        BY <1>1, <2>2, <3>2, <4>1
      <4>3. PICK before \in 1 .. Len(ms) : b = n + 2 * (before - 1) /\ said[b] = ms[before]
        BY <1>2, <4>1, <4>2
      <4>4. before \in 1 .. (k - 1)
        BY <1>1, <3>1, <4>1, <4>3
      <4> QED
        BY <3>2, <4>1, <4>3, <4>4 DEF Of
    <3> QED
      BY <3>3
  <2> QED
    BY <2>3, <2>4
<1>8. \A i \in Callers(said) : said[i].calls \subseteq 0 .. more
  BY <1>5 DEF Sound
<1> QED
  BY <1>4, <1>7, <1>8 DEF Sound, said

\* A message that neither calls nor answers leaves a paired conversation paired.
LEMMA SayPaired ==
  ASSUME NEW l, NEW n, Fits(l, n), WellPaired(l),
         NEW m \in Message, m.role # "tool", m.calls = {}
  PROVE  WellPaired(Say(l, n, <<m>>))
<1> DEFINE said == Say(l, n, <<m>>)
<1>1. \A i \in DOMAIN l : i \in Nat /\ i < n
  BY DEF Fits, IsLog
<1>2. /\ \A i \in DOMAIN l : i \in DOMAIN said /\ said[i] = l[i]
      /\ \A i \in DOMAIN said \ DOMAIN l : i = n /\ said[i] = m
  <2> DEFINE ms == <<m>>
  <2>1. ms \in Seq(Message) /\ Len(ms) = 1 /\ ms[1] = m
    OBVIOUS
  <2>2. n \in Nat
    BY DEF Fits
  <2> HIDE DEF ms
  <2>3. /\ \A i \in DOMAIN l : i \in DOMAIN Say(l, n, ms) /\ Say(l, n, ms)[i] = l[i]
        /\ \A i \in DOMAIN Say(l, n, ms) \ DOMAIN l :
             \E k \in 1 .. Len(ms) : i = n + 2 * (k - 1) /\ Say(l, n, ms)[i] = ms[k]
    BY <2>1, SayFacts
  <2>4. said = Say(l, n, ms)
    BY DEF ms
  <2> HIDE DEF said
  <2> QED
    BY <2>1, <2>2, <2>3, <2>4
<1> HIDE DEF said
<1>3. Of(said, "tool") = Of(l, "tool") /\ Callers(said) = Callers(l)
  BY <1>2 DEF Of, Callers
<1>4. \A i, j : j \in DOMAIN l => Between(said, i, j) = Between(l, i, j)
  <2> TAKE i, j
  <2> HAVE j \in DOMAIN l
  <2>1. ~ (n < j)
    BY <1>1 DEF Fits
  <2> QED
    BY <1>2, <2>1 DEF Between
<1>5. \A j \in Of(l, "tool") : Attached(said, j)
  <2> TAKE j \in Of(l, "tool")
  <2>1. PICK i \in Callers(l) : j \in Followers(l, i) /\ l[j].id \in l[i].calls
    BY DEF WellPaired, NoStrayResult, Attached
  <2>2. i \in DOMAIN l /\ j \in DOMAIN l
    BY DEF Callers, Of
  <2> QED
    BY <1>2, <1>3, <1>4, <2>1, <2>2 DEF Attached, Followers
<1>6. \A i \in Callers(l) : Answers(l, i) \subseteq Answers(said, i)
  <2> TAKE i \in Callers(l)
  <2> SUFFICES ASSUME NEW j \in Of(l, "tool"), i < j, Between(l, i, j) \cap Of(l, "assistant") = {}
               PROVE  l[j].id \in Answers(said, i)
    BY DEF Answers
  <2>1. j \in DOMAIN l /\ said[j] = l[j] /\ j \in Of(said, "tool")
    BY <1>2, <1>3 DEF Of
  <2>2. Between(said, i, j) \cap Of(said, "assistant") = {}
    BY <1>2, <1>4, <2>1 DEF Of, Between
  <2> QED
    BY <2>1, <2>2 DEF Answers
<1>7. Unanswered(said) = {}
  BY <1>2, <1>3, <1>6 DEF WellPaired, Unanswered, Callers
<1> QED
  BY <1>3, <1>5, <1>7 DEF WellPaired, NoStrayResult, said

-----------------------------------------------------------------------------
(* What the operations leave of a sound conversation *)

LEMMA EraseSound ==
  ASSUME NEW log, IsLog(log), NEW ids, Sound(log, ids), NEW S, 2 \notin S
  PROVE  Sound(Erase(log, S), ids)
<1>1. 2 \in DOMAIN Erase(log, S)
  BY EraseFacts DEF Sound, Lead
<1> QED
  BY <1>1, EraseTakesAway, LessSound

LEMMA StripSound ==
  ASSUME NEW log, IsLog(log), NEW ids, Sound(log, ids), NEW S
  PROVE  Sound(Strip(log, S), ids)
<1>1. 2 \in DOMAIN Strip(log, S)
  BY StripFacts DEF Sound, Lead
<1> QED
  BY <1>1, StripTakesAway, LessSound

LEMMA PromptIsNoResult ==
  ASSUME NEW log, IsLog(log), NEW ids, Sound(log, ids)
  PROVE  2 \in DOMAIN log /\ log[2].role = "system" /\ 2 \notin Uncalled(log)
<1>1. 2 \in Lead(log) /\ 2 <= 2
  BY DEF Sound
<1> QED
  BY <1>1, UncalledAreResults DEF Lead

LEMMA RepairSound ==
  ASSUME NEW log, IsLog(log), NEW ids, Sound(log, ids)
  PROVE  Sound(Repair(log), ids)
<1> DEFINE stripped == Strip(log, Unanswered(log))
<1>1. IsLog(stripped) /\ Sound(stripped, ids)
  BY StripFacts, StripSound
<1>2. Repair(log) = Erase(stripped, Uncalled(stripped))
  BY DEF Repair
<1> HIDE DEF stripped
<1>3. 2 \notin Uncalled(stripped)
  BY <1>1, PromptIsNoResult
<1> DEFINE gone == Uncalled(stripped)
<1>4. Sound(Erase(stripped, gone), ids)
  <2> HIDE DEF gone
  <2>1. 2 \notin gone
    BY <1>3 DEF gone
  <2> QED
    BY <1>1, <2>1, EraseSound
<1> QED
  BY <1>2, <1>4

\* The summary's slot lies in front of every message with calls.
LEMMA SlotIsEarly ==
  ASSUME NEW log, IsLog(log), NEW next \in Nat, \A i \in DOMAIN log : i < next,
         \A i \in DOMAIN log : ~ IsSummary(i), 0 \notin Callers(log)
  PROVE  \A i \in Callers(log) : SummarySlot(log) < i
<1> DEFINE lead == {0} \cup Lead(log)
           last == Latest(lead)
<1>1. lead \in SUBSET (0 .. next) /\ lead # {}
  BY DEF Lead, IsLog
<1>2. last \in lead /\ \A i \in lead : i <= last
  <2> HIDE DEF lead
  <2> QED
    BY <1>1, LatestIn
<1>3. \A i \in DOMAIN log : i \in Nat /\ i % 2 = 0
  BY DEF IsLog, IsSummary
<1>4. last \in Nat /\ last % 2 = 0 /\ (last = 0 \/ last \in Lead(log))
  BY <1>2, <1>3 DEF Lead
<1>5. SummarySlot(log) = 2 * (last \div 2) + 1
  BY DEF SummarySlot
<1> HIDE DEF last
<1>6. SummarySlot(log) = last + 1
  BY <1>4, <1>5
<1>7. ASSUME NEW i \in Callers(log) PROVE last < i
  <2>1. i \in DOMAIN log /\ i \in Nat /\ log[i].role = "assistant" /\ i # 0
    BY CallersAreAssistants DEF Callers
  <2>2. last \in Lead(log) /\ i <= last => log[i].role = "system"
    BY <2>1 DEF Lead
  <2> QED
    BY <1>4, <2>1, <2>2
<1>8. ASSUME NEW i \in Callers(log) PROVE last + 1 < i
  <2>1. i \in Nat /\ i % 2 = 0 /\ last < i
    BY <1>3, <1>7 DEF Callers
  <2> QED
    BY <1>4, <2>1
<1> QED
  BY <1>6, <1>8

\* A system message put in front of every call stands between no call and its results.
LEMMA PutSound ==
  ASSUME NEW log, IsLog(log), NEW ids, Sound(log, ids), NEW at \in Nat, at \notin DOMAIN log,
         \A i \in Callers(log) : at < i
  PROVE  Sound(Put(log, at, Text("system")), ids)
<1> DEFINE put == Put(log, at, Text("system"))
<1>1. /\ DOMAIN put = DOMAIN log \cup {at}
      /\ \A i \in DOMAIN log : put[i] = log[i]
      /\ put[at].role = "system" /\ put[at].calls = {}
  BY DEF Put, Text
<1>2. 2 \in Lead(put)
  BY PutKeepsLead DEF Sound
<1> HIDE DEF put
<1>3. Callers(put) = Callers(log) /\ Of(put, "tool") = Of(log, "tool")
  BY <1>1 DEF Callers, Of
<1>4. \A i \in Callers(log) : put[i] = log[i] /\ \A j : Between(put, i, j) = Between(log, i, j)
  <2> TAKE i \in Callers(log)
  <2>1. i \in Nat /\ at < i /\ ~ (i < at)
    BY CallersAreAssistants
  <2>2. i \in DOMAIN log
    BY DEF Callers
  <2> QED
    BY <1>1, <2>1, <2>2 DEF Between
<1>5. \A j \in Of(log, "tool") : put[j] = log[j]
  BY <1>1 DEF Of
<1>6. Ordered(put)
  BY <1>3, <1>4, <1>5 DEF Sound, Ordered, Followers
<1>7. \A i \in Callers(put) : put[i].calls \subseteq 0 .. ids
  BY <1>3, <1>4 DEF Sound
<1> QED
  BY <1>2, <1>6, <1>7 DEF Sound, put

LEMMA CompactSound ==
  ASSUME NEW log, NEW next, Fits(log, next), NEW ids, Sound(log, ids)
  PROVE  Sound(Compact(log), ids)
<1> DEFINE gone     == Summarized(log)
           kept     == Erase(log, gone)
           slot     == SummarySlot(kept)
           summed   == Put(kept, slot, Text("system"))
           called   == {summed[j].id : j \in Of(summed, "tool")}
           silent   == {c \in Callers(summed) : summed[c].calls \cap called = {}}
           stripped == Strip(summed, silent)
           stray    == Uncalled(stripped)
<1>1. Compact(log) = IF gone = {} THEN log ELSE Erase(stripped, stray)
  BY DEF Compact
<1> SUFFICES ASSUME gone # {} PROVE Sound(Erase(stripped, stray), ids)
  BY <1>1
<1>2. /\ IsLog(log) /\ next \in Nat /\ next % 2 = 0 /\ next > 0
      /\ \A i \in DOMAIN log : i < next
  BY DEF Fits
<1>3. IsLog(kept) /\ DOMAIN kept = DOMAIN log \ gone
  <2> HIDE DEF gone
  <2> QED
    BY <1>2, EraseFacts
<1>4. \A i \in DOMAIN kept : i < next /\ ~ IsSummary(i)
  BY <1>2, <1>3 DEF Summarized, Pinned
<1>5. Sound(kept, ids)
  <2>1. 2 \in Lead(log) /\ ~ IsSummary(2)
    BY DEF Sound, IsSummary
  <2>2. 2 \notin gone
    BY <2>1, LeadIsPinned
  <2> HIDE DEF gone
  <2> QED
    BY <1>2, <2>2, EraseSound
<1>6. IsLog(summed) /\ Sound(summed, ids)
  <2> HIDE DEF kept
  <2>1. slot \in Nat /\ IsSummary(slot)
    BY <1>2, <1>3, <1>4, SlotIsBelow, SlotIsOdd
  <2>2. slot \notin DOMAIN kept
    BY <1>4, <2>1
  <2>3. \A i \in Callers(kept) : slot < i
    <3>1. 0 \notin Callers(kept)
      <4>1. 2 \in Lead(kept) /\ 0 <= 2
        BY <1>5 DEF Sound
      <4>2. 0 \in DOMAIN kept => kept[0].role = "system"
        BY <4>1 DEF Lead
      <4> QED
        BY <1>3, <4>2, CallersAreAssistants DEF Callers
    <3> QED
      BY <1>2, <1>3, <1>4, <3>1, SlotIsEarly
  <2>4. Text("system") \in Message
    BY MessageTypes DEF Roles
  <2> HIDE DEF slot
  <2>5. IsLog(Put(kept, slot, Text("system")))
    BY <1>3, <2>1, <2>4, PutFacts
  <2>6. Sound(Put(kept, slot, Text("system")), ids)
    BY <1>3, <1>5, <2>1, <2>2, <2>3, PutSound
  <2> QED
    BY <2>5, <2>6
<1>7. IsLog(stripped) /\ Sound(stripped, ids)
  <2> HIDE DEF summed, silent
  <2> QED
    BY <1>6, StripFacts, StripSound
<1>8. 2 \notin stray
  <2> HIDE DEF stripped
  <2> QED
    BY <1>7, PromptIsNoResult
<1> HIDE DEF stripped, stray
<1> QED
  BY <1>7, <1>8, EraseSound

\* Whatever only takes away keeps a conversation sound.
LEMMA StaysSound ==
  ASSUME NEW log, NEW next, Fits(log, next), NEW ids, Sound(log, ids), NEW cut
  PROVE  /\ Sound(Repair(log), ids) /\ Sound(StripLast(log), ids)
         /\ Sound(SoftStripLast(log), ids) /\ Sound(ClearLastCalls(log), ids)
         /\ Sound(PopLastAssistant(log), ids) /\ Sound(Prune(log, cut), ids)
         /\ Sound(Compact(log), ids)
<1>1. IsLog(log)
  BY DEF Fits
<1>2. 2 \in DOMAIN log /\ log[2].role = "system"
  BY <1>1, PromptIsNoResult
<1>3. Sound(StripLast(log), ids)
  BY <1>1, <1>2, StripLastFacts, StripLastTakesAway, LessSound
<1>4. Sound(ClearLastCalls(log), ids)
  BY <1>1, <1>2, ClearLastFacts, ClearLastTakesAway, LessSound
<1>5. Sound(SoftStripLast(log), ids)
  <2> DEFINE last   == Latest(Callers(log))
             behind == Followers(log, last)
             merged == [i \in DOMAIN log |->
                          IF i # last THEN log[i]
                          ELSE [Bare(log[i]) EXCEPT
                                  !.marked = \E j \in behind \cup {i} : log[j].marked]]
  <2>1. SoftStripLast(log) = IF Callers(log) = {} THEN log
                             ELSE Restrict(merged, DOMAIN merged \ behind)
    BY DEF SoftStripLast, Erase
  <2>2. 2 \notin behind
    BY <1>2 DEF Followers, Of
  <2>3. DOMAIN merged = DOMAIN log
    OBVIOUS
  <2> HIDE DEF merged, behind
  <2>4. 2 \in DOMAIN SoftStripLast(log)
    BY <1>2, <2>1, <2>2, <2>3 DEF Restrict
  <2> QED
    BY <1>1, <2>4, SoftStripLastTakesAway, LessSound
<1>6. Sound(PopLastAssistant(log), ids)
  <2> DEFINE S == {i \in Of(log, "assistant") \ Callers(log) : i = Latest(DOMAIN log)}
  <2>1. 2 \notin S
    BY <1>2 DEF Of
  <2>2. PopLastAssistant(log) = Erase(log, S)
    BY DEF PopLastAssistant
  <2> HIDE DEF S
  <2> QED
    BY <1>1, <2>1, <2>2, EraseSound
<1>7. Sound(Prune(log, cut), ids)
  <2> DEFINE S == {i \in DOMAIN log \ Lead(log) : i < cut}
  <2>1. 2 \notin S
    BY DEF Sound
  <2>2. Prune(log, cut) = Erase(log, S)
    BY DEF Prune
  <2> HIDE DEF S
  <2> QED
    BY <1>1, <2>1, <2>2, EraseSound
<1> QED
  BY <1>1, <1>3, <1>4, <1>5, <1>6, <1>7, RepairSound, CompactSound

-----------------------------------------------------------------------------
(* What shrinking does to the rounds of a paired conversation *)

\* No id is used for two calls or for two results.
Distinct(log) ==
  \A i, j \in DOMAIN log : i # j =>
    /\ log[i].calls \cap log[j].calls = {}
    /\ {log[i].role, log[j].role} = {"tool"} => log[i].id # log[j].id

\* The message at i calls for the result at j.
Asks(log, i, j) ==
  i \in Callers(log) /\ j \in Of(log, "tool") /\ log[j].id \in log[i].calls

\* Every result has its call, every call its result, right behind it.
Rounds(log) ==
  /\ \A j \in Of(log, "tool") : \E i \in Callers(log) : Asks(log, i, j)
  /\ \A i \in Callers(log) : \A id \in log[i].calls :
       \E j \in Of(log, "tool") : Asks(log, i, j) /\ log[j].id = id
  /\ \A i, j : Asks(log, i, j) => j \in Followers(log, i)

\* Of distinct ids, a result has one caller and a call one result.
LEMMA OneEach ==
  ASSUME NEW log, Distinct(log)
  PROVE  /\ \A i, k, j : Asks(log, i, j) /\ Asks(log, k, j) => i = k
         /\ \A i, k \in Callers(log) : \A id \in log[i].calls : id \in log[k].calls => i = k
         /\ \A j, k \in Of(log, "tool") : log[j].id = log[k].id => j = k
BY DEF Distinct, Asks, Callers, Of

LEMMA PairedIsRounds ==
  ASSUME NEW log, IsLog(log), Distinct(log), WellPaired(log)
  PROVE  Rounds(log)
<1>1. \A j \in Of(log, "tool") :
        \E i \in Callers(log) : Asks(log, i, j) /\ j \in Followers(log, i)
  BY DEF WellPaired, NoStrayResult, Attached, Asks
<1>2. \A i, j : Asks(log, i, j) => j \in Followers(log, i)
  <2> SUFFICES ASSUME NEW i, NEW j, Asks(log, i, j) PROVE j \in Followers(log, i)
    OBVIOUS
  <2>1. PICK k \in Callers(log) : Asks(log, k, j) /\ j \in Followers(log, k)
    BY <1>1 DEF Asks
  <2> QED
    BY <2>1, OneEach
<1>3. ASSUME NEW i \in Callers(log), NEW id \in log[i].calls
      PROVE  \E j \in Of(log, "tool") : Asks(log, i, j) /\ log[j].id = id
  <2>1. id \in Answers(log, i)
    BY DEF WellPaired, Unanswered
  <2>2. PICK j \in Of(log, "tool") : log[j].id = id
    BY <2>1 DEF Answers
  <2> QED
    BY <2>2 DEF Asks
<1> QED
  BY <1>1, <1>2, <1>3 DEF Rounds

LEMMA RoundsArePaired ==
  ASSUME NEW log, IsLog(log), Rounds(log)
  PROVE  WellPaired(log)
<1>1. NoStrayResult(log)
  BY DEF Rounds, NoStrayResult, Attached, Asks
<1>2. ASSUME NEW i \in Callers(log), NEW id \in log[i].calls PROVE id \in Answers(log, i)
  <2>1. PICK j \in Of(log, "tool") : j \in Followers(log, i) /\ log[j].id = id
    BY DEF Rounds
  <2>2. i < j /\ Between(log, i, j) \cap Of(log, "assistant") = {}
    BY <2>1 DEF Followers, Of
  <2> QED
    BY <2>1, <2>2 DEF Answers
<1> QED
  BY <1>1, <1>2 DEF WellPaired, Unanswered

\* What takes every round away as a whole, or leaves it whole, leaves rounds.
LEMMA WholeRounds ==
  ASSUME NEW log, Rounds(log), NEW r, TakesAway(log, r),
         \A i \in Callers(r) : r[i].calls = log[i].calls,
         \A i, j : Asks(log, i, j) => (i \in Callers(r) <=> j \in DOMAIN r)
  PROVE  Rounds(r)
<1>1. \A i \in Callers(r) : i \in Callers(log) /\ i \in DOMAIN r
  BY DEF TakesAway, Callers
<1>2. \A j \in DOMAIN r : r[j].role = log[j].role /\ r[j].id = log[j].id /\ j \in DOMAIN log
  BY DEF TakesAway
<1>3. \A i, j : Asks(r, i, j) <=> Asks(log, i, j) /\ i \in Callers(r) /\ j \in DOMAIN r
  BY <1>1, <1>2 DEF Asks, Of
<1>4. \A j \in Of(r, "tool") : \E i \in Callers(r) : Asks(r, i, j)
  <2> SUFFICES ASSUME NEW j \in Of(r, "tool") PROVE \E i \in Callers(r) : Asks(r, i, j)
    OBVIOUS
  <2>1. j \in Of(log, "tool") /\ j \in DOMAIN r
    BY <1>2 DEF Of
  <2>2. PICK i \in Callers(log) : Asks(log, i, j)
    BY <2>1 DEF Rounds
  <2> QED
    BY <1>3, <2>1, <2>2
<1>5. ASSUME NEW i \in Callers(r), NEW id \in r[i].calls
      PROVE  \E j \in Of(r, "tool") : Asks(r, i, j) /\ r[j].id = id
  <2>1. PICK j \in Of(log, "tool") : Asks(log, i, j) /\ log[j].id = id
    BY <1>1 DEF Rounds
  <2> QED
    BY <1>2, <1>3, <2>1 DEF Of
<1>6. ASSUME NEW i, NEW j, Asks(r, i, j) PROVE j \in Followers(r, i)
  <2>1. j \in Followers(log, i) /\ j \in Of(r, "tool")
    BY <1>3, <1>6 DEF Rounds, Asks
  <2>2. Between(r, i, j) \subseteq Of(r, "tool")
    BY <1>2, <2>1 DEF Followers, Between, Of
  <2> QED
    BY <2>1, <2>2 DEF Followers
<1> QED
  BY <1>4, <1>5, <1>6 DEF Rounds

\* A repair leaves a paired conversation as it is.
LEMMA RepairOfPaired ==
  ASSUME NEW log, IsLog(log), WellPaired(log)
  PROVE  Repair(log) = log
<1>1. Unanswered(log) = {}
  BY DEF WellPaired
<1>2. Uncalled(log) = {}
  BY DEF WellPaired, NoStrayResult, Attached, Followers, Uncalled
<1>3. Strip(log, {}) = log /\ Erase(log, {}) = log
  BY DEF Strip, Erase, Restrict, IsLog
<1> QED
  BY <1>1, <1>2, <1>3 DEF Repair

\* Two callers share no follower.
LEMMA FollowersApart ==
  ASSUME NEW log, IsLog(log), NEW i \in Callers(log), NEW k \in Callers(log), i # k
  PROVE  Followers(log, i) \cap Followers(log, k) = {}
<1>1. /\ i \in DOMAIN log /\ i \in Nat /\ i \notin Of(log, "tool")
      /\ k \in DOMAIN log /\ k \in Nat /\ k \notin Of(log, "tool")
  BY CallersAreAssistants DEF Callers
<1> SUFFICES ASSUME NEW j \in Followers(log, i) \cap Followers(log, k) PROVE FALSE
  OBVIOUS
<1>2. /\ i < j /\ Between(log, i, j) \subseteq Of(log, "tool")
      /\ k < j /\ Between(log, k, j) \subseteq Of(log, "tool")
  BY DEF Followers
<1>3. i < k \/ k < i
  BY <1>1
<1> QED
  BY <1>1, <1>2, <1>3 DEF Between

\* softStripLastToolCalls takes the last round away, the text of its call aside.
LEMMA SoftStripPaired ==
  ASSUME NEW log, IsLog(log), Rounds(log), NEW n \in Nat, \A i \in DOMAIN log : i < n
  PROVE  Rounds(SoftStripLast(log))
<1> DEFINE last   == Latest(Callers(log))
           behind == Followers(log, last)
           merged == [i \in DOMAIN log |->
                        IF i # last THEN log[i]
                        ELSE [Bare(log[i]) EXCEPT
                                !.marked = \E j \in behind \cup {i} : log[j].marked]]
           r      == Restrict(merged, DOMAIN merged \ behind)
<1>1. SoftStripLast(log) = IF Callers(log) = {} THEN log ELSE r
  BY DEF SoftStripLast, Erase
<1> SUFFICES ASSUME Callers(log) # {} PROVE Rounds(r)
  BY <1>1
<1>2. last \in Callers(log)
  <2>1. Callers(log) \in SUBSET (0 .. n)
    BY DEF Callers, IsLog
  <2> QED
    BY <2>1, LatestIn
<1>3. TakesAway(log, r)
  BY <1>1, SoftStripLastTakesAway
<1>4. last \in DOMAIN log /\ merged[last].calls = {}
  <2>1. last \in DOMAIN log /\ log[last] \in Message
    BY <1>2 DEF Callers, IsLog
  <2>2. Bare(log[last]) = [role |-> log[last].role, calls |-> {}, id |-> log[last].id,
                           marked |-> log[last].marked]
    BY <2>1 DEF Bare, Message
  <2> HIDE DEF last, behind
  <2> QED
    BY <2>1, <2>2
<1>5. DOMAIN r = DOMAIN log \ behind
  <2> HIDE DEF last, behind
  <2> QED
    BY DEF Restrict
<1>6. \A i \in DOMAIN r : i # last => r[i] = log[i]
  <2> HIDE DEF last, behind
  <2> QED
    BY DEF Restrict
<1>7. last \in DOMAIN r => r[last].calls = {}
  <2> HIDE DEF last, behind
  <2> QED
    BY <1>4 DEF Restrict
<1> HIDE DEF last, r
<1>8. \A i \in Callers(log) : i \notin behind
  BY CallersAreAssistants DEF Followers
<1>9. Callers(r) = Callers(log) \ {last}
  BY <1>5, <1>6, <1>7, <1>8 DEF Callers
<1>10. ASSUME NEW i, NEW j, Asks(log, i, j) PROVE i \in Callers(r) <=> j \in DOMAIN r
  <2>1. i \in Callers(log) /\ j \in Followers(log, i) /\ j \in DOMAIN log
    BY <1>10 DEF Rounds, Asks, Of
  <2>2. i # last => j \notin behind
    BY <1>2, <2>1, FollowersApart
  <2> QED
    BY <1>5, <1>9, <2>1, <2>2
<1>11. \A i \in Callers(r) : r[i].calls = log[i].calls
  BY <1>6, <1>9 DEF Callers
<1> QED
  BY <1>3, <1>10, <1>11, WholeRounds

\* No cut of pruneForContext runs through a round.
LEMMA PrunePaired ==
  ASSUME NEW log, IsLog(log), Rounds(log), NEW n \in Nat, \A i \in DOMAIN log : i < n,
         NEW cut \in PruneCuts(log)
  PROVE  Rounds(Prune(log, cut))
<1> DEFINE rest   == DOMAIN log \ Lead(log)
           groups == rest \ UNION {Followers(log, i) : i \in Callers(log) \cap rest}
           gone   == {i \in rest : i < cut}
<1>1. cut \in groups \/ cut = Latest(rest) + 1
  BY DEF PruneCuts
<1>2. Prune(log, cut) = Erase(log, gone)
  BY DEF Prune
<1>3. \A i \in rest : i \in Nat /\ (cut = Latest(rest) + 1 => i < cut)
  <2>1. rest \in SUBSET (0 .. n) /\ \A i \in rest : i \in Nat
    BY DEF IsLog
  <2> HIDE DEF rest
  <2> SUFFICES ASSUME NEW i \in rest
               PROVE  i \in Nat /\ (cut = Latest(rest) + 1 => i < cut)
    OBVIOUS
  <2> DEFINE top == Latest(rest)
  <2>2. top \in rest /\ i <= top
    BY <2>1, LatestIn
  <2> HIDE DEF top
  <2>3. top \in Nat /\ i \in Nat
    BY <2>1, <2>2
  <2>4. i < top + 1
    BY <2>2, <2>3
  <2> QED
    BY <2>3, <2>4 DEF top
<1>4. \A i \in Callers(log) : i \in rest /\ i \notin Of(log, "tool")
  BY CallersAreAssistants DEF Callers
<1>5. \A j \in Of(log, "tool") : j \in rest
  <2> SUFFICES ASSUME NEW j \in Of(log, "tool") PROVE j \in rest
    OBVIOUS
  <2>1. j \in DOMAIN log /\ j \in Nat /\ log[j].role = "tool"
    BY DEF Of, IsLog
  <2>2. j <= j
    BY <2>1
  <2> QED
    BY <2>1, <2>2 DEF Lead
<1>6. ASSUME NEW i, NEW j, Asks(log, i, j) PROVE i < cut <=> j < cut
  <2>1. /\ i \in Callers(log) /\ i \in rest /\ i \in Nat /\ i \notin Of(log, "tool")
        /\ j \in rest /\ j \in Nat
        /\ i < j /\ Between(log, i, j) \subseteq Of(log, "tool") /\ j \in Followers(log, i)
    BY <1>3, <1>4, <1>5, <1>6 DEF Rounds, Asks, Followers
  <2>2. CASE cut = Latest(rest) + 1
    BY <1>3, <2>1, <2>2
  <2>3. CASE cut \in groups
    <3>1. cut \in DOMAIN log /\ cut \in Nat /\ cut \notin Followers(log, i)
      BY <1>3, <2>1, <2>3
    <3> HIDE DEF rest, groups, gone
    <3>2. ~ (i < cut /\ cut < j)
      <4> SUFFICES ASSUME i < cut, cut < j PROVE FALSE
        OBVIOUS
      <4>1. cut \in Between(log, i, j)
        BY <3>1 DEF Between
      <4>2. Between(log, i, cut) \subseteq Between(log, i, j)
        BY <2>1, <3>1 DEF Between, IsLog
      <4> QED
        BY <2>1, <3>1, <4>1, <4>2 DEF Followers
    <3>3. cut # j
      BY <2>1, <3>1
    <3> QED
      BY <2>1, <3>1, <3>2, <3>3
  <2> QED
    BY <1>1, <2>2, <2>3
<1>7. \A i, j : Asks(log, i, j) => (i \notin gone <=> j \notin gone)
  BY <1>4, <1>5, <1>6 DEF Asks
<1> HIDE DEF rest, groups, gone
<1>8. Rounds(Erase(log, gone))
  <2>1. DOMAIN Erase(log, gone) = DOMAIN log \ gone
        /\ \A i \in DOMAIN log \ gone : Erase(log, gone)[i] = log[i]
    BY EraseFacts
  <2>2. Callers(Erase(log, gone)) = Callers(log) \ gone
    BY <2>1 DEF Callers
  <2>3. \A i, j : Asks(log, i, j) => (i \in Callers(Erase(log, gone)) <=> j \in DOMAIN Erase(log, gone))
    BY <1>7, <2>1, <2>2 DEF Asks, Of
  <2>4. \A i \in Callers(Erase(log, gone)) : Erase(log, gone)[i].calls = log[i].calls
    BY <2>1, <2>2 DEF Callers
  <2> QED
    BY <2>3, <2>4, EraseTakesAway, WholeRounds
<1> QED
  BY <1>2, <1>8

\* Of distinct ids, enforceToolCallPairs pins the partners of what is pinned,
LEMMA PartnersArePairs ==
  ASSUME NEW log, IsLog(log), Distinct(log), NEW pins \in SUBSET DOMAIN log
  PROVE  PinPartners(log, pins) =
           {k \in DOMAIN log : k \in pins \/ \E p \in pins : Asks(log, k, p) \/ Asks(log, p, k)}
<1> DEFINE callers(id) == {i \in Callers(log) : id \in log[i].calls}
           results(id) == {j \in Of(log, "tool") : log[j].id = id}
           asked    == {log[j].id : j \in pins \cap Of(log, "tool")}
           answered == UNION {log[i].calls : i \in pins}
<1>1. PinPartners(log, pins) = pins
        \cup {Latest(callers(id)) : id \in {k \in asked : callers(k) # {}}}
        \cup {Latest(results(id)) : id \in {k \in answered : results(k) # {}}}
  BY DEF PinPartners
<1>2. ASSUME NEW i \in DOMAIN log PROVE Latest({i}) = i
  <2>1. i \in {i} /\ \A j \in {i} : j <= i
    BY DEF IsLog
  <2> QED
    BY <2>1 DEF Latest
<1>3. ASSUME NEW id, NEW i \in callers(id) PROVE Latest(callers(id)) = i
  <2>1. i \in Callers(log) /\ id \in log[i].calls /\ i \in DOMAIN log
    BY DEF Callers
  <2>2. callers(id) = {i}
    BY <2>1, OneEach
  <2> QED
    BY <1>2, <2>1, <2>2
<1>4. ASSUME NEW id, NEW j \in results(id) PROVE Latest(results(id)) = j
  <2>1. j \in Of(log, "tool") /\ log[j].id = id /\ j \in DOMAIN log
    BY DEF Of
  <2>2. results(id) = {j}
    BY <2>1, OneEach
  <2> QED
    BY <1>2, <2>1, <2>2
<1>5. ASSUME NEW k
      PROVE  k \in {Latest(callers(id)) : id \in {a \in asked : callers(a) # {}}}
               <=> \E p \in pins : Asks(log, k, p)
  <2>1. ASSUME NEW id \in asked, callers(id) # {}, k = Latest(callers(id))
        PROVE  \E p \in pins : Asks(log, k, p)
    <3>1. PICK p \in pins \cap Of(log, "tool") : id = log[p].id
      OBVIOUS
    <3>2. k \in callers(id)
      BY <1>3, <2>1
    <3> QED
      BY <3>1, <3>2 DEF Asks
  <2>2. ASSUME NEW p \in pins, Asks(log, k, p)
        PROVE  \E id \in asked : callers(id) # {} /\ k = Latest(callers(id))
    <3>1. log[p].id \in asked /\ k \in callers(log[p].id)
      BY <2>2 DEF Asks
    <3> QED
      BY <1>3, <3>1
  <2> HIDE DEF callers, asked
  <2> QED
    BY <2>1, <2>2
<1>6. ASSUME NEW k
      PROVE  k \in {Latest(results(id)) : id \in {a \in answered : results(a) # {}}}
               <=> \E p \in pins : Asks(log, p, k)
  <2>1. ASSUME NEW id \in answered, results(id) # {}, k = Latest(results(id))
        PROVE  \E p \in pins : Asks(log, p, k)
    <3>1. PICK p \in pins : id \in log[p].calls
      OBVIOUS
    <3>2. k \in results(id)
      BY <1>4, <2>1
    <3> QED
      BY <3>1, <3>2 DEF Asks, Callers
  <2>2. ASSUME NEW p \in pins, Asks(log, p, k)
        PROVE  \E id \in answered : results(id) # {} /\ k = Latest(results(id))
    <3>1. log[k].id \in answered /\ k \in results(log[k].id)
      BY <2>2 DEF Asks
    <3> QED
      BY <1>4, <3>1
  <2> HIDE DEF results, answered
  <2> QED
    BY <2>1, <2>2
<1>7. \A k, p : Asks(log, k, p) => k \in DOMAIN log /\ p \in DOMAIN log
  BY DEF Asks, Callers, Of
<1> DEFINE up   == {Latest(callers(id)) : id \in {k \in asked : callers(k) # {}}}
           down == {Latest(results(id)) : id \in {k \in answered : results(k) # {}}}
<1>8. PinPartners(log, pins) = pins \cup up \cup down
  BY <1>1
<1>9. \A k : (k \in up <=> \E p \in pins : Asks(log, k, p))
             /\ (k \in down <=> \E p \in pins : Asks(log, p, k))
  BY <1>5, <1>6
<1> HIDE DEF up, down, callers, results, asked, answered
<1> QED
  BY <1>7, <1>8, <1>9

\* and after a second pass no round is pinned in part.
LEMMA TwoPasses ==
  ASSUME NEW log, IsLog(log), Distinct(log), NEW pins \in SUBSET DOMAIN log,
         NEW i, NEW j, Asks(log, i, j)
  PROVE  i \in PinPartners(log, PinPartners(log, pins))
           <=> j \in PinPartners(log, PinPartners(log, pins))
<1> DEFINE once  == PinPartners(log, pins)
           twice == PinPartners(log, once)
<1>1. once = {k \in DOMAIN log : k \in pins \/ \E p \in pins : Asks(log, k, p) \/ Asks(log, p, k)}
  BY PartnersArePairs
<1> HIDE DEF once
<1>2. twice = {k \in DOMAIN log : k \in once \/ \E p \in once : Asks(log, k, p) \/ Asks(log, p, k)}
  BY <1>1, PartnersArePairs
<1> HIDE DEF twice
<1>3. i \in DOMAIN log /\ j \in DOMAIN log /\ ~ (\E k : Asks(log, k, i)) /\ ~ (\E k : Asks(log, j, k))
  BY CallersAreAssistants DEF Asks, Callers, Of
<1>4. i \in once <=> i \in pins \/ \E p \in pins : Asks(log, i, p)
  BY <1>1, <1>3
<1>5. j \in once <=> j \in pins \/ i \in pins
  BY <1>1, <1>3, OneEach
<1>6. i \in twice <=> i \in once \/ \E p \in once : Asks(log, i, p)
  BY <1>2, <1>3
<1>7. j \in twice <=> j \in once \/ i \in once
  BY <1>2, <1>3, OneEach
<1>8. ASSUME i \in twice PROVE j \in twice
  <2>1. CASE i \in once
    BY <1>7, <2>1
  <2>2. CASE i \notin once
    <3>1. PICK p \in once : Asks(log, i, p)
      BY <1>6, <1>8, <2>2
    <3>2. p \notin pins /\ i \notin pins
      BY <1>4, <2>2, <3>1
    <3>3. PICK q \in pins : Asks(log, q, p) \/ Asks(log, p, q)
      BY <1>1, <3>1, <3>2
    <3>4. ~ Asks(log, p, q)
      BY <3>1, CallersAreAssistants DEF Asks
    <3>5. q = i
      BY <3>1, <3>3, <3>4, OneEach
    <3> QED
      BY <3>2, <3>3, <3>5
  <2> QED
    BY <2>1, <2>2
<1>9. ASSUME j \in twice PROVE i \in twice
  BY <1>5, <1>6, <1>7, <1>9
<1> QED
  BY <1>8, <1>9 DEF once, twice

\* A system message in front of every call breaks no round.
LEMMA PutRounds ==
  ASSUME NEW log, IsLog(log), Rounds(log), NEW at \in Nat, at \notin DOMAIN log,
         \A i \in Callers(log) : at < i
  PROVE  Rounds(Put(log, at, Text("system")))
<1> DEFINE put == Put(log, at, Text("system"))
<1>1. /\ DOMAIN put = DOMAIN log \cup {at}
      /\ \A i \in DOMAIN log : put[i] = log[i]
      /\ put[at].role = "system" /\ put[at].calls = {}
  BY DEF Put, Text
<1> HIDE DEF put
<1>2. Callers(put) = Callers(log) /\ Of(put, "tool") = Of(log, "tool")
  BY <1>1 DEF Callers, Of
<1>3. \A i \in Callers(log) : put[i] = log[i] /\ \A j : Between(put, i, j) = Between(log, i, j)
  <2> TAKE i \in Callers(log)
  <2>1. i \in Nat /\ at < i /\ ~ (i < at) /\ i \in DOMAIN log
    BY CallersAreAssistants DEF Callers
  <2> QED
    BY <1>1, <2>1 DEF Between
<1>4. \A j \in Of(log, "tool") : put[j] = log[j]
  BY <1>1 DEF Of
<1>5. \A i, j : Asks(put, i, j) <=> Asks(log, i, j)
  BY <1>2, <1>3, <1>4 DEF Asks
<1>6. \A i \in Callers(log) : Followers(put, i) = Followers(log, i)
  BY <1>2, <1>3 DEF Followers
<1>7. \A i, j : Asks(put, i, j) => j \in Followers(put, i)
  BY <1>5, <1>6 DEF Rounds, Asks
<1>8. \A j \in Of(put, "tool") : \E i \in Callers(put) : Asks(put, i, j)
  BY <1>2, <1>5 DEF Rounds
<1>9. \A i \in Callers(put) : \A id \in put[i].calls :
        \E j \in Of(put, "tool") : Asks(put, i, j) /\ put[j].id = id
  BY <1>2, <1>3, <1>4, <1>5 DEF Rounds
<1> QED
  BY <1>7, <1>8, <1>9 DEF Rounds, put

\* A compaction summarizes a round as a whole or keeps it; its own repair finds
\* nothing to do.
LEMMA CompactPaired ==
  ASSUME NEW log, NEW next, Fits(log, next), Distinct(log), Rounds(log),
         \A i \in DOMAIN log : IsSummary(i) => log[i].role = "system",
         0 \notin DOMAIN log
  PROVE  Rounds(Compact(log))
<1> DEFINE gone     == Summarized(log)
           kept     == Erase(log, gone)
           slot     == SummarySlot(kept)
           summed   == Put(kept, slot, Text("system"))
           called   == {summed[j].id : j \in Of(summed, "tool")}
           silent   == {c \in Callers(summed) : summed[c].calls \cap called = {}}
           stripped == Strip(summed, silent)
           stray    == Uncalled(stripped)
<1>1. Compact(log) = IF gone = {} THEN log ELSE Erase(stripped, stray)
  BY DEF Compact
<1> SUFFICES ASSUME gone # {} PROVE Rounds(Erase(stripped, stray))
  BY <1>1
<1>2. /\ IsLog(log) /\ next \in Nat /\ next % 2 = 0 /\ next > 0
      /\ \A i \in DOMAIN log : i < next
  BY DEF Fits
<1>3. \A i, j : Asks(log, i, j) => (i \in gone <=> j \in gone)
  <2> DEFINE chosen == Recent(log) \cup Lead(log) \cup {i \in DOMAIN log : log[i].marked}
             first  == PinPartners(log, chosen)
             paired == PinPartners(log, PinPartners(log, first))
  <2>1. gone = DOMAIN log \ {i \in KeepUser(log, paired) : ~ IsSummary(i)}
    BY DEF Summarized, Pinned
  <2>2. chosen \in SUBSET DOMAIN log
    BY DEF Recent, Lead
  <2> HIDE DEF chosen
  <2>3. first \in SUBSET DOMAIN log
    BY <1>2, <2>2, PartnersArePairs
  <2> HIDE DEF first, gone
  <2> SUFFICES ASSUME NEW i, NEW j, Asks(log, i, j) PROVE i \in gone <=> j \in gone
    OBVIOUS
  <2>4. i \in paired <=> j \in paired
    BY <1>2, <2>3, TwoPasses
  <2>5. /\ i \in DOMAIN log /\ log[i].role = "assistant"
        /\ j \in DOMAIN log /\ log[j].role = "tool"
    BY <1>2, CallersAreAssistants DEF Asks, Callers, Of
  <2>6. ~ IsSummary(i) /\ ~ IsSummary(j)
    BY <2>5
  <2> HIDE DEF paired
  <2>7. \A k \in DOMAIN log : log[k].role # "user" => (k \in KeepUser(log, paired) <=> k \in paired)
    <3>1. Of(log, "user") # {} => Latest(Of(log, "user")) \in Of(log, "user")
      <4>1. Of(log, "user") \in SUBSET (0 .. next)
        BY <1>2 DEF Of, IsLog
      <4> QED
        BY <1>2, <4>1, LatestIn
    <3> QED
      BY <3>1 DEF KeepUser, Of
  <2> QED
    BY <2>1, <2>4, <2>5, <2>6, <2>7
<1>4. \A i \in DOMAIN log \ gone : ~ IsSummary(i)
  BY DEF Summarized, Pinned
<1> HIDE DEF gone
<1>5. /\ IsLog(kept) /\ DOMAIN kept = DOMAIN log \ gone
      /\ \A i \in DOMAIN log \ gone : kept[i] = log[i]
  BY <1>2, EraseFacts
<1>6. Rounds(kept)
  <2>1. TakesAway(log, kept)
    BY <1>2, EraseTakesAway
  <2> HIDE DEF kept
  <2>2. Callers(kept) = Callers(log) \ gone
    BY <1>5 DEF Callers
  <2>3. \A i, j : Asks(log, i, j) => (i \in Callers(kept) <=> j \in DOMAIN kept)
    BY <1>3, <1>5, <2>2 DEF Asks, Of
  <2>4. \A i \in Callers(kept) : kept[i].calls = log[i].calls
    BY <1>5, <2>2 DEF Callers
  <2> QED
    BY <2>1, <2>3, <2>4, WholeRounds
<1> HIDE DEF kept
<1>7. IsLog(summed) /\ Rounds(summed)
  <2>1. slot \in Nat /\ IsSummary(slot)
    BY <1>2, <1>5, SlotIsBelow, SlotIsOdd
  <2>2. slot \notin DOMAIN kept
    BY <1>4, <1>5, <2>1
  <2>3. \A i \in Callers(kept) : slot < i
    <3>1. 0 \notin Callers(kept)
      BY <1>5 DEF Callers
    <3> QED
      BY <1>2, <1>4, <1>5, <3>1, SlotIsEarly
  <2>4. Text("system") \in Message
    BY MessageTypes DEF Roles
  <2> HIDE DEF slot
  <2>5. IsLog(Put(kept, slot, Text("system")))
    BY <1>5, <2>1, <2>4, PutFacts
  <2>6. Rounds(Put(kept, slot, Text("system")))
    BY <1>5, <1>6, <2>1, <2>2, <2>3, PutRounds
  <2> QED
    BY <2>5, <2>6
<1> HIDE DEF summed
<1>8. silent = {}
  <2> SUFFICES ASSUME NEW c \in Callers(summed) PROVE summed[c].calls \cap called # {}
    OBVIOUS
  <2>1. PICK id \in summed[c].calls : TRUE
    BY DEF Callers
  <2>2. PICK j \in Of(summed, "tool") : summed[j].id = id
    BY <1>7 DEF Rounds
  <2> QED
    BY <2>2
<1> HIDE DEF silent
<1>9. stripped = summed
  BY <1>7, <1>8 DEF Strip, IsLog
<1>10. stray = {}
  <2>1. WellPaired(summed)
    BY <1>7, RoundsArePaired
  <2> QED
    BY <1>9, <2>1 DEF WellPaired, NoStrayResult, Attached, Followers, Uncalled
<1> HIDE DEF stripped, stray
<1>11. Erase(stripped, stray) = summed
  BY <1>7, <1>9, <1>10 DEF Erase, Restrict, IsLog
<1> QED
  BY <1>7, <1>11

-----------------------------------------------------------------------------
(* Gaps: only the order of the positions matters *)

\* h takes the messages of a to those of b, each to an equal one, in order.
Carries(h, a, b) ==
  /\ h \in [DOMAIN a -> DOMAIN b]
  /\ \A i, j \in DOMAIN a : i < j => h[i] < h[j]
  /\ \A k \in DOMAIN b : \E i \in DOMAIN a : h[i] = k
  /\ \A i \in DOMAIN a : b[h[i]] = a[i]

\* The same messages in the same order, wherever the gaps are.
Alike(a, b) == \E h : Carries(h, a, b)

LEMMA CarriesOrder ==
  ASSUME NEW a, IsLog(a), NEW b, IsLog(b), NEW h, Carries(h, a, b)
  PROVE  /\ \A i \in DOMAIN a : i \in Nat /\ h[i] \in DOMAIN b /\ h[i] \in Nat /\ b[h[i]] = a[i]
         /\ \A i, j \in DOMAIN a : i < j <=> h[i] < h[j]
         /\ \A i, j \in DOMAIN a : h[i] = h[j] => i = j
<1>1. \A i \in DOMAIN a : i \in Nat /\ h[i] \in DOMAIN b /\ h[i] \in Nat /\ b[h[i]] = a[i]
  BY DEF IsLog, Carries
<1>2. \A i, j \in DOMAIN a : i < j => h[i] < h[j]
  BY DEF Carries
<1>3. ASSUME NEW i \in DOMAIN a, NEW j \in DOMAIN a
      PROVE  (i < j <=> h[i] < h[j]) /\ (h[i] = h[j] => i = j)
  <2>1. i \in Nat /\ j \in Nat /\ h[i] \in Nat /\ h[j] \in Nat
    BY <1>1
  <2>2. (i < j => h[i] < h[j]) /\ (j < i => h[j] < h[i])
    BY <1>2
  <2> QED
    BY <2>1, <2>2
<1> QED
  BY <1>1, <1>3

LEMMA CarriesAnswers ==
  ASSUME NEW a, IsLog(a), NEW b, IsLog(b), NEW h, Carries(h, a, b), NEW i \in DOMAIN a
  PROVE  Answers(a, i) = Answers(b, h[i])
<1>1. /\ \A k \in DOMAIN a : h[k] \in DOMAIN b /\ b[h[k]] = a[k]
      /\ \A k, j \in DOMAIN a : k < j <=> h[k] < h[j]
      /\ \A k \in DOMAIN b : \E j \in DOMAIN a : h[j] = k
  BY CarriesOrder DEF Carries
<1>2. ASSUME NEW k \in DOMAIN a
      PROVE  Between(a, i, k) \cap Of(a, "assistant") = {}
               <=> Between(b, h[i], h[k]) \cap Of(b, "assistant") = {}
  <2>1. ASSUME NEW j \in Between(a, i, k) \cap Of(a, "assistant")
        PROVE  h[j] \in Between(b, h[i], h[k]) \cap Of(b, "assistant")
    BY <1>1, <2>1 DEF Between, Of
  <2>2. ASSUME NEW l \in Between(b, h[i], h[k]) \cap Of(b, "assistant")
        PROVE  \E j \in DOMAIN a : j \in Between(a, i, k) \cap Of(a, "assistant")
    <3>1. PICK j \in DOMAIN a : h[j] = l
      BY <1>1 DEF Between
    <3> QED
      BY <1>1, <2>2, <3>1 DEF Between, Of
  <2> QED
    BY <2>1, <2>2
<1>3. ASSUME NEW id \in Answers(a, i) PROVE id \in Answers(b, h[i])
  <2>1. PICK k \in Of(a, "tool") :
          i < k /\ Between(a, i, k) \cap Of(a, "assistant") = {} /\ a[k].id = id
    BY <1>3 DEF Answers
  <2>2. h[k] \in Of(b, "tool") /\ h[i] < h[k] /\ b[h[k]].id = id
    BY <1>1, <2>1 DEF Of
  <2>3. Between(b, h[i], h[k]) \cap Of(b, "assistant") = {}
    BY <1>2, <2>1 DEF Of
  <2> QED
    BY <2>2, <2>3 DEF Answers
<1>4. ASSUME NEW id \in Answers(b, h[i]) PROVE id \in Answers(a, i)
  <2>1. PICK l \in Of(b, "tool") :
          h[i] < l /\ Between(b, h[i], l) \cap Of(b, "assistant") = {} /\ b[l].id = id
    BY <1>4 DEF Answers
  <2>2. PICK k \in DOMAIN a : h[k] = l
    BY <1>1, <2>1 DEF Of
  <2>3. k \in Of(a, "tool") /\ i < k /\ a[k].id = id
    BY <1>1, <2>1, <2>2 DEF Of
  <2>4. Between(a, i, k) \cap Of(a, "assistant") = {}
    BY <1>2, <2>1, <2>2
  <2> QED
    BY <2>3, <2>4 DEF Answers
<1> QED
  BY <1>3, <1>4

LEMMA CarriesStrip ==
  ASSUME NEW a, IsLog(a), NEW b, IsLog(b), NEW h, Carries(h, a, b)
  PROVE  Carries(h, RepairCalls(a), RepairCalls(b))
<1>1. /\ \A k \in DOMAIN a : h[k] \in DOMAIN b /\ b[h[k]] = a[k]
      /\ \A k \in DOMAIN a : Answers(a, k) = Answers(b, h[k])
  BY CarriesOrder, CarriesAnswers
<1>2. \A k \in DOMAIN a : k \in Unanswered(a) <=> h[k] \in Unanswered(b)
  BY <1>1 DEF Unanswered, Callers
<1>3. \A log : RepairCalls(log)
                 = [i \in DOMAIN log |-> IF i \in Unanswered(log) THEN Bare(log[i]) ELSE log[i]]
  BY DEF RepairCalls, Strip
<1> QED
  BY <1>1, <1>2, <1>3 DEF Carries

LEMMA CarriesUncalled ==
  ASSUME NEW a, IsLog(a), NEW b, IsLog(b), NEW h, Carries(h, a, b), NEW j \in DOMAIN a
  PROVE  j \in Uncalled(a) <=> h[j] \in Uncalled(b)
<1>1. /\ \A k \in DOMAIN a : h[k] \in DOMAIN b /\ b[h[k]] = a[k]
      /\ \A k, l \in DOMAIN a : k < l <=> h[k] < h[l]
      /\ \A k \in DOMAIN b : \E l \in DOMAIN a : h[l] = k
  BY CarriesOrder DEF Carries
<1>2. j \in Of(a, "tool") <=> h[j] \in Of(b, "tool")
  BY <1>1 DEF Of
<1>3. (\E i \in Callers(a) : i < j /\ a[j].id \in a[i].calls)
        <=> \E i \in Callers(b) : i < h[j] /\ b[h[j]].id \in b[i].calls
  <2>1. ASSUME NEW i \in Callers(a), i < j, a[j].id \in a[i].calls
        PROVE  h[i] \in Callers(b) /\ h[i] < h[j] /\ b[h[j]].id \in b[h[i]].calls
    BY <1>1, <2>1 DEF Callers
  <2>2. ASSUME NEW k \in Callers(b), k < h[j], b[h[j]].id \in b[k].calls
        PROVE  \E i \in Callers(a) : i < j /\ a[j].id \in a[i].calls
    <3>1. PICK i \in DOMAIN a : h[i] = k
      BY <1>1 DEF Callers
    <3>2. i \in Callers(a) /\ i < j /\ a[j].id \in a[i].calls
      BY <1>1, <2>2, <3>1 DEF Callers
    <3> QED
      BY <3>2
  <2> QED
    BY <2>1, <2>2
<1> QED
  BY <1>2, <1>3 DEF Uncalled

LEMMA CarriesErase ==
  ASSUME NEW a, IsLog(a), NEW b, IsLog(b), NEW h, Carries(h, a, b), NEW S, NEW T,
         \A i \in DOMAIN a : i \in S <=> h[i] \in T
  PROVE  Carries([i \in DOMAIN a \ S |-> h[i]], Erase(a, S), Erase(b, T))
<1>1. /\ DOMAIN Erase(a, S) = DOMAIN a \ S /\ \A i \in DOMAIN a \ S : Erase(a, S)[i] = a[i]
      /\ DOMAIN Erase(b, T) = DOMAIN b \ T /\ \A i \in DOMAIN b \ T : Erase(b, T)[i] = b[i]
  BY EraseFacts
<1> DEFINE g == [i \in DOMAIN a \ S |-> h[i]]
<1>2. \A i \in DOMAIN a \ S : g[i] = h[i] /\ g[i] \in DOMAIN b \ T
  BY DEF Carries
<1>3. g \in [DOMAIN a \ S -> DOMAIN b \ T]
  BY <1>2
<1> HIDE DEF g
<1>4. \A k \in DOMAIN b \ T : \E i \in DOMAIN a \ S : g[i] = k
  BY <1>2 DEF Carries
<1>5. /\ \A i, j \in DOMAIN a \ S : i < j => g[i] < g[j]
      /\ \A i \in DOMAIN a \ S : Erase(b, T)[g[i]] = Erase(a, S)[i]
  BY <1>1, <1>2 DEF Carries
<1>6. Carries(g, Erase(a, S), Erase(b, T))
  BY <1>1, <1>3, <1>4, <1>5 DEF Carries
<1> QED
  BY <1>6 DEF g

\* What the repair does to a conversation depends on the order of its messages only:
\* two that are alike are alike behind it.
THEOREM RepairIgnoresGaps ==
  ASSUME NEW a, IsLog(a), NEW b, IsLog(b), Alike(a, b)
  PROVE  Alike(Repair(a), Repair(b))
<1>1. PICK h : Carries(h, a, b)
  BY DEF Alike
<1> DEFINE s == RepairCalls(a)
           t == RepairCalls(b)
<1>2. Carries(h, s, t) /\ IsLog(s) /\ IsLog(t)
  BY <1>1, CarriesStrip, StripFacts DEF RepairCalls
<1>3. Repair(a) = Erase(s, Uncalled(s)) /\ Repair(b) = Erase(t, Uncalled(t))
  BY DEF Repair, RepairCalls
<1> HIDE DEF s, t
<1>4. \A i \in DOMAIN s : i \in Uncalled(s) <=> h[i] \in Uncalled(t)
  BY <1>2, CarriesUncalled
<1>5. Carries([i \in DOMAIN s \ Uncalled(s) |-> h[i]], Repair(a), Repair(b))
  BY <1>2, <1>3, <1>4, CarriesErase
<1> QED
  BY <1>5 DEF Alike

LEMMA AlikeItself ==
  ASSUME NEW a PROVE Alike(a, a)
<1>1. Carries([i \in DOMAIN a |-> i], a, a)
  BY DEF Carries
<1> QED
  BY <1>1 DEF Alike

\* A message appended to both leaves them alike.
LEMMA PutAlike ==
  ASSUME NEW a, IsLog(a), NEW b, IsLog(b), Alike(a, b), NEW m,
         NEW n \in Nat, \A i \in DOMAIN a : i < n,
         NEW k \in Nat, \A i \in DOMAIN b : i < k
  PROVE  Alike(Put(a, n, m), Put(b, k, m))
<1>1. PICK h : Carries(h, a, b)
  BY DEF Alike
<1> DEFINE g == [i \in DOMAIN a \cup {n} |-> IF i = n THEN k ELSE h[i]]
<1>2. n \notin DOMAIN a /\ k \notin DOMAIN b
  BY DEF IsLog
<1>3. /\ g[n] = k /\ \A i \in DOMAIN a : g[i] = h[i] /\ g[i] \in DOMAIN b
      /\ g \in [DOMAIN a \cup {n} -> DOMAIN b \cup {k}]
  BY <1>1, <1>2 DEF Carries
<1> HIDE DEF g
<1>4. /\ DOMAIN Put(a, n, m) = DOMAIN a \cup {n} /\ DOMAIN Put(b, k, m) = DOMAIN b \cup {k}
      /\ Put(a, n, m)[n] = m /\ Put(b, k, m)[k] = m
      /\ \A i \in DOMAIN a : Put(a, n, m)[i] = a[i]
      /\ \A i \in DOMAIN b : Put(b, k, m)[i] = b[i]
  BY <1>2 DEF Put
<1>5. ASSUME NEW i \in DOMAIN a \cup {n}, NEW j \in DOMAIN a \cup {n}, i < j
      PROVE  g[i] < g[j]
  <2>1. i \in Nat /\ j \in Nat /\ i # n
    BY <1>5 DEF IsLog
  <2>2. CASE j = n
    BY <1>3, <2>1, <2>2
  <2>3. CASE j # n
    BY <1>1, <1>3, <1>5, <2>1, <2>3 DEF Carries
  <2> QED
    BY <2>2, <2>3
<1>6. \A l \in DOMAIN b \cup {k} : \E i \in DOMAIN a \cup {n} : g[i] = l
  BY <1>1, <1>3 DEF Carries
<1>7. \A i \in DOMAIN a \cup {n} : Put(b, k, m)[g[i]] = Put(a, n, m)[i]
  BY <1>1, <1>3, <1>4 DEF Carries
<1>8. Carries(g, Put(a, n, m), Put(b, k, m))
  BY <1>3, <1>4, <1>5, <1>6, <1>7 DEF Carries
<1> QED
  BY <1>8 DEF Alike

-----------------------------------------------------------------------------
(* A conversation that was repaired once and then went on *)

\* What is in front of the position n has been repaired, the rest came behind.
Early(log, n) == Restrict(log, {i \in DOMAIN log : i < n})

Continued(log, n) ==
  [i \in DOMAIN Repair(Early(log, n)) \cup {k \in DOMAIN log : n <= k} |->
     IF i < n THEN Repair(Early(log, n))[i] ELSE log[i]]

\* From n on a result has a round of its own in front of it.
OwnRounds(log, n) ==
  \A j \in Of(log, "tool") : n <= j => \E i \in Of(log, "assistant") : n <= i /\ i < j

LEMMA FrontFacts ==
  ASSUME NEW log, IsLog(log), NEW n \in Nat
  PROVE  /\ IsLog(Early(log, n))
         /\ DOMAIN Early(log, n) = {i \in DOMAIN log : i < n}
         /\ \A i \in DOMAIN Early(log, n) : Early(log, n)[i] = log[i]
BY DEF Early, Restrict, IsLog

LEMMA ContinuedFacts ==
  ASSUME NEW log, IsLog(log), NEW n \in Nat
  PROVE  LET front == Repair(Early(log, n))
             all   == Continued(log, n)
         IN  /\ IsLog(all) /\ IsLog(front)
             /\ DOMAIN all = DOMAIN front \cup {k \in DOMAIN log : n <= k}
             /\ \A i \in DOMAIN front : i \in Nat /\ i < n /\ i \in DOMAIN log /\ all[i] = front[i]
             /\ \A i \in DOMAIN log : n <= i => ~ (i < n) /\ i \in DOMAIN all /\ all[i] = log[i]
<1> DEFINE front == Repair(Early(log, n))
           all == Continued(log, n)
<1>1. IsLog(front) /\ DOMAIN front \subseteq {i \in DOMAIN log : i < n}
  BY FrontFacts, RepairFacts
<1>2. /\ DOMAIN all = DOMAIN front \cup {k \in DOMAIN log : n <= k}
      /\ all = [i \in DOMAIN all |-> IF i < n THEN front[i] ELSE log[i]]
  BY DEF Continued
<1> HIDE DEF front, all
<1>3. DOMAIN log \in SUBSET Nat /\ \A i \in DOMAIN log : log[i] \in Message
  BY DEF IsLog
<1>4. DOMAIN front \in SUBSET Nat /\ \A i \in DOMAIN front : front[i] \in Message
  BY <1>1 DEF IsLog
<1>5. \A i \in DOMAIN front : i \in Nat /\ i < n /\ i \in DOMAIN log /\ all[i] = front[i]
  BY <1>1, <1>2, <1>3
<1>6. \A i \in DOMAIN log : n <= i => ~ (i < n) /\ i \in DOMAIN all /\ all[i] = log[i]
  BY <1>2, <1>3
<1>7. IsLog(all)
  <2>1. DOMAIN all \in SUBSET Nat
    BY <1>2, <1>3, <1>4
  <2>2. all = [i \in DOMAIN all |-> all[i]]
    BY <1>2
  <2>3. \A i \in DOMAIN all : all[i] \in Message
    BY <1>2, <1>3, <1>4, <1>5, <1>6
  <2> QED
    BY <2>1, <2>2, <2>3 DEF IsLog
<1> QED
  BY <1>1, <1>2, <1>5, <1>6, <1>7 DEF front, all

\* The answers to a call in front of n lie in front of n ...
LEMMA AnswersInFront ==
  ASSUME NEW log, IsLog(log), NEW n \in Nat, OwnRounds(log, n),
         NEW f, IsLog(f), DOMAIN f = {i \in DOMAIN log : i < n},
         \A i \in DOMAIN f : f[i] = log[i],
         NEW i \in DOMAIN f
  PROVE  Answers(log, i) = Answers(f, i)
<1>0. DOMAIN log \in SUBSET Nat /\ i \in Nat /\ i < n
  BY DEF IsLog
<1>1. ASSUME NEW k \in DOMAIN f
      PROVE  Between(log, i, k) \cap Of(log, "assistant") = Between(f, i, k) \cap Of(f, "assistant")
  <2> SUFFICES ASSUME NEW j PROVE j \in Between(log, i, k) \cap Of(log, "assistant")
                             <=> j \in Between(f, i, k) \cap Of(f, "assistant")
    OBVIOUS
  <2>1. k \in Nat /\ k < n
    BY <1>0
  <2>2. j \in DOMAIN log /\ j < k => j \in DOMAIN f
    BY <1>0, <2>1
  <2> QED
    BY <2>2 DEF Between, Of
<1>2. ASSUME NEW id \in Answers(log, i) PROVE id \in Answers(f, i)
  <2>1. PICK k \in Of(log, "tool") :
          i < k /\ Between(log, i, k) \cap Of(log, "assistant") = {} /\ log[k].id = id
    BY <1>2 DEF Answers
  <2>2. k < n
    <3> SUFFICES ASSUME n <= k PROVE FALSE
      BY <1>0 DEF Of
    <3>1. PICK j \in Of(log, "assistant") : n <= j /\ j < k
      BY DEF OwnRounds
    <3>2. j \in Between(log, i, k)
      BY <1>0, <3>1 DEF Between, Of
    <3> QED
      BY <2>1, <3>1, <3>2
  <2>3. k \in Of(f, "tool") /\ f[k].id = id
    BY <2>1, <2>2 DEF Of
  <2>4. Between(f, i, k) \cap Of(f, "assistant") = {}
    BY <1>1, <2>1, <2>3 DEF Of
  <2> QED
    BY <2>1, <2>3, <2>4 DEF Answers
<1>3. ASSUME NEW id \in Answers(f, i) PROVE id \in Answers(log, i)
  <2>1. PICK k \in Of(f, "tool") :
          i < k /\ Between(f, i, k) \cap Of(f, "assistant") = {} /\ f[k].id = id
    BY <1>3 DEF Answers
  <2>2. k \in DOMAIN f /\ k \in Of(log, "tool") /\ log[k].id = id
    BY <2>1 DEF Of
  <2>3. Between(log, i, k) \cap Of(log, "assistant") = {}
    BY <1>1, <2>1, <2>2
  <2> QED
    BY <2>1, <2>2, <2>3 DEF Answers
<1> QED
  BY <1>2, <1>3

\* ... and those to a later one do not depend on what is in front.
LEMMA AnswersBehind ==
  ASSUME NEW a, IsLog(a), NEW b, IsLog(b), NEW n \in Nat,
         {k \in DOMAIN a : n <= k} = {k \in DOMAIN b : n <= k},
         \A k \in DOMAIN a : n <= k => a[k] = b[k],
         NEW i \in DOMAIN a, n <= i
  PROVE  Answers(a, i) = Answers(b, i)
<1>0. DOMAIN a \in SUBSET Nat /\ DOMAIN b \in SUBSET Nat /\ i \in Nat
  BY DEF IsLog
<1>1. \A k : i < k => (k \in DOMAIN a <=> k \in DOMAIN b) /\ (k \in DOMAIN a => a[k] = b[k])
  <2> SUFFICES ASSUME NEW k, i < k
               PROVE  (k \in DOMAIN a <=> k \in DOMAIN b) /\ (k \in DOMAIN a => a[k] = b[k])
    OBVIOUS
  <2>1. k \in DOMAIN a \cup DOMAIN b => n <= k
    BY <1>0
  <2> QED
    BY <2>1
<1>2. \A k : Between(a, i, k) \cap Of(a, "assistant") = Between(b, i, k) \cap Of(b, "assistant")
  BY <1>1 DEF Between, Of
<1>3. ASSUME NEW id PROVE id \in Answers(a, i) <=> id \in Answers(b, i)
  <2>1. \A k : i < k => (k \in Of(a, "tool") <=> k \in Of(b, "tool"))
    BY <1>1 DEF Of
  <2>2. \A k \in Of(a, "tool") : i < k => a[k].id = b[k].id
    BY <1>1 DEF Of
  <2>3. id \in Answers(a, i) <=>
          \E k \in Of(a, "tool") :
             i < k /\ Between(a, i, k) \cap Of(a, "assistant") = {} /\ a[k].id = id
    BY DEF Answers
  <2>4. id \in Answers(b, i) <=>
          \E k \in Of(b, "tool") :
             i < k /\ Between(b, i, k) \cap Of(b, "assistant") = {} /\ b[k].id = id
    BY DEF Answers
  <2> QED
    BY <1>2, <2>1, <2>2, <2>3, <2>4
<1> QED
  BY <1>3

LEMMA RepairCallsFacts ==
  ASSUME NEW log, IsLog(log)
  PROVE  LET s == RepairCalls(log)
         IN  /\ IsLog(s) /\ DOMAIN s = DOMAIN log
             /\ \A i \in DOMAIN log : s[i] = IF i \in Unanswered(log) THEN Bare(log[i]) ELSE log[i]
             /\ Repair(log) = Erase(s, Uncalled(s))
             /\ DOMAIN Repair(log) = DOMAIN log \ Uncalled(s)
             /\ \A i \in DOMAIN Repair(log) : Repair(log)[i] = s[i]
<1> DEFINE s == RepairCalls(log)
<1>1. IsLog(s) /\ DOMAIN s = DOMAIN log
  BY StripFacts DEF RepairCalls
<1>2. \A i \in DOMAIN log : s[i] = IF i \in Unanswered(log) THEN Bare(log[i]) ELSE log[i]
  BY DEF RepairCalls, Strip
<1>3. Repair(log) = Erase(s, Uncalled(s))
  BY DEF Repair, RepairCalls
<1> HIDE DEF s
<1>4. /\ DOMAIN Repair(log) = DOMAIN s \ Uncalled(s)
      /\ \A i \in DOMAIN s \ Uncalled(s) : Repair(log)[i] = s[i]
  BY <1>1, <1>3, EraseFacts
<1> QED
  BY <1>1, <1>2, <1>3, <1>4 DEF s

\* A repair in the middle of a conversation changes nothing of what a repair at its end
\* leaves, as long as nobody answers a call the first one has dealt with.
THEOREM RepairContinues ==
  ASSUME NEW log, IsLog(log), NEW n \in Nat, OwnRounds(log, n)
  PROVE  Repair(Continued(log, n)) = Repair(log)
<1> DEFINE f == Early(log, n)
           s == RepairCalls(f)
           r == Repair(f)
           all == Continued(log, n)
           x == RepairCalls(log)
           y == RepairCalls(all)
<1>1. /\ IsLog(f) /\ DOMAIN f = {i \in DOMAIN log : i < n}
      /\ \A i \in DOMAIN f : f[i] = log[i]
  BY FrontFacts
<1>2. /\ IsLog(all) /\ IsLog(r)
      /\ DOMAIN all = DOMAIN r \cup {k \in DOMAIN log : n <= k}
      /\ \A i \in DOMAIN r : i \in Nat /\ i < n /\ i \in DOMAIN log /\ all[i] = r[i]
      /\ \A i \in DOMAIN log : n <= i => ~ (i < n) /\ i \in DOMAIN all /\ all[i] = log[i]
  BY ContinuedFacts
<1>3. Unanswered(r) = {} /\ Uncalled(r) = {}
  BY <1>1, RepairMends
<1> HIDE DEF f, all
<1>4. /\ IsLog(s) /\ DOMAIN s = DOMAIN f
      /\ \A i \in DOMAIN f : s[i] = IF i \in Unanswered(f) THEN Bare(f[i]) ELSE f[i]
      /\ DOMAIN r = DOMAIN f \ Uncalled(s)
      /\ \A i \in DOMAIN r : r[i] = s[i]
  BY <1>1, RepairCallsFacts
<1>5. /\ IsLog(x) /\ DOMAIN x = DOMAIN log
      /\ \A i \in DOMAIN log : x[i] = IF i \in Unanswered(log) THEN Bare(log[i]) ELSE log[i]
      /\ DOMAIN Repair(log) = DOMAIN log \ Uncalled(x)
      /\ \A i \in DOMAIN Repair(log) : Repair(log)[i] = x[i]
  BY RepairCallsFacts
<1>6. /\ IsLog(y) /\ DOMAIN y = DOMAIN all
      /\ \A i \in DOMAIN all : y[i] = IF i \in Unanswered(all) THEN Bare(all[i]) ELSE all[i]
      /\ DOMAIN Repair(all) = DOMAIN all \ Uncalled(y)
      /\ \A i \in DOMAIN Repair(all) : Repair(all)[i] = y[i]
  BY <1>2, RepairCallsFacts
<1>7. IsLog(Repair(log)) /\ IsLog(Repair(all))
  BY <1>2, RepairMends
<1> HIDE DEF s, r, x, y
<1>0. /\ DOMAIN log \in SUBSET Nat
      /\ \A i \in DOMAIN log : i \in Nat /\ (i \in DOMAIN f \/ n <= i) /\ (i \in DOMAIN f => ~ (n <= i))
  BY <1>1 DEF IsLog
<1>8. \A i \in DOMAIN f : x[i] = s[i]
  <2>1. \A i \in DOMAIN f : i \in Unanswered(log) <=> i \in Unanswered(f)
    <3>1. \A i \in DOMAIN f : Answers(log, i) = Answers(f, i)
      BY <1>1, AnswersInFront
    <3> QED
      BY <1>1, <3>1 DEF Unanswered, Callers
  <2> QED
    BY <1>1, <1>4, <1>5, <2>1
<1>9. \A i \in DOMAIN r : y[i] = s[i]
  <2>1. DOMAIN r = {i \in DOMAIN all : i < n}
    BY <1>2
  <2>2. OwnRounds(all, n)
    <3> SUFFICES ASSUME NEW j \in Of(all, "tool"), n <= j
                 PROVE  \E i \in Of(all, "assistant") : n <= i /\ i < j
      BY DEF OwnRounds
    <3>1. j \in DOMAIN log /\ j \notin DOMAIN r
      BY <1>0, <1>2, <1>4 DEF Of
    <3>2. j \in Of(log, "tool")
      BY <1>2, <3>1 DEF Of
    <3>3. PICK i \in Of(log, "assistant") : n <= i /\ i < j
      BY <3>2 DEF OwnRounds
    <3>4. i \in DOMAIN log /\ log[i].role = "assistant"
      BY <3>3 DEF Of
    <3>5. i \in DOMAIN all /\ all[i].role = "assistant"
      BY <1>2, <3>3, <3>4
    <3> QED
      BY <3>3, <3>5 DEF Of
  <2>3. \A i \in DOMAIN r : Answers(all, i) = Answers(r, i)
    <3>1. \A i \in DOMAIN r : r[i] = all[i]
      BY <1>2
    <3>2. IsLog(all) /\ IsLog(r)
      BY <1>2
    <3> QED
      BY <2>1, <2>2, <3>1, <3>2, AnswersInFront
  <2>4. \A i \in DOMAIN r : i \notin Unanswered(all)
    BY <1>2, <1>3, <2>3 DEF Unanswered, Callers
  <2> QED
    BY <1>2, <1>4, <1>6, <2>4
<1>10. \A i \in DOMAIN log : n <= i => x[i] = y[i]
  <2>1. {k \in DOMAIN log : n <= k} = {k \in DOMAIN all : n <= k}
    BY <1>0, <1>2, <1>4
  <2>2. \A i \in DOMAIN log : n <= i => Answers(log, i) = Answers(all, i)
    BY <1>2, <2>1, AnswersBehind
  <2>3. \A i \in DOMAIN log : n <= i => (i \in Unanswered(log) <=> i \in Unanswered(all))
    BY <1>2, <2>2 DEF Unanswered, Callers
  <2> QED
    BY <1>2, <1>5, <1>6, <2>3
<1>11. \A j \in DOMAIN f : j \in Uncalled(x) <=> j \in Uncalled(s)
  <2> SUFFICES ASSUME NEW j \in DOMAIN f PROVE j \in Uncalled(x) <=> j \in Uncalled(s)
    OBVIOUS
  <2>1. \A i : i < j => (i \in Callers(x) <=> i \in Callers(s))
    <3> SUFFICES ASSUME NEW i, i < j PROVE i \in Callers(x) <=> i \in Callers(s)
      OBVIOUS
    <3>1. i \in DOMAIN log => i \in DOMAIN f
      BY <1>0, <1>1
    <3> QED
      BY <1>1, <1>4, <1>5, <1>8, <3>1 DEF Callers
  <2>2. \A i \in Callers(s) : x[i].calls = s[i].calls
    BY <1>4, <1>8 DEF Callers
  <2>3. (j \in Of(x, "tool") <=> j \in Of(s, "tool")) /\ x[j].id = s[j].id
    BY <1>1, <1>4, <1>5, <1>8 DEF Of
  <2> QED
    BY <2>1, <2>2, <2>3 DEF Uncalled
<1>12. \A j \in DOMAIN r : j \notin Uncalled(y)
  <2> SUFFICES ASSUME NEW j \in DOMAIN r, j \in Uncalled(y) PROVE FALSE
    OBVIOUS
  <2>1. j \in Of(r, "tool") /\ y[j].id = r[j].id
    BY <1>4, <1>9 DEF Uncalled, Of
  <2>2. PICK i \in Callers(r) : i < j /\ r[j].id \in r[i].calls
    BY <1>3, <2>1 DEF Uncalled
  <2>3. i \in Callers(y) /\ y[i].calls = r[i].calls
    BY <1>2, <1>4, <1>6, <1>9, <2>2 DEF Callers
  <2> QED
    BY <2>1, <2>2, <2>3 DEF Uncalled
<1>13. \A j \in DOMAIN log : n <= j => (j \in Uncalled(x) <=> j \in Uncalled(y))
  <2> SUFFICES ASSUME NEW j \in DOMAIN log, n <= j
               PROVE  j \in Uncalled(x) <=> j \in Uncalled(y)
    OBVIOUS
  <2>1. (j \in Of(x, "tool") <=> j \in Of(y, "tool")) /\ x[j].id = y[j].id
    BY <1>2, <1>5, <1>6, <1>10 DEF Of
  <2>2. ASSUME NEW i \in Callers(x) PROVE i \in Callers(y) /\ y[i].calls = x[i].calls
    <3>1. CASE n <= i
      BY <1>2, <1>5, <1>6, <1>10, <3>1 DEF Callers
    <3>2. CASE ~ (n <= i)
      <4>1. i \in DOMAIN f /\ s[i] = x[i]
        BY <1>0, <1>5, <1>8, <3>2 DEF Callers
      <4>2. i \in Callers(s)
        BY <1>4, <4>1 DEF Callers
      <4>3. i \notin Uncalled(s)
        BY <1>4, <4>2, CallersAreAssistants DEF Uncalled
      <4>4. i \in DOMAIN r
        BY <1>4, <4>1, <4>3
      <4> QED
        BY <1>2, <1>6, <1>9, <4>1, <4>4 DEF Callers
    <3> QED
      BY <3>1, <3>2
  <2>3. ASSUME NEW i \in Callers(y) PROVE i \in Callers(x) /\ y[i].calls = x[i].calls
    <3>1. CASE i \in DOMAIN r
      BY <1>1, <1>4, <1>5, <1>8, <1>9, <3>1 DEF Callers
    <3>2. CASE i \notin DOMAIN r
      <4>1. i \in DOMAIN log /\ n <= i
        BY <1>2, <1>6, <3>2 DEF Callers
      <4> QED
        BY <1>5, <1>10, <4>1 DEF Callers
    <3> QED
      BY <3>1, <3>2
  <2> QED
    BY <2>1, <2>2, <2>3 DEF Uncalled
<1>14. DOMAIN Repair(all) = DOMAIN Repair(log)
  <2> SUFFICES ASSUME NEW j PROVE j \in DOMAIN Repair(all) <=> j \in DOMAIN Repair(log)
    OBVIOUS
  <2>1. CASE j \in DOMAIN f
    <3>1. j \in DOMAIN all <=> j \in DOMAIN r
      BY <1>0, <1>1, <1>2, <2>1
    <3> QED
      BY <1>1, <1>4, <1>5, <1>6, <1>11, <1>12, <2>1, <3>1
  <2>2. CASE j \notin DOMAIN f
    <3>1. j \in DOMAIN all <=> j \in DOMAIN log
      BY <1>0, <1>2, <1>4, <2>2
    <3> QED
      BY <1>0, <1>5, <1>6, <1>13, <2>2, <3>1
  <2> QED
    BY <2>1, <2>2
<1>15. \A j \in DOMAIN Repair(log) : Repair(all)[j] = Repair(log)[j]
  <2> SUFFICES ASSUME NEW j \in DOMAIN Repair(log) PROVE Repair(all)[j] = Repair(log)[j]
    OBVIOUS
  <2>1. Repair(all)[j] = y[j] /\ Repair(log)[j] = x[j] /\ j \in DOMAIN log /\ j \in DOMAIN all
    BY <1>5, <1>6, <1>14
  <2>2. CASE j \in DOMAIN f
    <3>1. j \in DOMAIN r
      BY <1>0, <1>2, <2>1, <2>2
    <3> QED
      BY <1>8, <1>9, <2>1, <2>2, <3>1
  <2>3. CASE j \notin DOMAIN f
    BY <1>0, <1>10, <2>1, <2>3
  <2> QED
    BY <2>2, <2>3
<1> HIDE DEF f
<1>16. Repair(all) = Repair(log)
  BY <1>7, <1>14, <1>15 DEF IsLog
<1> QED
  BY <1>16 DEF all

\* What is appended comes behind both parts.
LEMMA PutContinued ==
  ASSUME NEW log, IsLog(log), NEW n \in Nat, NEW top \in Nat, n <= top,
         \A i \in DOMAIN log : i < top, NEW m
  PROVE  Continued(Put(log, top, m), n) = Put(Continued(log, n), top, m)
<1> DEFINE more == Put(log, top, m)
           front == Repair(Early(log, n))
<1>1. /\ DOMAIN more = DOMAIN log \cup {top} /\ more[top] = m
      /\ \A i \in DOMAIN log : i # top /\ i \in Nat /\ more[i] = log[i]
  BY DEF Put, IsLog
<1>2. Early(more, n) = Early(log, n)
  <2>1. {i \in DOMAIN more : i < n} = {i \in DOMAIN log : i < n}
    BY <1>1
  <2> HIDE DEF more
  <2> QED
    BY <1>1, <2>1 DEF Early, Restrict
<1>a. \A i \in DOMAIN front : i \in Nat /\ i < n
  BY ContinuedFacts
<1> HIDE DEF more, front
<1>3. \A i \in DOMAIN front : i \in Nat /\ i < n /\ i # top
  BY <1>a
<1>4. Continued(more, n) =
        [i \in DOMAIN front \cup {k \in DOMAIN more : n <= k} |-> IF i < n THEN front[i] ELSE more[i]]
  BY <1>2 DEF Continued, front
<1>5. Continued(log, n) =
        [i \in DOMAIN front \cup {k \in DOMAIN log : n <= k} |-> IF i < n THEN front[i] ELSE log[i]]
  BY DEF Continued, front
<1>6. {k \in DOMAIN more : n <= k} = {k \in DOMAIN log : n <= k} \cup {top}
  BY <1>1
<1>7. Put(Continued(log, n), top, m) =
        [i \in DOMAIN front \cup {k \in DOMAIN log : n <= k} \cup {top} |->
           IF i = top THEN m ELSE IF i < n THEN front[i] ELSE log[i]]
  BY <1>5 DEF Put
<1>8. \A i \in DOMAIN front \cup {k \in DOMAIN log : n <= k} \cup {top} :
        (IF i < n THEN front[i] ELSE more[i])
          = IF i = top THEN m ELSE IF i < n THEN front[i] ELSE log[i]
  BY <1>1, <1>3
<1>9. Continued(more, n) = Put(Continued(log, n), top, m)
  BY <1>4, <1>6, <1>7, <1>8
<1> QED
  BY <1>9 DEF more

\* A conversation that ends at n has been repaired as a whole.
LEMMA ContinuedAtEnd ==
  ASSUME NEW log, IsLog(log), NEW n \in Nat, \A i \in DOMAIN log : i < n
  PROVE  Continued(log, n) = Repair(log) /\ OwnRounds(log, n)
<1>1. {i \in DOMAIN log : i < n} = DOMAIN log /\ \A i \in DOMAIN log : ~ (n <= i)
  BY DEF IsLog
<1>2. Early(log, n) = log
  BY <1>1 DEF Early, Restrict, IsLog
<1>3. IsLog(Repair(log)) /\ DOMAIN Repair(log) \subseteq DOMAIN log
  BY RepairFacts
<1>4. Continued(log, n) = [i \in DOMAIN Repair(log) |-> Repair(log)[i]]
  BY <1>1, <1>2, <1>3 DEF Continued
<1> QED
  BY <1>1, <1>3, <1>4 DEF IsLog, OwnRounds, Of

\* Without calls and results there is nothing to repair.
LEMMA NothingToRepair ==
  ASSUME NEW log, IsLog(log), \A i \in DOMAIN log : log[i].role = "system"
  PROVE  Repair(log) = log
<1>1. Callers(log) = {} /\ Of(log, "tool") = {}
  BY DEF IsLog, Message, Callers, Of
<1>2. Unanswered(log) = {} /\ Uncalled(log) = {}
  BY <1>1 DEF Unanswered, Uncalled
<1>3. Strip(log, {}) = log
  BY DEF Strip, IsLog
<1>4. Erase(log, {}) = log
  BY DEF Erase, Restrict, IsLog
<1> QED
  BY <1>2, <1>3, <1>4 DEF Repair

\* A call that no result behind it answers.
Waits(log) ==
  \E i \in Callers(log) : \E id \in log[i].calls :
    \A j \in Of(log, "tool") : i < j => log[j].id # id

LEMMA AlikeWaits ==
  ASSUME NEW a, IsLog(a), NEW b, IsLog(b), Alike(a, b), Waits(a)
  PROVE  Waits(b)
<1>1. PICK h : Carries(h, a, b)
  BY DEF Alike
<1>2. /\ \A k \in DOMAIN a : h[k] \in DOMAIN b /\ b[h[k]] = a[k]
      /\ \A k, j \in DOMAIN a : k < j <=> h[k] < h[j]
      /\ \A k \in DOMAIN b : \E j \in DOMAIN a : h[j] = k
  BY <1>1, CarriesOrder DEF Carries
<1>a. PICK i \in Callers(a) : \E id \in a[i].calls :
        \A j \in Of(a, "tool") : i < j => a[j].id # id
  BY DEF Waits
<1>3. PICK id \in a[i].calls : \A j \in Of(a, "tool") : i < j => a[j].id # id
  BY <1>a
<1>4. h[i] \in Callers(b) /\ id \in b[h[i]].calls
  BY <1>2, <1>3 DEF Callers
<1>5. ASSUME NEW l \in Of(b, "tool"), h[i] < l PROVE b[l].id # id
  <2>1. PICK j \in DOMAIN a : h[j] = l
    BY <1>2 DEF Of
  <2>2. j \in Of(a, "tool") /\ i < j /\ a[j].id = b[l].id
    BY <1>2, <1>3, <1>5, <2>1 DEF Of, Callers
  <2> QED
    BY <1>3, <2>2
<1> QED
  BY <1>4, <1>5 DEF Waits

\* In front of n every call was answered or taken away: one that waits came later.
LEMMA WaitsBehind ==
  ASSUME NEW log, IsLog(log), NEW n \in Nat, Waits(Continued(log, n))
  PROVE  \E i \in Of(log, "assistant") : n <= i
<1> DEFINE f == Early(log, n)
           r == Repair(f)
           all == Continued(log, n)
<1>1. Unanswered(r) = {}
  BY FrontFacts, RepairMends
<1>2. /\ IsLog(all) /\ IsLog(r)
      /\ DOMAIN all = DOMAIN r \cup {k \in DOMAIN log : n <= k}
      /\ \A i \in DOMAIN r : i \in Nat /\ i < n /\ i \in DOMAIN log /\ all[i] = r[i]
      /\ \A i \in DOMAIN log : n <= i => ~ (i < n) /\ i \in DOMAIN all /\ all[i] = log[i]
  BY ContinuedFacts
<1> HIDE DEF r, all
<1>a. PICK i \in Callers(all) : \E id \in all[i].calls :
        \A j \in Of(all, "tool") : i < j => all[j].id # id
  BY DEF Waits, all
<1>3. PICK id \in all[i].calls : \A j \in Of(all, "tool") : i < j => all[j].id # id
  BY <1>a
<1>4. i \notin DOMAIN r
  <2> SUFFICES ASSUME i \in DOMAIN r PROVE FALSE
    OBVIOUS
  <2>1. i \in Callers(r) /\ id \in r[i].calls
    BY <1>2, <1>3 DEF Callers
  <2>2. id \in Answers(r, i)
    BY <1>1, <2>1 DEF Unanswered
  <2>3. PICK j \in Of(r, "tool") : i < j /\ r[j].id = id
    BY <2>2 DEF Answers
  <2>4. j \in Of(all, "tool") /\ all[j].id = id
    BY <1>2, <2>3 DEF Of
  <2> QED
    BY <1>3, <2>3, <2>4
<1>5. i \in DOMAIN log /\ n <= i /\ all[i] = log[i]
  BY <1>2, <1>3, <1>4 DEF Callers
<1>6. all[i].role = "assistant"
  BY <1>2, <1>3, CallersAreAssistants
<1> QED
  BY <1>5, <1>6 DEF Of

=============================================================================
