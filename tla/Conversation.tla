---------------------------- MODULE Conversation ----------------------------
(***************************************************************************)
(* The message list of a Session (src/src/core/session.cpp) and the        *)
(* operations that keep assistant tool calls and tool results paired.      *)
(*                                                                         *)
(* A conversation is a function from positions to messages.  The code      *)
(* erases from a vector; here an erased message leaves a gap, so what is   *)
(* left keeps its position and only the order of the positions matters.    *)
(* Appended messages take even positions; the odd position just below a    *)
(* message is where a compaction summary is inserted.                      *)
(*                                                                         *)
(* Of a message the model keeps what the pairing rules look at: its role,  *)
(* the ids of its tool calls, the id a tool result answers, and whether    *)
(* its text carries an error marker (Session::shouldPinMessage).           *)
(***************************************************************************)
EXTENDS Integers, FiniteSets, Functions

CONSTANTS
  KeepRecent,   \* messages a compaction always keeps (4 in compactSession)
  MinMessages   \* below this many a compaction is skipped (8 in compactSession)

ASSUME ConversationAssumption ==
  /\ KeepRecent \in Nat \ {0}
  /\ MinMessages \in Nat

Roles == {"system", "user", "assistant", "tool"}

\* Only an assistant carries tool calls.
Message ==
  {m \in [role: Roles, calls: SUBSET Nat, id: Nat, marked: BOOLEAN] :
     m.calls # {} => m.role = "assistant"}

IsLog(log) ==
  /\ DOMAIN log \in SUBSET Nat
  /\ log = [i \in DOMAIN log |-> log[i]]
  /\ \A i \in DOMAIN log : log[i] \in Message

\* The next message of the conversation takes position `next`.
Fits(log, next) ==
  /\ IsLog(log)
  /\ next \in Nat \ {0} /\ next % 2 = 0
  /\ \A i \in DOMAIN log : i < next

-----------------------------------------------------------------------------
(* Messages *)

Text(role) == [role |-> role, calls |-> {}, id |-> 0, marked |-> FALSE]

Failure(role) == [Text(role) EXCEPT !.marked = TRUE]

Calling(ids) == [Text("assistant") EXCEPT !.calls = ids]

Result(id, failed) == [role |-> "tool", calls |-> {}, id |-> id, marked |-> failed]

Bare(m) == [m EXCEPT !.calls = {}]

-----------------------------------------------------------------------------
(* Positions *)

Empty == [i \in {} |-> Text("system")]

Put(log, at, m) == [i \in DOMAIN log \cup {at} |-> IF i = at THEN m ELSE log[i]]

\* Session::addMessage for each message of the sequence ms, from position `at` on.
Say(log, at, ms) ==
  [i \in DOMAIN log \cup {at + 2 * (k - 1) : k \in DOMAIN ms} |->
     IF i \in DOMAIN log THEN log[i] ELSE ms[(i - at) \div 2 + 1]]

Latest(S) == CHOOSE i \in S : \A j \in S : j <= i

Earliest(S) == CHOOSE i \in S : \A j \in S : i <= j

Of(log, role) == {i \in DOMAIN log : log[i].role = role}

Callers(log) == {i \in DOMAIN log : log[i].calls # {}}

Between(log, i, j) == {k \in DOMAIN log : i < k /\ k < j}

\* The tool messages directly behind i, up to the first message of another role.
Followers(log, i) ==
  {j \in Of(log, "tool") : i < j /\ Between(log, i, j) \subseteq Of(log, "tool")}

\* The leading system block (the prompt, the directory tree, AGENTS.md).
Lead(log) ==
  {i \in DOMAIN log : \A j \in DOMAIN log : j <= i => log[j].role = "system"}

-----------------------------------------------------------------------------
(* Repairs *)

\* The ids answered between the assistant at i and the next assistant.
Answers(log, i) ==
  {log[j].id : j \in {k \in Of(log, "tool") :
                        i < k /\ Between(log, i, k) \cap Of(log, "assistant") = {}}}

Unanswered(log) == {i \in Callers(log) : ~ (log[i].calls \subseteq Answers(log, i))}

\* The tool results no earlier assistant called for.
Uncalled(log) ==
  {j \in Of(log, "tool") : \A i \in Callers(log) : i < j => log[j].id \notin log[i].calls}

Strip(log, S) == [i \in DOMAIN log |-> IF i \in S THEN Bare(log[i]) ELSE log[i]]

Erase(log, S) == Restrict(log, DOMAIN log \ S)

\* Session::repairOrphanedToolCalls: pass 1 strips, then pass 2 erases.
RepairCalls(log) == Strip(log, Unanswered(log))

Repair(log) ==
  LET stripped == Strip(log, Unanswered(log))
  IN  Erase(stripped, Uncalled(stripped))

\* Session::stripOrphanedToolCalls: the last assistant with calls, whatever it is.
StripLast(log) ==
  IF Callers(log) = {} THEN log ELSE Strip(log, {Latest(Callers(log))})

\* Session::softStripLastToolCalls: also merges the results behind it, error
\* markers included, into its text.
SoftStripLast(log) ==
  LET last   == Latest(Callers(log))
      behind == Followers(log, last)
      merged == [i \in DOMAIN log |->
                   IF i # last THEN log[i]
                   ELSE [Bare(log[i]) EXCEPT !.marked = \E j \in behind \cup {i} : log[j].marked]]
  IN  IF Callers(log) = {} THEN log ELSE Erase(merged, behind)

\* Session::clearLastToolCalls: only the last message of the list.
KeepLastCalls(log) == log

ClearLastCalls(log) ==
  IF DOMAIN log = {} THEN log ELSE Strip(log, {Latest(DOMAIN log)})

\* Session::popLastAssistant: only a last message that is a plain assistant.
PopLastAssistant(log) ==
  Erase(log, {i \in Of(log, "assistant") \ Callers(log) : i = Latest(DOMAIN log)})

-----------------------------------------------------------------------------
(* What the API accepts, as Session::validateToolCallPairs and             *)
(* Session::hasOrphanedTools put it.                                       *)

\* A result directly behind, but for other results, the assistant that called for it.
Attached(log, j) ==
  \E i \in Callers(log) : j \in Followers(log, i) /\ log[j].id \in log[i].calls

NoStrayResult(log) == \A j \in Of(log, "tool") : Attached(log, j)

WellPaired(log) == NoStrayResult(log) /\ Unanswered(log) = {}

-----------------------------------------------------------------------------
(* Shrinking *)

\* pruneForContext shortens old texts, which is not modelled, and then deletes old
\* messages.
PruneAnywhere(log) == DOMAIN log \ Lead(log)

\* pruneForContext, step 4: the points before which everything but the leading
\* system block may be deleted.  An assistant with calls goes together with the
\* results behind it, and the loop stops when one message is left.
PruneCuts(log) ==
  LET rest == DOMAIN log \ Lead(log)
      groups == rest \ UNION {Followers(log, i) : i \in Callers(log) \cap rest}
      lastGroup == {j \in rest : \A i \in groups : i <= j}
  IN  IF Cardinality(lastGroup) > 1 THEN groups \cup {Latest(rest) + 1} ELSE groups

PruneAll(log, cut) == Erase(log, {i \in DOMAIN log : i < cut})

Prune(log, cut) == Erase(log, {i \in DOMAIN log \ Lead(log) : i < cut})

IsSummary(i) == i % 2 = 1

Recent(log) == {i \in DOMAIN log : Cardinality({j \in DOMAIN log : i < j}) < KeepRecent}

\* enforceToolCallPairs, one pass: the caller of a pinned result, the result of a
\* pinned call.  Its maps know the last caller and the last result of an id.
PinPartners(log, pins) ==
  LET callers(id) == {i \in Callers(log) : id \in log[i].calls}
      results(id) == {j \in Of(log, "tool") : log[j].id = id}
      asked    == {log[j].id : j \in pins \cap Of(log, "tool")}
      answered == UNION {log[i].calls : i \in pins}
  IN  pins
      \cup {Latest(callers(id)) : id \in {k \in asked : callers(k) # {}}}
      \cup {Latest(results(id)) : id \in {k \in answered : results(k) # {}}}

\* planCompaction, step 4: the last user message, when no user message is pinned.
KeepNobody(log, pins) == pins

KeepUser(log, pins) ==
  IF pins \cap Of(log, "user") # {} \/ Of(log, "user") = {} THEN pins
  ELSE pins \cup {Latest(Of(log, "user"))}

\* planCompaction: what a compaction keeps.  A pinned result pins its caller, the
\* caller the rest of its batch: two passes reach the fixed point the code iterates
\* to, one more where an id is used twice.  Of shouldPinMessage only the error
\* markers are modelled.
Pinned(log) ==
  LET chosen  == Recent(log) \cup Lead(log) \cup {i \in DOMAIN log : log[i].marked}
      callers == PinPartners(log, chosen)
      batches == PinPartners(log, callers)
      paired  == PinPartners(log, batches)
  IN  {i \in KeepUser(log, paired) : ~ IsSummary(i)}

Summarized(log) ==
  IF Cardinality(DOMAIN log) <= KeepRecent THEN {} ELSE DOMAIN log \ Pinned(log)

\* The odd position right behind the leading system block.
SummarySlot(log) == 2 * (Latest({0} \cup Lead(log)) \div 2) + 1

\* applyCompaction: erase, insert the summary, then its own inline repair, which
\* keeps the calls of an assistant as soon as one result is found anywhere.
Compact(log) ==
  LET gone     == Summarized(log)
      kept     == Erase(log, gone)
      summed   == Put(kept, SummarySlot(kept), Text("system"))
      ids      == {summed[j].id : j \in Of(summed, "tool")}
      stripped == Strip(summed, {i \in Callers(summed) : summed[i].calls \cap ids = {}})
  IN  IF gone = {} THEN log ELSE Erase(stripped, Uncalled(stripped))

\* Agent::doCompaction: every conversation it can leave.  The token counts decide
\* whether the LLM summary is taken and how far the pruning goes.
Shrunk(log, force) ==
  LET compacted == IF force \/ Cardinality(DOMAIN log) >= MinMessages
                     THEN {log, Compact(log)} ELSE {log}
      pruned    == UNION {{Prune(l, cut) : cut \in PruneCuts(l)} : l \in compacted}
  IN  {Repair(l) : l \in compacted \cup pruned}
=============================================================================
