------------------------------- MODULE Session -------------------------------
(***************************************************************************)
(* A Session (src/src/core/session.cpp) under any sequence of its calls.   *)
(*                                                                         *)
(* AgentLoop calls the operations in the order Agent::run does; here they  *)
(* come in any order, on any list of messages: loadMessages takes whatever *)
(* the database holds, half-written rounds of a crashed session included.  *)
(* Every call holds the session's mutex, so a step is a call.              *)
(***************************************************************************)
EXTENDS Conversation

CONSTANTS
  CallIds,      \* the tool call ids in use
  MaxMessages   \* most messages added in a behaviour

ASSUME SessionAssumption == CallIds \subseteq Nat /\ MaxMessages \in Nat

VARIABLES
  log, next,    \* messages, and the position of the next one
  op            \* history: the call just made, where a property is about it

vars == <<log, next, op>>

Ops == {"none", "other", "repair", "softStripLast", "prune", "compact"}

TypeOK == Fits(log, next) /\ op \in Ops

Init == log = Empty /\ next = 2 /\ op = "none"

NewMessages ==
  {Text(role) : role \in {"system", "user", "assistant"}}
  \cup {Calling(ids) : ids \in SUBSET CallIds \ {{}}}
  \cup {Result(id, failed) : id \in CallIds, failed \in BOOLEAN}

Overwrite ==
  /\ next <= 2 * MaxMessages
  /\ \E m \in NewMessages : log' = Put(log, next, m)
  /\ op' = "other"
  /\ UNCHANGED next

\* addMessage, and a message of loadMessages.
AddMessage ==
  /\ next <= 2 * MaxMessages
  /\ \E m \in NewMessages : log' = Put(log, next, m)
  /\ next' = next + 2
  /\ op' = "other"

Call(name, result) ==
  /\ log' = result
  /\ op' = name
  /\ UNCHANGED next

RepairOrphanedToolCalls == Call("repair", Repair(log))
StripOrphanedToolCalls == Call("other", StripLast(log))
SoftStripLastToolCalls == Call("softStripLast", SoftStripLast(log))
ClearLastToolCalls == Call("other", ClearLastCalls(log))
PopLast == Call("other", PopLastAssistant(log))
PruneForContext == \E cut \in PruneCuts(log) : Call("prune", Prune(log, cut))
ApplyCompaction == Summarized(log) # {} /\ Call("compact", Compact(log))

Next ==
  \/ AddMessage
  \/ RepairOrphanedToolCalls \/ StripOrphanedToolCalls \/ SoftStripLastToolCalls
  \/ ClearLastToolCalls \/ PopLast
  \/ PruneForContext \/ ApplyCompaction

Spec == Init /\ [][Next]_vars

-----------------------------------------------------------------------------
(* What the calls promise *)

\* repairOrphanedToolCalls leaves no call without a result and no result without a
\* call: pass 1 strips calls whose results may sit elsewhere, pass 2 must then find
\* the results that pass 1 has just orphaned, and erase none that still counts.
RepairedHasNoOrphans == op = "repair" => Unanswered(log) = {} /\ Uncalled(log) = {}

\* No id is used for two calls or for two results.
UniqueIds ==
  \A i, j \in DOMAIN log : i # j =>
    /\ log[i].calls \cap log[j].calls = {}
    /\ {log[i].role, log[j].role} = {"tool"} => log[i].id # log[j].id

\* Shrinking or repairing a conversation the API accepts gives one it accepts: the
\* cut of pruneForContext never runs through a call and its results, the plan of
\* planCompaction keeps or summarizes a round as a whole, and a repair of what is
\* sound does no harm.  (With ids used twice a compaction may split a round.)
ShrinkingKeepsPairs ==
  [][op' \in {"repair", "softStripLast", "prune", "compact"} /\ UniqueIds /\ WellPaired(log)
       => WellPaired(log')]_vars

\* A compaction never loses the last user message (the API wants one), and leaves
\* one summary: an older one is summarized again.
CompactionKeepsUser ==
  [][op' = "compact" =>
       /\ Of(log, "user") # {} => Of(log', "user") # {}
       /\ Cardinality({i \in DOMAIN log' : IsSummary(i)}) = 1]_vars

\* Neither a compaction nor a pruning touches the leading system block, which holds
\* the prompt and is the prefix the provider caches: older summaries aside, it is
\* still there and still leads.
PrefixIsStable ==
  [][op' \in {"prune", "compact"} =>
       {i \in Lead(log) : ~ IsSummary(i)} \subseteq Lead(log')]_vars
=============================================================================
