------------------------------ MODULE Shrinking ------------------------------
(***************************************************************************)
(* Agent::doCompaction with its numbers (core/agent.cpp) and Session::     *)
(* pruneForContext (core/session.cpp).  Conversation says what a pruning   *)
(* and a compaction may delete, here token counts decide what they do      *)
(* delete; and a compaction is what it is in the code, a plan of indices,  *)
(* a request to the model that no cancel ends, and the plan carried out on *)
(* whatever the session holds by then: F3 and F5 on the UI thread put      *)
(* another conversation there.                                             *)
(***************************************************************************)
EXTENDS Conversation, Sequences, SequencesExt

CONSTANTS
  Started,     \* conversations a session may hold, before their repair
  Said,        \* what a turn adds: sequences of messages
  Windows,     \* [window, maxTokens]: settings of the model
  KeepTools,   \* tool messages left in full (10)
  KeepTexts,   \* texts left in full (5)
  ShortText,   \* a text up to so many tokens is left in full (20)
  Notice,      \* tokens of "[truncated n bytes]"
  Headroom,    \* headroomTokens (1024)
  Reserve,     \* reservedOutput unless set (16384)
  Word,        \* 2^64: counts are size_t
  MaxLength,   \* bound: messages in the conversation
  MaxOpened    \* bound: conversations opened by F3 and F5

\* A message with its token counts; a compaction's summary is told by its text.
Sized ==
  {m \in [role: Roles, calls: SUBSET Nat, id: Nat, marked: BOOLEAN,
          text: Nat, reasoning: Nat, args: Nat, summary: BOOLEAN] :
     (m.calls # {} => m.role = "assistant") /\ (m.summary => m.role = "system")}

\* A notice is no longer than a text that is left in full; what a turn adds is whole.
ASSUME ShrinkingAssumption ==
  /\ {KeepTools, KeepTexts, ShortText, Notice, Headroom, Reserve, Word, MaxLength, MaxOpened}
       \subseteq Nat
  /\ Word > 0 /\ Notice <= ShortText
  /\ \A s \in Started : s \in Seq(Sized)
  /\ \A s \in Said : s \in Seq(Sized) /\ Unanswered(s) = {} /\ Uncalled(s) = {}
  /\ Windows # {} /\ \A w \in Windows : w \in [window: Nat, maxTokens: Nat]

VARIABLES
  msgs,       \* Session::messages
  settings,   \* effectiveContextWindow(), configMaxTokens
  stage,      \* where the agent's thread is in doCompaction
  plan,       \* CompactionPlan::summarizeIndices
  screen,     \* where the UI thread is in F3 or F5
  opened,     \* conversations opened
  planned     \* history: the conversation the plan was made for

shrinkVars == <<msgs, settings, stage, plan, screen, opened, planned>>

-----------------------------------------------------------------------------
(* Messages in a row.  A sequence is a log of Conversation at the          *)
(* positions 1 .. n; where summaries matter it takes those that tell them. *)

PositionOf(s, i) == IF s[i].summary THEN 2 * i - 1 ELSE 2 * i

LogOf(s) ==
  [p \in {PositionOf(s, i) : i \in DOMAIN s} |-> s[(p + 1) \div 2]]

\* The k-th of some positions.
Nth(D, k) == CHOOSE p \in D : Cardinality({q \in D : q < p}) = k - 1

Without(s, S) ==
  LET kept == DOMAIN s \ S
  IN  [k \in 1 .. Cardinality(kept) |-> s[Nth(kept, k)]]

\* The leading system block (systemCount, sysCount).
SystemCount(s) == Cardinality(Lead(s))

\* repairOrphanedToolCalls
Repaired(s) == LET t == RepairCalls(s) IN Without(t, Uncalled(t))

-----------------------------------------------------------------------------
(* Counting: the text of a message, its reasoning, its calls.  Images are  *)
(* left out.                                                               *)

\* countTokens
Tokens(m) == m.text + m.reasoning + m.args

\* The sums of the first amounts, and of all.
Adding(amounts) ==
  LET sum[n \in 0 .. Len(amounts)] == IF n = 0 THEN 0 ELSE sum[n - 1] + amounts[n] IN sum
Total(amounts) == Adding(amounts)[Len(amounts)]

CountTokens(s) == Total([i \in DOMAIN s |-> Tokens(s[i])])

\* computeContextBudget
AvailableInput ==
  LET reserved == IF settings.maxTokens > 0 THEN settings.maxTokens ELSE Reserve
  IN  IF settings.window > reserved + Headroom THEN settings.window - reserved - Headroom
      ELSE settings.window \div 2

\* A count lowered by what a text or a message had: size_t wraps, and never 0.
Difference(before, after) == (before - after) % Word
Lowered(total, by) == IF total > by THEN total - by ELSE 1

-----------------------------------------------------------------------------
(* pruneForContext *)

IsTool(m) == m.role = "tool" \/ m.calls # {}
IsText(m) == m.role \in {"user", "assistant"} /\ m.calls = {}
Behind(s, i, Kind(_)) == Cardinality({j \in DOMAIN s : i < j /\ Kind(s[j])})

\* Step 2: the results with KeepTools tool messages behind them.
OldResults(s) == {i \in Of(s, "tool") : Behind(s, i, IsTool) >= KeepTools}

\* Step 3: the long texts with more than KeepTexts texts behind them.
OldWords(s) ==
  {i \in DOMAIN s : IsText(s[i]) /\ Behind(s, i, IsText) > KeepTexts}
OldTexts(s) == {i \in OldWords(s) : s[i].text > ShortText}

\* Steps 2 and 3, each a pass over the conversation.
Truncate(acc, i) ==
  [msgs  |-> [acc.msgs EXCEPT ![i].text = Notice],
   total |-> Lowered(acc.total, Difference(acc.msgs[i].text, Notice))]

Truncating(acc, S) ==
  LET run[n \in 0 .. Len(acc.msgs)] ==
        IF n = 0 THEN acc ELSE IF n \in S THEN Truncate(run[n - 1], n) ELSE run[n - 1]
  IN  run

Truncated(acc, S) == Truncating(acc, S)[Len(acc.msgs)]

Shortened(s) ==
  LET counted == [msgs |-> s, total |-> IF CountTokens(s) > 1 THEN CountTokens(s) ELSE 1]
      results == Truncated(counted, OldResults(s))
  IN  Truncated(results, OldTexts(s))

\* Step 4, one deletion: the first message behind the system block, and if it has
\* calls the results right behind it.
CallAlone(s, i) == {i}
GroupAt(s, i) == IF s[i].calls = {} THEN {i} ELSE {i} \cup Followers(s, i)

DeletedTokens(s, S) ==
  LET i == Earliest(S)
  IN  s[i].args + Total([j \in DOMAIN s |-> IF j \in S THEN s[j].text ELSE 0])

\* The system block is counted once, in front of the loop.
DeleteFrom(acc, lead) ==
  LET first == lead + 1
      group == GroupAt(acc.msgs, first)
  IN  IF acc.total <= AvailableInput \/ Len(acc.msgs) <= first THEN acc
      ELSE [msgs  |-> Without(acc.msgs, group),
            total |-> Lowered(acc.total, DeletedTokens(acc.msgs, group))]

\* Every deletion takes a message at least.
Deleting(s) ==
  LET run[n \in 0 .. Len(s)] ==
        IF n = 0 THEN Shortened(s) ELSE DeleteFrom(run[n - 1], SystemCount(s))
  IN  run

Pruned(s) == IF CountTokens(s) <= AvailableInput THEN s ELSE Deleting(s)[Len(s)].msgs

-----------------------------------------------------------------------------
(* compactSession *)

NewSummary == [role |-> "system", calls |-> {}, id |-> 0, marked |-> FALSE, text |-> Notice,
               reasoning |-> 0, args |-> 0, summary |-> TRUE]

\* planCompaction(4).summarizeIndices
PlanFor(s) == {i \in DOMAIN s : PositionOf(s, i) \in Summarized(LogOf(s))}

\* Four fifths of the window are used by texts and reasoning.
NearlyFull(s) ==
  Total([i \in DOMAIN s |-> s[i].text + s[i].reasoning]) >= (settings.window * 4) \div 5

\* applyCompaction: erase what is planned as far as it exists, insert the summary
\* behind the system block, then the repair of its own (see Conversation!Compact).
Applied(s, S) ==
  LET kept     == Without(s, S)
      summed   == InsertAt(kept, SystemCount(kept) + 1, NewSummary)
      ids      == {summed[j].id : j \in Of(summed, "tool")}
      stripped == Strip(summed, {i \in Callers(summed) : summed[i].calls \cap ids = {}})
  IN  Without(stripped, Uncalled(stripped))

-----------------------------------------------------------------------------
(* The agent's thread: doCompaction, and what a turn adds between two of   *)
(* them.                                                                   *)

\* The program has started and opens its first conversation, a new or an old one.
ShrinkInit ==
  /\ msgs = <<>> /\ screen = "cleared" /\ opened = 0
  /\ settings = CHOOSE w \in Windows : TRUE
  /\ stage = "idle" /\ plan = {} /\ planned = 0

\* Asked for, or enough messages that nearly fill the window.
Due(force) == force \/ (Len(msgs) >= MinMessages /\ NearlyFull(msgs))

\* The plan is made, and the model is asked for the summary.
PlanCompaction(force) ==
  /\ stage = "idle"
  /\ Due(force) /\ PlanFor(msgs) # {}
  /\ plan' = PlanFor(msgs) /\ planned' = opened
  /\ stage' = "asking"
  /\ UNCHANGED <<msgs, settings, screen, opened>>

\* Nothing to summarize, too few messages or tokens, or cancelled since doCompaction
\* looked.
SkipCompaction(force, cancelled) ==
  /\ stage = "idle"
  /\ cancelled \/ PlanFor(msgs) = {} \/ ~ Due(force)
  /\ stage' = "compacted"
  /\ UNCHANGED <<msgs, settings, plan, screen, opened, planned>>

ApplyPlan ==
  /\ stage = "asking"
  /\ msgs' = Applied(msgs, plan)
  /\ plan' = {}
  /\ stage' = "compacted"
  /\ UNCHANGED <<settings, screen, opened, planned>>

\* The input or the summary is too short, or the request failed.
SummaryFails ==
  /\ stage = "asking"
  /\ plan' = {}
  /\ stage' = "compacted"
  /\ UNCHANGED <<msgs, settings, screen, opened, planned>>

PruneMessages ==
  /\ stage = "compacted"
  /\ msgs' = Pruned(msgs)
  /\ stage' = "pruned"
  /\ UNCHANGED <<settings, plan, screen, opened, planned>>

\* repairSession
LeaveUnrepaired == stage = "pruned" /\ stage' = "idle" /\ UNCHANGED msgs
RepairPruned == stage = "pruned" /\ stage' = "idle" /\ msgs' = Repaired(msgs)

RepairSession == RepairPruned /\ UNCHANGED <<settings, plan, screen, opened, planned>>

\* A turn adds a text or a round.
AddMessages ==
  /\ stage = "idle" /\ screen = "ready"
  /\ \E ms \in Said : Len(msgs) + Len(ms) <= MaxLength /\ msgs' = msgs \o ms
  /\ UNCHANGED <<settings, stage, plan, screen, opened, planned>>

-----------------------------------------------------------------------------
(* The UI thread *)

\* F3 or F5: clearSession, on which the agent's thread does not wait.
LeaveConversation ==
  /\ screen = "ready" /\ opened < MaxOpened
  /\ msgs' = <<>> /\ opened' = opened + 1
  /\ screen' = "cleared"
  /\ UNCHANGED <<settings, stage, plan, planned>>

\* F3: the new prompt.
AddPrompt ==
  /\ screen = "cleared"
  /\ msgs' = Append(msgs, [NewSummary EXCEPT !.summary = FALSE])
  /\ screen' = "ready"
  /\ UNCHANGED <<settings, stage, plan, opened, planned>>

\* F5: loadMessages, with its repair.
LoadMessages ==
  /\ screen = "cleared"
  /\ \E s \in Started : msgs' = Repaired(s)
  /\ screen' = "ready"
  /\ UNCHANGED <<settings, stage, plan, opened, planned>>

\* setModel and setContextWindow, which compute the budget anew.
SetModel ==
  /\ screen = "ready"
  /\ settings' \in Windows
  /\ UNCHANGED <<msgs, stage, plan, screen, opened, planned>>

ShrinkNext ==
  \/ \E force \in BOOLEAN : PlanCompaction(force)
  \/ \E force, cancelled \in BOOLEAN : SkipCompaction(force, cancelled)
  \/ ApplyPlan \/ SummaryFails \/ PruneMessages \/ RepairSession \/ AddMessages
  \/ LeaveConversation \/ AddPrompt \/ LoadMessages \/ SetModel

ShrinkSpec == ShrinkInit /\ [][ShrinkNext]_shrinkVars

-----------------------------------------------------------------------------
(* Properties *)

ShrinkTypeOK ==
  /\ msgs \in Seq(Sized) /\ settings \in Windows
  /\ stage \in {"idle", "asking", "compacted", "pruned"}
  /\ screen \in {"ready", "cleared"}
  /\ opened \in 0 .. MaxOpened /\ planned \in 0 .. opened
  /\ stage = "asking" => plan # {}

\* What a message is to Conversation.
Shape(m) == [role |-> m.role, calls |-> m.calls, id |-> m.id, marked |-> m.marked]
Shapes(s) == [i \in DOMAIN s |-> Shape(s[i])]

\* The messages of a log in their order.
InOrder(log) ==
  [k \in 1 .. Cardinality(DOMAIN log) |-> Shape(log[Nth(DOMAIN log, k)])]

\* pruneForContext, by whatever counts it goes, does what Conversation says of it: it
\* deletes up to a cut that keeps rounds whole, or nothing.
PruneIsACut ==
  Shapes(Pruned(msgs)) \in
    {Shapes(msgs)} \cup {InOrder(Prune(LogOf(msgs), cut)) : cut \in PruneCuts(LogOf(msgs))}

\* A plan that is carried out on the messages it was made for does what Conversation
\* says of a compaction in one step.
PlanIsCompact ==
  PlanFor(msgs) # {} => Shapes(Applied(msgs, PlanFor(msgs))) = InOrder(Compact(LogOf(msgs)))

\* "Prune session to fit": what pruneForContext leaves fits the budget, or is one
\* message behind the system block, or not even that; unless an old result is shorter
\* than the notice that replaces it.
LengthensNone == \A i \in OldResults(msgs) : msgs[i].text >= Notice
FitsBudget(s) == CountTokens(s) <= AvailableInput \/ Len(s) <= SystemCount(s) + 1

PrunedFits == LengthensNone => FitsBudget(Pruned(msgs))

\* Outside of doCompaction no call and no result is alone, even when a plan was
\* carried out on a conversation it was not made for.
IdleIsPaired ==
  stage = "idle" => Unanswered(msgs) = {} /\ Uncalled(msgs) = {}

\* The types; pruneForContext and the compaction against Conversation; the budget; and
\* the pairs.
ShrinkInv == ShrinkTypeOK /\ PruneIsACut /\ PlanIsCompact /\ PrunedFits /\ IdleIsPaired

\* Statements the code does not keep.

\* "Prune session to fit within maxTokens context window" (session.cpp): an old result
\* of two letters makes the total 1, and nothing is deleted.
PruningFits == FitsBudget(Pruned(msgs))

\* "delete oldest" (session.cpp) while over the limit: what is deleted with a message's
\* reasoning is not counted off, so more goes than has to.
DeletesAsNeeded ==
  LET lead == SystemCount(msgs)
      all  == Shortened(msgs).msgs
  IN  \A n \in 1 .. Len(msgs) - Len(Pruned(msgs)) - 1 :
        all[lead + n + 1].role # "tool" =>
          CountTokens(Without(all, lead + 1 .. lead + n)) > AvailableInput

\* "availableInput = window - maxOutputTokens - headroom, guaranteed >= 1024"
\* (session.cpp; here Headroom has that value).
RoomIsGuaranteed == AvailableInput >= Headroom

\* A summary is of the conversation it is put into.
SummaryIsOwn == [][ApplyPlan => planned = opened]_shrinkVars
=============================================================================
