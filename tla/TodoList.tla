------------------------------ MODULE TodoList -------------------------------
(***************************************************************************)
(* The task list of the agent: TodoData (tools/todo_tool.h) under the tool *)
(* update_todo, which the agent thread calls, and under Agent::startTurn   *)
(* and Agent::clearSession, which the UI thread calls, in the middle of a  *)
(* turn too (F3, a new chat, and F5, another one, wait for nobody).        *)
(*                                                                         *)
(* The overview of finished work goes into every request, so it is kept    *)
(* short: the oldest entries are merged, and a merged entry names only so  *)
(* many files.  Titles and wording are left out; a brief and an entry are  *)
(* the files they name, a file is its place in the order of names.         *)
(***************************************************************************)
EXTENDS Integers, Sequences, FiniteSets

CONSTANTS
  Prompts,         \* what the user asks
  Lists,           \* task lists an init may bring: lines [says, mark], the names in a line
  Tasks,           \* task names an update may give
  FileNames,       \* file names, in their order
  NamedFiles,      \* files an entry names: 8
  PruneThreshold,  \* OVERVIEW_PRUNE_THRESHOLD
  MergeCount,      \* OVERVIEW_MERGE_COUNT
  MaxBriefs        \* bound: briefs of one task list

Statuses == {"done", "in_progress", "pending"}

ASSUME TodoAssumption ==
  /\ Lists \subseteq Seq([says : SUBSET Tasks, mark : Statuses \cup {"none"}])
  /\ FileNames \subseteq Nat /\ IsFiniteSet(FileNames) /\ NamedFiles \in Nat \ {0}
  /\ MergeCount \in Nat /\ MergeCount > 1
  /\ PruneThreshold \in Nat /\ MergeCount < PruneThreshold
  /\ MaxBriefs \in Nat

NoPrompt == "none"

VARIABLES
  stage,     \* the agent thread: "idle", "launched", "between" calls, or "calling"
  raised,    \* cancelRequested_
  tasks,     \* pendingTodo: lines [says, mark]
  briefs,    \* pendingBriefs: sets of files
  overview,  \* overviewSummary: sets of files
  incoming,  \* incomingUserPrompt
  active,    \* activeUserPrompt
  left,      \* history: the conversation of the turn under way has been left
  begun,     \* history: it had begun when it was left
  strays,    \* history: calls of it that reached the list behind that (counted to 2)
  archived   \* history: files of the work archived in this conversation

turnVars == <<stage, raised, left, begun>>
listVars == <<tasks, briefs, overview, incoming, active, archived>>
todoVars == <<turnVars, listVars, strays>>

TodoInit ==
  /\ stage = "idle" /\ raised = FALSE
  /\ tasks = <<>> /\ briefs = <<>> /\ overview = <<>>
  /\ incoming = NoPrompt /\ active = NoPrompt
  /\ left = FALSE /\ begun = FALSE /\ strays = 0 /\ archived = {}

----------------------------------------------------------------------------
(* Turns *)

StartTurn ==
  /\ stage = "idle"
  /\ stage' = "launched" /\ raised' = FALSE
  /\ incoming' \in Prompts
  /\ left' = FALSE /\ begun' = FALSE /\ strays' = 0
  /\ UNCHANGED <<tasks, briefs, overview, active, archived>>

\* newTurn, on the agent thread, takes a cancel back.
NewTurn ==
  /\ stage = "launched"
  /\ stage' = "between" /\ raised' = FALSE /\ begun' = ~left
  /\ UNCHANGED <<left, listVars, strays>>

\* The tool loop looks at the cancel flag before every call.
MayCall == ~raised

StartCall ==
  /\ stage = "between" /\ MayCall
  /\ stage' = "calling"
  /\ UNCHANGED <<raised, left, begun, listVars, strays>>

EndTurn ==
  /\ stage = "between"
  /\ stage' = "idle"
  /\ UNCHANGED <<raised, left, begun, listVars, strays>>

Escape ==
  /\ stage # "idle" /\ ~raised
  /\ raised' = TRUE
  /\ UNCHANGED <<stage, left, begun, listVars, strays>>

(* "/clear", F3 or F5: the list of the new conversation is empty.  A turn  *)
(* under way is cancelled, and not waited for.                             *)
ClearSession ==
  /\ raised' = TRUE
  /\ tasks' = <<>> /\ briefs' = <<>> /\ overview' = <<>>
  /\ incoming' = NoPrompt /\ active' = NoPrompt /\ archived' = {}
  /\ left' = (stage # "idle")
  /\ UNCHANGED <<stage, begun, strays>>

----------------------------------------------------------------------------
(* update_todo, under todoMutex *)

Returns ==
  /\ stage = "calling"
  /\ stage' = "between"
  /\ strays' = IF left /\ strays < 2 THEN strays + 1 ELSE strays
  /\ UNCHANGED <<raised, left, begun>>

TodoStarted(list) ==
  /\ Returns
  /\ tasks' = list
  /\ briefs' = <<>>
  /\ active' = incoming
  /\ UNCHANGED <<overview, incoming, archived>>

\* The lines that can take a mark for `task`: one that has a mark keeps it.
Open(task) == {k \in DOMAIN tasks : task \in tasks[k].says /\ tasks[k].mark = "none"}

TodoUpdated(task, status, named) ==
  /\ Returns
  /\ Len(briefs) < MaxBriefs
  /\ briefs' = IF named = {} THEN briefs ELSE Append(briefs, named)
  /\ tasks' = [k \in DOMAIN tasks |->
                 IF k \in Open(task) /\ \A j \in Open(task) : k <= j
                 THEN [tasks[k] EXCEPT !.mark = status] ELSE tasks[k]]
  /\ UNCHANGED <<overview, incoming, active, archived>>

\* The files a text names, in order of their names, up to the limit.
extractFilePaths(named) ==
  {f \in named : Cardinality({g \in named : g < f}) < NamedFiles}

\* Only the last of the entries merged.
PruneKeepsLast(entries) ==
  IF Len(entries) < PruneThreshold THEN entries
  ELSE <<extractFilePaths(entries[MergeCount])>>
         \o SubSeq(entries, MergeCount + 1, Len(entries))

\* The oldest entries become one, in front of the others.
pruneOverview(entries) ==
  IF Len(entries) < PruneThreshold THEN entries
  ELSE <<extractFilePaths(UNION {entries[k] : k \in 1 .. MergeCount})>>
         \o SubSeq(entries, MergeCount + 1, Len(entries))

TodoDone ==
  /\ Returns
  /\ LET named == UNION {briefs[k] : k \in DOMAIN briefs}
     IN  /\ overview' = pruneOverview(Append(overview, named))
         /\ archived' = archived \cup named
  /\ tasks' = <<>> /\ briefs' = <<>> /\ active' = NoPrompt
  /\ UNCHANGED incoming

TodoNext ==
  \/ StartTurn \/ NewTurn \/ StartCall \/ EndTurn \/ Escape \/ ClearSession
  \/ \E list \in Lists : TodoStarted(list)
  \/ \E task \in Tasks, status \in Statuses, named \in SUBSET FileNames :
       TodoUpdated(task, status, named)
  \/ TodoDone

TodoSpec == TodoInit /\ [][TodoNext]_todoVars

----------------------------------------------------------------------------
(* Properties *)

TodoTypeOK ==
  /\ stage \in {"idle", "launched", "between", "calling"}
  /\ raised \in BOOLEAN /\ left \in BOOLEAN /\ begun \in BOOLEAN
  /\ strays \in 0 .. 2
  /\ \A k \in DOMAIN tasks : tasks[k].mark \in Statuses \cup {"none"}
  /\ \A k \in DOMAIN briefs : briefs[k] \subseteq FileNames
  /\ {incoming, active} \subseteq Prompts \cup {NoPrompt}

(* The overview stays below the threshold, and however often entries are   *)
(* merged it names every file of the work done in this conversation, up to *)
(* the limit of one entry: what is missing comes behind all the names of   *)
(* the oldest entry, and that one is full (pruneOverview).                 *)
OverviewNamesFiles ==
  /\ Len(overview) < PruneThreshold
  /\ \A f \in archived :
       \/ \E k \in DOMAIN overview : f \in overview[k]
       \/ /\ Cardinality(overview[1]) = NamedFiles
          /\ \A g \in overview[1] : g < f

(* Of a turn whose conversation is left, only the call that was running    *)
(* reaches the list of the next one, unless the turn had not begun: then   *)
(* newTurn takes the cancel back (clearSession, newTurn).                  *)
StrayIsLast == begun => strays <= 1

(* The types, what the overview may forget, and what may still be written  *)
(* behind a clear.                                                         *)
TodoInv == TodoTypeOK /\ OverviewNamesFiles /\ StrayIsLast

(* "new session must not carry over overview/TODO/user-request context"    *)
(* (tests/unit/test_agent_request.cpp): not kept by a running call.        *)
NothingCarriesOver == strays = 0
=============================================================================
