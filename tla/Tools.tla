-------------------------------- MODULE Tools --------------------------------
(***************************************************************************)
(* The tools of the registry that keep a state of their own: those that    *)
(* work on files (FileTools, with FileText and FileSearch) and the task    *)
(* list (TodoList).  Neither reads what the other writes, so their steps   *)
(* need not be interleaved: a behaviour here is one of the one or one of   *)
(* the other, with the rest as it was in the beginning.                    *)
(***************************************************************************)
EXTENDS FileTools, TodoList

ToolsInit == FilesInit /\ TodoInit

NoTodoYet == incoming = NoPrompt /\ ~raised /\ ~left
NoFileYet == os = "linux" /\ file = <<>> /\ by = "user"

ToolsNext ==
  \/ NoTodoYet /\ FilesNext /\ UNCHANGED todoVars
  \/ NoFileYet /\ TodoNext /\ UNCHANGED files

ToolsSpec == ToolsInit /\ [][ToolsNext]_<<files, todoVars>>

(* The facts about the two states (file_tool.cpp, todo_tool.cpp): a file   *)
(* written in pieces is the whole one, a search or a listing that is cut   *)
(* short says so, the overview forgets no file but by its count, and a     *)
(* cleared list is written to once at most, by the call that was running.  *)
ToolsInv == FilesInv /\ TodoInv
=============================================================================
