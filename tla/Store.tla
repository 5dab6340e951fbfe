------------------------------- MODULE Store -------------------------------
(***************************************************************************)
(* The session files (src/src/core/storage.cpp) and the conversation that  *)
(* Agent::addPersistedMessage writes to them and loadFromStorage reads.    *)
(*                                                                         *)
(* Storage has no lock.  Its two connections are opened and closed         *)
(* together, so `open` is one file; a connection knows one transaction, of *)
(* the thread `holder`.  A thread inside insertMessage has its message in  *)
(* `inserting`.  A crash loses the transaction and keeps what is committed *)
(* (SQLite, external).                                                     *)
(***************************************************************************)
EXTENDS Conversation, SequencesExt

CONSTANTS
  Files,     \* session files, in the order of their time stamps
  Foreign,   \* those of them that some other program wrote
  MaxFaults  \* times the disk fails in a behaviour

\* openDatabase("") makes SQLite open a private temporary file, another one for each
\* connection, which goes with the connection.
Temporary == "temporary"
Recovery == "recovery.db"
Closed == "closed"
Known == Range(Files) \cup {Recovery}

ASSUME StoreAssumption ==
  /\ Files \in Seq(STRING) /\ Files # <<>>
  /\ Range(Files) \cap {Temporary, Closed} = {}
  /\ Foreign \subseteq Range(Files)
  /\ MaxFaults \in Nat

Writing == {"ui", "agent"}   \* the threads that call addPersistedMessage
Nobody == "nobody"
NoMessage == <<>>

VARIABLES
  disk,        \* the committed rows of each file there is
  open,        \* the file of both connections
  holder,      \* whose transaction the connection is in
  inserting,   \* per thread, <<m>> while it inserts the message m
  attached,    \* Agent::storage is set
  conv, next,  \* the session, as in Conversation
  file,        \* history: the file this conversation is kept in
  faults,      \* bound
  parted       \* history: the session and its file no longer hold the same

store == <<disk, open, holder, inserting, attached, conv, next, file, faults, parted>>

Messages(log) == [k \in 1..Cardinality(DOMAIN log) |->
  log[CHOOSE i \in DOMAIN log : Cardinality({j \in DOMAIN log : j < i}) = k - 1]]

Prompt == Put(Empty, 2, Text("system"))

\* A crash leaves whole rows: an earlier program wrote a call and died.
HalfWritten == <<Text("system"), Calling({4})>>

StoreTypeOK ==
  /\ DOMAIN disk \subseteq Known /\ disk \in [DOMAIN disk -> Seq(Message)]
  /\ open \in Known \cup {Temporary, Closed}
  /\ holder \in Writing \cup {Nobody}
  /\ inserting \in [Writing -> Seq(Message)]
  /\ \A t \in Writing : Len(inserting[t]) <= 1
  /\ faults \in Nat
  /\ attached \in BOOLEAN /\ parted \in BOOLEAN
  /\ Fits(conv, next)
  /\ file \in Known \cup {Closed}

\* The first file is of an earlier session, the rest is still to be created.
StoreInit ==
  /\ disk = [f \in Foreign \cup {Files[1]} |-> HalfWritten]
  /\ open = Closed /\ holder = Nobody
  /\ inserting = [t \in Writing |-> NoMessage]
  /\ attached = FALSE
  /\ conv = Prompt /\ next = 4
  /\ file = Closed /\ faults = 0 /\ parted = FALSE

-----------------------------------------------------------------------------
(* Opening and closing *)

\* Trouble with the disk, or another program's lock, may stop any of the calls.
Fault == faults < MaxFaults /\ faults' = faults + 1

\* createDatabase on a file that is there opens it.
Created(f, rows) ==
  [g \in DOMAIN disk \cup {f} |-> IF g \in DOMAIN disk THEN disk[g] ELSE rows]

\* closeDatabase under a thread that is in a transaction: its message is lost.
Torn ==
  /\ holder' = Nobody
  /\ inserting' = [t \in Writing |-> IF t = holder THEN NoMessage ELSE inserting[t]]

\* queryMessages, then Session::loadMessages with the repair it ends in.
LoadedRaw(rows) == Say(Empty, 2, rows)
Loaded(rows) == Repair(Say(Empty, 2, rows))

Rows(of, f) == IF f \in DOMAIN of THEN of[f] ELSE <<>>

-----------------------------------------------------------------------------
(* Writing *)

\* addPersistedMessage up to the BEGIN of insertMessage; without a file the message
\* is in the session only, and so it is when the thread finds the file closed.
AddPersisted(t, m) ==
  /\ inserting[t] = NoMessage
  /\ conv' = Put(conv, next, m) /\ next' = next + 2
  /\ IF attached /\ open # Closed
       THEN inserting' = [inserting EXCEPT ![t] = <<m>>] /\ UNCHANGED parted
       ELSE parted' = (parted \/ m.role # "system") /\ UNCHANGED inserting

Given(t) == inserting' = [inserting EXCEPT ![t] = NoMessage]

\* BEGIN IMMEDIATE.
Begin(t) ==
  /\ inserting[t] # NoMessage /\ open # Closed /\ holder = Nobody
  /\ holder' = t
  /\ UNCHANGED <<disk, open, inserting, attached, conv, next, file, faults, parted>>

\* The connection is in the other thread's transaction, or closed by now: -1, which
\* nobody looks at.
Refuse(t) ==
  /\ inserting[t] # NoMessage
  /\ holder \notin {t, Nobody} \/ open = Closed
  /\ Given(t) /\ parted' = TRUE
  /\ UNCHANGED <<disk, open, holder, attached, conv, next, file, faults>>

CommitBare(t) ==
  /\ holder = t
  /\ disk' = IF open \in DOMAIN disk THEN [disk EXCEPT ![open] = Append(@, Bare(inserting[t][1]))] ELSE disk
  /\ holder' = Nobody /\ Given(t)
  /\ parted' = (parted \/ open # file)
  /\ UNCHANGED <<open, attached, conv, next, file, faults>>

Commit(t) ==
  /\ holder = t
  /\ disk' = IF open \in DOMAIN disk THEN [disk EXCEPT ![open] = @ \o inserting[t]] ELSE disk
  /\ holder' = Nobody /\ Given(t)
  /\ parted' = (parted \/ open # file)
  /\ UNCHANGED <<open, attached, conv, next, file, faults>>

\* insertToolCalls stops at the first call it cannot write and says so to the log
\* only: the message is committed with the calls before it.
CommitInPart(t) ==
  /\ holder = t /\ open \in DOMAIN disk /\ Fault
  /\ \E k \in inserting[t][1].calls :
       disk' = [disk EXCEPT ![open] =
                 Append(@, [inserting[t][1] EXCEPT !.calls = {id \in @ : id < k}])]
  /\ holder' = Nobody /\ Given(t) /\ parted' = TRUE
  /\ UNCHANGED <<open, attached, conv, next, file>>

\* An exception in the transaction rolls it back: -1 again.
RollBack(t) ==
  /\ holder = t /\ Fault
  /\ holder' = Nobody /\ Given(t) /\ parted' = TRUE
  /\ UNCHANGED <<disk, open, attached, conv, next, file>>

\* The ensureStorage of TuiApp: a new file for a conversation that has none, with the
\* system messages so far.
EnsureStorage ==
  \/ /\ open # Closed
     /\ UNCHANGED store
  \/ \* createDatabase fails; the conversation goes on without a file
     /\ open = Closed /\ Fault
     /\ UNCHANGED <<disk, open, holder, inserting, attached, conv, next, file, parted>>
  \/ /\ open = Closed
     /\ \E k \in DOMAIN Files :
          /\ Files[k] \notin DOMAIN disk /\ \A j \in 1..(k - 1) : Files[j] \in DOMAIN disk
          /\ disk' = Created(Files[k], Messages(Restrict(conv, Of(conv, "system"))))
          /\ open' = Files[k] /\ file' = Files[k]
     /\ attached' = TRUE
     /\ parted' = (\E i \in DOMAIN conv : conv[i].role # "system")
     /\ UNCHANGED <<holder, inserting, conv, next, faults>>
=============================================================================
