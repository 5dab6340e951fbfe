------------------------------ MODULE Messages -------------------------------
(***************************************************************************)
(* The conversation at two grains: Session, every call of it on every      *)
(* list, and Shrinking, doCompaction with its counts, its plan and its     *)
(* request.  Shrinking is shown to do what Session's calls say.  Neither   *)
(* reads the variables of the other, so a behaviour here is one of the one *)
(* or one of the other, with the rest as it was in the beginning.          *)
(***************************************************************************)
EXTENDS Session, Shrinking

MessagesInit == Init /\ ShrinkInit

NoShrinkYet == stage = "idle" /\ screen = "cleared" /\ opened = 0
NoCallYet == op = "none"

MessagesNext ==
  \/ NoShrinkYet /\ Next /\ UNCHANGED shrinkVars
  \/ NoCallYet /\ ShrinkNext /\ UNCHANGED vars

MessagesSpec == MessagesInit /\ [][MessagesNext]_<<vars, shrinkVars>>
=============================================================================
