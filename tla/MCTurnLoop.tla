----------------------------- MODULE MCTurnLoop ------------------------------
(***************************************************************************)
(* TurnLoop on small instances: two skills, two or three messages.         *)
(***************************************************************************)
EXTENDS TurnLoop
=============================================================================
