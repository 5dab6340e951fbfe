---------------------------- MODULE MCAgentLoop -----------------------------
(***************************************************************************)
(* AgentLoop on small instances.  The sets of outcomes are given in the    *)
(* .cfg of each run; a run that is about one part of the loop leaves out   *)
(* the outcomes the other runs look at.                                    *)
(***************************************************************************)
EXTENDS AgentLoop
=============================================================================
