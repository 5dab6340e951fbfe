-------------------------- MODULE MCProcessRunner --------------------------
(***************************************************************************)
(* ProcessRunner with two callers and pipes of one unit.  The commands:    *)
(* one that reads and fills its output, one that fills both outputs, one   *)
(* that leaves a process behind, one that cannot be asked to end, closes   *)
(* its output and leaves a process behind that, one that exits without     *)
(* reading all of its input, and one that waits for input.                 *)
(***************************************************************************)
EXTENDS ProcessRunner

MCCommands ==
  { [steps |-> <<"read", "out", "out">>, stdin |-> 3],
    [steps |-> <<"err", "err", "out">>, stdin |-> 0],
    [steps |-> <<"spawn", "err">>, stdin |-> 1],
    [steps |-> <<"deafen", "close", "spawn", "err", "hang">>, stdin |-> 0],
    [steps |-> <<"read">>, stdin |-> 3],
    [steps |-> <<"read">>, stdin |-> 0] }
=============================================================================
