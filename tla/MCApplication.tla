--------------------------- MODULE MCApplication ---------------------------
(***************************************************************************)
(* Application on a small instance: three status records, two files and a  *)
(* third that is no database.                                              *)
(***************************************************************************)
EXTENDS Application

MCRecords == {[state |-> "working", text |-> 1], [state |-> "working", text |-> 2],
              [state |-> "done", text |-> 1]}
MCFiles   == <<"old", "new", "junk">>
MCForeign == {"junk"}
=============================================================================
