------------------------------ MODULE MCTickFiles ------------------------------
(***************************************************************************)
(* TickFiles alone, on a small recording exported with an end date.        *)
(***************************************************************************)
EXTENDS TickFiles

MCRecords ==
  {[when |-> w, open |-> 1, low |-> 0, high |-> 2, close |-> 1] : w \in {0, 2, 3, 4}}

MCWindows == [start : {NoBound, 0}, end : {NoBound, 1}, every : {1}]
================================================================================
