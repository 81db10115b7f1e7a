------------------------------ MODULE MCDepthFeed ------------------------------
(***************************************************************************)
(* Instances of DepthFeed for TLC, and what is said of the repair that the  *)
(* threads do not keep.                                                    *)
(***************************************************************************)
EXTENDS DepthFeed

(* When the venue's book stops changing, the reseeds make the local book    *)
(* equal to it: of reconcile, book_ids.py says that after the call "the     *)
(* local book equals the snapshot exactly".                                 *)
RepairComplete == <>[](quotes = book)
===============================================================================
