----------------------------- MODULE MCFeedSession -----------------------------
(***************************************************************************)
(* Instances of FeedSession for TLC, and what is said of stop that a        *)
(* reconnect in flight does not keep.                                      *)
(***************************************************************************)
EXTENDS FeedSession

(* bitstamp_client.py on stop: "Close the socket and stop the reader."      *)
(* When it has returned and the reader is gone, no socket is left open in   *)
(* _ws and the client does not claim to be connected.                       *)
StopCloses ==
  caller.pc = "stopped" /\ reader.pc = "exited" => ws = NoSocket /\ ~connected
================================================================================
