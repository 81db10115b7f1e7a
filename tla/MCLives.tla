-------------------------------- MODULE MCLives --------------------------------
(***************************************************************************)
(* The two lives of the system side by side, for TLC: that of a process     *)
(* (EngineProcess) and that of a feed's connection (FeedSession).  They     *)
(* share no state, and a behaviour is one of the two.                       *)
(***************************************************************************)
EXTENDS MCEngineProcess, FeedSession

VARIABLE life

LivesInit == life \in {"process", "session"} /\ ProcessInit /\ SessionInit

LivesNext ==
  /\ UNCHANGED life
  /\ \/ life = "process" /\ ProcessNext /\ UNCHANGED sessionVars
     \/ life = "session" /\ SessionNext /\ UNCHANGED <<barsVars, processVars>>

LivesSpec ==
  /\ LivesInit /\ [][LivesNext]_<<life, barsVars, processVars, sessionVars>>
  /\ life = "session" => SessionFairness
================================================================================
