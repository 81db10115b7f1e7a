---------------------------- MODULE MCEngineProcess ----------------------------
(* EngineProcess on two days of recorded ticks of four seconds each, bars of *)
(* one and of two seconds.                                                  *)
EXTENDS EngineProcess

MCTimeframes == {1, 2}
MCPrices == {1}
MCRecorded ==
  << [when |-> 1, price |-> 3], [when |-> 2, price |-> 2], [when |-> 3, price |-> 4],
     [when |-> 5, price |-> 2], [when |-> 5, price |-> 1], [when |-> 6, price |-> 3] >>
MCWall == {1, 2}
MCPnls == {-1, 2}
================================================================================
