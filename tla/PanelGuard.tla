------------------------------- MODULE PanelGuard -------------------------------
(***************************************************************************)
(* panel/server.py, the `guard` middleware: requests are rejected by method *)
(* and by rate per client before the token is looked at.  The deque of a   *)
(* client's hits is kept as everything admitted and how much of it has     *)
(* been popped.                                                            *)
(***************************************************************************)
EXTENDS Integers, Sequences

CONSTANTS
  Clients,
  RateLimit,     (* RATE_LIMIT_REQUESTS                                     *)
  RateWindow,    (* RATE_LIMIT_WINDOW                                       *)
  TokenSet,      (* a PANEL_TOKEN is configured                             *)
  Horizon        (* bound: time.monotonic                                   *)

ASSUME PanelAssumption ==
  /\ RateLimit \in Nat \ {0} /\ RateWindow \in Nat /\ Horizon \in Nat
  /\ TokenSet \in BOOLEAN

VARIABLES
  monotonic,     (* time.monotonic()                                        *)
  admitted,      (* client -> times of the requests that were counted       *)
  popped,        (* client -> how many of them have left the deque          *)
  served         (* client -> how many were answered by a handler           *)

panelVars == <<monotonic, admitted, popped, served>>

PanelInit ==
  /\ monotonic = 0
  /\ admitted = [c \in Clients |-> <<>>]
  /\ popped = [c \in Clients |-> 0]
  /\ served = [c \in Clients |-> 0]

Stale(c, i) == monotonic - admitted[c][i] > RateWindow

Hits(c) == Len(admitted[c]) - popped[c]

(* A loop that pops one stale hit per request and one fresh one with it.    *)
DroppedTwo(c, k) == k \in {popped[c], popped[c] + 2} /\ k <= Len(admitted[c])

(* The while loop leaves k hits popped: the stale ones at the front.        *)
Dropped(c, k) ==
  /\ k \in popped[c]..Len(admitted[c])
  /\ \A i \in popped[c] + 1..k : Stale(c, i)
  /\ k < Len(admitted[c]) => ~Stale(c, k + 1)

(* POST and the rest: 405, before anything is counted.                      *)
WrongMethod(c) == UNCHANGED panelVars

SlowDown(c, k) ==
  /\ Dropped(c, k) /\ Len(admitted[c]) - k >= RateLimit
  /\ popped' = [popped EXCEPT ![c] = k]
  /\ UNCHANGED <<monotonic, admitted, served>>

(* Counted whether the token is right or not.                               *)
Admit(c, k, tokenRight) ==
  /\ Dropped(c, k) /\ Len(admitted[c]) - k < RateLimit
  /\ popped' = [popped EXCEPT ![c] = k]
  /\ admitted' = [admitted EXCEPT ![c] = Append(@, monotonic)]
  /\ served' = IF TokenSet /\ ~tokenRight THEN served
               ELSE [served EXCEPT ![c] = @ + 1]
  /\ UNCHANGED monotonic

TimePasses ==
  /\ monotonic < Horizon
  /\ monotonic' = monotonic + 1
  /\ UNCHANGED <<admitted, popped, served>>

PanelNext ==
  \/ TimePasses
  \/ \E c \in Clients : WrongMethod(c)
  \/ \E c \in Clients : \E k \in 0..Len(admitted[c]) :
       \/ SlowDown(c, k)
       \/ \E tokenRight \in BOOLEAN : Admit(c, k, tokenRight)

PanelSpec == PanelInit /\ [][PanelNext]_panelVars

--------------------------------------------------------------------------------
(* Properties.                                                              *)

PanelTypeOK ==
  /\ monotonic \in Nat
  /\ admitted \in [Clients -> Seq(Nat)]
  /\ popped \in [Clients -> Nat]
  /\ served \in [Clients -> Nat]

(* Of the requests of one client, right token or wrong, never more than     *)
(* RateLimit are let through in any interval of RateWindow, wherever it     *)
(* starts: the deque slides, it is not a counter reset at fixed times.      *)
RateBounded ==
  \A c \in Clients : \A i \in 1..Len(admitted[c]) :
    i + RateLimit <= Len(admitted[c]) =>
      admitted[c][i + RateLimit] - admitted[c][i] > RateWindow
================================================================================
