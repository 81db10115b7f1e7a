----------------------------- MODULE DepthPurchase -----------------------------
(***************************************************************************)
(* fetch_depth.py, main: an estimate, the refusals, a download that is     *)
(* billed and a file that keeps it from being bought twice.  The vendor is *)
(* external: it may refuse, break off, and bills what it has sent.         *)
(***************************************************************************)
EXTENDS Integers

CONSTANTS
  Queries,       (* symbol, schema and range: the name of the file          *)
  Costs,         (* what the vendor may estimate                            *)
  MaxCost,       (* --max-cost                                              *)
  MaxCalls       (* bound: invocations                                      *)

ASSUME PurchaseAssumption == Costs \subseteq Nat /\ MaxCost \in Nat /\ MaxCalls \in Nat

VARIABLES
  shelf,         (* query -> "none", "part" or "whole" file                 *)
  bills,         (* query -> times billed                                   *)
  losses,        (* query -> downloads lost before they were a file         *)
  call,          (* the invocation: query, cost, confirm                    *)
  step,          (* where it is                                             *)
  calls

purchaseVars == <<shelf, bills, losses, call, step, calls>>

PurchaseInit ==
  /\ shelf = [q \in Queries |-> "none"]
  /\ bills = [q \in Queries |-> 0] /\ losses = [q \in Queries |-> 0]
  /\ call \in [query : Queries, cost : Costs, confirm : BOOLEAN]
  /\ step = "exit" /\ calls = 0

Invoke ==
  /\ step = "exit" /\ calls < MaxCalls
  /\ call' \in [query : Queries, cost : Costs, confirm : BOOLEAN]
  /\ step' = "key" /\ calls' = calls + 1
  /\ UNCHANGED <<shelf, bills, losses>>

(* _api_key: the first of the environment's value and the .env file's that  *)
(* looks like a key, however good the other is.                             *)
FindKey ==
  /\ step = "key"
  /\ \E environment, dotenv \in {"absent", "other", "key"} :
       step' = IF "key" \in {environment, dotenv} THEN "estimate" ELSE "exit"
  /\ UNCHANGED <<shelf, bills, losses, call, calls>>

(* The vendor's package is missing, or the vendor does not answer.          *)
NoEstimate ==
  /\ step = "estimate"
  /\ step' = "exit"
  /\ UNCHANGED <<shelf, bills, losses, call, calls>>

(* A check that minds no finished file.                                     *)
MayBuyAgain == call.cost <= MaxCost /\ call.confirm /\ shelf[call.query] # "part"

(* Above the maximum, without --confirm, or already there: nothing happens. *)
MayBuy == call.cost <= MaxCost /\ call.confirm /\ shelf[call.query] = "none"

Declined ==
  /\ step = "estimate" /\ ~MayBuy
  /\ step' = "exit"
  /\ UNCHANGED <<shelf, bills, losses, call, calls>>

Order ==
  /\ step = "estimate" /\ MayBuy
  /\ step' = "ordered"
  /\ UNCHANGED <<shelf, bills, losses, call, calls>>

VendorRefuses ==
  /\ step = "ordered"
  /\ step' = "exit"
  /\ UNCHANGED <<shelf, bills, losses, call, calls>>

Billed(q) == bills' = [bills EXCEPT ![q] = @ + 1]
Lost(q) == losses' = [losses EXCEPT ![q] = @ + 1]

Downloaded ==
  /\ step = "ordered"
  /\ Billed(call.query)
  /\ step' = "held"
  /\ UNCHANGED <<shelf, losses, call, calls>>

(* The connection breaks, or the process dies with the data in memory.      *)
BrokenOff ==
  /\ step \in {"ordered", "held"}
  /\ IF step = "ordered" THEN Billed(call.query) ELSE UNCHANGED bills
  /\ Lost(call.query)
  /\ step' = "exit"
  /\ UNCHANGED <<shelf, call, calls>>

Saved ==
  /\ step = "held"
  /\ shelf' = [shelf EXCEPT ![call.query] = "whole"]
  /\ step' = "exit"
  /\ UNCHANGED <<bills, losses, call, calls>>

(* The disk is full, or the process dies while to_file writes.              *)
SaveBreaks ==
  /\ step = "held"
  /\ shelf' = [shelf EXCEPT ![call.query] = "part"]
  /\ Lost(call.query)
  /\ step' = "exit"
  /\ UNCHANGED <<bills, call, calls>>

(* "Delete it first if that is really what you want": of a partial file.    *)
DeletePart ==
  /\ step = "exit"
  /\ \E q \in Queries :
       shelf[q] = "part" /\ shelf' = [shelf EXCEPT ![q] = "none"]
  /\ UNCHANGED <<bills, losses, call, step, calls>>

PurchaseNext ==
  \/ Invoke \/ FindKey \/ NoEstimate \/ Declined \/ Order \/ VendorRefuses
  \/ Downloaded \/ BrokenOff \/ Saved \/ SaveBreaks \/ DeletePart

PurchaseSpec == PurchaseInit /\ [][PurchaseNext]_purchaseVars

--------------------------------------------------------------------------------
(* Properties.                                                              *)

PurchaseTypeOK ==
  /\ shelf \in [Queries -> {"none", "part", "whole"}]
  /\ bills \in [Queries -> Nat] /\ losses \in [Queries -> Nat]
  /\ call \in [query : Queries, cost : Costs, confirm : BOOLEAN]
  /\ step \in {"exit", "key", "estimate", "ordered", "held"} /\ calls \in 0..MaxCalls

(* Whatever breaks off in between, data is paid for again only when the     *)
(* copy paid for before was lost: a query is billed at most once more than  *)
(* it was lost, and a whole file is never bought again.                     *)
BilledOnce ==
  \A q \in Queries :
    bills[q] = losses[q] + (IF shelf[q] = "whole" THEN 1 ELSE 0)
               + (IF step = "held" /\ call.query = q THEN 1 ELSE 0)
    /\ (shelf[q] = "whole" => ~(step \in {"ordered", "held"} /\ call.query = q))
================================================================================
