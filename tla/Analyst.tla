-------------------------------- MODULE Analyst --------------------------------
(***************************************************************************)
(* core/analyst.py, class Analyst, and the threads core/engine.py starts   *)
(* for it: one cached verdict per symbol, refreshed on demand, one thread  *)
(* per request, each storing what it got whenever it gets it.  The model   *)
(* behind the HTTP call is external: it may answer anything, late, or fail. *)
(* A confidence below 0.5 makes a bias harmless, so such a bias is         *)
(* "neutral" here.                                                         *)
(***************************************************************************)
EXTENDS SymbolSpec

CONSTANTS
  AnalystEnabled,     (* an API key is set and the client could be built    *)
  AnalystInterval,    (* interval_minutes between requests for a symbol     *)
  Answers             (* what the model may answer: [action, bias]          *)

Actions == {"trade", "wait", "avoid"}
Biases  == {"neutral", "bullish", "bearish"}

ASSUME AnalystAssumption ==
  /\ AnalystEnabled \in BOOLEAN
  /\ AnalystInterval \in Nat \ {0}
  /\ Answers \subseteq [action : Actions, bias : Biases]

VARIABLES
  verdict,        (* _verdicts, NEUTRAL where the dict has no entry         *)
  requestedAt,    (* _requested_at                                          *)
  calls           (* the requests whose thread has not finished             *)

analystVars == <<verdict, requestedAt, calls>>

(* `source` stands for the reasoning text: the default verdict of a symbol  *)
(* with none, the model's words, or "analyst unavailable".                  *)
Verdicts ==
  [action : Actions, bias : Biases, source : {"default", "model", "unavailable"}]

VerdictOf(answer, source) ==
  [action |-> answer.action, bias |-> answer.bias, source |-> source]

NoOpinion == [action |-> "trade", bias |-> "neutral"]

AnalystInit ==
  /\ verdict = [s \in Symbols |-> VerdictOf(NoOpinion, "default")]
  /\ requestedAt = [s \in Symbols |-> None]
  /\ calls = {}

Blocks(v, side) ==
  \/ v.action \in {"avoid", "wait"}
  \/ side = "BUY" /\ v.bias = "bearish"
  \/ side = "SELL" /\ v.bias = "bullish"

NeedsRefresh(s, now) ==
  /\ AnalystEnabled
  /\ requestedAt[s] = None \/ now - requestedAt[s] >= AnalystInterval

(* A request that is sent but not remembered.                               *)
RequestUnmarked(s, now) ==
  IF NeedsRefresh(s, now)
  THEN /\ calls' = calls \cup {[symbol |-> s, at |-> now]}
       /\ UNCHANGED <<requestedAt, verdict>>
  ELSE UNCHANGED analystVars

(* needs_refresh, then _request_analyst: mark the request before the thread *)
(* that performs it starts.                                                 *)
RequestIfDue(s, now) ==
  IF NeedsRefresh(s, now)
  THEN /\ requestedAt' = [requestedAt EXCEPT ![s] = now]
       /\ calls' = calls \cup {[symbol |-> s, at |-> now]}
       /\ UNCHANGED verdict
  ELSE UNCHANGED analystVars

(* analyse returned: a parsed verdict, or "wait" for a refusal or a         *)
(* truncated answer.                                                        *)
AnalystReplies(c, answer) ==
  /\ c \in calls
  /\ verdict' = [verdict EXCEPT ![c.symbol] = VerdictOf(answer, "model")]
  /\ calls' = calls \ {c}
  /\ UNCHANGED requestedAt

(* _analyst_failed: the call raised (network, rate limit, unparsable JSON). *)
AnalystFails(c) ==
  /\ c \in calls
  /\ verdict' = [verdict EXCEPT ![c.symbol] = VerdictOf(NoOpinion, "unavailable")]
  /\ calls' = calls \ {c}
  /\ UNCHANGED requestedAt
===============================================================================
