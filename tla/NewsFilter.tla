------------------------------ MODULE NewsFilter ------------------------------
(***************************************************************************)
(* core/news.py, class NewsFilter, refreshed by the engine's news loop: a  *)
(* thread fetches the week's calendar and update()s the filter, or fails.  *)
(* Calendar, the remote service, is external; a release is                 *)
(* [when, currency, impact].                                               *)
(***************************************************************************)
EXTENDS SymbolSpec

CONSTANTS
  Calendars,        (* the calendars the service may return                 *)
  Currencies,       (* currencies_for: symbol -> set of currencies          *)
  NewsBefore,       (* blackout minutes before a release                    *)
  NewsAfter         (* and after                                            *)

ASSUME NewsAssumption == {NewsBefore, NewsAfter} \subseteq Nat

VARIABLES
  events,           (* the high-impact releases of the last good calendar   *)
  loaded            (* last_update is not None                              *)

newsVars == <<events, loaded>>

NewsInit == events = {} /\ loaded = FALSE

NewsUpdate(calendar) ==
  /\ events' = {e \in calendar : e.impact = "high"}
  /\ loaded' = TRUE

(* update_failed that forgets the calendar it could not refresh.            *)
NewsUpdateFailedClearing == events' = {} /\ UNCHANGED loaded

(* update_failed keeps what it had.                                         *)
NewsUpdateFailed == UNCHANGED newsVars

(* Fails open: with no calendar ever loaded nothing is blacked out.         *)
Blackout(s, now) ==
  /\ loaded
  /\ \E e \in events :
       /\ e.currency \in Currencies[s]
       /\ e.when - NewsBefore <= now
       /\ now <= e.when + NewsAfter
===============================================================================
