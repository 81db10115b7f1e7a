------------------------------ MODULE FeedSession ------------------------------
(***************************************************************************)
(* core/bitstamp_client.py, the life of a connection: the caller's thread  *)
(* in start, subscribe and stop, and the reader thread in _read_loop and   *)
(* _reconnect.  They share _running, _ws, connected and _channels; only    *)
(* the reads and writes of _ws are under the lock.                         *)
(*                                                                         *)
(* The venue is external: a connection may be refused, and an established  *)
(* one may break at any time.                                              *)
(***************************************************************************)
EXTENDS Integers, FiniteSets, Sequences

CONSTANTS
  Channels,      (* the channels the caller subscribes to                   *)
  NoSocket,      (* _ws is None                                             *)
  MaxSockets     (* bound: connections established in a behaviour           *)

ASSUME SessionAssumption == MaxSockets \in Nat \ {0}

Sockets == 1..MaxSockets

VARIABLES
  running,       (* _running                                                *)
  ws,            (* _ws                                                     *)
  connected,
  channels,      (* the keys of _channels                                   *)
  subscribed,    (* socket -> the channels the venue streams on it          *)
  opened,        (* how many sockets were created; the newest has this number *)
  broken,        (* sockets that failed or were closed                      *)
  caller,        (* what the caller's thread is about to do                 *)
  reader         (* what the reader thread is about to do                   *)

sessionVars == <<running, ws, connected, channels, subscribed, opened, broken, caller, reader>>

At(pc) == [pc |-> pc]

SessionInit ==
  /\ running = FALSE /\ ws = NoSocket /\ connected = FALSE
  /\ channels = {}
  /\ subscribed = [s \in Sockets |-> {}]
  /\ opened = 0 /\ broken = {}
  /\ caller = At("start") /\ reader = At("unborn")

--------------------------------------------------------------------------------
(* The network.                                                             *)

Break ==
  /\ \E s \in 1..opened \ broken : broken' = broken \cup {s}
  /\ UNCHANGED <<running, ws, connected, channels, subscribed, opened, caller, reader>>

(* create_connection succeeded: a new socket, known to nobody yet.           *)
NewSocket ==
  /\ opened < MaxSockets
  /\ opened' = opened + 1

(* _connect after create_connection: the socket is published under the lock; *)
(* the flag is set, and on_connected fired, in a later step.                 *)
Publish(s) == ws' = s

(* ws.send: raises on a socket that is broken or gone.                       *)
SendFails(s) == s = NoSocket \/ s \in broken
Send(s, channel) ==
  IF SendFails(s) THEN UNCHANGED subscribed
  ELSE subscribed' = [subscribed EXCEPT ![s] = @ \cup {channel}]

--------------------------------------------------------------------------------
(* The caller's thread.                                                     *)

(* A start that cannot connect returns False and changes nothing.            *)
StartConnects ==
  /\ caller.pc = "start"
  /\ NewSocket /\ Publish(opened')
  /\ caller' = At("announce")
  /\ UNCHANGED <<running, connected, channels, subscribed, broken, reader>>

StartAnnounces ==
  /\ caller.pc = "announce"
  /\ connected' = TRUE
  /\ caller' = At("connected")
  /\ UNCHANGED <<running, ws, channels, subscribed, opened, broken, reader>>

(* _running is set and the reader started only after on_connected returned.  *)
StartReader ==
  /\ caller.pc = "connected"
  /\ running' = TRUE
  /\ reader' = At("loop")
  /\ caller' = At("started")
  /\ UNCHANGED <<ws, connected, channels, subscribed, opened, broken>>

(* A registration that happens only once the request is on its way.          *)
RegisterChannelLate(channel) ==
  /\ caller.pc = "started" /\ channel \notin channels
  /\ caller' = [pc |-> "send", channel |-> channel, ws |-> ws]
  /\ UNCHANGED <<running, ws, connected, channels, subscribed, opened, broken, reader>>

(* _subscribe_channel: register first; _send then takes the socket ...       *)
RegisterChannel(channel) ==
  /\ caller.pc = "started" /\ channel \notin channels
  /\ channels' = channels \cup {channel}
  /\ caller' = [pc |-> "take", channel |-> channel]
  /\ UNCHANGED <<running, ws, connected, subscribed, opened, broken, reader>>

TakeSocket ==
  /\ caller.pc = "take"
  /\ caller' = [pc |-> "send", channel |-> caller.channel, ws |-> ws]
  /\ UNCHANGED <<running, ws, connected, channels, subscribed, opened, broken, reader>>

(* ... and sends outside the lock.  A failure is logged or raised; either    *)
(* way the caller goes on with the channel registered.                       *)
SendRequest ==
  /\ caller.pc = "send"
  /\ channels' = channels \cup {caller.channel}
  /\ Send(caller.ws, caller.channel)
  /\ caller' = At("started")
  /\ UNCHANGED <<running, ws, connected, opened, broken, reader>>

(* stop is idempotent: it may follow a start that failed, or another stop.   *)
StopClears ==
  /\ caller.pc \in {"start", "started", "stopped"}
  /\ running' = FALSE
  /\ caller' = At("stopping")
  /\ UNCHANGED <<ws, connected, channels, subscribed, opened, broken, reader>>

(* Closing without the test that there is a socket.                          *)
StopTakesNothing ==
  /\ caller.pc = "stopping"
  /\ ws' = NoSocket
  /\ broken' = broken \cup {ws}
  /\ caller' = At("closed")
  /\ UNCHANGED <<running, connected, channels, subscribed, opened, reader>>

StopTakesSocket ==
  /\ caller.pc = "stopping"
  /\ ws' = NoSocket
  /\ broken' = broken \cup ({ws} \ {NoSocket})
  /\ caller' = At("closed")
  /\ UNCHANGED <<running, connected, channels, subscribed, opened, reader>>

StopReturns ==
  /\ caller.pc = "closed"
  /\ connected' = FALSE
  /\ caller' = At("stopped")
  /\ UNCHANGED <<running, ws, channels, subscribed, opened, broken, reader>>

--------------------------------------------------------------------------------
(* The reader thread.                                                       *)

(* A loop that does not look at _running again.                              *)
ReadForever ==
  /\ reader.pc = "loop"
  /\ reader' = [pc |-> "recv", ws |-> ws]
  /\ UNCHANGED <<running, ws, connected, channels, subscribed, opened, broken, caller>>

(* The test of _running, then the socket is taken under the lock.            *)
ReadNext ==
  /\ reader.pc = "loop"
  /\ reader' = IF running THEN [pc |-> "recv", ws |-> ws] ELSE At("exited")
  /\ UNCHANGED <<running, ws, connected, channels, subscribed, opened, broken, caller>>

(* A message, handled and done with.                                         *)
ReadMessage ==
  /\ reader.pc = "recv" /\ ~SendFails(reader.ws)
  /\ reader' = At("loop")
  /\ UNCHANGED <<running, ws, connected, channels, subscribed, opened, broken, caller>>

(* recv raised: a dead socket, or ten seconds without a message.             *)
ReadRaises ==
  /\ reader.pc = "recv"
  /\ IF running THEN connected' = FALSE /\ reader' = At("retry")
                ELSE UNCHANGED connected /\ reader' = At("exited")
  /\ UNCHANGED <<running, ws, channels, subscribed, opened, broken, caller>>

(* _reconnect's own test; the wait and create_connection come after it.      *)
Retry ==
  /\ reader.pc = "retry"
  /\ reader' = At(IF running THEN "connect" ELSE "loop")
  /\ UNCHANGED <<running, ws, connected, channels, subscribed, opened, broken, caller>>

RetryRefused ==
  /\ reader.pc = "connect"
  /\ reader' = At("retry")
  /\ UNCHANGED <<running, ws, connected, channels, subscribed, opened, broken, caller>>

RetryConnects ==
  /\ reader.pc = "connect"
  /\ NewSocket /\ Publish(opened')
  /\ reader' = At("announce")
  /\ UNCHANGED <<running, connected, channels, subscribed, broken, caller>>

RetryAnnounces ==
  /\ reader.pc = "announce"
  /\ connected' = TRUE
  /\ reader' = At("list")
  /\ UNCHANGED <<running, ws, channels, subscribed, opened, broken, caller>>

(* list(self._channels), then one request for each.                          *)
ListChannels ==
  /\ reader.pc = "list"
  /\ reader' = [pc |-> "resubscribe", todo |-> channels]
  /\ UNCHANGED <<running, ws, connected, channels, subscribed, opened, broken, caller>>

Resubscribe ==
  /\ reader.pc = "resubscribe"
  /\ \E channel \in reader.todo :
       /\ Send(ws, channel)
       /\ reader' = IF SendFails(ws) THEN At("retry")
                    ELSE [reader EXCEPT !.todo = @ \ {channel}]
  /\ UNCHANGED <<running, ws, connected, channels, opened, broken, caller>>

Resubscribed ==
  /\ reader.pc = "resubscribe" /\ reader.todo = {}
  /\ reader' = At("loop")
  /\ UNCHANGED <<running, ws, connected, channels, subscribed, opened, broken, caller>>

--------------------------------------------------------------------------------

Caller ==
  \/ StartConnects \/ StartAnnounces \/ StartReader
  \/ \E channel \in Channels : RegisterChannel(channel)
  \/ TakeSocket \/ SendRequest \/ StopClears \/ StopTakesSocket \/ StopReturns

Reader ==
  \/ ReadNext \/ ReadMessage \/ ReadRaises \/ Retry \/ RetryRefused
  \/ RetryConnects \/ RetryAnnounces \/ ListChannels \/ Resubscribe \/ Resubscribed

SessionNext == Break \/ Caller \/ Reader

(* The reader keeps running: a receive ends, with a message or, after the    *)
(* socket's ten seconds, without; a connection attempt ends too.  The caller *)
(* finishes what it began, and need never call stop.                         *)
SessionFairness == WF_sessionVars(Reader) /\ WF_sessionVars(StopTakesSocket \/ StopReturns)

SessionSpec == SessionInit /\ [][SessionNext]_sessionVars /\ SessionFairness

--------------------------------------------------------------------------------
(* Properties.                                                              *)

CallerStates ==
  [pc : {"start", "announce", "connected", "started", "stopping", "closed", "stopped"}]
    \cup [pc : {"take"}, channel : Channels]
    \cup [pc : {"send"}, channel : Channels, ws : Sockets \cup {NoSocket}]

ReaderStates ==
  [pc : {"unborn", "loop", "retry", "connect", "announce", "list", "exited"}]
    \cup [pc : {"recv"}, ws : Sockets \cup {NoSocket}]
    \cup [pc : {"resubscribe"}, todo : SUBSET Channels]

(* The variables range over what the client's attributes can hold, and what *)
(* is published or asked for is a socket that was opened.                   *)
SessionTypeOK ==
  /\ running \in BOOLEAN /\ connected \in BOOLEAN
  /\ opened \in 0..MaxSockets
  /\ ws \in (1..opened) \cup {NoSocket}
  /\ channels \subseteq Channels
  /\ subscribed \in [Sockets -> SUBSET Channels]
  /\ broken \subseteq 1..opened
  /\ caller \in CallerStates /\ reader \in ReaderStates

(* A reconnect may overlap a subscribe on the caller's thread.  Whatever the *)
(* order of their steps, a reader that is receiving on a working socket     *)
(* receives every channel asked for: none is left silently unsubscribed by  *)
(* _subscribe_channel and _reconnect between them.                          *)
EveryChannelSubscribed ==
  reader.pc = "recv" /\ reader.ws = ws /\ ~SendFails(ws)
      /\ caller.pc \notin {"take", "send"}
    => channels \subseteq subscribed[ws]

(* Once stop has returned the reader thread, if there was one, ends: from   *)
(* wherever in a receive, a wait or a reconnect it was (_read_loop,         *)
(* _reconnect).                                                             *)
ReaderStops == (caller.pc = "stopped") ~> (reader.pc \in {"unborn", "exited"})
===============================================================================
