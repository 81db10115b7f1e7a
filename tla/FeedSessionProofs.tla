--------------------------- MODULE FeedSessionProofs ---------------------------
(***************************************************************************)
(* Proofs about the life of a connection, for any number of channels and   *)
(* of reconnects.                                                          *)
(***************************************************************************)
EXTENDS FeedSession, TLAPS

(* What the two threads' states are made of.                                *)
LEMMA CallerPoints ==
  /\ \A pc \in {"start", "announce", "connected", "started", "stopping", "closed",
                "stopped"} : At(pc) \in CallerStates
  /\ \A channel \in Channels : [pc |-> "take", channel |-> channel] \in CallerStates
  /\ \A channel \in Channels, s \in Sockets \cup {NoSocket} :
       [pc |-> "send", channel |-> channel, ws |-> s] \in CallerStates
BY DEF CallerStates, At

LEMMA CallerParts ==
  ASSUME NEW state \in CallerStates
  PROVE  /\ state.pc \in {"take", "send"} => state.channel \in Channels
         /\ state.pc = "send" => state.ws \in Sockets \cup {NoSocket}
<1>1. CASE state \in [pc : {"start", "announce", "connected", "started", "stopping",
                            "closed", "stopped"}]
  BY <1>1
<1>2. CASE state \in [pc : {"take"}, channel : Channels]
  BY <1>2
<1>3. CASE state \in [pc : {"send"}, channel : Channels, ws : Sockets \cup {NoSocket}]
  BY <1>3
<1> QED  BY <1>1, <1>2, <1>3 DEF CallerStates

LEMMA ReaderPoints ==
  /\ \A pc \in {"unborn", "loop", "retry", "connect", "announce", "list", "exited"} :
       At(pc) \in ReaderStates
  /\ \A s \in Sockets \cup {NoSocket} : [pc |-> "recv", ws |-> s] \in ReaderStates
  /\ \A todo \in SUBSET Channels : [pc |-> "resubscribe", todo |-> todo] \in ReaderStates
BY DEF ReaderStates, At

LEMMA ReaderParts ==
  ASSUME NEW state \in ReaderStates, state.pc = "resubscribe"
  PROVE  /\ state.todo \in SUBSET Channels
         /\ \A rest \in SUBSET Channels : [state EXCEPT !.todo = rest] \in ReaderStates
<1>1. state \in [pc : {"resubscribe"}, todo : SUBSET Channels]
  BY DEF ReaderStates
<1> QED  BY <1>1 DEF ReaderStates

(* The variables of a Bitstamp session keep their types, and every socket   *)
(* that is published was opened before (BitstampClient).                    *)
LEMMA TypeInit == SessionInit => SessionTypeOK
<1> SUFFICES ASSUME SessionInit PROVE SessionTypeOK
  OBVIOUS
<1>1. caller \in CallerStates /\ reader \in ReaderStates
  BY CallerPoints, ReaderPoints DEF SessionInit
<1>2. [s \in Sockets |-> {}] \in [Sockets -> SUBSET Channels]
  OBVIOUS
<1>3. 0 \in 0..MaxSockets
  BY SessionAssumption
<1> QED  BY <1>1, <1>2, <1>3 DEF SessionInit, SessionTypeOK

(* Sending leaves a map of sockets to channels.                             *)
LEMMA SendKeepsType ==
  ASSUME SessionTypeOK, NEW s \in Sockets \cup {NoSocket}, NEW channel \in Channels,
         Send(s, channel)
  PROVE  subscribed' \in [Sockets -> SUBSET Channels]
BY DEF SessionTypeOK, Send, SendFails

LEMMA SocketsPublished ==
  ASSUME SessionTypeOK
  PROVE  ws \in Sockets \cup {NoSocket}
<1>1. 1..opened \subseteq 1..MaxSockets
  BY SessionAssumption DEF SessionTypeOK
<1> QED  BY <1>1 DEF SessionTypeOK, Sockets

LEMMA CallerKeepsType ==
  ASSUME SessionTypeOK, Caller
  PROVE  SessionTypeOK'
<1> USE SessionAssumption, CallerPoints
<1>1. CASE StartConnects
  BY <1>1 DEF StartConnects, NewSocket, Publish, SessionTypeOK
<1>2. CASE StartAnnounces
  BY <1>2 DEF StartAnnounces, SessionTypeOK
<1>3. CASE StartReader
  BY <1>3, ReaderPoints DEF StartReader, SessionTypeOK
<1>4. CASE \E channel \in Channels : RegisterChannel(channel)
  BY <1>4 DEF RegisterChannel, SessionTypeOK
<1>5. CASE TakeSocket
  BY <1>5, CallerParts, SocketsPublished DEF TakeSocket, SessionTypeOK
<1>6. CASE SendRequest
  <2>1. caller \in CallerStates /\ caller.pc = "send"
    BY <1>6 DEF SendRequest, SessionTypeOK
  <2>2. caller.channel \in Channels /\ caller.ws \in Sockets \cup {NoSocket}
    BY <2>1, CallerParts
  <2>3. subscribed' \in [Sockets -> SUBSET Channels]
    BY <1>6, <2>2, SendKeepsType DEF SendRequest
  <2> QED  BY <1>6, <2>2, <2>3 DEF SendRequest, SessionTypeOK
<1>7. CASE StopClears
  BY <1>7 DEF StopClears, SessionTypeOK
<1>8. CASE StopTakesSocket
  BY <1>8 DEF StopTakesSocket, SessionTypeOK
<1>9. CASE StopReturns
  BY <1>9 DEF StopReturns, SessionTypeOK
<1> QED  BY <1>1, <1>2, <1>3, <1>4, <1>5, <1>6, <1>7, <1>8, <1>9 DEF Caller

LEMMA ReaderKeepsType ==
  ASSUME SessionTypeOK, Reader
  PROVE  SessionTypeOK'
<1> USE SessionAssumption, ReaderPoints
<1>1. CASE ReadNext
  BY <1>1, SocketsPublished DEF ReadNext, SessionTypeOK
<1>2. CASE ReadMessage
  BY <1>2 DEF ReadMessage, SessionTypeOK
<1>3. CASE ReadRaises
  BY <1>3 DEF ReadRaises, SessionTypeOK
<1>4. CASE Retry
  BY <1>4 DEF Retry, SessionTypeOK
<1>5. CASE RetryRefused
  BY <1>5 DEF RetryRefused, SessionTypeOK
<1>6. CASE RetryConnects
  BY <1>6 DEF RetryConnects, NewSocket, Publish, SessionTypeOK
<1>7. CASE RetryAnnounces
  BY <1>7 DEF RetryAnnounces, SessionTypeOK
<1>8. CASE ListChannels
  BY <1>8 DEF ListChannels, SessionTypeOK
<1>9. CASE Resubscribe
  <2>1. reader \in ReaderStates /\ reader.pc = "resubscribe"
    BY <1>9 DEF Resubscribe, SessionTypeOK
  <2>2. PICK channel \in reader.todo :
          /\ Send(ws, channel)
          /\ reader' = IF SendFails(ws) THEN At("retry")
                       ELSE [reader EXCEPT !.todo = @ \ {channel}]
    BY <1>9 DEF Resubscribe
  <2>3. channel \in Channels /\ reader.todo \ {channel} \in SUBSET Channels
    BY <2>1, <2>2, ReaderParts
  <2>4. subscribed' \in [Sockets -> SUBSET Channels]
    BY <2>2, <2>3, SendKeepsType, SocketsPublished
  <2>5. [reader EXCEPT !.todo = reader.todo \ {channel}] \in ReaderStates
    BY <2>1, <2>3, ReaderParts
  <2>6. reader' \in ReaderStates
    BY <2>2, <2>5
  <2> QED  BY <1>9, <2>4, <2>6 DEF Resubscribe, SessionTypeOK
<1>10. CASE Resubscribed
  BY <1>10 DEF Resubscribed, SessionTypeOK
<1> QED  BY <1>1, <1>2, <1>3, <1>4, <1>5, <1>6, <1>7, <1>8, <1>9, <1>10 DEF Reader

LEMMA TypeStep == SessionTypeOK /\ [SessionNext]_sessionVars => SessionTypeOK'
<1> SUFFICES ASSUME SessionTypeOK, [SessionNext]_sessionVars PROVE SessionTypeOK'
  OBVIOUS
<1>1. CASE Break
  BY <1>1 DEF Break, SessionTypeOK
<1>2. CASE UNCHANGED sessionVars
  BY <1>2 DEF sessionVars, SessionTypeOK
<1> QED  BY <1>1, <1>2, CallerKeepsType, ReaderKeepsType DEF SessionNext

(* The attributes of a Bitstamp client keep their types, and whatever is in *)
(* _ws or was taken from it is a socket that create_connection returned.    *)
THEOREM SessionTypeCorrect == SessionSpec => []SessionTypeOK
BY TypeInit, TypeStep, PTL DEF SessionSpec

--------------------------------------------------------------------------------

(* Where the reader has listed the channels, or has none to list.           *)
Listening == reader.pc \in {"loop", "recv", "retry", "connect", "resubscribe"}

(* A request for the channel is still on its way to the socket in _ws.      *)
OnItsWay(channel) ==
  \/ reader.pc = "resubscribe" /\ channel \in reader.todo
  \/ caller.pc = "take" /\ caller.channel = channel
  \/ caller.pc = "send" /\ caller.channel = channel /\ caller.ws = ws

(* What the threads owe each other: nothing is registered before the reader *)
(* is born, a channel is registered before its request goes out, and a      *)
(* channel of the map is on the socket in _ws or on its way there.          *)
SubscribedInv ==
  /\ caller.pc \in {"start", "announce", "connected"} =>
       channels = {} /\ reader.pc = "unborn"
  /\ caller.pc \in {"take", "send"} => caller.channel \in channels
  /\ Listening /\ ~SendFails(ws) =>
       \A channel \in channels : channel \in subscribed[ws] \/ OnItsWay(channel)

(* Of what is streamed on a working socket, sending takes nothing away.     *)
LEMMA SendAdds ==
  ASSUME SessionTypeOK, NEW s \in Sockets \cup {NoSocket}, NEW channel \in Channels,
         Send(s, channel), ~SendFails(ws)
  PROVE  /\ subscribed[ws] \subseteq subscribed'[ws]
         /\ s = ws => channel \in subscribed'[ws]
<1>1. ws \in Sockets
  BY SocketsPublished DEF SendFails
<1> QED  BY <1>1 DEF Send, SendFails, SessionTypeOK

LEMMA CallerKeepsSubscribed ==
  ASSUME SessionTypeOK, SubscribedInv, Caller
  PROVE  SubscribedInv'
<1> USE DEF SubscribedInv, Listening, OnItsWay, At
<1>1. CASE StartConnects
  BY <1>1 DEF StartConnects, SendFails
<1>2. CASE StartAnnounces
  BY <1>2 DEF StartAnnounces, SendFails
<1>3. CASE StartReader
  BY <1>3 DEF StartReader, SendFails
<1>4. CASE \E channel \in Channels : RegisterChannel(channel)
  BY <1>4 DEF RegisterChannel, SendFails
<1>5. CASE TakeSocket
  BY <1>5 DEF TakeSocket, SendFails
<1>6. CASE SendRequest
  <2>1. caller.channel \in Channels /\ caller.ws \in Sockets \cup {NoSocket}
    BY <1>6, CallerParts DEF SendRequest, SessionTypeOK
  <2>2. /\ caller.channel \in channels /\ channels' = channels
        /\ UNCHANGED <<reader, ws, broken>> /\ caller'.pc = "started"
    BY <1>6 DEF SendRequest
  <2>3. ASSUME Listening, ~SendFails(ws), NEW channel \in channels
        PROVE  channel \in subscribed'[ws] \/ (reader.pc = "resubscribe" /\ channel \in reader.todo)
    BY <1>6, <2>1, <2>3, SendAdds DEF SendRequest
  <2> QED  BY <2>2, <2>3 DEF SendFails
<1>7. CASE StopClears
  BY <1>7 DEF StopClears, SendFails
<1>8. CASE StopTakesSocket
  BY <1>8 DEF StopTakesSocket, SendFails
<1>9. CASE StopReturns
  BY <1>9 DEF StopReturns, SendFails
<1> QED  BY <1>1, <1>2, <1>3, <1>4, <1>5, <1>6, <1>7, <1>8, <1>9 DEF Caller

LEMMA ReaderKeepsSubscribed ==
  ASSUME SessionTypeOK, SubscribedInv, Reader
  PROVE  SubscribedInv'
<1> USE DEF SubscribedInv, Listening, OnItsWay, At, SendFails
<1>1. CASE ReadNext \/ ReadMessage \/ ReadRaises \/ Retry \/ RetryRefused
  BY <1>1 DEF ReadNext, ReadMessage, ReadRaises, Retry, RetryRefused
<1>2. CASE RetryConnects \/ RetryAnnounces
  BY <1>2 DEF RetryConnects, RetryAnnounces
<1>3. CASE ListChannels \/ Resubscribed
  BY <1>3 DEF ListChannels, Resubscribed
<1>4. CASE Resubscribe
  <2>1. reader \in ReaderStates /\ reader.pc = "resubscribe"
    BY <1>4 DEF Resubscribe, SessionTypeOK
  <2>2. PICK sent \in reader.todo :
          /\ Send(ws, sent)
          /\ reader' = IF SendFails(ws) THEN At("retry")
                       ELSE [reader EXCEPT !.todo = @ \ {sent}]
    BY <1>4 DEF Resubscribe
  <2>3. sent \in Channels
    BY <2>1, <2>2, ReaderParts
  <2>4. ~SendFails(ws) =>
          subscribed[ws] \subseteq subscribed'[ws] /\ sent \in subscribed'[ws]
    BY <2>2, <2>3, SendAdds, SocketsPublished
  <2>5. UNCHANGED <<caller, channels, ws, broken>>
    BY <1>4 DEF Resubscribe
  <2>6. ~SendFails(ws) =>
          reader'.pc = "resubscribe" /\ reader'.todo = reader.todo \ {sent}
    BY <2>1, <2>2 DEF ReaderStates
  <2>7. ~SendFails(ws)' /\ Listening' =>
          \A channel \in channels' : channel \in subscribed'[ws'] \/ OnItsWay(channel)'
    BY <2>1, <2>4, <2>5, <2>6
  <2> QED  BY <2>1, <2>5, <2>7
<1> QED  BY <1>1, <1>2, <1>3, <1>4 DEF Reader

LEMMA SubscribedStep == SessionTypeOK /\ SubscribedInv /\ [SessionNext]_sessionVars => SubscribedInv'
<1> SUFFICES ASSUME SessionTypeOK, SubscribedInv, [SessionNext]_sessionVars PROVE SubscribedInv'
  OBVIOUS
<1>1. CASE Break
  BY <1>1 DEF Break, SubscribedInv, Listening, OnItsWay, SendFails
<1>2. CASE UNCHANGED sessionVars
  BY <1>2 DEF sessionVars, SubscribedInv, Listening, OnItsWay, SendFails
<1> QED  BY <1>1, <1>2, CallerKeepsSubscribed, ReaderKeepsSubscribed DEF SessionNext

(* However subscriptions, reconnects, failures and a stop interleave, the   *)
(* reader receives every registered channel on the socket it reads          *)
(* (_subscribe_channel registers before _send takes the socket; _reconnect  *)
(* publishes the socket before it lists the channels).                      *)
THEOREM ChannelsSubscribed == SessionSpec => []EveryChannelSubscribed
<1>1. SessionInit => SubscribedInv
  BY DEF SessionInit, At, SubscribedInv, Listening, OnItsWay
<1>2. SubscribedInv => EveryChannelSubscribed
  BY DEF SubscribedInv, EveryChannelSubscribed, Listening, OnItsWay
<1> QED  BY <1>1, <1>2, TypeInit, TypeStep, SubscribedStep, PTL DEF SessionSpec
================================================================================
