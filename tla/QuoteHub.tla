------------------------------ MODULE QuoteHub ------------------------------
(***************************************************************************)
(* The fan-out of quotes in the backend (internal/market/websocket/hub.go  *)
(* and Serve in handler.go): all sockets share one Redis subscription that *)
(* the first of them opens and the last one closes; each has a bounded     *)
(* buffer, and one that does not keep up is dropped.                       *)
(*                                                                         *)
(* One symbol.  Streams are numbered in the order they are opened; a       *)
(* client that connects again is a new connection of the same name.        *)
(***************************************************************************)
EXTENDS Naturals, Sequences

CONSTANTS HubClients,
          HubBuffer,    \* SendBufferSize
          MaxStreams    \* bound: subscriptions opened

ASSUME HubAssumption == HubBuffer \in Nat \ {0} /\ MaxStreams \in Nat

VARIABLES
  hbClients,   \* clients in the hub's map
  hbCancelled, \* clients whose context is cancelled
  hbTargets,   \* clients that follow the symbol
  hbBuffer,    \* events that wait, by client
  hbStream,    \* the hub's subscription, 0 if none
  hbOpen,      \* by subscription: not closed yet
  hbRunning    \* subscriptions whose goroutine has not ended

hbVars == <<hbClients, hbCancelled, hbTargets, hbBuffer, hbStream, hbOpen, hbRunning>>

QuoteHubInit ==
  /\ hbClients = {} /\ hbCancelled = {} /\ hbTargets = {}
  /\ hbBuffer = [c \in HubClients |-> 0]
  /\ hbStream = 0 /\ hbOpen = <<>> /\ hbRunning = {}

\* add
Add(c) ==
  /\ c \notin hbClients
  /\ hbClients' = hbClients \cup {c}
  /\ IF hbStream # 0
     THEN UNCHANGED <<hbStream, hbOpen, hbRunning>>
     ELSE /\ Len(hbOpen) < MaxStreams
          /\ hbOpen' = Append(hbOpen, TRUE)
          /\ hbStream' = Len(hbOpen')
          /\ hbRunning' = hbRunning \cup {hbStream'}
  /\ UNCHANGED <<hbCancelled, hbTargets, hbBuffer>>

\* deliver, to all of some clients at once.
DeliverTo(clients) ==
  /\ hbBuffer' = [c \in HubClients |->
                    IF c \in clients /\ hbBuffer[c] < HubBuffer THEN hbBuffer[c] + 1 ELSE hbBuffer[c]]
  /\ hbCancelled' = hbCancelled \cup {c \in clients : hbBuffer[c] = HubBuffer}

\* A command; Serve may still take one after its context was cancelled.  What is
\* subscribed to is answered with the last quote.
Subscribe(c) ==
  /\ c \in hbClients
  /\ hbTargets' = hbTargets \cup {c}
  /\ DeliverTo({c})
  /\ UNCHANGED <<hbClients, hbStream, hbOpen, hbRunning>>

Unsubscribe(c) ==
  /\ c \in hbTargets
  /\ hbTargets' = hbTargets \ {c}
  /\ UNCHANGED <<hbClients, hbCancelled, hbBuffer, hbStream, hbOpen, hbRunning>>

\* publish: a quote for those who follow the symbol, the feed's status for all.  What
\* an old subscription still has to deliver is not looked at.
Fanout ==
  /\ hbStream \in hbRunning
  /\ DeliverTo(hbTargets) \/ DeliverTo(hbClients)
  /\ UNCHANGED <<hbClients, hbTargets, hbStream, hbOpen, hbRunning>>

WritePump(c) ==
  /\ hbBuffer[c] > 0
  /\ hbBuffer' = [hbBuffer EXCEPT ![c] = @ - 1]
  /\ UNCHANGED <<hbClients, hbCancelled, hbTargets, hbStream, hbOpen, hbRunning>>

\* The connection ends from outside.
HangUp(c) ==
  /\ c \in hbClients \ hbCancelled
  /\ hbCancelled' = hbCancelled \cup {c}
  /\ UNCHANGED <<hbClients, hbTargets, hbBuffer, hbStream, hbOpen, hbRunning>>

\* remove: the last client closes the subscription.
RemoveClient(c) ==
  /\ c \in hbClients \cap hbCancelled
  /\ hbClients' = hbClients \ {c} /\ hbTargets' = hbTargets \ {c}
  /\ hbCancelled' = hbCancelled \ {c} /\ hbBuffer' = [hbBuffer EXCEPT ![c] = 0]
  /\ IF hbClients' = {} /\ hbStream # 0
     THEN hbOpen' = [hbOpen EXCEPT ![hbStream] = FALSE] /\ hbStream' = 0
     ELSE UNCHANGED <<hbOpen, hbStream>>
  /\ UNCHANGED hbRunning

\* The connection to Redis is closed under the hub.
StreamFails ==
  /\ hbStream # 0 /\ hbOpen[hbStream]
  /\ hbOpen' = [hbOpen EXCEPT ![hbStream] = FALSE]
  /\ UNCHANGED <<hbClients, hbCancelled, hbTargets, hbBuffer, hbStream, hbRunning>>

\* Fault: a goroutine that ends takes whatever subscription there is with it.
OwnsAny(g) == TRUE

\* "Never tear down a newer subscription when the final browser reconnects."
Owns(g) == hbStream = g

\* run, when its channel is closed.
RunEnds(g) ==
  /\ g \in hbRunning /\ ~hbOpen[g]
  /\ hbRunning' = hbRunning \ {g}
  /\ IF Owns(g)
     THEN hbStream' = 0 /\ hbCancelled' = hbCancelled \cup hbClients
     ELSE UNCHANGED <<hbStream, hbCancelled>>
  /\ UNCHANGED <<hbClients, hbTargets, hbBuffer, hbOpen>>

QuoteHubNext ==
  \/ \E c \in HubClients : \/ Add(c) \/ Subscribe(c) \/ Unsubscribe(c)
                           \/ WritePump(c) \/ HangUp(c) \/ RemoveClient(c)
  \/ Fanout \/ StreamFails
  \/ \E g \in 1..Len(hbOpen) : RunEnds(g)

-----------------------------------------------------------------------------
\* However clients come, lag and go while the last one closes the stream and the
\* next one opens another: a client that was not dropped is fed, or will be dropped
\* because its stream ended; no stream stays open that the hub does not read; and
\* nobody who left is delivered to.
HubFeedsOrDrops ==
  /\ \A c \in hbClients \ hbCancelled :
       hbStream # 0 /\ (hbOpen[hbStream] \/ hbStream \in hbRunning)
  /\ \A g \in 1..Len(hbOpen) : hbOpen[g] => g = hbStream
  /\ hbStream # 0 => hbClients # {} /\ hbStream \in hbRunning
  /\ hbTargets \subseteq hbClients
=============================================================================
