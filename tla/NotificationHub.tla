--------------------------- MODULE NotificationHub ---------------------------
(***************************************************************************)
(* Notifications: an event is sent once within the time the deduplication  *)
(* remembers it, to every channel that is enabled and to the browsers      *)
(* connected to the WebSocket hub.  The hub is one goroutine; each client  *)
(* has a reader, a writer and a buffered channel between hub and writer,   *)
(* which only the hub may close (service/notification).                    *)
(***************************************************************************)
EXTENDS Naturals, FiniteSets

CONSTANTS Browsers, Channels, Events,
          SendBuffer,         \* messages a client's channel holds
          BroadcastBuffer     \* messages waiting for the hub

ASSUME HubAssumption == SendBuffer \in Nat \ {0} /\ BroadcastBuffer \in Nat \ {0}

VARIABLES hub,       \* registered clients, waiting messages, clients the current one still goes to
          client,    \* the goroutines, connection and channel of each client
          notice     \* remembered events, deliveries in progress and their record

hubVars == <<hub, client, notice>>

ClientRow == [reader : {"none", "registering", "reading", "leaving", "done"},
              writer : {"none", "running", "done"},
              conn : BOOLEAN, queued : 0 .. SendBuffer, closed : 0 .. 2, lost : BOOLEAN]

Absent == [reader |-> "none", writer |-> "none", conn |-> FALSE, queued |-> 0,
           closed |-> 0, lost |-> FALSE]

HubInit ==
  /\ hub = [registered |-> {}, waiting |-> 0, todo |-> {}]
  /\ client = [b \in Browsers |-> Absent]
  /\ notice = [remembered |-> {}, sending |-> {}, record |-> {}]

HubIdle == hub.todo = {}

(* HandleWebSocket blocks until the hub registers the client.              *)
Connect(b) ==
  /\ client[b].reader = "none"
  /\ client' = [client EXCEPT ![b] = [Absent EXCEPT !.reader = "registering", !.conn = TRUE]]
  /\ UNCHANGED <<hub, notice>>

Register(b) ==
  /\ HubIdle /\ client[b].reader = "registering"
  /\ hub' = [hub EXCEPT !.registered = @ \cup {b}]
  /\ client' = [client EXCEPT ![b].reader = "reading", ![b].writer = "running"]
  /\ UNCHANGED notice

(* The browser goes away, or does not answer in time.                      *)
Disconnect(b) ==
  /\ client[b].conn
  /\ client' = [client EXCEPT ![b].conn = FALSE]
  /\ UNCHANGED <<hub, notice>>

ReaderFails(b) ==
  /\ client[b].reader = "reading" /\ ~client[b].conn
  /\ client' = [client EXCEPT ![b].reader = "leaving"]
  /\ UNCHANGED <<hub, notice>>

(* Mutated: the channel is closed without looking whether it still is      *)
(* registered.                                                             *)
UnregisterAlways(b) ==
  /\ HubIdle /\ client[b].reader = "leaving"
  /\ hub' = [hub EXCEPT !.registered = @ \ {b}]
  /\ client' = [client EXCEPT ![b].reader = "done", ![b].conn = FALSE, ![b].closed = @ + 1]
  /\ UNCHANGED notice

Unregister(b) ==
  /\ HubIdle /\ client[b].reader = "leaving"
  /\ hub' = [hub EXCEPT !.registered = @ \ {b}]
  /\ client' = [client EXCEPT ![b].reader = "done", ![b].conn = FALSE,
                  ![b].closed = IF b \in hub.registered THEN @ + 1 ELSE @]
  /\ UNCHANGED notice

(* The writer sends what is queued; it ends when the channel is closed and *)
(* empty, or when the connection is gone (a ping tells it, at the latest). *)
WriterSends(b) ==
  /\ client[b].writer = "running" /\ client[b].queued > 0 /\ client[b].conn
  /\ client' = [client EXCEPT ![b].queued = 0]
  /\ UNCHANGED <<hub, notice>>

WriterEnds(b) ==
  /\ client[b].writer = "running"
  /\ ~client[b].conn \/ (client[b].closed > 0 /\ client[b].queued = 0)
  /\ client' = [client EXCEPT ![b].writer = "done", ![b].conn = FALSE]
  /\ UNCHANGED <<hub, notice>>

TakeBroadcast ==
  /\ HubIdle /\ hub.waiting > 0
  /\ hub' = [hub EXCEPT !.waiting = @ - 1, !.todo = hub.registered]
  /\ UNCHANGED <<client, notice>>

(* A client that does not keep up is dropped.  A message for a channel     *)
(* that is closed would end the program.                                   *)
SendToClient(b) ==
  LET full == client[b].queued = SendBuffer IN
  /\ b \in hub.todo
  /\ hub' = [hub EXCEPT !.todo = @ \ {b}, !.registered = IF full THEN @ \ {b} ELSE @]
  /\ client' = [client EXCEPT
       ![b].queued = IF full THEN @ ELSE @ + 1,
       ![b].conn = @ /\ ~full,
       ![b].closed = IF full \/ @ > 0 THEN @ + 1 ELSE @,
       ![b].lost = full]
  /\ UNCHANGED notice

-----------------------------------------------------------------------------
(* Service.Send: dedupe, then broadcast, then a goroutine per channel.     *)
Broadcast == IF hub.waiting < BroadcastBuffer THEN [hub EXCEPT !.waiting = @ + 1] ELSE hub

SendNotice(e, enabled) ==
  /\ e \notin notice.remembered
  /\ hub' = Broadcast
  /\ notice' = [notice EXCEPT !.remembered = @ \cup {e}, !.sending = @ \cup ({e} \X enabled)]
  /\ UNCHANGED client

(* The outcome is kept as the record of the notification; nobody repeats a *)
(* delivery that failed.                                                   *)
DeliveryEnds(e, c, sent) ==
  /\ <<e, c>> \in notice.sending
  /\ notice' = [notice EXCEPT !.sending = @ \ {<<e, c>>}, !.record = @ \cup {<<e, c, sent>>}]
  /\ UNCHANGED <<hub, client>>

(* dedupeCache.cleanup.                                                    *)
ForgetNotice(e) ==
  /\ e \in notice.remembered
  /\ notice' = [notice EXCEPT !.remembered = @ \ {e}]
  /\ UNCHANGED <<hub, client>>

HubNext ==
  \/ \E b \in Browsers :
       \/ Connect(b) \/ Register(b) \/ Disconnect(b) \/ ReaderFails(b) \/ Unregister(b)
       \/ WriterSends(b) \/ WriterEnds(b) \/ SendToClient(b)
  \/ TakeBroadcast
  \/ \E e \in Events :
       \/ \E enabled \in SUBSET Channels : SendNotice(e, enabled)
       \/ \E c \in Channels, sent \in BOOLEAN : DeliveryEnds(e, c, sent)
       \/ ForgetNotice(e)

HubSpec == HubInit /\ [][HubNext]_hubVars

(* The channel of a client is closed at most once and nothing is sent to a *)
(* closed one (either would end the program), and a client that is no      *)
(* longer registered, or that was dropped, has its channel closed.         *)
ChannelsClosedOnce ==
  \A b \in Browsers :
    /\ client[b].closed <= 1
    /\ b \in hub.registered => client[b].closed = 0
    /\ client[b].lost \/ client[b].reader = "done" => client[b].closed = 1
=============================================================================
