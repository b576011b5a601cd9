-------------------------------- MODULE SseHub --------------------------------
(***************************************************************************)
(* The hub of server-sent events: clients register a buffered channel,     *)
(* broadcasts offer an event to each of them, and three paths take a       *)
(* client out and close its channel (sse.SSEHub, sse.SSENotifier).         *)
(***************************************************************************)
EXTENDS Integers, Sequences, FiniteSets

CONSTANTS
  Clients,      \* connections, one channel each
  UserOf,       \* by client: who is connected
  Admins,       \* clients with the admin flag
  BufferSize,   \* of a channel
  MaxEvents     \* bound: broadcasts

ASSUME HubAssumption == BufferSize \in Nat \ {0} /\ Admins \subseteq Clients

VARIABLES
  clients,      \* the registered ones
  loop,         \* by client, its ServeHTTP: "off", "on" or "left"
  buf,          \* by client, its channel
  closes,       \* by client, how often its channel was closed
  owedClose,    \* closes that follow the removal, outside the lock
  sentEvents    \* broadcasts so far

hubVars == <<clients, loop, buf, closes, owedClose, sentEvents>>

HubInit ==
  /\ clients = {} /\ owedClose = {} /\ sentEvents = 0
  /\ loop = [c \in Clients |-> "off"]
  /\ buf = [c \in Clients |-> <<>>]
  /\ closes = [c \in Clients |-> 0]

\* ServeHTTP up to its loop.
Register(c) ==
  /\ loop[c] = "off"
  /\ loop' = [loop EXCEPT ![c] = "on"]
  /\ clients' = clients \cup {c}
  /\ UNCHANGED <<buf, closes, owedClose, sentEvents>>

\* Mutant: close whatever is asked for, registered or not.
TakeOutUnchecked(cs) ==
  /\ clients' = clients \ cs
  /\ owedClose' = owedClose \cup cs

\* The removal under the lock; who removed a client closes its channel later.
TakeOut(cs) ==
  /\ clients' = clients \ cs
  /\ owedClose' = owedClose \cup (cs \cap clients)

\* The request ends or a write fails; the deferred Unregister.
Unregister(c) ==
  /\ loop[c] = "on"
  /\ loop' = [loop EXCEPT ![c] = "left"]
  /\ TakeOut({c})
  /\ UNCHANGED <<buf, closes, sentEvents>>

\* A user is logged out or removed.
UnregisterByUserID(u) ==
  /\ \E c \in clients : UserOf[c] = u
  /\ TakeOut({c \in clients : UserOf[c] = u})
  /\ UNCHANGED <<loop, buf, closes, sentEvents>>

CloseTaken(c) ==
  /\ c \in owedClose
  /\ owedClose' = owedClose \ {c}
  /\ closes' = [closes EXCEPT ![c] = @ + 1]
  /\ UNCHANGED <<clients, loop, buf, sentEvents>>

\* Shutdown removes and closes in one critical section.
HubShutdown ==
  /\ clients # {}
  /\ clients' = {}
  /\ closes' = [c \in Clients |-> closes[c] + IF c \in clients THEN 1 ELSE 0]
  /\ UNCHANGED <<loop, buf, owedClose, sentEvents>>

isAdminOnlyEvent(type) == type \in {"job", "log_line"}

\* Every listener is offered the event; a full buffer drops it.
Broadcast(type) ==
  /\ sentEvents < MaxEvents
  /\ sentEvents' = sentEvents + 1
  /\ buf' = [c \in Clients |->
               IF c \in clients /\ (c \in Admins \/ ~isAdminOnlyEvent(type)) /\ Len(buf[c]) < BufferSize
               THEN Append(buf[c], type) ELSE buf[c]]
  /\ UNCHANGED <<clients, loop, closes, owedClose>>

\* What is broadcast: job and log lines, download and import records, heartbeats.
broadcastRecord == {"record"}
StartHeartbeat == {"heartbeat"}
EventTypes == {"job"} \cup broadcastRecord \cup StartHeartbeat

\* ServeHTTP's loop: an event is written out; a closed and drained channel ends it.
ServeEvent(c) ==
  /\ loop[c] = "on" /\ buf[c] # <<>>
  /\ buf' = [buf EXCEPT ![c] = Tail(@)]
  /\ UNCHANGED <<clients, loop, closes, owedClose, sentEvents>>

HubNext ==
  \/ \E c \in Clients : Register(c) \/ Unregister(c) \/ CloseTaken(c) \/ ServeEvent(c)
  \/ \E c \in Clients : UnregisterByUserID(UserOf[c])
  \/ \E t \in EventTypes : Broadcast(t)
  \/ HubShutdown

HubTypeOK ==
  /\ clients \subseteq Clients /\ owedClose \subseteq Clients
  /\ loop \in [Clients -> {"off", "on", "left"}]
  /\ \A c \in Clients : Len(buf[c]) <= BufferSize

----------------------------------------------------------------------------
\* A channel is closed at most once and never while the client can still be
\* sent to: logging out, leaving and shutting down may meet in any order.
ChannelClosedOnce ==
  \A c \in Clients : closes[c] <= IF c \in clients THEN 0 ELSE 1
=============================================================================
