------------------------------- MODULE PubSub -------------------------------
(* The LISTEN connection of one instance, over which it hears the messages of
   the other instances' WebSocket hubs
   (src/apps/api/src/infrastructure/pubsub/index.ts).

   connect is a coroutine: between asking for a connection, asking for LISTEN and
   being answered, stop, start, errors of older connections and reconnect timers
   run.  The module's `client` names one connection; a connection that is live
   delivers what it hears whether `client` names it or not. *)
EXTENDS Naturals, FiniteSets

CONSTANTS Conns,      \* ids of connections, used again once closed
          Messages,   \* messages of this instance and of another one
          Own,        \* those of this instance
          Large       \* those over MAX_PAYLOAD_BYTES, sent by reference

\* Bounds of the model, not of the code.
CONSTANTS MaxLosses,  \* connections lost or refused
          MaxStarts   \* calls of start

ASSUME PubSubAssumption ==
  /\ Conns \subseteq Nat \ {0} /\ IsFiniteSet(Conns)
  /\ Own \subseteq Messages /\ Large \subseteq Messages
  /\ MaxLosses \in Nat /\ MaxStarts \in Nat

VARIABLES conn,      \* each connection: closed, opening, listening (asked) or live
          wire,      \* the notifications a connection has not yet handed over
          client,    \* the connection of the module's binding, 0 for undefined
          stopped,
          timer, strays,   \* the reconnect timer, and how many it forgot about
          hub,       \* down, starting (start awaits stop), up
          awaited,   \* the connection whose first attempt start waits for, or 0
          fetching,  \* rehydrate calls under way, by message
          sent, heard,     \* messages published; how often the local hub got each
          crossed,   \* history: the overlaps that the code does not keep apart
          losses, starts

pubsubVars == <<conn, wire, client, stopped, timer, strays, hub, awaited, fetching,
                sent, heard, crossed, losses, starts>>
traffic == <<fetching, sent, heard>>

PubSubInit ==
  /\ conn = [c \in Conns |-> "closed"]
  /\ wire = [c \in Conns |-> {}]
  /\ client = 0 /\ stopped = FALSE /\ timer = FALSE /\ strays = 0
  /\ hub = "down" /\ awaited = 0
  /\ fetching = [m \in Messages |-> 0]
  /\ sent = {} /\ heard = [m \in Messages |-> 0]
  /\ crossed = FALSE /\ losses = 0 /\ starts = 0

LiveConns == {c \in Conns : conn[c] = "live"}
Pending == {c \in Conns : conn[c] \in {"opening", "listening"}}

\* scheduleReconnect, n times in a row: the module remembers the last timer only.
Schedule(n) ==
  IF stopped THEN UNCHANGED <<timer, strays>>
  ELSE /\ timer' = TRUE
       /\ strays' = strays + n - (IF timer THEN 0 ELSE 1)

Closes(c) == /\ conn' = [conn EXCEPT ![c] = "closed"]
             /\ wire' = [wire EXCEPT ![c] = {}]

\* connect: a client of its own.
Opens == \E c \in Conns :
  /\ conn[c] = "closed" /\ \A b \in Conns : conn[b] = "closed" => c <= b
  /\ conn' = [conn EXCEPT ![c] = "opening"]

Answered(c) == awaited' = IF awaited = c THEN 0 ELSE awaited

----------------------------------------------------------------------------
\* The connection stands; LISTEN is sent.
Opened(c) ==
  /\ conn[c] = "opening"
  /\ conn' = [conn EXCEPT ![c] = "listening"]
  /\ UNCHANGED <<wire, client, stopped, timer, strays, hub, awaited, traffic, crossed,
                 losses, starts>>

\* LISTEN is answered: the client is installed, or closed if stop ran meanwhile.
Listens(c) ==
  /\ conn[c] = "listening"
  /\ IF stopped THEN conn' = [conn EXCEPT ![c] = "closed"] /\ UNCHANGED client
     ELSE conn' = [conn EXCEPT ![c] = "live"] /\ client' = c
  /\ Answered(c)
  /\ UNCHANGED <<wire, stopped, timer, strays, hub, traffic, crossed, losses, starts>>

Loss == losses < MaxLosses /\ losses' = losses + 1

\* Mutant of Refused: a connection that cannot be made is not tried again.
RefusedForGood(c) ==
  /\ Loss /\ c \in Pending
  /\ Closes(c) /\ Answered(c)
  /\ UNCHANGED <<client, stopped, timer, strays, hub, traffic, crossed, starts>>

\* connect or LISTEN is refused: the catch of connect.
Refused(c) ==
  /\ Loss /\ c \in Pending
  /\ Closes(c) /\ Answered(c)
  /\ Schedule(1)
  /\ UNCHANGED <<client, stopped, hub, traffic, crossed, starts>>

\* The connection is lost while LISTEN is under way: the error event and the catch
\* both schedule a reconnect, and the event clears whatever client is installed.
LostListening(c) ==
  /\ Loss /\ conn[c] = "listening"
  /\ Closes(c) /\ Answered(c)
  /\ client' = 0
  /\ Schedule(2)
  /\ crossed' = (crossed \/ ~stopped)
  /\ UNCHANGED <<stopped, hub, traffic, starts>>

\* A live connection is lost, be it the installed one or one nobody remembers.
Lost(c) ==
  /\ Loss /\ conn[c] = "live"
  /\ Closes(c)
  /\ client' = 0
  /\ Schedule(1)
  /\ UNCHANGED <<stopped, hub, awaited, traffic, crossed, starts>>

\* A reconnect timer fires; connect returns at once when stopped.
TimerFires ==
  /\ \/ timer /\ timer' = FALSE /\ UNCHANGED strays
     \/ strays > 0 /\ strays' = strays - 1 /\ UNCHANGED timer
  /\ IF stopped THEN UNCHANGED conn ELSE Opens
  /\ UNCHANGED <<wire, client, stopped, hub, awaited, traffic, crossed, losses, starts>>

----------------------------------------------------------------------------
\* stop, up to its await: the installed connection ends.
Stops ==
  /\ stopped' = TRUE /\ timer' = FALSE /\ client' = 0
  /\ conn' = [c \in Conns |-> IF c = client THEN "closed" ELSE conn[c]]
  /\ wire' = [c \in Conns |-> IF c = client THEN {} ELSE wire[c]]

\* Mutant of Start: the running listener is left alone.
StartBeside ==
  /\ hub \in {"down", "up"} /\ awaited = 0
  /\ starts < MaxStarts /\ starts' = starts + 1
  /\ hub' = "starting"
  /\ crossed' = (crossed \/ Pending # {} \/ strays > 0)
  /\ UNCHANGED <<conn, wire, client, stopped, timer, strays, awaited, traffic, losses>>

\* start stops what is running first.
Start ==
  /\ hub \in {"down", "up"} /\ awaited = 0
  /\ starts < MaxStarts /\ starts' = starts + 1
  /\ hub' = "starting"
  /\ Stops
  /\ crossed' = (crossed \/ Pending # {} \/ strays > 0)
  /\ UNCHANGED <<strays, awaited, traffic, losses>>

\* ... and connects.
StartConnects ==
  /\ hub = "starting" /\ hub' = "up"
  /\ stopped' = FALSE
  /\ Opens
  /\ awaited' = CHOOSE c \in Conns : conn'[c] # conn[c]
  /\ UNCHANGED <<wire, client, timer, strays, traffic, crossed, losses, starts>>

\* onClose: stop, once start has returned.
Stop ==
  /\ hub = "up" /\ awaited = 0
  /\ hub' = "down"
  /\ Stops
  /\ UNCHANGED <<strays, awaited, traffic, crossed, losses, starts>>

----------------------------------------------------------------------------
Notify(m) ==
  /\ m \notin sent /\ sent' = sent \cup {m}
  /\ wire' = [c \in Conns |-> IF c \in LiveConns THEN wire[c] \cup {m} ELSE wire[c]]

\* Another instance publishes.
PeerSends(m) ==
  /\ m \in Messages \ Own
  /\ Notify(m)
  /\ UNCHANGED <<conn, client, stopped, timer, strays, hub, awaited, fetching, heard,
                 crossed, losses, starts>>

\* publish: the local subscribers first, then broadcast, if there is a client.
Publish(m) ==
  /\ m \in Own /\ hub = "up"
  /\ IF client = 0 THEN m \notin sent /\ sent' = sent \cup {m} /\ UNCHANGED wire
     ELSE Notify(m)
  /\ heard' = [heard EXCEPT ![m] = @ + 1]
  /\ UNCHANGED <<conn, client, stopped, timer, strays, hub, awaited, fetching, crossed,
                 losses, starts>>

\* envelope.from === INSTANCE_ID.
Ignored(m) == m \in Own

\* The notification handler of a connection, installed or not.
Notified(c, m) ==
  /\ m \in wire[c]
  /\ wire' = [wire EXCEPT ![c] = @ \ {m}]
  /\ heard' = IF Ignored(m) \/ m \in Large THEN heard ELSE [heard EXCEPT ![m] = @ + 1]
  /\ fetching' = IF ~Ignored(m) /\ m \in Large THEN [fetching EXCEPT ![m] = @ + 1]
                 ELSE fetching
  /\ UNCHANGED <<conn, client, stopped, timer, strays, hub, awaited, sent, crossed,
                 losses, starts>>

\* rehydrate: the row is read and delivered, or the query fails.
Rehydrated(m) ==
  /\ fetching[m] > 0
  /\ fetching' = [fetching EXCEPT ![m] = @ - 1]
  /\ \/ heard' = [heard EXCEPT ![m] = @ + 1]
     \/ UNCHANGED heard
  /\ UNCHANGED <<conn, wire, client, stopped, timer, strays, hub, awaited, sent, crossed,
                 losses, starts>>

----------------------------------------------------------------------------
Connecting ==
  \/ \E c \in Conns : Opened(c) \/ Listens(c)
  \/ TimerFires \/ StartConnects

PubSubNext ==
  \/ Connecting
  \/ \E c \in Conns : Refused(c) \/ LostListening(c) \/ Lost(c)
  \/ Start \/ Stop
  \/ \E m \in Messages : PeerSends(m) \/ Publish(m) \/ Rehydrated(m)
  \/ \E c \in Conns, m \in Messages : Notified(c, m)

PubSubSpec == PubSubInit /\ [][PubSubNext]_pubsubVars

----------------------------------------------------------------------------
\* The shape of the state; what the binding names is live, what start waits for is
\* under way.
PubSubTypeOK ==
  /\ conn \in [Conns -> {"closed", "opening", "listening", "live"}]
  /\ wire \in [Conns -> SUBSET Messages]
  /\ client \in LiveConns \cup {0} /\ awaited \in Pending \cup {0}
  /\ stopped \in BOOLEAN /\ timer \in BOOLEAN /\ strays \in Nat
  /\ hub \in {"down", "starting", "up"}
  /\ fetching \in [Messages -> Nat] /\ heard \in [Messages -> Nat]
  /\ sent \subseteq Messages /\ crossed \in BOOLEAN
  /\ losses \in 0 .. MaxLosses /\ starts \in 0 .. MaxStarts

\* One connection listens at a time, also over restarts of the app, unless a
\* connection was lost in the middle of LISTEN (both handlers reconnect), or start
\* ran while a reconnect was under way.
OneListener == ~crossed => Cardinality(LiveConns) <= 1

\* The local hub gets a message once: neither an echo of its own, nor a message of
\* another instance through two connections.
HeardOnce == ~crossed => \A m \in Messages : heard[m] <= 1

\* After stop nothing listens once the attempts under way have been answered.
StoppedIsSilent == stopped /\ Pending = {} /\ ~crossed => LiveConns = {}

\* While the app runs, a lost connection is replaced: once losses end, there is a
\* client again and it stays.  Also after an error of a connection nobody remembers
\* has cleared a client that was fine.
ComesBack == <>[](hub = "up") => <>[](client # 0)

\* The channel between instances at every moment: one listener, every message heard
\* once, silence after the stop.
PubSubSafe ==
  /\ PubSubTypeOK
  /\ OneListener
  /\ HeardOnce
  /\ StoppedIsSilent
============================================================================
