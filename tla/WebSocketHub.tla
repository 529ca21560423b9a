---------------------------- MODULE WebSocketHub ----------------------------
(* The WebSocket hub of one API process: a socket is admitted with a single-use
   ticket, joins and leaves channels, and is closed by its peer, by the hub, or
   by the sweep that checks every socket against the database again
   (src/apps/api/src/infrastructure/websocket/index.ts).

   All sockets are of one account.  Whatever stands between two awaits is one
   action: the database is asked in one step and its answer used in another. *)
EXTENDS Naturals, FiniteSets

CONSTANTS Sockets, Tickets, Sessions,
          User,               \* the channel user:{userId}
          Rooms, Chats,       \* channels w2g:{code}, channels chat:{chatId}
          MAX_CHANNELS, EARLY_FRAME_LIMIT,
          None

\* A bound of the model, not of the code.
CONSTANT MaxRevocations       \* how often all tokens of the account are revoked

Channels == {User} \cup Rooms \cup Chats

ASSUME WebSocketHubAssumption ==
  /\ User \notin Rooms \cup Chats /\ Rooms \cap Chats = {}
  /\ None \notin Tickets \cup Sessions
  /\ MAX_CHANNELS \in Nat \ {0} /\ EARLY_FRAME_LIMIT \in Nat
  /\ MaxRevocations \in Nat
  /\ IsFiniteSet(Sockets)

VARIABLES active, version,    \* users.status = 'active', users.token_version
          session,            \* per session: its state, the version in its token
          ticket,             \* ws_tickets; usable: used_at IS NULL AND expires_at > now()
          sock,               \* per socket: its handshake and the socket itself
          clients,            \* the sockets the hub has registered
          members, own,       \* channels, and Client.channels: the same pairs twice
          joining,            \* joins whose query has not been answered
          told,               \* the presence count a room was told last
          sweep               \* reauthenticate

account == <<active, version, session>>
hub == <<clients, members, own, told>>
vars == <<account, ticket, sock, hub, joining, sweep>>

NoSession == [state |-> "none", tv |-> 0]
NoTicket == [usable |-> FALSE, session |-> None, tv |-> 0]

\* pc: "new", "asking" and "answered" (the ticket), "in"; "out" if it never was
\* in, "over" if it was.  link: "open" is readyState = OPEN, "closing" that the hub
\* has closed it and the peer has not answered, "down" that the peer is gone.
\* deaf: its close event has fired already.
NoSocket == [pc |-> "new", link |-> "open", deaf |-> FALSE, ticket |-> None, early |-> {}]

\* The socket of a handshake that failed, which nothing refers to any more.
Out == [NoSocket EXCEPT !.pc = "out", !.link = "down", !.deaf = TRUE]

\* doomed is history: the clients whose time was over when the sweep began.
NoSweep == [pc |-> "idle", asked |-> {}, doomed |-> {}, active |-> FALSE, version |-> 0, live |-> {},
            user |-> FALSE, sessions |-> FALSE]

Init == /\ active = TRUE /\ version = 0
        /\ session = [x \in Sessions |-> NoSession]
        /\ ticket = [t \in Tickets |-> NoTicket]
        /\ sock = [s \in Sockets |-> NoSocket]
        /\ clients = {}
        /\ members = [c \in Channels |-> {}]
        /\ own = [s \in Sockets |-> {}]
        /\ joining = {}
        /\ told = [r \in Rooms |-> 0]
        /\ sweep = NoSweep

IsOpen(s) == sock[s].link = "open"
Live(x) == session[x].state = "live"
Issued(t) == ticket[t].session # None
SessionOf(s) == ticket[sock[s].ticket].session
VersionOf(s) == ticket[sock[s].ticket].tv
Ended(s) == ~active \/ VersionOf(s) # version \/ ~Live(SessionOf(s))

----------------------------------------------------------------------------
\* The account, whose statements Sessions models one by one.  openSession asks
\* neither for the status nor for the version, which a login has read before.
OpenSession(x, tv) ==
  /\ session[x].state = "none"
  /\ session' = [session EXCEPT ![x] = [state |-> "live", tv |-> tv]]
  /\ UNCHANGED <<active, version, ticket, sock, hub, joining, sweep>>

EndSession(x) ==
  /\ Live(x)
  /\ session' = [session EXCEPT ![x].state = "ended"]
  /\ UNCHANGED <<active, version, ticket, sock, hub, joining, sweep>>

RevokeTokens ==
  /\ version < MaxRevocations
  /\ version' = version + 1
  /\ UNCHANGED <<active, session, ticket, sock, hub, joining, sweep>>

AllEnded == [x \in Sessions |-> IF Live(x) THEN [session[x] EXCEPT !.state = "ended"]
                                           ELSE session[x]]

\* setStatus: suspended or banned, for good.
Suspend ==
  /\ active /\ active' = FALSE
  /\ version < MaxRevocations /\ version' = version + 1
  /\ session' = AllEnded
  /\ UNCHANGED <<ticket, sock, hub, joining, sweep>>

\* softDelete, which deletes the tickets as well.
DeleteAccount ==
  /\ active /\ active' = FALSE
  /\ session' = AllEnded
  /\ ticket' = [t \in Tickets |-> [ticket[t] EXCEPT !.usable = FALSE]]
  /\ UNCHANGED <<version, sock, hub, joining, sweep>>

\* POST /ws-ticket: openWsTicket, with what the access token says; the token was
\* checked before, so its session may have ended by now.
OpenTicket(t, x) ==
  /\ ~Issued(t) /\ session[x].state # "none"
  /\ ticket' = [ticket EXCEPT ![t] = [usable |-> TRUE, session |-> x, tv |-> session[x].tv]]
  /\ UNCHANGED <<account, sock, hub, joining, sweep>>

TicketExpires(t) ==
  /\ ticket[t].usable
  /\ ticket' = [ticket EXCEPT ![t].usable = FALSE]
  /\ UNCHANGED <<account, sock, hub, joining, sweep>>

----------------------------------------------------------------------------
\* A socket presents a ticket, which another one may have presented already.
Connect(s, t) ==
  /\ sock[s].pc = "new" /\ Issued(t)
  /\ sock' = [sock EXCEPT ![s].pc = "asking", ![s].ticket = t]
  /\ UNCHANGED <<account, ticket, hub, joining, sweep>>

\* A frame that arrives before the socket is admitted; one too many is dropped.
EarlyJoin(s, c) ==
  /\ sock[s].pc \in {"asking", "answered"} /\ IsOpen(s)
  /\ Cardinality(sock[s].early) < EARLY_FRAME_LIMIT
  /\ sock' = [sock EXCEPT ![s].early = @ \cup {c}]
  /\ UNCHANGED <<account, ticket, hub, joining, sweep>>

Good(t) == /\ ticket[t].usable
           /\ active /\ ticket[t].tv = version /\ Live(ticket[t].session)

\* The UPDATE that uses the ticket up; no row, and the socket is closed.
CheckTicket(s) ==
  /\ sock[s].pc = "asking"
  /\ IF Good(sock[s].ticket)
       THEN /\ sock' = [sock EXCEPT ![s].pc = "answered"]
            /\ ticket' = [ticket EXCEPT ![sock[s].ticket].usable = FALSE]
       ELSE /\ sock' = [sock EXCEPT ![s] = Out]
            /\ UNCHANGED ticket
  /\ UNCHANGED <<account, hub, joining, sweep>>

\* It failed, or its answer was lost: the socket is closed in either case.
CheckTicketLost(s) ==
  /\ sock[s].pc = "asking"
  /\ ticket' \in {ticket, IF Good(sock[s].ticket)
                            THEN [ticket EXCEPT ![sock[s].ticket].usable = FALSE]
                            ELSE ticket}
  /\ sock' = [sock EXCEPT ![s] = Out]
  /\ UNCHANGED <<account, hub, joining, sweep>>

Subscribe(s, c) ==
  /\ members' = [members EXCEPT ![c] = @ \cup {s}]
  /\ own' = [own EXCEPT ![s] = @ \cup {c}]

\* The row is there: a peer that is gone is left alone, any other one becomes a
\* client, is subscribed to its own channel, and has its parked frames handled.
Register(s) ==
  /\ sock[s].pc = "answered"
  /\ IF IsOpen(s)
       THEN /\ sock' = [sock EXCEPT ![s].pc = "in", ![s].early = {}]
            /\ clients' = clients \cup {s}
            /\ Subscribe(s, User)
            /\ joining' = joining \cup ({s} \X sock[s].early)
       ELSE /\ sock' = [sock EXCEPT ![s] = Out]
            /\ UNCHANGED <<clients, members, own, joining>>
  /\ UNCHANGED <<account, ticket, told, sweep>>

----------------------------------------------------------------------------
\* "join": the room or the membership is looked up.  Frames are read until the
\* peer is gone, after the hub's own close as well.
Join(s, c) ==
  /\ sock[s].pc = "in" /\ sock[s].link # "down"
  /\ joining' = joining \cup {<<s, c>>}
  /\ UNCHANGED <<account, ticket, sock, hub, sweep>>

\* It is there, and subscribe finds room for one more channel: whoever is in the
\* room is told how many they are.
Joined(s, c) ==
  /\ <<s, c>> \in joining
  /\ c \in own[s] \/ Cardinality(own[s]) < MAX_CHANNELS
  /\ Subscribe(s, c)
  /\ told' = [r \in Rooms |-> IF r = c THEN Cardinality(members'[r]) ELSE told[r]]
  /\ joining' = joining \ {<<s, c>>}
  /\ UNCHANGED <<account, ticket, sock, clients, sweep>>

\* It is not there, there are too many channels, or the query failed.
JoinRefused(s, c) ==
  /\ <<s, c>> \in joining
  /\ joining' = joining \ {<<s, c>>}
  /\ UNCHANGED <<account, ticket, sock, hub, sweep>>

\* "leave": the rest of the room is told, whoever was in it.
Leave(s, c) ==
  /\ sock[s].pc = "in" /\ sock[s].link # "down"
  /\ members' = [members EXCEPT ![c] = @ \ {s}]
  /\ own' = [own EXCEPT ![s] = @ \ {c}]
  /\ told' = [r \in Rooms |-> IF r = c THEN Cardinality(members'[r]) ELSE told[r]]
  /\ UNCHANGED <<account, ticket, sock, clients, joining, sweep>>

\* The peer closes the socket or loses its connection.
PeerGoes(s) ==
  /\ sock[s].pc \in {"asking", "answered", "in"} /\ sock[s].link # "down"
  /\ sock' = [sock EXCEPT ![s].link = "down"]
  /\ UNCHANGED <<account, ticket, hub, joining, sweep>>

\* The hub closes it after MAX_STRIKES frames that were too large or too many.
StruckOut(s) ==
  /\ sock[s].pc = "in" /\ IsOpen(s)
  /\ sock' = [sock EXCEPT ![s].link = "closing"]
  /\ UNCHANGED <<account, ticket, hub, joining, sweep>>

\* Mutant of Forget: nobody tells the rooms.
ForgetSilently(gone) ==
  LET out == gone \cap clients
  IN /\ clients' = clients \ gone
     /\ members' = [c \in Channels |-> members[c] \ out]
     /\ own' = [s \in Sockets |-> IF s \in out THEN {} ELSE own[s]]
     /\ UNCHANGED told

\* forget, for each of the sockets that is a client.
Forget(gone) ==
  LET out == gone \cap clients
  IN /\ clients' = clients \ gone
     /\ members' = [c \in Channels |-> {s \in members[c] : ~(s \in out /\ c \in own[s])}]
     /\ own' = [s \in Sockets |-> IF s \in out THEN {} ELSE own[s]]
     /\ told' = [r \in Rooms |-> IF \E s \in out : r \in own[s]
                                   THEN Cardinality(members'[r]) ELSE told[r]]

\* The close event, which only a registered socket listens to.
CloseEvent(s) ==
  /\ ~IsOpen(s) /\ ~sock[s].deaf
  /\ sock' = [sock EXCEPT ![s].link = "down", ![s].deaf = TRUE, ![s].pc = IF @ = "in" THEN "over" ELSE @]
  /\ IF sock[s].pc = "in" THEN Forget({s}) ELSE UNCHANGED hub
  /\ UNCHANGED <<account, ticket, joining, sweep>>

----------------------------------------------------------------------------
\* reauthenticate: what closed unheard is forgotten, and the rest looked up.
SweepStarts ==
  LET gone == {s \in clients : ~IsOpen(s)}
  IN /\ sweep.pc = "idle"
     /\ Forget(gone)
     /\ sweep' = IF clients' = {} THEN NoSweep
                 ELSE [NoSweep EXCEPT !.pc = "asking",
                                      !.asked = {SessionOf(s) : s \in clients'},
                                      !.doomed = {s \in clients' : Ended(s)}]
     /\ UNCHANGED <<account, ticket, sock, joining>>

\* Its two queries run side by side,
SweepReadsUser ==
  /\ sweep.pc = "asking" /\ ~sweep.user
  /\ sweep' = [sweep EXCEPT !.user = TRUE, !.active = active, !.version = version]
  /\ UNCHANGED <<account, ticket, sock, hub, joining>>

SweepReadsSessions ==
  /\ sweep.pc = "asking" /\ ~sweep.sessions
  /\ sweep' = [sweep EXCEPT !.sessions = TRUE, !.live = {x \in sweep.asked : Live(x)}]
  /\ UNCHANGED <<account, ticket, sock, hub, joining>>

\* and one may fail, which ends this sweep.
SweepFails ==
  /\ sweep.pc = "asking"
  /\ sweep' = NoSweep
  /\ UNCHANGED <<account, ticket, sock, hub, joining>>

Condemned(s) ==
  \/ ~sweep.active
  \/ sweep.version # VersionOf(s)
  \/ SessionOf(s) \notin sweep.live

Closing(gone) ==
  [s \in Sockets |-> IF s \in gone /\ IsOpen(s) THEN [sock[s] EXCEPT !.link = "closing"]
                                               ELSE sock[s]]

\* Mutant of SweepEnds: the first answer is enough.
SweepEndsEarly ==
  LET gone == {s \in clients : Condemned(s)}
  IN /\ sweep.user
     /\ sock' = Closing(gone)
     /\ Forget(gone)
     /\ sweep' = NoSweep
     /\ UNCHANGED <<account, ticket, joining>>

\* With both answers, every client of this moment is judged.
SweepEnds ==
  LET gone == {s \in clients : Condemned(s)}
  IN /\ sweep.user /\ sweep.sessions
     /\ sock' = Closing(gone)
     /\ Forget(gone)
     /\ sweep' = NoSweep
     /\ UNCHANGED <<account, ticket, joining>>

----------------------------------------------------------------------------
Answers(s) == \/ CheckTicket(s) \/ CheckTicketLost(s) \/ Register(s) \/ CloseEvent(s)
              \/ \E c \in Rooms \cup Chats : Joined(s, c) \/ JoinRefused(s, c)

Sweeping == SweepReadsUser \/ SweepReadsSessions \/ SweepFails \/ SweepEnds

Next ==
  \/ \E x \in Sessions : \/ EndSession(x)
                         \/ \E tv \in 0 .. version : OpenSession(x, tv)
                         \/ \E t \in Tickets : OpenTicket(t, x)
  \/ RevokeTokens \/ Suspend \/ DeleteAccount
  \/ \E t \in Tickets : TicketExpires(t) \/ \E s \in Sockets : Connect(s, t)
  \/ \E s \in Sockets : \/ Answers(s) \/ PeerGoes(s) \/ StruckOut(s)
                        \/ \E c \in Rooms \cup Chats : EarlyJoin(s, c) \/ Join(s, c) \/ Leave(s, c)
  \/ SweepStarts \/ Sweeping

Spec == Init /\ [][Next]_vars

----------------------------------------------------------------------------
Socket == [pc : {"new", "asking", "answered", "in", "out", "over"},
           link : {"open", "closing", "down"}, deaf : BOOLEAN, ticket : Tickets \cup {None}, early : SUBSET (Rooms \cup Chats)]

Sweep == [pc : {"idle", "asking"}, asked : SUBSET Sessions, doomed : SUBSET Sockets,
          active : BOOLEAN, version : Nat, live : SUBSET Sessions,
          user : BOOLEAN, sessions : BOOLEAN]

\* Tables, sockets, channels and the sweep keep their shape; a client is a socket
\* that was admitted and whose close event is not over.
TypeOK ==
  /\ active \in BOOLEAN /\ version \in 0 .. MaxRevocations
  /\ session \in [Sessions -> [state : {"none", "live", "ended"}, tv : Nat]]
  /\ ticket \in [Tickets -> [usable : BOOLEAN,
                             session : Sessions \cup {None}, tv : Nat]]
  /\ sock \in [Sockets -> Socket]
  /\ \A s \in Sockets : sock[s].pc \notin {"new", "out"} =>
       sock[s].ticket \in Tickets /\ SessionOf(s) \in Sessions
  /\ clients \subseteq {s \in Sockets : sock[s].pc = "in"}
  /\ members \in [Channels -> SUBSET Sockets]
  /\ own \in [Sockets -> SUBSET Channels]
  /\ joining \subseteq Sockets \X (Rooms \cup Chats)
  /\ told \in [Rooms -> 0 .. Cardinality(Sockets)]
  /\ sweep \in Sweep

\* A ticket admits one socket, however many present it together (the UPDATE of
\* used_at is the check).
TicketAdmitsOne ==
  \A s, u \in Sockets : (/\ {sock[s].pc, sock[u].pc} \subseteq {"answered", "in", "over"}
                         /\ sock[s].ticket = sock[u].ticket) => s = u

\* No client "would never hear its own close event" (index.ts:359): whatever the
\* socket did while its ticket was checked, forget is still going to be called.
ClientsHearTheirClose == \A s \in clients : ~sock[s].deaf

\* Both halves of a membership agree, and a room was told how many it is last:
\* joins, leaves, closed sockets and sweeps in any order.
RoomsAreTold ==
  /\ \A s \in Sockets, c \in Channels : s \in members[c] <=> c \in own[s]
  /\ \A r \in Rooms : told[r] = Cardinality(members[r])

\* Whoever hears a channel is within reach of the sweep: an open socket that is
\* in a channel is a client.  What remains of a forgotten socket, whose last
\* joins are answered late, is closed and hears nothing (deliverLocal).
ListenersAreClients ==
  \A c \in Channels : \A s \in members[c] : IsOpen(s) => s \in clients

\* forget drops a socket "from the hub" (index.ts:281): once its close event is
\* over it is in no channel and in no presence count.
ForgottenIsOut == \A s \in Sockets : sock[s].deaf => \A c \in Channels : s \notin members[c]

\* The sweep closes a socket for something that is true of it: its account, its
\* tokens or its session ended; or its session was not among those the sweep
\* asked for, because the socket arrived while the queries were running.
SweepHasACause ==
  [][\A s \in clients :
       (sweep.pc = "asking" /\ sweep' = NoSweep /\ IsOpen(s) /\ sock'[s].link # "open")
         => Ended(s) \/ SessionOf(s) \notin sweep.asked]_vars

\* A socket does not outlive what it was opened with by more than one sweep:
\* whatever had ended when a sweep began is closed when that sweep is through,
\* whoever came and went while it waited for its answers (reauthenticate).
SweepCatchesAll ==
  [][SweepEnds => sweep.doomed \cap clients' = {}]_vars

\* What holds of the hub at every moment: the shape of the state; one socket of a
\* ticket; the close of a client is still to be heard; every room was told its number of
\* members last; who listens in a room is a client the sweep looks at.
HubSafe ==
  /\ TypeOK
  /\ TicketAdmitsOne
  /\ ClientsHearTheirClose
  /\ RoomsAreTold
  /\ ListenersAreClients

\* A sweep closes nobody without a cause, and everybody who had one when it began,
\* although it judges by answers that can be old.
SweepBehaves ==
  /\ SweepHasACause
  /\ SweepCatchesAll
=============================================================================
