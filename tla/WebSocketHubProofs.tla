------------------------- MODULE WebSocketHubProofs -------------------------
(* Theorems about WebSocketHub, for any number of sockets, tickets, sessions,
   rooms and revocations. *)
EXTENDS WebSocketHub, FiniteSetTheorems, TLAPS

----------------------------------------------------------------------------
\* A room has at most as many members as there are sockets.
LEMMA Counted ==
  ASSUME NEW S \in SUBSET Sockets
  PROVE  Cardinality(S) \in 0 .. Cardinality(Sockets)
<1>1. IsFiniteSet(S) /\ Cardinality(S) <= Cardinality(Sockets)
  BY FS_Subset, WebSocketHubAssumption
<1>2. Cardinality(S) \in Nat /\ Cardinality(Sockets) \in Nat
  BY <1>1, FS_CardinalityType, WebSocketHubAssumption
<1> QED
  BY <1>1, <1>2

\* What Forget does to the hub, whoever is gone.
LEMMA ForgetSound ==
  ASSUME TypeOK, NEW gone \in SUBSET Sockets, Forget(gone)
  PROVE  /\ clients' = clients \ gone
         /\ members' \in [Channels -> SUBSET Sockets]
         /\ own' \in [Sockets -> SUBSET Channels]
         /\ told' \in [Rooms -> 0 .. Cardinality(Sockets)]
         /\ \A c \in Channels : members'[c] \subseteq members[c]
         /\ RoomsAreTold => RoomsAreTold'
<1> DEFINE out == gone \cap clients
<1>1. clients' = clients \ gone
  BY DEF Forget
<1>2. /\ members' \in [Channels -> SUBSET Sockets]
      /\ \A c \in Channels :
           members'[c] = {s \in members[c] : ~(s \in out /\ c \in own[s])}
  BY DEF Forget, TypeOK
<1>3. /\ own' \in [Sockets -> SUBSET Channels]
      /\ \A s \in Sockets : own'[s] = IF s \in out THEN {} ELSE own[s]
  BY DEF Forget, TypeOK
<1>4. \A r \in Rooms :
        told'[r] = IF \E s \in out : r \in own[s] THEN Cardinality(members'[r]) ELSE told[r]
  BY DEF Forget
<1>5. Rooms \subseteq Channels
  BY DEF Channels
<1>6. told' \in [Rooms -> 0 .. Cardinality(Sockets)]
  <2>1. \A r \in Rooms : Cardinality(members'[r]) \in 0 .. Cardinality(Sockets)
    BY <1>2, <1>5, Counted
  <2>2. told' = [r \in Rooms |-> IF \E s \in out : r \in own[s]
                                  THEN Cardinality(members'[r]) ELSE told[r]]
    BY DEF Forget
  <2> QED
    BY <2>1, <2>2 DEF TypeOK
<1>7. ASSUME RoomsAreTold PROVE RoomsAreTold'
  <2>1. ASSUME NEW s \in Sockets, NEW c \in Channels
        PROVE  s \in members'[c] <=> c \in own'[s]
    BY <1>2, <1>3, <1>7 DEF RoomsAreTold
  <2>2. ASSUME NEW r \in Rooms PROVE told'[r] = Cardinality(members'[r])
    <3>1. CASE \E s \in out : r \in own[s]
      BY <3>1, <1>4
    <3>2. CASE ~ \E s \in out : r \in own[s]
      <4>1. members'[r] = members[r]
        <5>1. members'[r] = {s \in members[r] : ~(s \in out /\ r \in own[s])}
          BY <1>2, <1>5
        <5>2. \A s \in members[r] : ~(s \in out /\ r \in own[s])
          BY <3>2
        <5> HIDE DEF out
        <5> QED
          BY <5>1, <5>2
      <4> QED
        BY <4>1, <3>2, <1>4, <1>7 DEF RoomsAreTold
    <3> QED
      BY <3>1, <3>2
  <2> QED
    BY <2>1, <2>2 DEF RoomsAreTold
<1> QED
  BY <1>1, <1>2, <1>3, <1>6, <1>7

\* What subscribe does to both halves of a membership.
LEMMA SubscribeSound ==
  ASSUME TypeOK, NEW s \in Sockets, NEW c \in Channels, Subscribe(s, c)
  PROVE  /\ members' \in [Channels -> SUBSET Sockets]
         /\ own' \in [Sockets -> SUBSET Channels]
         /\ \A d \in Channels :
              members'[d] = IF d = c THEN members[d] \cup {s} ELSE members[d]
         /\ \A u \in Sockets : own'[u] = IF u = s THEN own[u] \cup {c} ELSE own[u]
BY DEF Subscribe, TypeOK

\* One socket becomes rec, and it is no client or stays in.
LEMMA SocketSound ==
  ASSUME TypeOK, NEW s \in Sockets, NEW rec \in Socket,
         sock' = [sock EXCEPT ![s] = rec],
         \A t \in Tickets : ticket'[t].session = ticket[t].session,
         \/ rec.pc \in {"new", "out"}
         \/ rec.ticket = sock[s].ticket /\ sock[s].pc \notin {"new", "out"}
         \/ rec.ticket \in Tickets /\ ticket[rec.ticket].session \in Sessions,
         clients' \subseteq {u \in Sockets : (u \in clients /\ u # s) \/ (u = s /\ rec.pc = "in")}
  PROVE  /\ sock' \in [Sockets -> Socket]
         /\ \A u \in Sockets : sock'[u].pc \notin {"new", "out"} =>
              sock'[u].ticket \in Tickets /\ SessionOf(u)' \in Sessions
         /\ clients' \subseteq {u \in Sockets : sock'[u].pc = "in"}
<1>1. \A u \in Sockets : sock'[u] = IF u = s THEN rec ELSE sock[u]
  BY DEF TypeOK
<1>2. sock' \in [Sockets -> Socket]
  BY DEF TypeOK
<1>3. \A u \in Sockets : SessionOf(u)' = ticket'[sock'[u].ticket].session
  BY DEF SessionOf
<1>4. \A u \in Sockets : sock'[u].pc \notin {"new", "out"} =>
        sock'[u].ticket \in Tickets /\ SessionOf(u)' \in Sessions
  BY <1>1, <1>3 DEF TypeOK, SessionOf
<1> QED
  BY <1>1, <1>2, <1>4 DEF TypeOK

LEMMA TicketSpentSound ==
  ASSUME TypeOK, NEW t \in Tickets,
         ticket' = ticket \/ ticket' = [ticket EXCEPT ![t].usable = FALSE]
  PROVE  /\ ticket' \in [Tickets -> [usable : BOOLEAN, session : Sessions \cup {None}, tv : Nat]]
         /\ \A u \in Tickets : /\ ticket'[u].session = ticket[u].session
                               /\ ticket'[u].tv = ticket[u].tv
                               /\ ticket'[u].usable => ticket[u].usable
<1>1. CASE ticket' = ticket
  BY <1>1 DEF TypeOK
<1>2. CASE ticket' = [ticket EXCEPT ![t].usable = FALSE]
  <2>1. [ticket[t] EXCEPT !.usable = FALSE]
          \in [usable : BOOLEAN, session : Sessions \cup {None}, tv : Nat]
    <3>1. ticket[t] \in [usable : BOOLEAN, session : Sessions \cup {None}, tv : Nat]
      BY DEF TypeOK
    <3> QED
      BY <3>1
  <2>2. \A u \in Tickets :
          ticket'[u] = IF u = t THEN [ticket[t] EXCEPT !.usable = FALSE] ELSE ticket[u]
    BY <1>2 DEF TypeOK
  <2> QED
    BY <1>2, <2>1, <2>2 DEF TypeOK
<1> QED
  BY <1>1, <1>2

LEMMA AllEndedSound ==
  ASSUME TypeOK
  PROVE  /\ AllEnded \in [Sessions -> [state : {"none", "live", "ended"}, tv : Nat]]
         /\ \A x \in Sessions :
              /\ AllEnded[x].state = IF Live(x) THEN "ended" ELSE session[x].state
              /\ AllEnded[x].tv = session[x].tv
<1>1. \A x \in Sessions : [session[x] EXCEPT !.state = "ended"]
                            \in [state : {"none", "live", "ended"}, tv : Nat]
  BY DEF TypeOK
<1> QED
  BY <1>1 DEF AllEnded, TypeOK

LEMMA TicketsDeletedSound ==
  ASSUME TypeOK, DeleteAccount
  PROVE  /\ ticket' \in [Tickets -> [usable : BOOLEAN, session : Sessions \cup {None}, tv : Nat]]
         /\ \A t \in Tickets : /\ ticket'[t].session = ticket[t].session
                               /\ ticket'[t].tv = ticket[t].tv
                               /\ ~ticket'[t].usable
<1>1. \A t \in Tickets : [ticket[t] EXCEPT !.usable = FALSE]
                            \in [usable : BOOLEAN, session : Sessions \cup {None}, tv : Nat]
  BY DEF TypeOK
<1> QED
  BY <1>1 DEF DeleteAccount, TypeOK

LEMMA OutSound == Out \in Socket /\ Out.pc = "out"
BY DEF Out, NoSocket, Socket

LEMMA NoSweepSound == NoSweep \in Sweep /\ NoSweep.pc = "idle"
BY DEF NoSweep, Sweep

\* The hub closes some sockets: only their links change, and only open ones.
LEMMA ClosingSound ==
  ASSUME TypeOK, NEW gone
  PROVE  /\ Closing(gone) \in [Sockets -> Socket]
         /\ \A s \in Sockets :
              /\ Closing(gone)[s].pc = sock[s].pc
              /\ Closing(gone)[s].ticket = sock[s].ticket
              /\ Closing(gone)[s].deaf = sock[s].deaf
              /\ Closing(gone)[s].link = IF s \in gone /\ IsOpen(s) THEN "closing" ELSE sock[s].link
<1>1. \A s \in Sockets : [sock[s] EXCEPT !.link = "closing"] \in Socket
  BY DEF TypeOK, Socket
<1> QED
  BY <1>1 DEF Closing, TypeOK, Socket

----------------------------------------------------------------------------
\* Every action keeps the shape of every variable.
LEMMA TypeStep == TypeOK /\ [Next]_vars => TypeOK'
<1> SUFFICES ASSUME TypeOK, [Next]_vars PROVE TypeOK'
  OBVIOUS
<1> USE WebSocketHubAssumption
<1>0. Rooms \cup Chats \subseteq Channels /\ User \in Channels
  BY DEF Channels
<1>1. ASSUME NEW x \in Sessions, NEW tv \in 0 .. version, OpenSession(x, tv) PROVE TypeOK'
  BY <1>1 DEF OpenSession, TypeOK, hub, SessionOf
<1>2. ASSUME NEW x \in Sessions, EndSession(x) PROVE TypeOK'
  BY <1>2 DEF EndSession, TypeOK, hub, SessionOf
<1>3. ASSUME NEW x \in Sessions, NEW t \in Tickets, OpenTicket(t, x) PROVE TypeOK'
  <2>1. ticket' \in [Tickets -> [usable : BOOLEAN, session : Sessions \cup {None}, tv : Nat]]
    BY <1>3 DEF OpenTicket, TypeOK
  <2>2. \A u \in Tickets : ticket[u].session \in Sessions => ticket'[u].session \in Sessions
    BY <1>3 DEF OpenTicket, TypeOK
  <2> QED
    BY <1>3, <2>1, <2>2 DEF OpenTicket, TypeOK, hub, account, SessionOf, Socket
<1>4. ASSUME RevokeTokens PROVE TypeOK'
  BY <1>4 DEF RevokeTokens, TypeOK, hub, SessionOf
<1>5. ASSUME Suspend PROVE TypeOK'
  <2>1. active' \in BOOLEAN /\ version' \in 0 .. MaxRevocations
    <3>1. active' = FALSE /\ version < MaxRevocations /\ version' = version + 1
      BY <1>5 DEF Suspend
    <3>2. version \in 0 .. MaxRevocations
      BY DEF TypeOK
    <3>3. version' \in 0 .. MaxRevocations
      BY <3>1, <3>2
    <3>4. active' \in BOOLEAN
      BY <3>1, Zenon
    <3> QED
      BY <3>3, <3>4
  <2>2. session' \in [Sessions -> [state : {"none", "live", "ended"}, tv : Nat]]
    BY <1>5, AllEndedSound DEF Suspend
  <2> QED
    BY <1>5, <2>1, <2>2 DEF Suspend, TypeOK, hub, SessionOf
<1>a. ASSUME DeleteAccount PROVE TypeOK'
  BY <1>a, AllEndedSound, TicketsDeletedSound, ZenonT(40) DEF DeleteAccount, TypeOK, hub, SessionOf
<1>6. ASSUME NEW t \in Tickets, TicketExpires(t) PROVE TypeOK'
  BY <1>6, ZenonT(40) DEF TicketExpires, TypeOK, hub, account, SessionOf
<1>7. ASSUME NEW t \in Tickets, NEW s \in Sockets, Connect(s, t) PROVE TypeOK'
  <2> DEFINE rec == [sock[s] EXCEPT !.pc = "asking", !.ticket = t]
  <2>1. rec \in Socket /\ rec.ticket = t /\ rec.pc = "asking"
    <3>1. sock[s] \in Socket
      BY DEF TypeOK
    <3> QED
      BY <3>1 DEF Socket
  <2>2. sock' = [sock EXCEPT ![s] = rec]
    BY <1>7 DEF Connect
  <2>3. ticket[t].session \in Sessions
    BY <1>7 DEF Connect, TypeOK, Issued
  <2>4. s \notin clients
    BY <1>7 DEF Connect, TypeOK
  <2> HIDE DEF rec
  <2>5. /\ sock' \in [Sockets -> Socket]
        /\ \A u \in Sockets : sock'[u].pc \notin {"new", "out"} =>
             sock'[u].ticket \in Tickets /\ SessionOf(u)' \in Sessions
        /\ clients' \subseteq {u \in Sockets : sock'[u].pc = "in"}
    <3>1. clients' \subseteq {u \in Sockets : u \in clients /\ u # s}
      BY <1>7, <2>4 DEF Connect, TypeOK, hub
    <3>2. \A u \in Tickets : ticket'[u].session = ticket[u].session
      BY <1>7 DEF Connect
    <3> QED
      BY <2>1, <2>2, <2>3, <2>4, <3>1, <3>2, SocketSound
  <2> QED
    BY <1>7, <2>3, <2>5 DEF Connect, TypeOK, hub, account
<1>8. ASSUME NEW s \in Sockets, CheckTicket(s) PROVE TypeOK'
  <2> DEFINE rec == IF Good(sock[s].ticket) THEN [sock[s] EXCEPT !.pc = "answered"] ELSE Out
  <2>1. rec \in Socket /\ (rec.pc = "out" \/ rec.ticket = sock[s].ticket)
    BY OutSound DEF TypeOK, Socket
  <2>2. sock' = [sock EXCEPT ![s] = rec]
    BY <1>8 DEF CheckTicket
  <2>3. /\ ticket' \in [Tickets -> [usable : BOOLEAN, session : Sessions \cup {None}, tv : Nat]]
        /\ \A t \in Tickets : ticket'[t].session = ticket[t].session
    <3>1. sock[s].ticket \in Tickets
      BY <1>8 DEF CheckTicket, TypeOK
    <3>2. \/ ticket' = ticket
          \/ ticket' = [ticket EXCEPT ![sock[s].ticket].usable = FALSE]
      BY <1>8 DEF CheckTicket
    <3> QED
      BY <3>1, <3>2, TicketSpentSound
  <2>4. s \notin clients /\ sock[s].pc = "asking"
    BY <1>8 DEF CheckTicket, TypeOK
  <2> HIDE DEF rec
  <2>5. /\ sock' \in [Sockets -> Socket]
        /\ \A u \in Sockets : sock'[u].pc \notin {"new", "out"} =>
             sock'[u].ticket \in Tickets /\ SessionOf(u)' \in Sessions
        /\ clients' \subseteq {u \in Sockets : sock'[u].pc = "in"}
    <3>1. clients' \subseteq {u \in Sockets : u \in clients /\ u # s}
      BY <1>8, <2>4 DEF CheckTicket, TypeOK, hub
    <3>2. \A u \in Tickets : ticket'[u].session = ticket[u].session
      BY <1>8, <2>3
    <3> QED
      BY <2>1, <2>2, <2>3, <2>4, <3>1, <3>2, SocketSound
  <2> QED
    BY <1>8, <2>3, <2>5 DEF CheckTicket, TypeOK, hub, account
<1>9. ASSUME NEW s \in Sockets, CheckTicketLost(s) PROVE TypeOK'
  <2>1. Out \in Socket /\ Out.pc = "out"
    BY OutSound
  <2>2. sock' = [sock EXCEPT ![s] = Out]
    BY <1>9 DEF CheckTicketLost
  <2>3. /\ ticket' \in [Tickets -> [usable : BOOLEAN, session : Sessions \cup {None}, tv : Nat]]
        /\ \A t \in Tickets : ticket'[t].session = ticket[t].session
    <3>1. sock[s].ticket \in Tickets
      BY <1>9 DEF CheckTicketLost, TypeOK
    <3>2. \/ ticket' = ticket
          \/ ticket' = [ticket EXCEPT ![sock[s].ticket].usable = FALSE]
      BY <1>9 DEF CheckTicketLost
    <3> QED
      BY <3>1, <3>2, TicketSpentSound
  <2>4. s \notin clients /\ sock[s].pc = "asking"
    BY <1>9 DEF CheckTicketLost, TypeOK
  <2>5. /\ sock' \in [Sockets -> Socket]
        /\ \A u \in Sockets : sock'[u].pc \notin {"new", "out"} =>
             sock'[u].ticket \in Tickets /\ SessionOf(u)' \in Sessions
        /\ clients' \subseteq {u \in Sockets : sock'[u].pc = "in"}
    <3>1. clients' \subseteq {u \in Sockets : u \in clients /\ u # s}
      BY <1>9, <2>4 DEF CheckTicketLost, TypeOK, hub
    <3>2. \A u \in Tickets : ticket'[u].session = ticket[u].session
      BY <1>9, <2>3
    <3> QED
      BY <2>1, <2>2, <2>3, <2>4, <3>1, <3>2, SocketSound
  <2> QED
    BY <1>9, <2>3, <2>5 DEF CheckTicketLost, TypeOK, hub, account
<1>10. ASSUME NEW s \in Sockets, Register(s) PROVE TypeOK'
  <2> DEFINE rec == IF IsOpen(s) THEN [sock[s] EXCEPT !.pc = "in", !.early = {}] ELSE Out
  <2>1. /\ rec \in Socket
        /\ IF IsOpen(s) THEN rec.pc = "in" /\ rec.ticket = sock[s].ticket ELSE rec.pc = "out"
    BY OutSound DEF TypeOK, Socket
  <2>2. sock' = [sock EXCEPT ![s] = rec]
    BY <1>10 DEF Register
  <2>3. clients' = IF IsOpen(s) THEN clients \cup {s} ELSE clients
    BY <1>10 DEF Register
  <2>4. s \notin clients /\ sock[s].pc = "answered"
    BY <1>10 DEF Register, TypeOK
  <2> HIDE DEF rec
  <2>5. /\ sock' \in [Sockets -> Socket]
        /\ \A u \in Sockets : sock'[u].pc \notin {"new", "out"} =>
             sock'[u].ticket \in Tickets /\ SessionOf(u)' \in Sessions
        /\ clients' \subseteq {u \in Sockets : sock'[u].pc = "in"}
    <3>1. UNCHANGED ticket
      BY <1>10 DEF Register
    <3>2. clients' \subseteq {u \in Sockets : (u \in clients /\ u # s) \/ (u = s /\ rec.pc = "in")}
      BY <2>1, <2>3, <2>4 DEF TypeOK
    <3> QED
      BY <2>1, <2>2, <2>4, <3>1, <3>2, SocketSound
  <2>6. members' \in [Channels -> SUBSET Sockets] /\ own' \in [Sockets -> SUBSET Channels]
    BY <1>0, <1>10, SubscribeSound DEF Register, TypeOK
  <2>7. joining' \subseteq Sockets \X (Rooms \cup Chats)
    <3>1. sock[s].early \subseteq Rooms \cup Chats
      BY DEF TypeOK, Socket
    <3> QED
      BY <1>10, <3>1 DEF Register, TypeOK
  <2> QED
    BY <1>10, <2>5, <2>6, <2>7 DEF Register, TypeOK, account
<1>11. ASSUME NEW s \in Sockets, CloseEvent(s) PROVE TypeOK'
  BY <1>11, ForgetSound DEF CloseEvent, TypeOK, account, SessionOf, Socket, hub
<1>12. ASSUME NEW s \in Sockets, NEW c \in Rooms \cup Chats, Joined(s, c) PROVE TypeOK'
  BY <1>0, <1>12, SubscribeSound, Counted DEF Joined, TypeOK, account, SessionOf
<1>13. ASSUME NEW s \in Sockets, NEW c \in Rooms \cup Chats, JoinRefused(s, c) PROVE TypeOK'
  BY <1>13 DEF JoinRefused, TypeOK, account, SessionOf, hub
<1>14. ASSUME NEW s \in Sockets, PeerGoes(s) \/ StruckOut(s) PROVE TypeOK'
  <2> DEFINE rec == [sock[s] EXCEPT !.link = IF PeerGoes(s) THEN "down" ELSE "closing"]
  <2>1. rec \in Socket /\ rec.ticket = sock[s].ticket /\ rec.pc = sock[s].pc
    BY DEF TypeOK, Socket
  <2>2. sock' = [sock EXCEPT ![s] = rec]
    BY <1>14 DEF PeerGoes, StruckOut
  <2>3. sock[s].pc \notin {"new", "out"}
    BY <1>14 DEF PeerGoes, StruckOut
  <2>4. UNCHANGED <<account, ticket, hub, joining, sweep>>
    BY <1>14 DEF PeerGoes, StruckOut
  <2> HIDE DEF rec
  <2>5. /\ sock' \in [Sockets -> Socket]
        /\ \A u \in Sockets : sock'[u].pc \notin {"new", "out"} =>
             sock'[u].ticket \in Tickets /\ SessionOf(u)' \in Sessions
        /\ clients' \subseteq {u \in Sockets : sock'[u].pc = "in"}
    <3>1. clients' \subseteq {u \in Sockets : (u \in clients /\ u # s) \/ (u = s /\ rec.pc = "in")}
      BY <2>1, <2>4 DEF TypeOK, hub
    <3>2. UNCHANGED ticket
      BY <2>4
    <3>3. rec.pc = sock[s].pc /\ rec.ticket = sock[s].ticket
      BY <2>1
    <3> QED
      BY <2>1, <2>2, <2>3, <3>1, <3>2, <3>3, SocketSound
  <2> QED
    BY <2>4, <2>5 DEF TypeOK, hub, account
<1>15. ASSUME NEW s \in Sockets, NEW c \in Rooms \cup Chats, EarlyJoin(s, c) PROVE TypeOK'
  BY <1>15 DEF EarlyJoin, TypeOK, account, SessionOf, hub, Socket
<1>16. ASSUME NEW s \in Sockets, NEW c \in Rooms \cup Chats, Join(s, c) PROVE TypeOK'
  BY <1>16 DEF Join, TypeOK, account, SessionOf, hub
<1>17. ASSUME NEW s \in Sockets, NEW c \in Rooms \cup Chats, Leave(s, c) PROVE TypeOK'
  BY <1>0, <1>17, Counted DEF Leave, TypeOK, account, SessionOf
<1>18. ASSUME SweepStarts PROVE TypeOK'
  <2> DEFINE gone == {s \in clients : ~IsOpen(s)}
             begun == [NoSweep EXCEPT !.pc = "asking",
                                      !.asked = {SessionOf(s) : s \in clients'},
                                      !.doomed = {s \in clients' : Ended(s)}]
  <2>1. Forget(gone) /\ gone \in SUBSET Sockets
    BY <1>18 DEF SweepStarts, TypeOK
  <2> HIDE DEF gone
  <2>2. /\ clients' = clients \ gone
        /\ members' \in [Channels -> SUBSET Sockets]
        /\ own' \in [Sockets -> SUBSET Channels]
        /\ told' \in [Rooms -> 0 .. Cardinality(Sockets)]
    BY <2>1, ForgetSound
  <2>3. clients' \subseteq {s \in Sockets : sock[s].pc = "in"}
    BY <2>2 DEF TypeOK
  <2>4. {SessionOf(s) : s \in clients'} \subseteq Sessions
    BY <2>3 DEF TypeOK
  <2>5. begun \in Sweep
    BY <2>3, <2>4 DEF Sweep, NoSweep
  <2>6. sweep' \in Sweep
    <3>1. sweep' = IF clients' = {} THEN NoSweep ELSE begun
      BY <1>18 DEF SweepStarts
    <3> HIDE DEF begun
    <3> QED
      BY <3>1, <2>5, NoSweepSound
  <2> QED
    BY <1>18, <2>2, <2>3, <2>6 DEF SweepStarts, TypeOK, account, SessionOf
<1>19. ASSUME SweepReadsUser \/ SweepReadsSessions \/ SweepFails PROVE TypeOK'
  <2>1. sweep' \in Sweep
    <3>1. CASE SweepReadsUser
      <4>1. sweep' = [sweep EXCEPT !.user = TRUE, !.active = active, !.version = version]
        BY <3>1 DEF SweepReadsUser
      <4>2. \A a \in BOOLEAN, v \in Nat, w \in Sweep :
              [w EXCEPT !.user = TRUE, !.active = a, !.version = v] \in Sweep
        BY DEF Sweep
      <4> QED
        <5>1. active \in BOOLEAN /\ version \in Nat /\ sweep \in Sweep
          BY DEF TypeOK
        <5> QED
          BY <4>1, <4>2, <5>1
    <3>2. CASE SweepReadsSessions
      BY <3>2 DEF SweepReadsSessions, TypeOK, Sweep
    <3>3. CASE SweepFails
      BY <3>3, NoSweepSound DEF SweepFails
    <3> QED
      BY <1>19, <3>1, <3>2, <3>3
  <2>2. UNCHANGED <<account, ticket, sock, hub, joining>>
    BY <1>19 DEF SweepReadsUser, SweepReadsSessions, SweepFails
  <2> QED
    BY <2>1, <2>2 DEF TypeOK, account, hub, SessionOf
<1>20. ASSUME SweepEnds PROVE TypeOK'
  <2> DEFINE gone == {s \in clients : Condemned(s)}
  <2>1. Forget(gone) /\ gone \in SUBSET Sockets
    BY <1>20 DEF SweepEnds, TypeOK
  <2>2. sock' = Closing(gone) /\ sweep' = NoSweep
    BY <1>20 DEF SweepEnds
  <2> HIDE DEF gone
  <2>3. /\ clients' = clients \ gone
        /\ members' \in [Channels -> SUBSET Sockets]
        /\ own' \in [Sockets -> SUBSET Channels]
        /\ told' \in [Rooms -> 0 .. Cardinality(Sockets)]
    BY <2>1, ForgetSound
  <2>4. /\ sock' \in [Sockets -> Socket]
        /\ \A s \in Sockets : sock'[s].pc = sock[s].pc /\ sock'[s].ticket = sock[s].ticket
    BY <2>2, ClosingSound
  <2>5. \A s \in Sockets : SessionOf(s)' = SessionOf(s)
    BY <1>20, <2>4 DEF SweepEnds, SessionOf
  <2>6. clients' \subseteq {s \in Sockets : sock'[s].pc = "in"}
    BY <2>3, <2>4 DEF TypeOK
  <2>7. sweep' \in Sweep
    BY <2>2, NoSweepSound
  <2> QED
    BY <1>20, <2>3, <2>4, <2>5, <2>6, <2>7 DEF SweepEnds, TypeOK, account
<1>21. CASE UNCHANGED vars
  BY <1>21 DEF vars, account, hub, TypeOK, SessionOf
<1> QED
  BY <1>1, <1>2, <1>3, <1>4, <1>5, <1>6, <1>7, <1>8, <1>9, <1>10, <1>11, <1>12, <1>13,
     <1>14, <1>15, <1>16, <1>17, <1>18, <1>19, <1>20, <1>21, <1>a
     DEF Next, Answers, Sweeping

\* Tables, sockets, channels and the sweep keep their shape (infrastructure/
\* websocket/index.ts: Client, channels, clients).
THEOREM TypeCorrect == Spec => []TypeOK
<1>1. Init => TypeOK
  <2> SUFFICES ASSUME Init PROVE TypeOK
    OBVIOUS
  <2>1. /\ NoSession \in [state : {"none", "live", "ended"}, tv : Nat]
        /\ NoTicket \in [usable : BOOLEAN, session : Sessions \cup {None}, tv : Nat]
        /\ NoSocket \in Socket /\ NoSocket.pc = "new"
    BY DEF NoSession, NoTicket, NoSocket, Socket
  <2>2. 0 \in 0 .. Cardinality(Sockets) /\ 0 \in 0 .. MaxRevocations
    BY FS_CardinalityType, WebSocketHubAssumption
  <2>3. \A s \in Sockets : sock[s] = NoSocket
    BY DEF Init
  <2>4. told \in [Rooms -> 0 .. Cardinality(Sockets)]
    BY <2>2 DEF Init
  <2> QED
    BY <2>1, <2>2, <2>3, <2>4, NoSweepSound DEF Init, TypeOK
<1> QED
  BY <1>1, TypeStep, PTL DEF Spec

----------------------------------------------------------------------------
\* Who writes what.
LEMMA Writers ==
  ASSUME [Next]_vars
  PROVE  /\ \/ UNCHANGED account
            \/ RevokeTokens \/ Suspend \/ DeleteAccount
            \/ \E x \in Sessions : EndSession(x) \/ \E tv \in 0 .. version : OpenSession(x, tv)
         /\ \/ UNCHANGED ticket
            \/ DeleteAccount
            \/ \E t \in Tickets : TicketExpires(t) \/ \E x \in Sessions : OpenTicket(t, x)
            \/ \E s \in Sockets : CheckTicket(s) \/ CheckTicketLost(s)
         /\ \/ UNCHANGED sock
            \/ SweepEnds
            \/ \E s \in Sockets :
                 \/ CheckTicket(s) \/ CheckTicketLost(s) \/ Register(s) \/ CloseEvent(s)
                 \/ PeerGoes(s) \/ StruckOut(s)
                 \/ \E t \in Tickets : Connect(s, t)
                 \/ \E c \in Rooms \cup Chats : EarlyJoin(s, c)
         /\ \/ UNCHANGED hub
            \/ SweepStarts \/ SweepEnds
            \/ \E s \in Sockets :
                 \/ Register(s) \/ CloseEvent(s)
                 \/ \E c \in Rooms \cup Chats : Joined(s, c) \/ Leave(s, c)
         /\ \/ UNCHANGED sweep
            \/ SweepStarts \/ Sweeping
<1> USE DEF OpenSession, EndSession, RevokeTokens, Suspend, DeleteAccount, OpenTicket, TicketExpires,
            Connect, EarlyJoin, CheckTicket, CheckTicketLost, Register, Join, Joined,
            JoinRefused, Leave, PeerGoes, StruckOut, CloseEvent, SweepStarts,
            SweepReadsUser, SweepReadsSessions, SweepFails, SweepEnds
<1>1. CASE UNCHANGED vars
  BY <1>1 DEF vars
<1>2. CASE Next
  <2>1. CASE \E x \in Sessions : \/ EndSession(x)
                                 \/ \E tv \in 0 .. version : OpenSession(x, tv)
                                 \/ \E t \in Tickets : OpenTicket(t, x)
    BY <2>1
  <2>2. CASE RevokeTokens \/ Suspend \/ DeleteAccount
    BY <2>2
  <2>3. CASE \E t \in Tickets : TicketExpires(t) \/ \E s \in Sockets : Connect(s, t)
    BY <2>3
  <2>4. CASE \E s \in Sockets : Answers(s)
    BY <2>4 DEF Answers
  <2>5. CASE \E s \in Sockets : PeerGoes(s) \/ StruckOut(s)
    BY <2>5
  <2>6. CASE \E s \in Sockets, c \in Rooms \cup Chats : EarlyJoin(s, c) \/ Join(s, c) \/ Leave(s, c)
    BY <2>6
  <2>7. CASE SweepStarts \/ Sweeping
    BY <2>7 DEF Sweeping
  <2> QED
    BY <1>2, <2>1, <2>2, <2>3, <2>4, <2>5, <2>6, <2>7 DEF Next
<1> QED
  BY <1>1, <1>2

\* An issued ticket stays what it was issued for, and is never usable again.
LEMMA TicketsMove ==
  ASSUME TypeOK, [Next]_vars
  PROVE  \A t \in Tickets : Issued(t) =>
           /\ ticket'[t].session = ticket[t].session /\ ticket'[t].tv = ticket[t].tv
           /\ ticket'[t].usable => ticket[t].usable
<1>1. CASE UNCHANGED ticket
  BY <1>1
<1>2. ASSUME NEW u \in Tickets, TicketExpires(u)
      PROVE  ticket' = [ticket EXCEPT ![u].usable = FALSE]
  BY <1>2 DEF TicketExpires
<1>3. ASSUME NEW s \in Sockets, CheckTicket(s) \/ CheckTicketLost(s)
      PROVE  /\ sock[s].ticket \in Tickets
             /\ \/ ticket' = ticket
                \/ ticket' = [ticket EXCEPT ![sock[s].ticket].usable = FALSE]
  BY <1>3 DEF CheckTicket, CheckTicketLost, TypeOK
<1>4. ASSUME NEW u \in Tickets, NEW x \in Sessions, OpenTicket(u, x)
      PROVE  \A t \in Tickets : Issued(t) => ticket'[t] = ticket[t]
  BY <1>4 DEF OpenTicket, Issued, TypeOK
<1> QED
  BY <1>1, <1>2, <1>3, <1>4, Writers, TicketSpentSound, TicketsDeletedSound

\* What has ended stays ended, a version never goes back, and a session keeps the
\* version in its token.
LEMMA AccountMoves ==
  ASSUME TypeOK, [Next]_vars
  PROVE  /\ active' => active
         /\ version <= version'
         /\ \A x \in Sessions :
              /\ session[x].state # "none" =>
                   session'[x].state # "none" /\ session'[x].tv = session[x].tv
              /\ session[x].state = "ended" => session'[x].state = "ended"
<1>0. version \in Nat
  BY WebSocketHubAssumption DEF TypeOK
<1>1. CASE UNCHANGED account
  BY <1>0, <1>1 DEF account
<1>2. CASE RevokeTokens
  BY <1>0, <1>2 DEF RevokeTokens
<1>4. CASE Suspend \/ DeleteAccount
  <2>1. session' = AllEnded /\ (version' = version \/ version' = version + 1) /\ active
    BY <1>4 DEF Suspend, DeleteAccount
  <2> QED
    BY <1>0, <2>1, AllEndedSound DEF Live
<1>3. ASSUME NEW x \in Sessions, EndSession(x) \/ \E tv \in 0 .. version : OpenSession(x, tv)
      PROVE  /\ UNCHANGED <<active, version>>
             /\ \A y \in Sessions : /\ y # x => session'[y] = session[y]
                                    /\ session[x].state = "none" \/ EndSession(x)
                                    /\ EndSession(x) => /\ session'[x].state = "ended"
                                                        /\ session'[x].tv = session[x].tv
                                                        /\ session[x].state = "live"
  BY <1>3 DEF OpenSession, EndSession, TypeOK, Live
<1> QED
  BY <1>0, <1>1, <1>2, <1>3, <1>4, Writers

Admitted == {"answered", "in", "over"}

\* A socket is admitted by CheckTicket and by nothing else, keeps its ticket from
\* then on, and a link that is no longer open never opens again.
LEMMA SocketsMove ==
  ASSUME TypeOK, [Next]_vars
  PROVE  \A s \in Sockets :
           /\ sock'[s].pc \in Admitted =>
                /\ sock'[s].ticket = sock[s].ticket
                /\ sock[s].pc \in Admitted \/ (CheckTicket(s) /\ Good(sock[s].ticket))
           /\ sock'[s].link = "open" => sock[s].link = "open"
<1> DEFINE Kept(s) == /\ sock'[s].pc \in Admitted =>
                            /\ sock'[s].ticket = sock[s].ticket
                            /\ sock[s].pc \in Admitted \/ (CheckTicket(s) /\ Good(sock[s].ticket))
                      /\ sock'[s].link = "open" => sock[s].link = "open"
<1>1. CASE UNCHANGED sock
  BY <1>1
<1>2. CASE SweepEnds
  BY <1>2, ClosingSound DEF SweepEnds, IsOpen
<1>3. ASSUME NEW s \in Sockets,
             \/ CheckTicket(s) \/ CheckTicketLost(s) \/ Register(s) \/ CloseEvent(s)
             \/ PeerGoes(s) \/ StruckOut(s)
             \/ \E t \in Tickets : Connect(s, t)
             \/ \E c \in Rooms \cup Chats : EarlyJoin(s, c)
      PROVE  \A u \in Sockets : Kept(u)
  <2>1. /\ sock[s] \in Socket
        /\ Out.pc = "out" /\ Out.link = "down"
    BY DEF TypeOK, Out, NoSocket
  <2>2. Kept(s)
    <3>1. CASE CheckTicket(s)
      BY <2>1, <3>1 DEF CheckTicket, TypeOK, Admitted, Socket
    <3>2. CASE CheckTicketLost(s)
      BY <2>1, <3>2 DEF CheckTicketLost, TypeOK, Admitted, Socket
    <3>3. CASE Register(s)
      BY <2>1, <3>3 DEF Register, TypeOK, Admitted, Socket
    <3>4. CASE CloseEvent(s)
      BY <2>1, <3>4 DEF CloseEvent, TypeOK, Admitted, Socket
    <3>5. CASE PeerGoes(s) \/ StruckOut(s)
      BY <2>1, <3>5 DEF PeerGoes, StruckOut, TypeOK, Admitted, Socket
    <3>6. ASSUME NEW t \in Tickets, Connect(s, t) PROVE Kept(s)
      BY <2>1, <3>6 DEF Connect, TypeOK, Admitted, Socket
    <3>7. ASSUME NEW c \in Rooms \cup Chats, EarlyJoin(s, c) PROVE Kept(s)
      BY <2>1, <3>7 DEF EarlyJoin, TypeOK, Admitted, Socket
    <3> QED
      BY <1>3, <3>1, <3>2, <3>3, <3>4, <3>5, <3>6, <3>7
  <2>3. \A u \in Sockets : u # s => sock'[u] = sock[u]
    BY <1>3 DEF CheckTicket, CheckTicketLost, Register, CloseEvent, PeerGoes, StruckOut,
                Connect, EarlyJoin, TypeOK
  <2> QED
    BY <2>2, <2>3
<1> QED
  BY <1>1, <1>2, <1>3, Writers

----------------------------------------------------------------------------
\* The ticket of an admitted socket is used up and nobody else's.
Admission ==
  \A s \in Sockets : sock[s].pc \in Admitted =>
    /\ ~ticket[sock[s].ticket].usable
    /\ \A u \in Sockets : sock[u].pc \in Admitted /\ sock[u].ticket = sock[s].ticket => u = s

LEMMA AdmissionStep == TypeOK /\ Admission /\ [Next]_vars => Admission'
<1> SUFFICES ASSUME TypeOK, Admission, [Next]_vars PROVE Admission'
  OBVIOUS
<1>0. \A s \in Sockets : sock[s].pc \in Admitted => Issued(sock[s].ticket) /\ sock[s].ticket \in Tickets
  BY WebSocketHubAssumption DEF TypeOK, Admitted, Issued, SessionOf
<1>1. ASSUME NEW s \in Sockets, CheckTicket(s), Good(sock[s].ticket)
      PROVE  /\ ~ticket'[sock[s].ticket].usable /\ ticket[sock[s].ticket].usable
             /\ sock'[s].ticket = sock[s].ticket
             /\ \A u \in Sockets : u # s => sock'[u] = sock[u] /\ ~CheckTicket(u)
  <2>1. sock[s].ticket \in Tickets /\ sock[s].pc = "asking"
    BY <1>1 DEF CheckTicket, TypeOK
  <2>2. sock' = [sock EXCEPT ![s].pc = "answered"]
    BY <1>1 DEF CheckTicket
  <2>3. ticket' = [ticket EXCEPT ![sock[s].ticket].usable = FALSE]
    BY <1>1 DEF CheckTicket
  <2>4. ~ticket'[sock[s].ticket].usable /\ ticket[sock[s].ticket].usable
    BY <1>1, <2>1, <2>3 DEF TypeOK, Good
  <2>5. \A u \in Sockets : u # s => sock'[u] = sock[u]
    BY <2>2 DEF TypeOK
  <2>6. ASSUME NEW u \in Sockets, u # s PROVE ~CheckTicket(u)
    <3>1. sock'[s].pc = "answered"
      BY <2>2 DEF TypeOK
    <3> SUFFICES ASSUME CheckTicket(u) PROVE FALSE
      OBVIOUS
    <3>2. sock'[s] = sock[s]
      BY <2>6 DEF CheckTicket, TypeOK
    <3> QED
      BY <2>1, <3>1, <3>2
  <2>7. sock'[s].ticket = sock[s].ticket
    BY <2>2 DEF TypeOK
  <2> QED
    BY <2>4, <2>5, <2>6, <2>7
<1>2. ASSUME NEW s \in Sockets, sock'[s].pc \in Admitted
      PROVE  ~ticket'[sock'[s].ticket].usable
  BY <1>0, <1>1, <1>2, SocketsMove, TicketsMove DEF Admission
<1>3. ASSUME NEW s \in Sockets, NEW u \in Sockets, sock'[s].pc \in Admitted,
             sock'[u].pc \in Admitted, sock'[u].ticket = sock'[s].ticket
      PROVE  u = s
  BY <1>0, <1>1, <1>3, SocketsMove DEF Admission
<1> QED
  BY <1>2, <1>3 DEF Admission

\* However many sockets present one ticket at the same time, at most one of them
\* is ever admitted with it (the UPDATE of used_at in the handshake).
THEOREM OneSocketPerTicket == Spec => []TicketAdmitsOne
<1>1. Init => Admission
  BY DEF Init, Admission, Admitted, NoSocket
<1>2. Admission => TicketAdmitsOne
  BY DEF Admission, TicketAdmitsOne, Admitted
<1> QED
  BY <1>1, <1>2, TypeCorrect, AdmissionStep, PTL DEF Spec

----------------------------------------------------------------------------
\* Where a socket stands, by its pc.
Standing(s) ==
  /\ sock[s].deaf => sock[s].link = "down" /\ sock[s].pc # "in"
  /\ sock[s].pc = "in" /\ IsOpen(s) => s \in clients
  /\ sock[s].pc = "over" => sock[s].link = "down"
  /\ (\E c \in Channels : s \in members[c]) => sock[s].pc \in {"in", "over"}
  /\ (\E c \in Rooms \cup Chats : <<s, c>> \in joining) => sock[s].pc \in {"in", "over"}

Listening == \A s \in Sockets : Standing(s)

LEMMA ListeningStep == TypeOK /\ Listening /\ [Next]_vars => Listening'
<1> SUFFICES ASSUME TypeOK, Listening, [Next]_vars PROVE Listening'
  OBVIOUS
<1>0. Rooms \cup Chats \subseteq Channels /\ User \in Channels
  BY DEF Channels
<1>a. ASSUME UNCHANGED <<sock, clients, members, joining>> PROVE Listening'
  BY <1>a DEF Listening, Standing, IsOpen
<1>b. ASSUME NEW s \in Sockets, \A u \in Sockets : u # s => sock'[u] = sock[u],
             UNCHANGED <<clients, members, joining>>, Standing(s)'
      PROVE  Listening'
  <2>1. ASSUME NEW u \in Sockets, u # s PROVE Standing(u)'
    <3>1. Standing(u) /\ sock'[u] = sock[u]
      BY <1>b, <2>1 DEF Listening
    <3> QED
      BY <1>b, <3>1 DEF Standing, IsOpen
  <2> QED
    BY <1>b, <2>1 DEF Listening
<1>c. \A s \in Sockets : Standing(s) /\ sock[s] \in Socket
  BY DEF Listening, TypeOK
<1>1. CASE \E x \in Sessions : \/ EndSession(x)
                               \/ \E tv \in 0 .. version : OpenSession(x, tv)
                               \/ \E t \in Tickets : OpenTicket(t, x)
  BY <1>1, <1>a DEF OpenSession, EndSession, OpenTicket, hub
<1>2. CASE \/ RevokeTokens \/ Suspend \/ DeleteAccount \/ SweepReadsUser \/ SweepReadsSessions \/ SweepFails
           \/ \E t \in Tickets : TicketExpires(t)
  BY <1>2, <1>a DEF RevokeTokens, Suspend, DeleteAccount, SweepReadsUser, SweepReadsSessions, SweepFails,
                    TicketExpires, hub
<1>3. ASSUME NEW s \in Sockets, CheckTicket(s) \/ CheckTicketLost(s) PROVE Listening'
  <2>1. /\ \A u \in Sockets : u # s => sock'[u] = sock[u]
        /\ UNCHANGED <<clients, members, joining>>
    BY <1>3 DEF CheckTicket, CheckTicketLost, hub, TypeOK
  <2>2. sock'[s] = Out \/ sock'[s] = [sock[s] EXCEPT !.pc = "answered"]
    BY <1>3 DEF CheckTicket, CheckTicketLost, TypeOK
  <2>3. sock[s].pc = "asking"
    BY <1>3 DEF CheckTicket, CheckTicketLost
  <2>4. Standing(s)'
    <3>1. CASE sock'[s] = Out
      BY <3>1, <1>c, <2>1, <2>3 DEF Standing, IsOpen, Out, NoSocket
    <3>2. CASE sock'[s] = [sock[s] EXCEPT !.pc = "answered"]
      BY <3>2, <1>c, <2>1, <2>3 DEF Standing, IsOpen, Socket
    <3> QED
      BY <2>2, <3>1, <3>2
  <2> QED
    BY <1>b, <2>1, <2>4
<1>4. ASSUME NEW s \in Sockets, NEW t \in Tickets, Connect(s, t) PROVE Listening'
  <2>1. /\ \A u \in Sockets : u # s => sock'[u] = sock[u]
        /\ UNCHANGED <<clients, members, joining>>
    BY <1>4 DEF Connect, hub, TypeOK
  <2>2. sock'[s] = [sock[s] EXCEPT !.pc = "asking", !.ticket = t] /\ sock[s].pc = "new"
    BY <1>4 DEF Connect, TypeOK
  <2>3. Standing(s)'
    BY <1>c, <2>1, <2>2 DEF Standing, IsOpen, Socket
  <2> QED
    BY <1>b, <2>1, <2>3
<1>5. ASSUME NEW s \in Sockets, NEW c \in Rooms \cup Chats, EarlyJoin(s, c) PROVE Listening'
  <2>1. /\ \A u \in Sockets : u # s => sock'[u] = sock[u]
        /\ UNCHANGED <<clients, members, joining>>
    BY <1>5 DEF EarlyJoin, hub, TypeOK
  <2>2. sock'[s] = [sock[s] EXCEPT !.early = @ \cup {c}]
    BY <1>5 DEF EarlyJoin, TypeOK
  <2>3. Standing(s)'
    BY <1>c, <2>1, <2>2 DEF Standing, IsOpen, Socket
  <2> QED
    BY <1>b, <2>1, <2>3
<1>6. ASSUME NEW s \in Sockets, PeerGoes(s) \/ StruckOut(s) PROVE Listening'
  <2>1. /\ \A u \in Sockets : u # s => sock'[u] = sock[u]
        /\ UNCHANGED <<clients, members, joining>>
    BY <1>6 DEF PeerGoes, StruckOut, hub, TypeOK
  <2>2. \/ sock'[s] = [sock[s] EXCEPT !.link = "down"]
        \/ sock'[s] = [sock[s] EXCEPT !.link = "closing"] /\ sock[s].pc = "in" /\ IsOpen(s)
    BY <1>6 DEF PeerGoes, StruckOut, TypeOK
  <2>3. Standing(s)'
    BY <1>c, <2>1, <2>2 DEF Standing, IsOpen, Socket
  <2> QED
    BY <1>b, <2>1, <2>3
<1>7. ASSUME NEW s \in Sockets, Register(s) PROVE Listening'
  <2>1. CASE ~IsOpen(s)
    <3>1. /\ \A u \in Sockets : u # s => sock'[u] = sock[u]
          /\ UNCHANGED <<clients, members, joining>>
          /\ sock'[s] = Out /\ sock[s].pc = "answered"
      BY <1>7, <2>1 DEF Register, TypeOK
    <3>2. Standing(s)'
      BY <1>c, <3>1 DEF Standing, IsOpen, Out, NoSocket
    <3> QED
      BY <1>b, <3>1, <3>2
  <2>2. CASE IsOpen(s)
    <3>1. /\ sock'[s] = [sock[s] EXCEPT !.pc = "in", !.early = {}]
          /\ \A u \in Sockets : u # s => sock'[u] = sock[u]
          /\ clients' = clients \cup {s}
          /\ joining' = joining \cup ({s} \X sock[s].early)
      BY <1>7, <2>2 DEF Register, TypeOK
    <3>2. \A d \in Channels : members'[d] = IF d = User THEN members[d] \cup {s} ELSE members[d]
      <4>1. Subscribe(s, User)
        BY <1>7, <2>2 DEF Register
      <4> QED
        BY <1>0, <4>1, SubscribeSound, SMTT(20)
    <3>3. Standing(s)'
      <4>1. ~sock[s].deaf
        BY <1>c, <2>2 DEF Standing, IsOpen
      <4> QED
        BY <1>c, <3>1, <4>1 DEF Standing, Socket
    <3>4. ASSUME NEW u \in Sockets, u # s PROVE Standing(u)'
      <4>1. \A d \in Channels : u \in members'[d] => u \in members[d]
        BY <3>2, <3>4
      <4>2. \A c \in Rooms \cup Chats : <<u, c>> \in joining' => <<u, c>> \in joining
        BY <3>1, <3>4
      <4> QED
        BY <1>c, <3>1, <3>4, <4>1, <4>2 DEF Standing, IsOpen
    <3> QED
      BY <3>3, <3>4 DEF Listening
  <2> QED
    BY <2>1, <2>2
<1>8. ASSUME NEW s \in Sockets, CloseEvent(s) PROVE Listening'
  <2>1. /\ sock'[s] = [sock[s] EXCEPT !.link = "down", !.deaf = TRUE,
                                      !.pc = IF @ = "in" THEN "over" ELSE @]
        /\ \A u \in Sockets : u # s => sock'[u] = sock[u]
        /\ joining' = joining
    BY <1>8 DEF CloseEvent, TypeOK
  <2>2. /\ \A u \in Sockets : u # s /\ u \in clients => u \in clients'
        /\ \A c \in Channels : members'[c] \subseteq members[c]
    BY <1>8, ForgetSound DEF CloseEvent, hub
  <2>3. Standing(s)'
    BY <1>c, <2>1, <2>2 DEF Standing, IsOpen, Socket
  <2>4. ASSUME NEW u \in Sockets, u # s PROVE Standing(u)'
    BY <1>c, <2>1, <2>2, <2>4 DEF Standing, IsOpen
  <2> QED
    BY <2>3, <2>4 DEF Listening
<1>9. ASSUME NEW s \in Sockets, NEW c \in Rooms \cup Chats, Joined(s, c) PROVE Listening'
  <2>1. /\ UNCHANGED <<sock, clients>> /\ joining' \subseteq joining
        /\ <<s, c>> \in joining
    BY <1>9 DEF Joined
  <2>2. \A d \in Channels : members'[d] \subseteq members[d] \cup {s}
    <3>1. Subscribe(s, c) /\ c \in Channels
      BY <1>0, <1>9 DEF Joined
    <3>2. \A d \in Channels :
            members'[d] = IF d = c THEN members[d] \cup {s} ELSE members[d]
      BY <3>1, SubscribeSound, ZenonT(40)
    <3> QED
      BY <3>2
  <2>3. sock[s].pc \in {"in", "over"}
    BY <1>c, <2>1 DEF Standing
  <2>4. ASSUME NEW u \in Sockets PROVE Standing(u)'
    BY <1>c, <2>1, <2>2, <2>3 DEF Standing, IsOpen
  <2> QED
    BY <2>4 DEF Listening
<1>10. ASSUME NEW s \in Sockets, NEW c \in Rooms \cup Chats,
              JoinRefused(s, c) \/ Join(s, c) \/ Leave(s, c)
       PROVE  Listening'
  <2>1. /\ UNCHANGED <<sock, clients>>
        /\ \/ joining' \subseteq joining
           \/ joining' = joining \cup {<<s, c>>} /\ sock[s].pc = "in"
    BY <1>10 DEF JoinRefused, Join, Leave, hub
  <2>2. \A d \in Channels : members'[d] \subseteq members[d]
    BY <1>10 DEF JoinRefused, Join, Leave, hub, TypeOK
  <2>3. ASSUME NEW u \in Sockets PROVE Standing(u)'
    BY <1>c, <2>1, <2>2 DEF Standing, IsOpen
  <2> QED
    BY <2>3 DEF Listening
<1>11. CASE SweepStarts
  <2> DEFINE gone == {s \in clients : ~IsOpen(s)}
  <2>1. /\ Forget(gone) /\ gone \in SUBSET Sockets
        /\ UNCHANGED <<sock, joining>>
    BY <1>11 DEF SweepStarts, TypeOK
  <2>2. /\ \A u \in Sockets : IsOpen(u) /\ u \in clients => u \in clients'
        /\ \A c \in Channels : members'[c] \subseteq members[c]
    BY <2>1, ForgetSound
  <2>3. ASSUME NEW u \in Sockets PROVE Standing(u)'
    BY <1>c, <2>1, <2>2 DEF Standing, IsOpen
  <2> QED
    BY <2>3 DEF Listening
<1>12. CASE SweepEnds
  <2> DEFINE gone == {s \in clients : Condemned(s)}
  <2>1. /\ Forget(gone) /\ gone \in SUBSET Sockets
        /\ sock' = Closing(gone) /\ joining' = joining
    BY <1>12 DEF SweepEnds, TypeOK
  <2> HIDE DEF gone
  <2>2. /\ clients' = clients \ gone
        /\ \A c \in Channels : members'[c] \subseteq members[c]
    BY <2>1, ForgetSound
  <2>3. \A s \in Sockets :
          /\ sock'[s].pc = sock[s].pc /\ sock'[s].deaf = sock[s].deaf
          /\ sock'[s].link = IF s \in gone /\ IsOpen(s) THEN "closing" ELSE sock[s].link
    BY <2>1, ClosingSound
  <2>4. ASSUME NEW u \in Sockets PROVE Standing(u)'
    BY <1>c, <2>1, <2>2, <2>3 DEF Standing, IsOpen
  <2> QED
    BY <2>4 DEF Listening
<1>13. CASE UNCHANGED vars
  BY <1>13, <1>a DEF vars, hub
<1> QED
  BY <1>1, <1>2, <1>3, <1>4, <1>5, <1>6, <1>7, <1>8, <1>9, <1>10, <1>11, <1>12, <1>13
     DEF Next, Answers, Sweeping

LEMMA ListeningInit == Init => Listening
BY DEF Init, Listening, Standing, NoSocket, IsOpen

\* Whatever a socket did while its ticket was checked, a client's close event is
\* still to come (index.ts:361 looks at readyState before clients.add).
THEOREM CloseIsHeard == Spec => []ClientsHearTheirClose
<1>1. TypeOK /\ Listening => ClientsHearTheirClose
  BY DEF TypeOK, Listening, Standing, ClientsHearTheirClose
<1> QED
  BY <1>1, TypeCorrect, ListeningInit, ListeningStep, PTL DEF Spec

\* An open socket that is in any channel is a client, so the sweep looks at it:
\* nobody listens out of the sweep's sight (deliverLocal, reauthenticate).
THEOREM NobodyListensUnseen == Spec => []ListenersAreClients
<1>1. TypeOK /\ Listening => ListenersAreClients
  BY DEF TypeOK, Listening, Standing, ListenersAreClients, IsOpen
<1> QED
  BY <1>1, TypeCorrect, ListeningInit, ListeningStep, PTL DEF Spec

----------------------------------------------------------------------------
LEMMA RoomsStep == TypeOK /\ RoomsAreTold /\ [Next]_vars => RoomsAreTold'
<1> SUFFICES ASSUME TypeOK, RoomsAreTold, [Next]_vars PROVE RoomsAreTold'
  OBVIOUS
<1>0. /\ Rooms \cup Chats \subseteq Channels /\ User \in Channels /\ User \notin Rooms
      /\ Rooms \subseteq Channels
  BY WebSocketHubAssumption DEF Channels
<1>1. CASE UNCHANGED hub
  BY <1>1 DEF hub, RoomsAreTold
<1>2. CASE \E gone \in SUBSET Sockets : Forget(gone)
  BY <1>2, ForgetSound
<1>3. ASSUME NEW s \in Sockets, Register(s), ~UNCHANGED hub PROVE RoomsAreTold'
  <2>1. Subscribe(s, User) /\ told' = told
    BY <1>3 DEF Register, hub
  <2>2. /\ \A d \in Channels :
             members'[d] = IF d = User THEN members[d] \cup {s} ELSE members[d]
        /\ \A u \in Sockets : own'[u] = IF u = s THEN own[u] \cup {User} ELSE own[u]
    BY <1>0, <2>1, SubscribeSound, ZenonT(40)
  <2>3. \A r \in Rooms : members'[r] = members[r]
    BY <1>0, <2>2
  <2> QED
    <3>1. ASSUME NEW u \in Sockets, NEW d \in Channels PROVE u \in members'[d] <=> d \in own'[u]
      <4>1. u \in members[d] <=> d \in own[u]
        BY DEF RoomsAreTold
      <4>2. CASE u = s
        BY <2>2, <4>1, <4>2
      <4>3. CASE u # s
        BY <2>2, <4>1, <4>3
      <4> QED
        BY <4>2, <4>3
    <3>2. \A r \in Rooms : told'[r] = Cardinality(members'[r])
      BY <2>1, <2>3 DEF RoomsAreTold
    <3> QED
      BY <3>1, <3>2 DEF RoomsAreTold
<1>4. ASSUME NEW s \in Sockets, NEW c \in Rooms \cup Chats, Joined(s, c) PROVE RoomsAreTold'
  <2>1. Subscribe(s, c) /\ c \in Channels
    BY <1>0, <1>4 DEF Joined
  <2>2. /\ \A d \in Channels : members'[d] = IF d = c THEN members[d] \cup {s} ELSE members[d]
        /\ \A u \in Sockets : own'[u] = IF u = s THEN own[u] \cup {c} ELSE own[u]
    BY <2>1, SubscribeSound, ZenonT(40)
  <2>3. \A r \in Rooms : told'[r] = IF r = c THEN Cardinality(members'[r]) ELSE told[r]
    BY <1>4 DEF Joined
  <2>4. \A r \in Rooms : r # c => members'[r] = members[r]
    BY <1>0, <2>2
  <2> QED
    <3>1. ASSUME NEW u \in Sockets, NEW d \in Channels PROVE u \in members'[d] <=> d \in own'[u]
      <4>1. u \in members[d] <=> d \in own[u]
        BY DEF RoomsAreTold
      <4>2. CASE u = s
        BY <2>2, <4>1, <4>2
      <4>3. CASE u # s
        BY <2>2, <4>1, <4>3
      <4> QED
        BY <4>2, <4>3
    <3>2. \A r \in Rooms : told'[r] = Cardinality(members'[r])
      BY <2>3, <2>4 DEF RoomsAreTold
    <3> QED
      BY <3>1, <3>2 DEF RoomsAreTold
<1>5. ASSUME NEW s \in Sockets, NEW c \in Rooms \cup Chats, Leave(s, c) PROVE RoomsAreTold'
  <2>1. /\ \A d \in Channels : members'[d] = IF d = c THEN members[d] \ {s} ELSE members[d]
        /\ \A u \in Sockets : own'[u] = IF u = s THEN own[u] \ {c} ELSE own[u]
        /\ \A r \in Rooms : told'[r] = IF r = c THEN Cardinality(members'[r]) ELSE told[r]
    BY <1>0, <1>5 DEF Leave, TypeOK
  <2>2. \A r \in Rooms : r # c => members'[r] = members[r]
    BY <1>0, <2>1
  <2> QED
    <3>1. ASSUME NEW u \in Sockets, NEW d \in Channels PROVE u \in members'[d] <=> d \in own'[u]
      <4>1. u \in members[d] <=> d \in own[u]
        BY DEF RoomsAreTold
      <4>2. CASE u = s
        BY <2>1, <4>1, <4>2
      <4>3. CASE u # s
        BY <2>1, <4>1, <4>3
      <4> QED
        BY <4>2, <4>3
    <3>2. \A r \in Rooms : told'[r] = Cardinality(members'[r])
      BY <2>1, <2>2 DEF RoomsAreTold
    <3> QED
      BY <3>1, <3>2 DEF RoomsAreTold
<1>6. ASSUME SweepStarts \/ SweepEnds \/ \E s \in Sockets : CloseEvent(s)
      PROVE  UNCHANGED hub \/ \E gone \in SUBSET Sockets : Forget(gone)
  <2>1. CASE SweepStarts
    <3>1. Forget({s \in clients : ~IsOpen(s)}) /\ {s \in clients : ~IsOpen(s)} \in SUBSET Sockets
      BY <2>1 DEF SweepStarts, TypeOK
    <3> QED
      BY <3>1
  <2>2. CASE SweepEnds
    <3>1. Forget({s \in clients : Condemned(s)}) /\ {s \in clients : Condemned(s)} \in SUBSET Sockets
      BY <2>2 DEF SweepEnds, TypeOK
    <3> QED
      BY <3>1
  <2>3. ASSUME NEW s \in Sockets, CloseEvent(s)
        PROVE  UNCHANGED hub \/ \E gone \in SUBSET Sockets : Forget(gone)
    <3>1. Forget({s}) \/ UNCHANGED hub
      BY <2>3 DEF CloseEvent
    <3> QED
      BY <3>1
  <2> QED
    BY <1>6, <2>1, <2>2, <2>3
<1> QED
  BY <1>1, <1>2, <1>3, <1>4, <1>5, <1>6, Writers

\* However joins, leaves, closed sockets and sweeps follow each other, the two
\* halves of every membership agree and the count a room was told last is right.
THEOREM CountsAreRight == Spec => []RoomsAreTold
<1>1. Init => RoomsAreTold
  <2>1. Rooms \subseteq Channels /\ Cardinality({}) = 0
    BY FS_EmptySet DEF Channels
  <2> QED
    BY <2>1 DEF Init, RoomsAreTold
<1> QED
  BY <1>1, TypeCorrect, RoomsStep, PTL DEF Spec

----------------------------------------------------------------------------
\* A socket that was let in keeps its ticket, and never comes in a second time.
LEMMA StaysIn ==
  ASSUME TypeOK, [Next]_vars
  PROVE  \A s \in Sockets : sock[s].pc \in {"in", "over"} =>
           sock'[s].pc \in {"in", "over"} /\ sock'[s].ticket = sock[s].ticket
<1> DEFINE In(s) == sock[s].pc \in {"in", "over"} =>
                      sock'[s].pc \in {"in", "over"} /\ sock'[s].ticket = sock[s].ticket
<1>1. CASE UNCHANGED sock
  BY <1>1
<1>2. CASE SweepEnds
  BY <1>2, ClosingSound DEF SweepEnds
<1>3. ASSUME NEW s \in Sockets,
             \/ CheckTicket(s) \/ CheckTicketLost(s) \/ Register(s) \/ CloseEvent(s)
             \/ PeerGoes(s) \/ StruckOut(s)
             \/ \E t \in Tickets : Connect(s, t)
             \/ \E c \in Rooms \cup Chats : EarlyJoin(s, c)
      PROVE  \A u \in Sockets : In(u)
  <2>1. sock[s] \in Socket
    BY DEF TypeOK
  <2>2. In(s)
    <3>1. CASE \/ CheckTicket(s) \/ CheckTicketLost(s) \/ Register(s)
               \/ (\E t \in Tickets : Connect(s, t)) \/ \E c \in Rooms \cup Chats : EarlyJoin(s, c)
      BY <3>1 DEF CheckTicket, CheckTicketLost, Register, Connect, EarlyJoin
    <3>2. CASE CloseEvent(s)
      BY <2>1, <3>2 DEF CloseEvent, TypeOK, Socket
    <3>3. CASE PeerGoes(s) \/ StruckOut(s)
      BY <2>1, <3>3 DEF PeerGoes, StruckOut, TypeOK, Socket
    <3> QED
      BY <1>3, <3>1, <3>2, <3>3
  <2>3. \A u \in Sockets : u # s => sock'[u] = sock[u]
    BY <1>3 DEF CheckTicket, CheckTicketLost, Register, CloseEvent, PeerGoes, StruckOut,
                Connect, EarlyJoin, TypeOK
  <2> QED
    BY <2>2, <2>3
<1> QED
  BY <1>1, <1>2, <1>3, Writers

\* Sessions and tickets carry a version that was once the account's, and a ticket
\* the version of its session.
Issuing ==
  /\ \A x \in Sessions : session[x].state # "none" => session[x].tv <= version
  /\ \A t \in Tickets : Issued(t) =>
       /\ session[ticket[t].session].state # "none"
       /\ ticket[t].tv = session[ticket[t].session].tv

LEMMA IssuingStep == TypeOK /\ Issuing /\ [Next]_vars => Issuing'
<1> SUFFICES ASSUME TypeOK, Issuing, [Next]_vars PROVE Issuing'
  OBVIOUS
<1>0. /\ version \in Nat /\ version' \in Nat
      /\ \A x \in Sessions : session[x].tv \in Nat /\ session'[x].tv \in Nat
      /\ \A t \in Tickets : ticket[t].session \in Sessions \cup {None}
      /\ None \notin Sessions
  BY TypeStep, WebSocketHubAssumption DEF TypeOK
<1>1. ASSUME NEW x \in Sessions, session'[x].state # "none" PROVE session'[x].tv <= version'
  <2>1. CASE session[x].state # "none"
    BY <2>1, <1>0, AccountMoves DEF Issuing
  <2>2. CASE session[x].state = "none"
    <3>1. UNCHANGED account \/ RevokeTokens => session' = session
      BY DEF account, RevokeTokens
    <3>3. Suspend \/ DeleteAccount => session'[x].state = "none"
      BY <2>2, AllEndedSound DEF Suspend, DeleteAccount, Live
    <3>2. ASSUME NEW y \in Sessions, EndSession(y) \/ \E tv \in 0 .. version : OpenSession(y, tv)
          PROVE  session'[x].state # "none" => session'[x].tv <= version'
      BY <1>0, <2>2, <3>2 DEF OpenSession, EndSession, TypeOK, Live
    <3> QED
      BY <1>1, <2>2, <3>1, <3>2, <3>3, Writers
  <2> QED
    BY <2>1, <2>2
<1>2. ASSUME NEW t \in Tickets, Issued(t)'
      PROVE  /\ session'[ticket'[t].session].state # "none"
             /\ ticket'[t].tv = session'[ticket'[t].session].tv
  <2>1. CASE Issued(t)
    <3>1. ticket[t].session \in Sessions
      BY <1>0, <2>1 DEF Issued
    <3> QED
      BY <2>1, <3>1, TicketsMove, AccountMoves DEF Issuing
  <2>2. CASE ~Issued(t)
    <3>1. UNCHANGED ticket => ~Issued(t)'
      BY <2>2 DEF Issued
    <3>2. ASSUME NEW u \in Tickets, TicketExpires(u) PROVE ~Issued(t)'
      BY <2>2, <3>2 DEF TicketExpires, Issued, TypeOK
    <3>5. DeleteAccount => ~Issued(t)'
      BY <2>2, TicketsDeletedSound DEF Issued
    <3>3. ASSUME NEW s \in Sockets, CheckTicket(s) \/ CheckTicketLost(s) PROVE ~Issued(t)'
      BY <2>2, <3>3 DEF CheckTicket, CheckTicketLost, Issued, TypeOK
    <3>4. ASSUME NEW u \in Tickets, NEW x \in Sessions, OpenTicket(u, x)
          PROVE  \/ ~Issued(t)'
                 \/ /\ session'[ticket'[t].session].state # "none"
                    /\ ticket'[t].tv = session'[ticket'[t].session].tv
      BY <2>2, <3>4 DEF OpenTicket, Issued, TypeOK, account
    <3> QED
      BY <1>2, <3>1, <3>2, <3>3, <3>4, <3>5, Writers
  <2> QED
    BY <2>1, <2>2
<1> QED
  BY <1>1, <1>2 DEF Issuing

\* What the answers of a sweep still say when they are used: whatever they give
\* as a reason is true, and whoever was doomed when the sweep began has one.
Doomed(s) ==
  /\ sock[s].pc \in {"in", "over"}
  /\ \/ ~active /\ (sweep.user => ~sweep.active)
     \/ VersionOf(s) < version /\ (sweep.user => VersionOf(s) < sweep.version)
     \/ /\ session[SessionOf(s)].state = "ended"
        /\ sweep.sessions => SessionOf(s) \notin sweep.live

Answered ==
  /\ sweep.user => (active => sweep.active) /\ sweep.version <= version
  /\ \A x \in sweep.asked : /\ session[x].state # "none"
                            /\ sweep.user => session[x].tv <= sweep.version
                            /\ sweep.sessions /\ x \notin sweep.live => session[x].state = "ended"
  /\ \A s \in sweep.doomed : Doomed(s)

LEMMA AnsweredStep == TypeOK /\ TypeOK' /\ Issuing /\ Answered /\ [Next]_vars => Answered'
<1> SUFFICES ASSUME TypeOK, TypeOK', Issuing, Answered, [Next]_vars PROVE Answered'
  OBVIOUS
<1>0. /\ version \in Nat /\ version' \in Nat /\ version <= version'
      /\ sweep \in Sweep /\ sweep' \in Sweep
      /\ \A x \in Sessions : session[x].tv \in Nat /\ session'[x].tv \in Nat
      /\ \A t \in Tickets : ticket[t].tv \in Nat
      /\ active \in BOOLEAN
  BY AccountMoves, WebSocketHubAssumption DEF TypeOK
\* What was true of a doomed socket, its session and its ticket stays so.
<1>1. ASSUME NEW s \in Sockets, sock[s].pc \in {"in", "over"}
      PROVE  /\ sock'[s].pc \in {"in", "over"}
             /\ SessionOf(s)' = SessionOf(s) /\ VersionOf(s)' = VersionOf(s)
             /\ SessionOf(s) \in Sessions /\ VersionOf(s) \in Nat
             /\ session[SessionOf(s)].state # "none"
             /\ VersionOf(s) = session[SessionOf(s)].tv
             /\ VersionOf(s) <= version
  <2>1. sock[s].ticket \in Tickets /\ SessionOf(s) \in Sessions
    BY <1>1 DEF TypeOK
  <2>2. Issued(sock[s].ticket)
    BY <2>1, WebSocketHubAssumption DEF Issued, SessionOf
  <2>3. sock'[s].pc \in {"in", "over"} /\ sock'[s].ticket = sock[s].ticket
    BY <1>1, StaysIn
  <2>4. SessionOf(s)' = SessionOf(s) /\ VersionOf(s)' = VersionOf(s)
    BY <2>1, <2>2, <2>3, TicketsMove DEF SessionOf, VersionOf
  <2> QED
    BY <1>0, <2>1, <2>2, <2>3, <2>4 DEF Issuing, SessionOf, VersionOf
<1>2. ASSUME UNCHANGED sweep PROVE Answered'
  <2>1. sweep'.user => (active' => sweep'.active) /\ sweep'.version <= version'
    BY <1>0, <1>2, AccountMoves DEF Answered, Sweep
  <2>2. ASSUME NEW x \in sweep'.asked
        PROVE  /\ session'[x].state # "none"
               /\ sweep'.user => session'[x].tv <= sweep'.version
               /\ sweep'.sessions /\ x \notin sweep'.live => session'[x].state = "ended"
    BY <1>0, <1>2, <2>2, AccountMoves DEF Answered, Sweep
  <2>3. ASSUME NEW s \in sweep'.doomed PROVE Doomed(s)'
    <3>1. s \in Sockets /\ Doomed(s)
      BY <1>0, <1>2, <2>3 DEF Answered, Sweep
    <3>2. sock[s].pc \in {"in", "over"}
      BY <3>1 DEF Doomed
    <3> QED
      BY <1>0, <1>1, <1>2, <3>1, <3>2, AccountMoves DEF Doomed, Sweep
  <2> QED
    BY <2>1, <2>2, <2>3 DEF Answered
<1>3. CASE sweep' = NoSweep
  BY <1>3 DEF Answered, NoSweep
<1>4. CASE SweepStarts /\ sweep' # NoSweep
  <2>1. /\ sweep' = [NoSweep EXCEPT !.pc = "asking",
                                    !.asked = {SessionOf(s) : s \in clients'},
                                    !.doomed = {s \in clients' : Ended(s)}]
        /\ UNCHANGED <<account, ticket, sock>>
    BY <1>4 DEF SweepStarts
  <2>2. /\ ~sweep'.user /\ ~sweep'.sessions
        /\ sweep'.asked = {SessionOf(s) : s \in clients'}
        /\ sweep'.doomed = {s \in clients' : Ended(s)}
    BY <2>1 DEF NoSweep
  <2>3. \A s \in clients' : s \in Sockets /\ sock[s].pc = "in"
    BY <2>1 DEF TypeOK
  <2>4. ASSUME NEW x \in sweep'.asked PROVE session'[x].state # "none"
    BY <1>1, <2>1, <2>2, <2>3, <2>4 DEF account
  <2>5. ASSUME NEW s \in sweep'.doomed PROVE Doomed(s)'
    <3>1. s \in Sockets /\ sock[s].pc = "in" /\ Ended(s)
      BY <2>2, <2>3, <2>5
    <3>2. ~active \/ VersionOf(s) < version \/ session[SessionOf(s)].state = "ended"
      <4>1. /\ SessionOf(s) \in Sessions /\ session[SessionOf(s)].state # "none"
            /\ VersionOf(s) \in Nat /\ VersionOf(s) <= version
        BY <1>1, <3>1
      <4>2. session[SessionOf(s)].state \in {"none", "live", "ended"}
        BY <4>1 DEF TypeOK
      <4>3. ~active \/ VersionOf(s) # version \/ session[SessionOf(s)].state # "live"
        BY <3>1 DEF Ended, Live
      <4> HIDE DEF SessionOf, VersionOf
      <4> QED
        BY <1>0, <4>1, <4>2, <4>3
    <3>3. UNCHANGED <<active, version, session>>
      BY <2>1 DEF account
    <3> QED
      BY <1>1, <2>1, <2>2, <3>1, <3>2, <3>3 DEF Doomed
  <2> QED
    BY <2>2, <2>4, <2>5 DEF Answered
<1>5. CASE SweepReadsUser
  <2>1. /\ sweep' = [sweep EXCEPT !.user = TRUE, !.active = active, !.version = version]
        /\ UNCHANGED <<active, version, session, ticket, sock>>
    BY <1>5 DEF SweepReadsUser, account
  <2>2. /\ sweep'.active = active /\ sweep'.version = version
        /\ sweep'.asked = sweep.asked /\ sweep'.doomed = sweep.doomed
        /\ sweep'.sessions = sweep.sessions /\ sweep'.live = sweep.live
    BY <1>0, <2>1 DEF Sweep
  <2>3. \A x \in sweep.asked : x \in Sessions
    BY <1>0 DEF Sweep
  <2>4. ASSUME NEW x \in sweep'.asked
        PROVE  /\ session'[x].state # "none"
               /\ session'[x].tv <= sweep'.version
               /\ sweep'.sessions /\ x \notin sweep'.live => session'[x].state = "ended"
    BY <2>1, <2>2, <2>3, <2>4 DEF Answered, Issuing
  <2>5. ASSUME NEW s \in sweep'.doomed PROVE Doomed(s)'
    <3>1. s \in Sockets /\ Doomed(s)
      BY <1>0, <2>2, <2>5 DEF Answered, Sweep
    <3> QED
      BY <1>1, <2>1, <2>2, <3>1 DEF Doomed
  <2> QED
    BY <1>0, <2>1, <2>2, <2>4, <2>5 DEF Answered
<1>6. CASE SweepReadsSessions
  <2>1. /\ sweep' = [sweep EXCEPT !.sessions = TRUE, !.live = {x \in sweep.asked : Live(x)}]
        /\ UNCHANGED <<active, version, session, ticket, sock>>
    BY <1>6 DEF SweepReadsSessions, account
  <2>2. /\ sweep'.active = sweep.active /\ sweep'.version = sweep.version
        /\ sweep'.asked = sweep.asked /\ sweep'.doomed = sweep.doomed
        /\ sweep'.user = sweep.user /\ sweep'.live = {x \in sweep.asked : Live(x)}
    BY <1>0, <2>1 DEF Sweep
  <2>3. ASSUME NEW x \in sweep'.asked
        PROVE  /\ session'[x].state # "none"
               /\ sweep'.user => session'[x].tv <= sweep'.version
               /\ x \notin sweep'.live => session'[x].state = "ended"
    <3>1. x \in Sessions /\ session[x].state # "none"
      BY <1>0, <2>2, <2>3 DEF Sweep, Answered
    <3> QED
      BY <2>1, <2>2, <2>3, <3>1 DEF Answered, Live, TypeOK
  <2>4. ASSUME NEW s \in sweep'.doomed PROVE Doomed(s)'
    <3>1. s \in Sockets /\ Doomed(s)
      BY <1>0, <2>2, <2>4 DEF Answered, Sweep
    <3>2. session[SessionOf(s)].state = "ended" => SessionOf(s) \notin sweep'.live
      BY <2>2 DEF Live
    <3> QED
      BY <1>1, <2>1, <2>2, <3>1, <3>2 DEF Doomed
  <2> QED
    BY <2>1, <2>2, <2>3, <2>4 DEF Answered
<1>7. CASE SweepFails \/ SweepEnds
  BY <1>3, <1>7 DEF SweepFails, SweepEnds
<1> QED
  BY <1>2, <1>3, <1>4, <1>5, <1>6, <1>7, Writers DEF Sweeping

LEMMA SweepInit == Init => Issuing /\ Answered
BY DEF Init, Issuing, Answered, NoSession, NoTicket, NoSweep, Issued

\* Whoever had to go when a sweep began is no client when that sweep is through,
\* whatever happened while it waited for its two answers (reauthenticate).
THEOREM SweepsAreComplete == Spec => SweepCatchesAll
<1>1. TypeOK /\ Answered /\ [Next]_vars => [SweepEnds => sweep.doomed \cap clients' = {}]_vars
  <2> SUFFICES ASSUME TypeOK, Answered, SweepEnds, NEW s \in sweep.doomed
               PROVE  s \notin clients'
    BY DEF SweepCatchesAll
  <2>1. Doomed(s) /\ s \in Sockets /\ sweep.user /\ sweep.sessions
    BY DEF Answered, SweepEnds, TypeOK, Sweep
  <2>2. VersionOf(s) < sweep.version => sweep.version # VersionOf(s)
    <3>1. sweep.version \in Nat /\ VersionOf(s) \in Nat
      BY <2>1 DEF TypeOK, Sweep, Doomed, VersionOf
    <3> QED
      BY <3>1
  <2>3. Condemned(s)
    BY <2>1, <2>2 DEF Doomed, Condemned
  <2>4. clients' = clients \ {u \in clients : Condemned(u)}
    BY DEF SweepEnds, Forget
  <2> QED
    BY <2>3, <2>4
<1> QED
  BY <1>1, TypeCorrect, SweepInit, IssuingStep, AnsweredStep, PTL DEF Spec, SweepCatchesAll

\* The sweep closes nobody on stale rows: a socket it closes has ended by then, or
\* arrived with a session the sweep had not asked for (reauthenticate).
THEOREM SweepsAreJustified == Spec => SweepHasACause
<1> DEFINE A == \A s \in clients :
                  (sweep.pc = "asking" /\ sweep' = NoSweep /\ IsOpen(s) /\ sock'[s].link # "open")
                    => Ended(s) \/ SessionOf(s) \notin sweep.asked
<1>1. TypeOK /\ Issuing /\ Answered /\ [Next]_vars => [A]_vars
  <2> SUFFICES ASSUME TypeOK, Issuing, Answered, [Next]_vars,
                      NEW s \in clients, sweep.pc = "asking", sweep' = NoSweep,
                      IsOpen(s), sock'[s].link # "open",
                      ~Ended(s), SessionOf(s) \in sweep.asked
               PROVE  FALSE
    OBVIOUS
  <2>1. s \in Sockets /\ sweep \in Sweep /\ version \in Nat
    BY WebSocketHubAssumption DEF TypeOK
  <2>2. SweepEnds
    <3>1. ~UNCHANGED sweep /\ ~SweepStarts
      BY DEF NoSweep, SweepStarts
    <3>2. ~SweepReadsUser /\ ~SweepReadsSessions
      BY <2>1, ZenonT(40) DEF SweepReadsUser, SweepReadsSessions, NoSweep, Sweep
    <3>3. ~SweepFails
      BY DEF SweepFails, IsOpen
    <3> QED
      BY <3>1, <3>2, <3>3, Writers DEF Sweeping
  <2>3. Condemned(s) /\ sweep.user /\ sweep.sessions
    <3>1. sock' = Closing({u \in clients : Condemned(u)}) /\ sweep.user /\ sweep.sessions
      BY <2>2 DEF SweepEnds
    <3> QED
      BY <2>1, <3>1, ClosingSound DEF IsOpen
  <2>4. /\ sock[s].ticket \in Tickets /\ SessionOf(s) \in Sessions
        /\ VersionOf(s) = session[SessionOf(s)].tv
    <3>1. sock[s].ticket \in Tickets /\ SessionOf(s) \in Sessions
      BY DEF TypeOK
    <3> QED
      BY <3>1, WebSocketHubAssumption DEF Issuing, Issued, SessionOf, VersionOf
  <2>5. VersionOf(s) = version /\ active /\ Live(SessionOf(s))
    BY DEF Ended
  <2>6. sweep.active /\ SessionOf(s) \in sweep.live
    BY <2>3, <2>5 DEF Answered, Live
  <2>7. sweep.version = VersionOf(s)
    <3>1. sweep.version <= version /\ VersionOf(s) <= sweep.version
      BY <2>3, <2>4 DEF Answered
    <3> QED
      BY <2>1, <2>5, <3>1 DEF Sweep
  <2> QED
    BY <2>3, <2>6, <2>7 DEF Condemned
<1> QED
  BY <1>1, TypeCorrect, SweepInit, IssuingStep, AnsweredStep, PTL DEF Spec, SweepHasACause

\* Everything the runs check of the hub at every moment, for any number of sockets,
\* tickets and rooms (HubSafe of connection, join, forget and sweep in websocket.ts).
THEOREM HubIsSafe == Spec => []HubSafe
<1>1. TypeOK /\ TicketAdmitsOne /\ ClientsHearTheirClose /\ RoomsAreTold /\ ListenersAreClients
        => HubSafe
  BY DEF HubSafe
<1> QED
  BY <1>1, TypeCorrect, OneSocketPerTicket, CloseIsHeard, CountsAreRight, NobodyListensUnseen, PTL

\* The sweep closes exactly what has a reason to be closed, although it judges by rows
\* that it read before.
THEOREM SweepsBehave == Spec => SweepBehaves
  BY SweepsAreComplete, SweepsAreJustified DEF SweepBehaves
=============================================================================
