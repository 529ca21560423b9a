---------------------------- MODULE GatewayProofs ----------------------------
(***************************************************************************)
(* Proofs about the gateway process (Gateway) and the writer of its row    *)
(* (StateWriter): nothing that was signalled is lost or overtaken, no      *)
(* event is counted twice, a stop says so, and the row never steps back.   *)
(***************************************************************************)
EXTENDS Gateway, Integers, TLAPS

----------------------------------------------------------------------------
(* The writer of the row. *)

\* One write at most is under way.
OneInFlight == fut = {} \/ fut = {UnderWay}

\* Whose session is newer, or the same with a number that is not smaller.
FollowsOn(p, q) ==
  \/ q.session > p.session
  \/ q.session = p.session /\ q.sequence >= p.sequence

\* A row r, with the write u and then p, what is pending, laid over it, says x; its
\* counters may be ahead when t: a write was applied and its answer lost.
Tells(r, u, p, x, t) ==
  LET o == Osszevon(Osszevon(r, u), p) IN
  /\ o.status = x.status /\ o.session = x.session
  /\ o.sequence = x.sequence /\ o.event = x.event
  /\ \A c \in Counters : o.n[c] >= x.n[c] /\ (~t => o.n[c] = x.n[c])

\* The write does not lead the row back, and neither does what is pending after it.
RunsOn(r, u, p) ==
  /\ FollowsOn(r, Osszevon(r, u))
  /\ FollowsOn(Osszevon(r, u), Osszevon(Osszevon(r, u), p))

SaidIsOutstanding == Tells(stateRow, UnderWay, fuggo, said, twice)
InOrder == RunsOn(stateRow, UnderWay, fuggo)

WriterInv ==
  WriterTypeOK /\ OneInFlight /\ SaidIsOutstanding /\ InOrder /\ PendingIsScheduled

----------------------------------------------------------------------------
(* The engine. *)

\* A connection that delivers has a session, and the number it stands at.
ServesASession == line \in {"resuming", "ready"} => session # Null /\ cursor = sequence

Counted == stored + puffer + batch["timer"] + batch["leall"]

\* What was counted and what the session still has to deliver did happen.
NothingMadeUp ==
  /\ Counted <= happened
  /\ valid # Null /\ session = valid =>
       sequence <= sent /\ Counted + sent <= happened + sequence

\* A stop speaks last.
StopsForGood ==
  /\ process \in {"draining", "lastWrite", "exited"} =>
       line \notin Open /\ said.status = "disconnected"
  /\ process \in {"lastWrite", "exited"} /\ writeFaults = 0 => fuggo = Blank
  /\ process = "exited" /\ writeFaults = 0 => fut = {}

\* What was signalled is of the session the engine has, or of an older one.
SaidOfSession ==
  /\ said.session <= issued
  /\ session # Null => said.session = session /\ said.sequence <= sequence

\* The type invariant without the writer's part: what is a truth value, and the rest.
FlagsOK == acked \in BOOLEAN /\ szivveres \in BOOLEAN /\ silent \in BOOLEAN
NumbersOK ==
  /\ process \in {"running", "flushing", "draining", "lastWrite", "exited"} /\ line \in Lines
  /\ session \in Nat /\ sequence \in Nat /\ (session = Null <=> sequence = Null)
  /\ puffer \in Nat /\ batch \in [{"timer", "leall"} -> Nat] /\ stored \in Nat
  /\ valid \in Nat /\ issued \in Nat /\ sent \in Nat /\ cursor \in Nat
  /\ happened \in 0 .. MaxEvents /\ troubles \in 0 .. MaxTroubles

EngineInv ==
  /\ NumbersOK /\ ServesASession /\ NothingMadeUp /\ NoStrayBeat /\ StopsForGood /\ SaidOfSession

GatewayInv == WriterInv /\ FlagsOK /\ EngineInv

----------------------------------------------------------------------------
(* Entries. *)

Counts == [Counters -> Nat]

\* Entries, and what merging does to their parts.
LEMMA EntryParts ==
  \A e \in Entries :
    /\ e.status \in Statuses \cup {""} /\ e.session \in Nat /\ e.sequence \in Nat
    /\ e.event \in BOOLEAN /\ e.n \in Counts /\ \A c \in Counters : e.n[c] \in Nat
<1>1. \A e \in Entries :
        /\ e.status \in Statuses \cup {""} /\ e.session \in Nat /\ e.sequence \in Nat
        /\ e.event \in BOOLEAN /\ e.n \in Counts
  BY DEF Entries, Counts
<1>2. \A f \in Counts : \A c \in Counters : f[c] \in Nat
  BY DEF Counts
<1> QED
  BY <1>1, <1>2

LEMMA EntryOf ==
  ASSUME NEW s \in Statuses \cup {""}, NEW i \in Nat, NEW q \in Nat, NEW b \in BOOLEAN,
         NEW f \in Counts
  PROVE  /\ [status |-> s, session |-> i, sequence |-> q, event |-> b, n |-> f] \in Entries
         /\ [status |-> s, session |-> i, sequence |-> q, event |-> b, n |-> f].status = s
         /\ [status |-> s, session |-> i, sequence |-> q, event |-> b, n |-> f].session = i
         /\ [status |-> s, session |-> i, sequence |-> q, event |-> b, n |-> f].sequence = q
         /\ [status |-> s, session |-> i, sequence |-> q, event |-> b, n |-> f].event = b
         /\ [status |-> s, session |-> i, sequence |-> q, event |-> b, n |-> f].n = f
<1>1. [status |-> s, session |-> i, sequence |-> q, event |-> b, n |-> f] \in Entries
  BY Zenon DEF Entries, Counts
<1>2. [status |-> s, session |-> i, sequence |-> q, event |-> b, n |-> f].status = s
  BY Zenon
<1>3. [status |-> s, session |-> i, sequence |-> q, event |-> b, n |-> f].session = i
  BY Zenon
<1>4. [status |-> s, session |-> i, sequence |-> q, event |-> b, n |-> f].sequence = q
  BY Zenon
<1>5. [status |-> s, session |-> i, sequence |-> q, event |-> b, n |-> f].event = b
  BY Zenon
<1>6. [status |-> s, session |-> i, sequence |-> q, event |-> b, n |-> f].n = f
  BY Zenon
<1> QED
  BY <1>1, <1>2, <1>3, <1>4, <1>5, <1>6, Zenon

LEMMA BlankIsBlank ==
  /\ Blank \in Entries /\ Blank.status = "" /\ Blank.session = 0 /\ Blank.sequence = 0
  /\ Blank.event = FALSE /\ \A c \in Counters : Blank.n[c] = 0
<1> DEFINE f == [c \in Counters |-> 0]
<1>1. f \in Counts /\ FALSE \in BOOLEAN /\ 0 \in Nat /\ "" \in Statuses \cup {""}
  BY DEF Counts
<1>2. \A c \in Counters : f[c] = 0
  OBVIOUS
<1> HIDE DEF f
<1>3. [status |-> "", session |-> 0, sequence |-> 0, event |-> FALSE, n |-> f] \in Entries
  BY <1>1, Zenon DEF Entries, Counts
<1>4. Blank = [status |-> "", session |-> 0, sequence |-> 0, event |-> FALSE, n |-> f]
  BY DEF Blank, f
<1>5. Blank.status = "" /\ Blank.session = 0 /\ Blank.sequence = 0 /\ Blank.event = FALSE
  BY Zenon DEF Blank
<1>6. Blank.n = f
  BY DEF Blank, f
<1> QED
  BY <1>2, <1>3, <1>4, <1>5, <1>6

\* What a signal says, in terms of its parts.
LEMMA Merging ==
  ASSUME NEW a \in Entries, NEW b \in Entries
  PROVE  /\ Osszevon(a, b) \in Entries
         /\ Osszevon(a, b).status = (IF b.status # "" THEN b.status ELSE a.status)
         /\ Osszevon(a, b).session = (IF b.session # 0 THEN b.session ELSE a.session)
         /\ Osszevon(a, b).sequence = (IF b.sequence # 0 THEN b.sequence ELSE a.sequence)
         /\ Osszevon(a, b).event = (a.event \/ b.event)
         /\ \A c \in Counters : Osszevon(a, b).n[c] = a.n[c] + b.n[c]
<1> DEFINE s == IF b.status # "" THEN b.status ELSE a.status
           i == IF b.session # 0 THEN b.session ELSE a.session
           q == IF b.sequence # 0 THEN b.sequence ELSE a.sequence
           e == a.event \/ b.event
           f == [c \in Counters |-> a.n[c] + b.n[c]]
<1>1. /\ a.status \in Statuses \cup {""} /\ a.session \in Nat /\ a.sequence \in Nat
      /\ b.status \in Statuses \cup {""} /\ b.session \in Nat /\ b.sequence \in Nat
      /\ \A c \in Counters : a.n[c] \in Nat /\ b.n[c] \in Nat
  BY EntryParts
<1>2. s \in Statuses \cup {""} /\ i \in Nat /\ q \in Nat /\ e \in BOOLEAN
  BY <1>1
<1>3. f \in Counts /\ \A c \in Counters : f[c] = a.n[c] + b.n[c]
  <2>1. \A c \in Counters : a.n[c] + b.n[c] \in Nat
    <3> TAKE c \in Counters
    <3>1. a.n[c] \in Nat /\ b.n[c] \in Nat
      BY <1>1, Zenon
    <3> QED
      BY <3>1
  <2> QED
    BY <2>1 DEF Counts
<1>4. Osszevon(a, b) = [status |-> s, session |-> i, sequence |-> q, event |-> e, n |-> f]
  BY DEF Osszevon
<1> HIDE DEF s, i, q, e, f
<1>5. /\ Osszevon(a, b) \in Entries /\ Osszevon(a, b).status = s
      /\ Osszevon(a, b).session = i /\ Osszevon(a, b).sequence = q
      /\ Osszevon(a, b).event = e /\ Osszevon(a, b).n = f
  <2> DEFINE r == [status |-> s, session |-> i, sequence |-> q, event |-> e, n |-> f]
  <2>1. r \in Entries /\ r.status = s /\ r.session = i /\ r.sequence = q /\ r.event = e /\ r.n = f
    BY <1>2, <1>3, EntryOf, Zenon
  <2> HIDE DEF r
  <2>2. Osszevon(a, b) = r
    BY <1>4, Zenon DEF r
  <2> QED
    BY <2>1, <2>2, Zenon
<1> QED
  BY <1>3, <1>5 DEF s, i, q, e

\* Two entries that say the same are the same.
LEMMA SameEntry ==
  ASSUME NEW a \in Entries, NEW b \in Entries,
         a.status = b.status, a.session = b.session, a.sequence = b.sequence,
         a.event = b.event, \A c \in Counters : a.n[c] = b.n[c]
  PROVE  a = b
<1>1. a.n = b.n
  <2>1. a.n \in Counts /\ b.n \in Counts
    BY EntryParts, Zenon
  <2> QED
    BY <2>1 DEF Counts
<1>2. ASSUME NEW S, NEW C,
             NEW d \in [status : S, session : Nat, sequence : Nat, event : BOOLEAN, n : C]
      PROVE  d = [status |-> d.status, session |-> d.session,
                  sequence |-> d.sequence, event |-> d.event, n |-> d.n]
  OBVIOUS
<1>3. /\ a = [status |-> a.status, session |-> a.session, sequence |-> a.sequence,
              event |-> a.event, n |-> a.n]
      /\ b = [status |-> b.status, session |-> b.session, sequence |-> b.sequence,
              event |-> b.event, n |-> b.n]
  BY <1>2, Zenon DEF Entries
<1> QED
  BY <1>1, <1>3, Zenon

\* A blank entry over another changes nothing.
LEMMA BlankOver ==
  ASSUME NEW a \in Entries
  PROVE  Osszevon(a, Blank) = a
<1> DEFINE o == Osszevon(a, Blank)
<1>1. /\ o \in Entries
      /\ o.status = (IF Blank.status # "" THEN Blank.status ELSE a.status)
      /\ o.session = (IF Blank.session # 0 THEN Blank.session ELSE a.session)
      /\ o.sequence = (IF Blank.sequence # 0 THEN Blank.sequence ELSE a.sequence)
      /\ o.event = (a.event \/ Blank.event)
      /\ \A c \in Counters : o.n[c] = a.n[c] + Blank.n[c]
  BY BlankIsBlank, Merging, Zenon
<1> HIDE DEF o
<1>2. o.status = a.status /\ o.session = a.session /\ o.sequence = a.sequence
  BY <1>1, BlankIsBlank
<1>3. o.event = a.event
  <2>1. a.event \in BOOLEAN /\ Blank.event = FALSE
    BY BlankIsBlank, EntryParts, Zenon
  <2> QED
    BY <1>1, <2>1, Zenon
<1>4. \A c \in Counters : o.n[c] = a.n[c]
  <2> TAKE c \in Counters
  <2>1. a.n[c] \in Nat /\ Blank.n[c] = 0 /\ o.n[c] = a.n[c] + Blank.n[c]
    BY <1>1, BlankIsBlank, EntryParts, Zenon
  <2> QED
    BY <2>1
<1> QED
  BY <1>1, <1>2, <1>3, <1>4, SameEntry, Zenon DEF o

\* All but the counters alike.
LEMMA OtherCounts ==
  ASSUME NEW a \in Entries, NEW b \in Entries,
         a.status = b.status, a.session = b.session, a.sequence = b.sequence,
         a.event = b.event
  PROVE  [a EXCEPT !.n = b.n] = b
<1>1. ASSUME NEW S, NEW C,
             NEW d \in [status : S, session : Nat, sequence : Nat, event : BOOLEAN, n : C],
             NEW e \in [status : S, session : Nat, sequence : Nat, event : BOOLEAN, n : C],
             d.status = e.status, d.session = e.session, d.sequence = e.sequence,
             d.event = e.event
      PROVE  [d EXCEPT !.n = e.n] = e
  <2> DEFINE g == [d EXCEPT !.n = e.n]
  <2>1. /\ g \in [status : S, session : Nat, sequence : Nat, event : BOOLEAN, n : C]
        /\ g.status = d.status /\ g.session = d.session /\ g.sequence = d.sequence
        /\ g.event = d.event /\ g.n = e.n
    <3>1. e.n \in C
      OBVIOUS
    <3> QED
      BY <3>1
  <2> HIDE DEF g
  <2>2. g = e
    BY <1>1, <2>1
  <2> QED
    BY <2>2 DEF g
<1> QED
  BY <1>1, Zenon DEF Entries

\* Merging is associative: what failed can go back under what is pending.
LEMMA Grouping ==
  ASSUME NEW r \in Entries, NEW u \in Entries, NEW p \in Entries
  PROVE  Osszevon(r, Osszevon(u, p)) = Osszevon(Osszevon(r, u), p)
<1> DEFINE b == Osszevon(r, u)
           g == Osszevon(u, p)
           o == Osszevon(b, p)
           k == Osszevon(r, g)
<1>1. /\ b \in Entries
      /\ b.status = (IF u.status # "" THEN u.status ELSE r.status)
      /\ b.session = (IF u.session # 0 THEN u.session ELSE r.session)
      /\ b.sequence = (IF u.sequence # 0 THEN u.sequence ELSE r.sequence)
      /\ b.event = (r.event \/ u.event)
      /\ \A c \in Counters : b.n[c] = r.n[c] + u.n[c]
  BY Merging, Zenon
<1>2. /\ g \in Entries
      /\ g.status = (IF p.status # "" THEN p.status ELSE u.status)
      /\ g.session = (IF p.session # 0 THEN p.session ELSE u.session)
      /\ g.sequence = (IF p.sequence # 0 THEN p.sequence ELSE u.sequence)
      /\ g.event = (u.event \/ p.event)
      /\ \A c \in Counters : g.n[c] = u.n[c] + p.n[c]
  BY Merging, Zenon
<1> HIDE DEF b, g
<1>3. /\ o \in Entries
      /\ o.status = (IF p.status # "" THEN p.status ELSE b.status)
      /\ o.session = (IF p.session # 0 THEN p.session ELSE b.session)
      /\ o.sequence = (IF p.sequence # 0 THEN p.sequence ELSE b.sequence)
      /\ o.event = (b.event \/ p.event)
      /\ \A c \in Counters : o.n[c] = b.n[c] + p.n[c]
  BY <1>1, Merging, Zenon
<1>4. /\ k \in Entries
      /\ k.status = (IF g.status # "" THEN g.status ELSE r.status)
      /\ k.session = (IF g.session # 0 THEN g.session ELSE r.session)
      /\ k.sequence = (IF g.sequence # 0 THEN g.sequence ELSE r.sequence)
      /\ k.event = (r.event \/ g.event)
      /\ \A c \in Counters : k.n[c] = r.n[c] + g.n[c]
  BY <1>2, Merging, Zenon
<1> HIDE DEF o, k
<1>5. k.status = o.status
  BY <1>1, <1>2, <1>3, <1>4
<1>6. k.session = o.session /\ k.sequence = o.sequence
  BY <1>1, <1>2, <1>3, <1>4
<1>7. k.event = o.event
  BY <1>1, <1>2, <1>3, <1>4, Zenon
<1>8. \A c \in Counters : k.n[c] = o.n[c]
  <2> TAKE c \in Counters
  <2>1. r.n[c] \in Nat /\ u.n[c] \in Nat /\ p.n[c] \in Nat
    BY EntryParts, Zenon
  <2>2. /\ k.n[c] = r.n[c] + g.n[c] /\ g.n[c] = u.n[c] + p.n[c]
        /\ o.n[c] = b.n[c] + p.n[c] /\ b.n[c] = r.n[c] + u.n[c]
    BY <1>1, <1>2, <1>3, <1>4
  <2> QED
    BY <2>1, <2>2
<1>9. k = o
  BY <1>3, <1>4, <1>5, <1>6, <1>7, <1>8, SameEntry, Zenon
<1> QED
  BY <1>9 DEF k, o, g, b

\* A row r, a write u laid over it, and p, what is pending, over both.
LEMMA Laid ==
  ASSUME NEW r \in Entries, NEW u \in Entries, NEW p \in Entries
  PROVE  LET o == Osszevon(Osszevon(r, u), p) IN
         /\ Osszevon(r, u) \in Entries /\ o \in Entries
         /\ Osszevon(r, u).session = (IF u.session # 0 THEN u.session ELSE r.session)
         /\ Osszevon(r, u).sequence = (IF u.sequence # 0 THEN u.sequence ELSE r.sequence)
         /\ o.status = (IF p.status # "" THEN p.status
                        ELSE IF u.status # "" THEN u.status ELSE r.status)
         /\ o.session = (IF p.session # 0 THEN p.session
                         ELSE IF u.session # 0 THEN u.session ELSE r.session)
         /\ o.sequence = (IF p.sequence # 0 THEN p.sequence
                          ELSE IF u.sequence # 0 THEN u.sequence ELSE r.sequence)
         /\ o.event = (r.event \/ u.event \/ p.event)
         /\ \A c \in Counters : o.n[c] = r.n[c] + u.n[c] + p.n[c]
<1> DEFINE b == Osszevon(r, u)
           o == Osszevon(b, p)
<1>1. /\ b \in Entries
      /\ b.status = (IF u.status # "" THEN u.status ELSE r.status)
      /\ b.session = (IF u.session # 0 THEN u.session ELSE r.session)
      /\ b.sequence = (IF u.sequence # 0 THEN u.sequence ELSE r.sequence)
      /\ b.event = (r.event \/ u.event)
      /\ \A c \in Counters : b.n[c] = r.n[c] + u.n[c]
  BY Merging, Zenon
<1> HIDE DEF b
<1>2. /\ o \in Entries
      /\ o.status = (IF p.status # "" THEN p.status ELSE b.status)
      /\ o.session = (IF p.session # 0 THEN p.session ELSE b.session)
      /\ o.sequence = (IF p.sequence # 0 THEN p.sequence ELSE b.sequence)
      /\ o.event = (b.event \/ p.event)
      /\ \A c \in Counters : o.n[c] = b.n[c] + p.n[c]
  BY <1>1, Merging, Zenon
<1> HIDE DEF o
<1>3. o.status = (IF p.status # "" THEN p.status
                  ELSE IF u.status # "" THEN u.status ELSE r.status)
  BY <1>1, <1>2
<1>4. o.session = (IF p.session # 0 THEN p.session
                   ELSE IF u.session # 0 THEN u.session ELSE r.session)
  BY <1>1, <1>2
<1>5. o.sequence = (IF p.sequence # 0 THEN p.sequence
                    ELSE IF u.sequence # 0 THEN u.sequence ELSE r.sequence)
  BY <1>1, <1>2
<1>6. o.event = (r.event \/ u.event \/ p.event)
  BY <1>1, <1>2, Zenon
<1>7. \A c \in Counters : o.n[c] = r.n[c] + u.n[c] + p.n[c]
  BY <1>1, <1>2
<1> QED
  BY <1>1, <1>2, <1>3, <1>4, <1>5, <1>6, <1>7, Zenon DEF o, b

\* A signal m is merged into what is pending.
LEMMA SignalKeeps ==
  ASSUME NEW r \in Entries, NEW u \in Entries, NEW p \in Entries, NEW x \in Entries,
         NEW t \in BOOLEAN, NEW m \in Entries,
         Tells(r, u, p, x, t), RunsOn(r, u, p), FollowsOn(x, Osszevon(x, m))
  PROVE  /\ Tells(r, u, Osszevon(p, m), Osszevon(x, m), t)
         /\ RunsOn(r, u, Osszevon(p, m))
<1> DEFINE b == Osszevon(r, u)
           o == Osszevon(b, p)
           p1 == Osszevon(p, m)
           x1 == Osszevon(x, m)
           o1 == Osszevon(b, p1)
<1>1. /\ p1 \in Entries /\ x1 \in Entries
      /\ p1.status = (IF m.status # "" THEN m.status ELSE p.status)
      /\ p1.session = (IF m.session # 0 THEN m.session ELSE p.session)
      /\ p1.sequence = (IF m.sequence # 0 THEN m.sequence ELSE p.sequence)
      /\ p1.event = (p.event \/ m.event)
      /\ \A c \in Counters : p1.n[c] = p.n[c] + m.n[c]
  BY Merging, Zenon
<1>2. /\ x1.status = (IF m.status # "" THEN m.status ELSE x.status)
      /\ x1.session = (IF m.session # 0 THEN m.session ELSE x.session)
      /\ x1.sequence = (IF m.sequence # 0 THEN m.sequence ELSE x.sequence)
      /\ x1.event = (x.event \/ m.event)
      /\ \A c \in Counters : x1.n[c] = x.n[c] + m.n[c]
  BY Merging, Zenon
<1>3. /\ b \in Entries /\ o \in Entries
      /\ o.status = x.status /\ o.session = x.session
      /\ o.sequence = x.sequence /\ o.event = x.event
      /\ \A c \in Counters : o.n[c] >= x.n[c] /\ (~t => o.n[c] = x.n[c])
  BY Laid, Zenon DEF Tells
<1>4. FollowsOn(r, b) /\ FollowsOn(b, o) /\ FollowsOn(x, x1)
  BY Zenon DEF RunsOn
<1> HIDE DEF b, p1, x1
<1>5. /\ o.status = (IF p.status # "" THEN p.status ELSE b.status)
      /\ o.session = (IF p.session # 0 THEN p.session ELSE b.session)
      /\ o.sequence = (IF p.sequence # 0 THEN p.sequence ELSE b.sequence)
      /\ o.event = (b.event \/ p.event)
      /\ \A c \in Counters : o.n[c] = b.n[c] + p.n[c]
  BY <1>3, Merging, ZenonT(40)
<1>6. /\ o1 \in Entries
      /\ o1.status = (IF p1.status # "" THEN p1.status ELSE b.status)
      /\ o1.session = (IF p1.session # 0 THEN p1.session ELSE b.session)
      /\ o1.sequence = (IF p1.sequence # 0 THEN p1.sequence ELSE b.sequence)
      /\ o1.event = (b.event \/ p1.event)
      /\ \A c \in Counters : o1.n[c] = b.n[c] + p1.n[c]
  BY <1>1, <1>3, Merging, ZenonT(40)
<1> HIDE DEF o, o1
<1>7. o1.status = x1.status
  BY <1>1, <1>2, <1>3, <1>5, <1>6
<1>8. o1.session = x1.session
  BY <1>1, <1>2, <1>3, <1>5, <1>6
<1>9. o1.sequence = x1.sequence
  BY <1>1, <1>2, <1>3, <1>5, <1>6
<1>10. o1.event = x1.event
  BY <1>1, <1>2, <1>3, <1>5, <1>6, Zenon
<1>11. ASSUME NEW c \in Counters
       PROVE  o1.n[c] >= x1.n[c] /\ (~t => o1.n[c] = x1.n[c])
  <2>1. /\ b.n[c] \in Nat /\ p.n[c] \in Nat /\ m.n[c] \in Nat /\ x.n[c] \in Nat
    BY <1>3, EntryParts, Zenon
  <2>2. /\ o1.n[c] = b.n[c] + (p.n[c] + m.n[c]) /\ x1.n[c] = x.n[c] + m.n[c]
        /\ b.n[c] + p.n[c] >= x.n[c] /\ (~t => b.n[c] + p.n[c] = x.n[c])
    BY <1>1, <1>2, <1>3, <1>5, <1>6
  <2> QED
    BY <2>1, <2>2
<1>12. FollowsOn(b, o1)
  <2>1. FollowsOn(o, o1)
    BY <1>3, <1>4, <1>8, <1>9 DEF FollowsOn
  <2>2. /\ b.session \in Nat /\ o.session \in Nat /\ o1.session \in Nat
        /\ b.sequence \in Nat /\ o.sequence \in Nat /\ o1.sequence \in Nat
    BY <1>3, <1>6, EntryParts, Zenon
  <2> QED
    BY <1>4, <2>1, <2>2 DEF FollowsOn
<1>13. Tells(r, u, p1, x1, t)
  BY <1>7, <1>8, <1>9, <1>10, <1>11, Zenon DEF Tells, o1, b
<1>14. RunsOn(r, u, p1)
  BY <1>4, <1>12, Zenon DEF RunsOn, o1, b
<1> QED
  BY <1>13, <1>14 DEF p1, x1

\* What is pending goes under way.
LEMMA WriteBeginsKeeps ==
  ASSUME NEW r \in Entries, NEW p \in Entries, NEW x \in Entries, NEW t \in BOOLEAN,
         Tells(r, Blank, p, x, t), RunsOn(r, Blank, p)
  PROVE  Tells(r, p, Blank, x, t) /\ RunsOn(r, p, Blank)
<1> DEFINE o == Osszevon(r, p)
<1>1. o \in Entries /\ Osszevon(r, Blank) = r
  BY BlankIsBlank, BlankOver, Merging, Zenon
<1>2. /\ o.status = x.status /\ o.session = x.session
      /\ o.sequence = x.sequence /\ o.event = x.event
      /\ \A c \in Counters : o.n[c] >= x.n[c] /\ (~t => o.n[c] = x.n[c])
  BY <1>1, Zenon DEF Tells
<1>3. FollowsOn(r, o)
  BY <1>1, Zenon DEF RunsOn
<1> HIDE DEF o
<1>4. Osszevon(o, Blank) = o
  BY <1>1, BlankOver, Zenon
<1>5. o.session \in Nat /\ o.sequence \in Nat
  BY <1>1, EntryParts, Zenon
<1>6. FollowsOn(o, o)
  BY <1>5 DEF FollowsOn
<1>7. Tells(r, p, Blank, x, t)
  BY <1>2, <1>4, Zenon DEF Tells, o
<1>8. RunsOn(r, p, Blank)
  BY <1>3, <1>4, <1>6, Zenon DEF RunsOn, o
<1> QED
  BY <1>7, <1>8

\* The write under way reaches the row.
LEMMA WriteEndsKeeps ==
  ASSUME NEW r \in Entries, NEW u \in Entries, NEW p \in Entries, NEW x \in Entries,
         NEW t \in BOOLEAN, Tells(r, u, p, x, t), RunsOn(r, u, p)
  PROVE  Tells(Osszevon(r, u), Blank, p, x, t) /\ RunsOn(Osszevon(r, u), Blank, p)
<1> DEFINE b == Osszevon(r, u)
<1>1. b \in Entries
  BY Laid, Zenon
<1>2. FollowsOn(b, Osszevon(b, p))
  BY Zenon DEF RunsOn
<1>3. /\ Osszevon(b, p).status = x.status /\ Osszevon(b, p).session = x.session
      /\ Osszevon(b, p).sequence = x.sequence /\ Osszevon(b, p).event = x.event
      /\ \A c \in Counters : /\ Osszevon(b, p).n[c] >= x.n[c]
                             /\ ~t => Osszevon(b, p).n[c] = x.n[c]
  BY Zenon DEF Tells
<1> HIDE DEF b
<1>4. Osszevon(b, Blank) = b
  BY <1>1, BlankOver
<1> QED
  <2>1. b.session \in Nat /\ b.sequence \in Nat
    BY <1>1, EntryParts, Zenon
  <2>2. FollowsOn(b, b)
    BY <2>1 DEF FollowsOn
  <2>3. Tells(b, Blank, p, x, t)
    BY <1>3, <1>4, Zenon DEF Tells
  <2>4. RunsOn(b, Blank, p)
    BY <1>2, <1>4, <2>2, Zenon DEF RunsOn
  <2> QED
    BY <2>3, <2>4 DEF b

\* The write fails, and what it held goes back under what is pending.
LEMMA GoesBackKeeps ==
  ASSUME NEW r \in Entries, NEW u \in Entries, NEW p \in Entries, NEW x \in Entries,
         NEW t \in BOOLEAN, Tells(r, u, p, x, t), RunsOn(r, u, p)
  PROVE  Tells(r, Blank, Osszevon(u, p), x, t) /\ RunsOn(r, Blank, Osszevon(u, p))
<1> DEFINE b == Osszevon(r, u)
           o == Osszevon(b, p)
           g == Osszevon(u, p)
           o1 == Osszevon(r, g)
<1>1. /\ b \in Entries /\ o \in Entries /\ g \in Entries /\ o1 \in Entries
      /\ Osszevon(r, Blank) = r
  BY BlankOver, Merging, Zenon
<1>2. o1 = o
  BY Grouping, ZenonT(40)
<1>3. FollowsOn(r, b) /\ FollowsOn(b, o)
  BY Zenon DEF RunsOn
<1>4. /\ o.status = x.status /\ o.session = x.session
      /\ o.sequence = x.sequence /\ o.event = x.event
      /\ \A c \in Counters : o.n[c] >= x.n[c] /\ (~t => o.n[c] = x.n[c])
  BY Zenon DEF Tells
<1> HIDE DEF b, o, g
<1>5. FollowsOn(r, o) /\ FollowsOn(r, r)
  <2>1. /\ r.session \in Nat /\ b.session \in Nat /\ o.session \in Nat
        /\ r.sequence \in Nat /\ b.sequence \in Nat /\ o.sequence \in Nat
    BY <1>1, EntryParts, Zenon
  <2> QED
    BY <1>3, <2>1 DEF FollowsOn
<1>6. Tells(r, Blank, g, x, t)
  BY <1>1, <1>2, <1>4, Zenon DEF Tells
<1>7. RunsOn(r, Blank, g)
  BY <1>1, <1>2, <1>5, Zenon DEF RunsOn
<1> QED
  BY <1>6, <1>7 DEF g

\* The write reached the row, and still goes back: said twice, it counts twice.
LEMMA TwiceKeeps ==
  ASSUME NEW r \in Entries, NEW u \in Entries, NEW p \in Entries, NEW x \in Entries,
         NEW t \in BOOLEAN, Tells(r, u, p, x, t), RunsOn(r, u, p)
  PROVE  /\ Tells(Osszevon(r, u), Blank, Osszevon(u, p), x, TRUE)
         /\ RunsOn(Osszevon(r, u), Blank, Osszevon(u, p))
         /\ FollowsOn(r, Osszevon(r, u))
<1> DEFINE b == Osszevon(r, u)
           o == Osszevon(b, p)
           g == Osszevon(u, p)
           bb == Osszevon(b, u)
           o1 == Osszevon(b, g)
<1>1. /\ b \in Entries /\ o \in Entries /\ g \in Entries /\ o1 \in Entries
      /\ bb \in Entries /\ Osszevon(b, Blank) = b
  BY BlankOver, Merging, Zenon
<1>3. FollowsOn(r, b) /\ FollowsOn(b, o)
  BY Zenon DEF RunsOn
<1>4. /\ o.status = x.status /\ o.session = x.session
      /\ o.sequence = x.sequence /\ o.event = x.event
      /\ \A c \in Counters : o.n[c] >= x.n[c]
  BY Zenon DEF Tells
<1>5. /\ b.status = (IF u.status # "" THEN u.status ELSE r.status)
      /\ b.session = (IF u.session # 0 THEN u.session ELSE r.session)
      /\ b.sequence = (IF u.sequence # 0 THEN u.sequence ELSE r.sequence)
      /\ b.event = (r.event \/ u.event)
      /\ \A c \in Counters : b.n[c] = r.n[c] + u.n[c]
  BY Merging, Zenon
<1> HIDE DEF b
<1>2. o1 = Osszevon(bb, p)
  <2>1. \A y \in Entries : Osszevon(y, Osszevon(u, p)) = Osszevon(Osszevon(y, u), p)
    BY Grouping, ZenonT(40)
  <2>2. b \in Entries
    BY <1>1, Zenon
  <2> QED
    BY <2>1, <2>2, Zenon
<1>6. /\ bb.status = (IF u.status # "" THEN u.status ELSE b.status)
      /\ bb.session = (IF u.session # 0 THEN u.session ELSE b.session)
      /\ bb.sequence = (IF u.sequence # 0 THEN u.sequence ELSE b.sequence)
      /\ bb.event = (b.event \/ u.event)
      /\ \A c \in Counters : bb.n[c] = b.n[c] + u.n[c]
  BY <1>1, Merging, ZenonT(40)
<1>7. /\ o.status = (IF p.status # "" THEN p.status ELSE b.status)
      /\ o.session = (IF p.session # 0 THEN p.session ELSE b.session)
      /\ o.sequence = (IF p.sequence # 0 THEN p.sequence ELSE b.sequence)
      /\ o.event = (b.event \/ p.event)
      /\ \A c \in Counters : o.n[c] = b.n[c] + p.n[c]
  BY <1>1, Merging, ZenonT(40)
<1> HIDE DEF o, bb
<1> DEFINE o2 == Osszevon(bb, p)
<1>8. /\ o2.status = (IF p.status # "" THEN p.status ELSE bb.status)
      /\ o2.session = (IF p.session # 0 THEN p.session ELSE bb.session)
      /\ o2.sequence = (IF p.sequence # 0 THEN p.sequence ELSE bb.sequence)
      /\ o2.event = (bb.event \/ p.event)
      /\ \A c \in Counters : o2.n[c] = bb.n[c] + p.n[c]
  BY <1>1, Merging, ZenonT(40)
<1> HIDE DEF o2
<1>9. o2.status = x.status /\ o2.session = x.session /\ o2.sequence = x.sequence
  BY <1>4, <1>5, <1>6, <1>7, <1>8
<1>10. o2.event = x.event
  BY <1>4, <1>5, <1>6, <1>7, <1>8, Zenon
<1>11. \A c \in Counters : o2.n[c] >= x.n[c]
  <2> TAKE c \in Counters
  <2>1. /\ b.n[c] \in Nat /\ u.n[c] \in Nat /\ p.n[c] \in Nat /\ x.n[c] \in Nat
    BY <1>1, EntryParts, Zenon
  <2>2. /\ o2.n[c] = bb.n[c] + p.n[c] /\ bb.n[c] = b.n[c] + u.n[c]
        /\ o.n[c] = b.n[c] + p.n[c] /\ o.n[c] >= x.n[c]
    BY <1>4, <1>6, <1>7, <1>8
  <2> QED
    BY <2>1, <2>2
<1>12. FollowsOn(b, b) /\ FollowsOn(b, o2)
  <2>1. /\ b.session \in Nat /\ o.session \in Nat /\ b.sequence \in Nat /\ o.sequence \in Nat
    BY <1>1, EntryParts, Zenon
  <2>2. o2.session = o.session /\ o2.sequence = o.sequence
    BY <1>4, <1>9
  <2> QED
    BY <1>3, <2>1, <2>2 DEF FollowsOn
<1>13. Tells(b, Blank, g, x, TRUE)
  BY <1>1, <1>2, <1>9, <1>10, <1>11, Zenon DEF Tells, o2
<1>14. RunsOn(b, Blank, g)
  BY <1>1, <1>2, <1>12, Zenon DEF RunsOn, o2
<1> QED
  BY <1>3, <1>13, <1>14 DEF g, b

LEMMA TheOnlyOne ==
  /\ fut = {} => UnderWay = Blank
  /\ \A m : fut = {m} => UnderWay = m
  /\ fut \in SUBSET Entries => UnderWay \in Entries
<1>1. fut = {} => UnderWay = Blank
  BY Zenon DEF UnderWay
<1>2. \A m : fut = {m} => UnderWay = m
  BY DEF UnderWay
<1>3. fut \in SUBSET Entries => UnderWay \in Entries
  BY BlankIsBlank DEF UnderWay
<1> QED
  BY <1>1, <1>2, <1>3

\* Signals merge into the pending entry, if they do not lead back.
LEMMA JelezKeeps ==
  ASSUME NEW m \in Entries, WriterInv, Jelez(m), FollowsOn(said, Osszevon(said, m))
  PROVE  WriterInv'
<1>1. /\ fuggo \in Entries /\ stateRow \in Entries /\ said \in Entries
      /\ UnderWay \in Entries /\ twice \in BOOLEAN
  BY TheOnlyOne, Zenon DEF WriterInv, WriterTypeOK
<1>2. /\ fuggo' = Osszevon(fuggo, m) /\ said' = Osszevon(said, m)
      /\ fut' = fut /\ stateRow' = stateRow /\ twice' = twice /\ writeFaults' = writeFaults
      /\ UnderWay' = UnderWay
  <2>1. UNCHANGED <<fut, stateRow, twice, writeFaults>>
    BY Zenon DEF Jelez
  <2>2. fut' = fut
    BY <2>1
  <2>3. UnderWay' = UnderWay
    BY <2>2 DEF UnderWay
  <2> QED
    BY <2>1, <2>3 DEF Jelez
<1>3. WriterTypeOK'
  <2>1. fuggo' \in Entries /\ said' \in Entries
    BY <1>1, <1>2, Merging, Zenon
  <2>2. idozito' \in BOOLEAN
    BY Zenon DEF Jelez
  <2> QED
    BY <1>2, <2>1, <2>2 DEF WriterInv, WriterTypeOK
<1>4. OneInFlight'
  BY <1>2, Zenon DEF WriterInv, OneInFlight
<1>5. SaidIsOutstanding' /\ InOrder'
  <2>1. /\ Tells(stateRow, UnderWay, fuggo, said, twice)
        /\ RunsOn(stateRow, UnderWay, fuggo)
    BY Zenon DEF WriterInv, SaidIsOutstanding, InOrder
  <2>2. /\ Tells(stateRow, UnderWay, Osszevon(fuggo, m), Osszevon(said, m), twice)
        /\ RunsOn(stateRow, UnderWay, Osszevon(fuggo, m))
    BY <1>1, <2>1, SignalKeeps, Zenon
  <2> QED
    BY <1>2, <2>2, Zenon DEF SaidIsOutstanding, InOrder
<1>6. PendingIsScheduled'
  BY <1>2, Zenon DEF Jelez, NoneInFlight, PendingIsScheduled
<1> QED
  BY <1>3, <1>4, <1>5, <1>6, Zenon DEF WriterInv

\* The pending entry goes under way, alone.
LEMMA KiirKeeps ==
  ASSUME WriterInv, Kiir
  PROVE  WriterInv'
<1>1. /\ fuggo \in Entries /\ stateRow \in Entries /\ said \in Entries
      /\ twice \in BOOLEAN /\ fut = {} /\ UnderWay = Blank
  BY TheOnlyOne, Zenon DEF WriterInv, WriterTypeOK, Kiir, NoneInFlight
<1>2. /\ idozito' = FALSE /\ stateRow' = stateRow /\ said' = said /\ twice' = twice
      /\ writeFaults' = writeFaults
  BY Zenon DEF Kiir
<1>3. /\ Tells(stateRow, Blank, fuggo, said, twice) /\ RunsOn(stateRow, Blank, fuggo)
  BY <1>1, Zenon DEF WriterInv, SaidIsOutstanding, InOrder
<1>4. CASE fuggo = Blank
  <2>1. fut' = fut /\ fuggo' = fuggo
    BY <1>4, Zenon DEF Kiir
  <2>2. UnderWay' = Blank
    BY <1>1, <2>1, Zenon DEF UnderWay
  <2>3. WriterTypeOK'
    BY <1>2, <2>1 DEF WriterInv, WriterTypeOK
  <2>4. OneInFlight' /\ PendingIsScheduled'
    BY <1>1, <1>4, <2>1, Zenon DEF OneInFlight, PendingIsScheduled
  <2>5. SaidIsOutstanding' /\ InOrder'
    BY <1>2, <1>3, <2>1, <2>2, Zenon DEF SaidIsOutstanding, InOrder
  <2> QED
    BY <2>3, <2>4, <2>5, Zenon DEF WriterInv
<1>5. CASE fuggo # Blank
  <2>1. fut' = {fuggo} /\ fuggo' = Blank
    BY <1>1, <1>5 DEF Kiir
  <2>2. UnderWay' = fuggo
    BY <2>1 DEF UnderWay
  <2>3. WriterTypeOK'
    <3>1. fuggo' \in Entries /\ fut' \in SUBSET Entries
      BY <1>1, <2>1, BlankIsBlank
    <3> QED
      BY <1>2, <3>1 DEF WriterInv, WriterTypeOK
  <2>4. OneInFlight' /\ PendingIsScheduled'
    BY <2>1, <2>2, Zenon DEF OneInFlight, PendingIsScheduled
  <2>5. Tells(stateRow, fuggo, Blank, said, twice) /\ RunsOn(stateRow, fuggo, Blank)
    BY <1>1, <1>3, WriteBeginsKeeps, Zenon
  <2>6. SaidIsOutstanding' /\ InOrder'
    BY <1>2, <2>1, <2>2, <2>5, Zenon DEF SaidIsOutstanding, InOrder
  <2> QED
    BY <2>3, <2>4, <2>6, Zenon DEF WriterInv
<1> QED
  BY <1>4, <1>5

\* The row takes the write in.
LEMMA WrittenKeeps ==
  ASSUME WriterInv, Written
  PROVE  /\ WriterInv' /\ FollowsOn(stateRow, stateRow') /\ fut' = {}
         /\ UNCHANGED <<fuggo, said, twice, writeFaults>>
<1> PICK m \in fut : /\ stateRow' = Osszevon(stateRow, m)
                     /\ fut' = fut \ {m}
                     /\ idozito' = (fuggo # Blank)
                     /\ UNCHANGED <<fuggo, said, twice, writeFaults>>
  BY Zenon DEF Written
<1>1. /\ fuggo \in Entries /\ stateRow \in Entries /\ said \in Entries
      /\ twice \in BOOLEAN /\ UnderWay \in Entries
  BY TheOnlyOne, Zenon DEF WriterInv, WriterTypeOK
<1>2. fut = {UnderWay} /\ m = UnderWay /\ fut' = {}
  BY DEF WriterInv, OneInFlight
<1>3. UnderWay' = Blank
  BY <1>2, Zenon DEF UnderWay
<1>4. /\ Tells(stateRow, UnderWay, fuggo, said, twice) /\ RunsOn(stateRow, UnderWay, fuggo)
  BY Zenon DEF WriterInv, SaidIsOutstanding, InOrder
<1>5. /\ Tells(Osszevon(stateRow, UnderWay), Blank, fuggo, said, twice)
      /\ RunsOn(Osszevon(stateRow, UnderWay), Blank, fuggo)
  BY <1>1, <1>4, WriteEndsKeeps, Zenon
<1>6. WriterTypeOK'
  <2>1. stateRow' \in Entries
    BY <1>1, <1>2, Merging, Zenon
  <2>2. idozito' \in BOOLEAN
    BY Zenon
  <2> QED
    BY <1>2, <2>1, <2>2 DEF WriterInv, WriterTypeOK
<1>7. OneInFlight' /\ PendingIsScheduled'
  BY <1>2, Zenon DEF OneInFlight, PendingIsScheduled
<1>8. SaidIsOutstanding' /\ InOrder'
  BY <1>2, <1>3, <1>5, Zenon DEF SaidIsOutstanding, InOrder
<1>9. FollowsOn(stateRow, stateRow')
  BY <1>2, <1>4, Zenon DEF RunsOn
<1> QED
  BY <1>2, <1>6, <1>7, <1>8, <1>9 DEF WriterInv

\* The row does not take the write in, or it does and nobody is told.
LEMMA FailureKeeps ==
  ASSUME WriterInv, WriteFails
  PROVE  /\ WriterInv' /\ FollowsOn(stateRow, stateRow') /\ fut' = {} /\ said' = said
         /\ writeFaults' = writeFaults + 1
<1> PICK m \in fut : Failure(m) /\ fuggo' = Osszevon(m, fuggo) /\ idozito' = TRUE
  BY Zenon DEF WriteFails
<1> PICK applied \in BOOLEAN :
       /\ stateRow' = IF applied THEN Osszevon(stateRow, m) ELSE stateRow
       /\ twice' = (twice \/ applied)
  BY Zenon DEF Failure
<1>1. /\ fuggo \in Entries /\ stateRow \in Entries /\ said \in Entries
      /\ twice \in BOOLEAN /\ UnderWay \in Entries
  BY TheOnlyOne, Zenon DEF WriterInv, WriterTypeOK
<1>2. /\ fut = {UnderWay} /\ m = UnderWay /\ fut' = {} /\ said' = said
      /\ fuggo' = Osszevon(UnderWay, fuggo) /\ idozito' = TRUE
  BY DEF WriterInv, OneInFlight, Failure
<1>3. writeFaults' = writeFaults + 1 /\ writeFaults < MaxWriteFaults
  BY Zenon DEF Failure
<1>4. UnderWay' = Blank
  BY <1>2, Zenon DEF UnderWay
<1>5. /\ Tells(stateRow, UnderWay, fuggo, said, twice) /\ RunsOn(stateRow, UnderWay, fuggo)
  BY Zenon DEF WriterInv, SaidIsOutstanding, InOrder
<1>6. fuggo' \in Entries /\ stateRow' \in Entries /\ twice' \in BOOLEAN
  <2>1. fuggo' \in Entries /\ Osszevon(stateRow, UnderWay) \in Entries
    BY <1>1, <1>2, Merging, Zenon
  <2>2. twice' \in BOOLEAN
    BY Zenon
  <2> QED
    BY <1>1, <1>2, <2>1, <2>2
<1>7. WriterTypeOK'
  <2>1. writeFaults' \in 0 .. MaxWriteFaults
    BY <1>3, WriterAssumption DEF WriterInv, WriterTypeOK
  <2>2. idozito' \in BOOLEAN
    BY <1>2, Zenon
  <2>3. said' \in Entries /\ fut' \in SUBSET Entries
    BY <1>1, <1>2
  <2> QED
    BY <1>6, <2>1, <2>2, <2>3, Zenon DEF WriterTypeOK
<1>8. OneInFlight' /\ PendingIsScheduled'
  BY <1>2, Zenon DEF OneInFlight, PendingIsScheduled
<1>9. CASE ~applied
  <2>1. stateRow' = stateRow /\ twice' = twice
    <3>1. stateRow' = stateRow
      BY <1>9
    <3>2. (twice \/ applied) = twice
      BY <1>1, <1>9, Zenon
    <3> QED
      BY <3>1, <3>2, Zenon
  <2>2. /\ Tells(stateRow, Blank, Osszevon(UnderWay, fuggo), said, twice)
        /\ RunsOn(stateRow, Blank, Osszevon(UnderWay, fuggo))
    BY <1>1, <1>5, GoesBackKeeps, Zenon
  <2>3. SaidIsOutstanding' /\ InOrder'
    BY <1>2, <1>4, <2>1, <2>2, Zenon DEF SaidIsOutstanding, InOrder
  <2>4. FollowsOn(stateRow, stateRow')
    <3>1. stateRow.session \in Nat /\ stateRow.sequence \in Nat
      BY <1>1, EntryParts, Zenon
    <3> QED
      BY <2>1, <3>1 DEF FollowsOn
  <2> QED
    BY <1>2, <1>3, <1>7, <1>8, <2>3, <2>4, Zenon DEF WriterInv
<1>10. CASE applied
  <2>1. stateRow' = Osszevon(stateRow, UnderWay) /\ twice' = TRUE
    BY <1>2, <1>10, Zenon
  <2>2. /\ Tells(Osszevon(stateRow, UnderWay), Blank, Osszevon(UnderWay, fuggo), said, TRUE)
        /\ RunsOn(Osszevon(stateRow, UnderWay), Blank, Osszevon(UnderWay, fuggo))
        /\ FollowsOn(stateRow, Osszevon(stateRow, UnderWay))
    BY <1>1, <1>5, TwiceKeeps, Zenon
  <2>3. SaidIsOutstanding' /\ InOrder'
    BY <1>2, <1>4, <2>1, <2>2, Zenon DEF SaidIsOutstanding, InOrder
  <2>4. FollowsOn(stateRow, stateRow')
    BY <2>1, <2>2, Zenon
  <2> QED
    BY <1>2, <1>3, <1>7, <1>8, <2>3, <2>4, Zenon DEF WriterInv
<1> QED
  BY <1>9, <1>10

\* The process is gone: the row is what remains.
LEMMA LossKeeps ==
  ASSUME WriterInv, WriterLost, writeFaults' \in 0 .. MaxWriteFaults
  PROVE  /\ WriterInv' /\ FollowsOn(stateRow, stateRow') /\ said' = stateRow'
         /\ said'.session <= said.session
<1>1. /\ stateRow \in Entries /\ UnderWay \in Entries /\ twice \in BOOLEAN
      /\ FollowsOn(stateRow, Osszevon(stateRow, UnderWay))
      /\ fut = {} \/ fut = {UnderWay}
  BY TheOnlyOne, Zenon DEF WriterInv, WriterTypeOK, InOrder, RunsOn, OneInFlight
<1>2. /\ fuggo' = Blank /\ fut' = {} /\ idozito' = FALSE /\ said' = stateRow'
      /\ twice' = twice /\ stateRow' \in {stateRow} \cup {Osszevon(stateRow, m) : m \in fut}
  BY Zenon DEF WriterLost
<1>3. stateRow' = stateRow \/ stateRow' = Osszevon(stateRow, UnderWay)
  BY <1>1, <1>2
<1>4. stateRow' \in Entries
  BY <1>1, <1>3, Merging, Zenon
<1>5. stateRow'.session \in Nat /\ stateRow'.sequence \in Nat /\ \A c \in Counters : stateRow'.n[c] \in Nat
  BY <1>4, EntryParts, Zenon
<1>6. FollowsOn(stateRow, stateRow')
  <2>1. FollowsOn(stateRow, stateRow)
    <3>1. stateRow.session \in Nat /\ stateRow.sequence \in Nat
      BY <1>1, EntryParts, Zenon
    <3> QED
      BY <3>1 DEF FollowsOn
  <2> QED
    BY <1>1, <1>3, <2>1, Zenon
<1>7. UnderWay' = Blank
  BY <1>2, Zenon DEF UnderWay
<1>8. Osszevon(Osszevon(stateRow', Blank), Blank) = stateRow' /\ Osszevon(stateRow', Blank) = stateRow'
  BY <1>4, BlankOver, Zenon
<1>9. SaidIsOutstanding'
  <2>1. \A c \in Counters : stateRow'.n[c] >= stateRow'.n[c]
    BY <1>5
  <2>2. Tells(stateRow', Blank, Blank, stateRow', twice')
    BY <1>8, <2>1, Zenon DEF Tells
  <2> QED
    BY <1>2, <1>7, <2>2, Zenon DEF SaidIsOutstanding
<1>10. InOrder'
  <2>1. FollowsOn(stateRow', stateRow')
    BY <1>5 DEF FollowsOn
  <2>2. RunsOn(stateRow', Blank, Blank)
    BY <1>8, <2>1, Zenon DEF RunsOn
  <2> QED
    BY <1>2, <1>7, <2>2, Zenon DEF InOrder
<1>11. WriterTypeOK'
  <2>1. /\ fuggo' \in Entries /\ said' \in Entries /\ idozito' \in BOOLEAN /\ twice' \in BOOLEAN
        /\ fut' \in SUBSET Entries
    BY <1>1, <1>2, <1>4, BlankIsBlank
  <2> QED
    BY <1>4, <2>1, Zenon DEF WriterTypeOK
<1>12. OneInFlight' /\ PendingIsScheduled'
  BY <1>2, Zenon DEF OneInFlight, PendingIsScheduled
<1>13. said'.session <= said.session
  <2>1. /\ FollowsOn(stateRow, Osszevon(stateRow, UnderWay))
        /\ FollowsOn(Osszevon(stateRow, UnderWay), Outstanding)
        /\ Outstanding.session = said.session
    BY Zenon DEF WriterInv, InOrder, RunsOn, SaidIsOutstanding, Tells, Outstanding
  <2>2. fuggo \in Entries
    BY Zenon DEF WriterInv, WriterTypeOK
  <2>3. Osszevon(stateRow, UnderWay) \in Entries /\ Outstanding \in Entries
    BY <1>1, <2>2, Merging, Zenon DEF Outstanding
  <2>4. /\ stateRow.session \in Nat /\ Osszevon(stateRow, UnderWay).session \in Nat
        /\ Outstanding.session \in Nat
    BY <1>1, <2>3, EntryParts, Zenon
  <2> QED
    BY <1>2, <1>3, <2>1, <2>4 DEF FollowsOn
<1> QED
  BY <1>2, <1>6, <1>9, <1>10, <1>11, <1>12, <1>13, Zenon DEF WriterInv

LEMMA WriterIdle ==
  ASSUME WriterInv, UNCHANGED writerVars
  PROVE  WriterInv' /\ UNCHANGED <<fuggo, fut, stateRow, said, writeFaults>>
<1>1. UNCHANGED <<fuggo, fut, idozito, stateRow, said, twice, writeFaults>>
  BY DEF writerVars
<1>2. UnderWay' = UnderWay
  <2>1. fut' = fut
    BY <1>1
  <2> QED
    BY <2>1 DEF UnderWay
<1>3. WriterTypeOK' /\ OneInFlight' /\ PendingIsScheduled'
  BY <1>1, <1>2 DEF WriterInv, WriterTypeOK, OneInFlight, PendingIsScheduled
<1>4. SaidIsOutstanding' /\ InOrder'
  BY <1>1, <1>2, Zenon DEF WriterInv, SaidIsOutstanding, InOrder
<1> QED
  BY <1>1, <1>3, <1>4 DEF WriterInv

----------------------------------------------------------------------------
(* The signals of the engine. *)

Is(m, s, i, q) == m \in Entries /\ m.status = s /\ m.session = i /\ m.sequence = q

Shape(S, C) ==
  [status : S, session : Nat, sequence : Nat, event : BOOLEAN, n : C]

LEMMA Signals ==
  /\ \A s \in Statuses : Is(Says(s), s, 0, 0)
  /\ \A i \in Nat : Is([Says("ready") EXCEPT !.event = TRUE, !.session = i, !.sequence = 1,
                                             !.n = Once("identified")], "ready", i, 1)
  /\ Is([Says("ready") EXCEPT !.event = TRUE, !.n = Once("resumed")], "ready", 0, 0)
  /\ \A q \in Nat : Is([Blank EXCEPT !.event = TRUE, !.sequence = q], "", 0, q)
  /\ Is([Blank EXCEPT !.event = TRUE], "", 0, 0)
  /\ Is([Says("disconnected") EXCEPT !.n = Once("reconnect")], "disconnected", 0, 0)
<1> DEFINE S == Statuses \cup {""}
<1>1. \A c \in Counters : Once(c) \in Counts
  BY DEF Once, Counts, Counters
<1>2. /\ "identified" \in Counters /\ "resumed" \in Counters /\ "reconnect" \in Counters
  BY DEF Counters
<1>3. /\ 0 \in Nat /\ 1 \in Nat /\ Statuses \subseteq S
      /\ "ready" \in Statuses /\ "disconnected" \in Statuses
  BY DEF Statuses
<1> HIDE DEF S
<1>4. Shape(S, Counts) = Entries
  BY DEF Shape, Entries, Counts, S
<1>5. Is(Blank, "", 0, 0) /\ Blank \in Shape(S, Counts)
  BY <1>4, BlankIsBlank, Zenon DEF Is
<1>6. \A s \in Statuses : Is(Says(s), s, 0, 0) /\ Says(s) \in Shape(S, Counts)
  <2> TAKE s \in Statuses
  <2>1. Says(s) \in Shape(S, Counts) /\ Says(s).status = s
        /\ Says(s).session = Blank.session /\ Says(s).sequence = Blank.sequence
    BY <1>3, <1>5 DEF Says, Shape
  <2> QED
    BY <1>4, <1>5, <2>1 DEF Is
<1>7. ASSUME NEW i \in Nat
      PROVE  Is([Says("ready") EXCEPT !.event = TRUE, !.session = i, !.sequence = 1,
                                      !.n = Once("identified")], "ready", i, 1)
  <2>1. Says("ready") \in Shape(S, Counts) /\ Says("ready").status = "ready"
    BY <1>3, <1>6, Zenon DEF Is
  <2>2. Once("identified") \in Counts
    BY <1>1, <1>2, Zenon
  <2> QED
    BY <1>3, <1>4, <2>1, <2>2 DEF Is, Shape
<1>8. Is([Says("ready") EXCEPT !.event = TRUE, !.n = Once("resumed")], "ready", 0, 0)
  <2>1. Says("ready") \in Shape(S, Counts) /\ Is(Says("ready"), "ready", 0, 0)
    BY <1>3, <1>6, Zenon
  <2>2. Once("resumed") \in Counts
    BY <1>1, <1>2, Zenon
  <2> QED
    BY <1>4, <2>1, <2>2 DEF Is, Shape
<1>9. ASSUME NEW q \in Nat
      PROVE  Is([Blank EXCEPT !.event = TRUE, !.sequence = q], "", 0, q)
  BY <1>4, <1>5 DEF Is, Shape
<1>10. Is([Blank EXCEPT !.event = TRUE], "", 0, 0)
  BY <1>4, <1>5 DEF Is, Shape
<1>11. Is([Says("disconnected") EXCEPT !.n = Once("reconnect")], "disconnected", 0, 0)
  <2>1. /\ Says("disconnected") \in Shape(S, Counts)
        /\ Is(Says("disconnected"), "disconnected", 0, 0)
    BY <1>3, <1>6, Zenon
  <2>2. Once("reconnect") \in Counts
    BY <1>1, <1>2, Zenon
  <2> QED
    BY <1>4, <2>1, <2>2 DEF Is, Shape
<1> QED
  BY <1>6, <1>7, <1>8, <1>9, <1>10, <1>11, Zenon

\* A signal of a newer session, or of none, with a number not smaller or none.
LEMMA Onwards ==
  ASSUME NEW x \in Entries, NEW m \in Entries,
         \/ m.session > x.session
         \/ m.session = 0 /\ (m.sequence = 0 \/ m.sequence >= x.sequence)
  PROVE  FollowsOn(x, Osszevon(x, m))
<1> DEFINE o == Osszevon(x, m)
<1>1. /\ o.session = (IF m.session # 0 THEN m.session ELSE x.session)
      /\ o.sequence = (IF m.sequence # 0 THEN m.sequence ELSE x.sequence)
  BY Merging, Zenon
<1>2. /\ x.session \in Nat /\ x.sequence \in Nat /\ m.session \in Nat /\ m.sequence \in Nat
  BY EntryParts, Zenon
<1> HIDE DEF o
<1>3. FollowsOn(x, o)
  BY <1>1, <1>2 DEF FollowsOn
<1> QED
  BY <1>3 DEF o

\* What a signal does to the writer's state.
LEMMA Signalled ==
  ASSUME NEW m, NEW s \in Statuses \cup {""}, NEW i \in Nat, NEW q \in Nat,
         Is(m, s, i, q), Jelez(m), WriterInv,
         i > said.session \/ (i = 0 /\ (q = 0 \/ q >= said.sequence))
  PROVE  /\ WriterInv' /\ UNCHANGED <<fut, stateRow, writeFaults>>
         /\ said'.status = (IF s # "" THEN s ELSE said.status)
         /\ said'.session = (IF i # 0 THEN i ELSE said.session)
         /\ said'.sequence = (IF q # 0 THEN q ELSE said.sequence)
<1>1. said \in Entries /\ m \in Entries
  BY Zenon DEF WriterInv, WriterTypeOK, Is
<1>2. m.status = s /\ m.session = i /\ m.sequence = q
  BY Zenon DEF Is
<1>3. /\ Osszevon(said, m).status = (IF m.status # "" THEN m.status ELSE said.status)
      /\ Osszevon(said, m).session = (IF m.session # 0 THEN m.session ELSE said.session)
      /\ Osszevon(said, m).sequence = (IF m.sequence # 0 THEN m.sequence ELSE said.sequence)
  BY <1>1, Merging, Zenon
<1>4. said.session \in Nat /\ said.sequence \in Nat
  BY <1>1, EntryParts, Zenon
<1>5. FollowsOn(said, Osszevon(said, m))
  <2>1. m.session > said.session \/ (m.session = 0 /\ (m.sequence = 0 \/ m.sequence >= said.sequence))
    BY <1>2
  <2> QED
    BY <1>1, <2>1, Onwards, Zenon
<1>6. WriterInv'
  BY <1>1, <1>5, JelezKeeps, Zenon
<1>7. said' = Osszevon(said, m) /\ UNCHANGED <<fut, stateRow, writeFaults>>
  BY DEF Jelez
<1> QED
  BY <1>2, <1>3, <1>6, <1>7

----------------------------------------------------------------------------
(* The steps of the engine. *)

LEMMA Facts ==
  ASSUME GatewayInv
  PROVE  /\ said.session \in Nat /\ said.sequence \in Nat /\ writeFaults \in Nat
         /\ batch["timer"] \in Nat /\ batch["leall"] \in Nat /\ Counted \in Nat
         /\ MaxTroubles \in Nat /\ MaxEvents \in Nat
<1>1. said \in Entries /\ writeFaults \in 0 .. MaxWriteFaults
  BY Zenon DEF GatewayInv, WriterInv, WriterTypeOK
<1>2. said.session \in Nat /\ said.sequence \in Nat
  BY <1>1, EntryParts, Zenon
<1>3. batch["timer"] \in Nat /\ batch["leall"] \in Nat /\ stored \in Nat /\ puffer \in Nat
  BY DEF GatewayInv, EngineInv, NumbersOK
<1> QED
  BY <1>1, <1>2, <1>3, WriterAssumption, GatewayAssumption DEF Counted

\* A signal of neither session nor number.
LEMMA SignalOfStatus ==
  ASSUME NEW m, NEW s \in Statuses \cup {""}, Is(m, s, 0, 0), Jelez(m), WriterInv
  PROVE  /\ WriterInv' /\ fut' = fut /\ writeFaults' = writeFaults /\ stateRow' = stateRow
         /\ said'.session = said.session /\ said'.sequence = said.sequence
         /\ said'.status = (IF s # "" THEN s ELSE said.status)
<1>1. 0 \in Nat
  OBVIOUS
<1>2. /\ WriterInv' /\ UNCHANGED <<fut, stateRow, writeFaults>>
      /\ said'.status = (IF s # "" THEN s ELSE said.status)
      /\ said'.session = (IF 0 # 0 THEN 0 ELSE said.session)
      /\ said'.sequence = (IF 0 # 0 THEN 0 ELSE said.sequence)
  BY <1>1, Signalled, Zenon
<1> QED
  BY <1>2

\* HELLO keeps the invariant: the timers belong to a greeted connection.
LEMMA HelloKeeps ==
  ASSUME GatewayInv, Hello
  PROVE  GatewayInv'
<1>1. WriterInv' /\ UNCHANGED <<fuggo, fut, stateRow, said, writeFaults>>
  <2>1. UNCHANGED writerVars
    BY DEF Hello
  <2> QED
    BY <2>1, WriterIdle DEF GatewayInv
<1>2. /\ process # "exited" /\ line = "open" /\ acked' = TRUE /\ szivveres' = TRUE
      /\ \/ line' = "resuming" /\ cursor' = sequence /\ session # Null
         \/ line' = "identifying" /\ cursor' = cursor
      /\ UNCHANGED <<process, session, sequence, puffer, batch, stored, valid, issued,
                      sent, silent, happened, troubles>>
  BY DEF Hello, Alive, Folytathato, collectorVars, engineVars, discordVars
<1>3. FlagsOK'
  BY <1>2, Zenon DEF GatewayInv, FlagsOK
<1>4. NumbersOK'
  BY <1>1, <1>2, Facts
       DEF GatewayInv, EngineInv, NumbersOK, ServesASession, NothingMadeUp, Counted,
           NoStrayBeat, StopsForGood, SaidOfSession, Open, Greeted, Lines, Null
<1>5. ServesASession'
  BY <1>1, <1>2, Facts
       DEF GatewayInv, EngineInv, NumbersOK, ServesASession, NothingMadeUp, Counted,
           NoStrayBeat, StopsForGood, SaidOfSession, Open, Greeted, Lines, Null
<1>6. NothingMadeUp'
  BY <1>1, <1>2, Facts
       DEF GatewayInv, EngineInv, NumbersOK, ServesASession, NothingMadeUp, Counted,
           NoStrayBeat, StopsForGood, SaidOfSession, Open, Greeted, Lines, Null
<1>7. NoStrayBeat'
  BY <1>1, <1>2, Facts
       DEF GatewayInv, EngineInv, NumbersOK, ServesASession, NothingMadeUp, Counted,
           NoStrayBeat, StopsForGood, SaidOfSession, Open, Greeted, Lines, Null
<1>8. StopsForGood'
  BY <1>1, <1>2, Facts
       DEF GatewayInv, EngineInv, NumbersOK, ServesASession, NothingMadeUp, Counted,
           NoStrayBeat, StopsForGood, SaidOfSession, Open, Greeted, Lines, Null
<1>9. SaidOfSession'
  BY <1>1, <1>2, Facts
       DEF GatewayInv, EngineInv, NumbersOK, ServesASession, NothingMadeUp, Counted,
           NoStrayBeat, StopsForGood, SaidOfSession, Open, Greeted, Lines, Null
<1> QED
  BY <1>1, <1>3, <1>4, <1>5, <1>6, <1>7, <1>8, <1>9
     DEF GatewayInv, EngineInv

\* csatlakoz: only a running process opens a connection and says so.
LEMMA CsatlakozKeeps ==
  ASSUME GatewayInv, Csatlakoz
  PROVE  GatewayInv'
<1>1. /\ WriterInv' /\ fut' = fut /\ writeFaults' = writeFaults
      /\ said'.session = said.session /\ said'.sequence = said.sequence
      /\ process # "running" => fuggo' = fuggo /\ said'.status = said.status
  <2>1. CASE process # "running"
    <3>1. UNCHANGED writerVars
      BY <2>1 DEF Csatlakoz, Quiet
    <3> QED
      BY <3>1, WriterIdle DEF GatewayInv
  <2>2. CASE process = "running"
    <3> DEFINE s == IF Folytathato THEN "resuming" ELSE "connecting"
    <3>1. Jelez(Says(s))
      BY <2>2 DEF Csatlakoz
    <3>2. s \in Statuses
      BY DEF Statuses
    <3> HIDE DEF s
    <3>3. Is(Says(s), s, 0, 0)
      BY <3>2, Signals, Zenon
    <3> QED
      BY <2>2, <3>1, <3>2, <3>3, SignalOfStatus, Zenon DEF GatewayInv
  <2> QED
    BY <2>1, <2>2
<1>2. /\ line = "waiting" /\ silent' = FALSE
      /\ line' = (IF process # "running" THEN "down" ELSE "open")
      /\ UNCHANGED <<process, session, sequence, acked, szivveres, puffer, batch, stored,
                      valid, issued, sent, cursor, happened, troubles>>
  BY DEF Csatlakoz, collectorVars
<1>3. FlagsOK'
  BY <1>2, Zenon DEF GatewayInv, FlagsOK
<1>4. NumbersOK'
  BY <1>1, <1>2, Facts
       DEF GatewayInv, EngineInv, NumbersOK, ServesASession, NothingMadeUp, Counted,
           NoStrayBeat, StopsForGood, SaidOfSession, Open, Greeted, Lines, Null
<1>5. ServesASession'
  BY <1>1, <1>2, Facts
       DEF GatewayInv, EngineInv, NumbersOK, ServesASession, NothingMadeUp, Counted,
           NoStrayBeat, StopsForGood, SaidOfSession, Open, Greeted, Lines, Null
<1>6. NothingMadeUp'
  BY <1>1, <1>2, Facts
       DEF GatewayInv, EngineInv, NumbersOK, ServesASession, NothingMadeUp, Counted,
           NoStrayBeat, StopsForGood, SaidOfSession, Open, Greeted, Lines, Null
<1>7. NoStrayBeat'
  BY <1>1, <1>2, Facts
       DEF GatewayInv, EngineInv, NumbersOK, ServesASession, NothingMadeUp, Counted,
           NoStrayBeat, StopsForGood, SaidOfSession, Open, Greeted, Lines, Null
<1>8. StopsForGood'
  BY <1>1, <1>2, Facts
       DEF GatewayInv, EngineInv, NumbersOK, ServesASession, NothingMadeUp, Counted,
           NoStrayBeat, StopsForGood, SaidOfSession, Open, Greeted, Lines, Null
<1>9. SaidOfSession'
  BY <1>1, <1>2, Facts
       DEF GatewayInv, EngineInv, NumbersOK, ServesASession, NothingMadeUp, Counted,
           NoStrayBeat, StopsForGood, SaidOfSession, Open, Greeted, Lines, Null
<1> QED
  BY <1>1, <1>3, <1>4, <1>5, <1>6, <1>7, <1>8, <1>9
     DEF GatewayInv, EngineInv

\* READY: the number of the new session is beyond that of any before.
LEMMA ReadyKeeps ==
  ASSUME GatewayInv, Ready
  PROVE  GatewayInv'
<1>1. /\ WriterInv' /\ fut' = fut /\ writeFaults' = writeFaults
      /\ said'.session = issued + 1 /\ said'.sequence = 1
  <2>1. /\ Jelez([Says("ready") EXCEPT !.event = TRUE, !.session = issued', !.sequence = 1,
                                       !.n = Once("identified")])
        /\ issued' = issued + 1
    BY DEF Ready
  <2>2. issued' \in Nat /\ issued' > said.session /\ issued' # 0
    BY <2>1, Facts DEF GatewayInv, EngineInv, NumbersOK, SaidOfSession
  <2>3. Is([Says("ready") EXCEPT !.event = TRUE, !.session = issued', !.sequence = 1,
                                 !.n = Once("identified")], "ready", issued', 1)
    BY <2>2, Signals, Zenon
  <2>4. /\ "ready" \in Statuses \cup {""} /\ 1 \in Nat
    BY DEF Statuses
  <2>5. /\ WriterInv' /\ UNCHANGED <<fut, stateRow, writeFaults>>
        /\ said'.session = (IF issued' # 0 THEN issued' ELSE said.session)
        /\ said'.sequence = (IF 1 # 0 THEN 1 ELSE said.sequence)
    BY <2>1, <2>2, <2>3, <2>4, Signalled, Zenon DEF GatewayInv
  <2> QED
    BY <2>1, <2>2, <2>5
<1>2. /\ process # "exited" /\ line = "identifying" /\ line' = "ready"
      /\ issued' = issued + 1 /\ valid' = issued' /\ sent' = 1 /\ cursor' = 1
      /\ session' = issued' /\ sequence' = 1
      /\ UNCHANGED <<process, acked, szivveres, puffer, batch, stored, silent, happened, troubles>>
  BY DEF Ready, Alive, collectorVars
<1>3. FlagsOK'
  BY <1>2, Zenon DEF GatewayInv, FlagsOK
<1>4. NumbersOK'
  BY <1>1, <1>2, Facts
       DEF GatewayInv, EngineInv, NumbersOK, ServesASession, NothingMadeUp, Counted,
           NoStrayBeat, StopsForGood, SaidOfSession, Open, Greeted, Lines, Null
<1>5. ServesASession'
  BY <1>1, <1>2, Facts
       DEF GatewayInv, EngineInv, NumbersOK, ServesASession, NothingMadeUp, Counted,
           NoStrayBeat, StopsForGood, SaidOfSession, Open, Greeted, Lines, Null
<1>6. NothingMadeUp'
  BY <1>1, <1>2, Facts
       DEF GatewayInv, EngineInv, NumbersOK, ServesASession, NothingMadeUp, Counted,
           NoStrayBeat, StopsForGood, SaidOfSession, Open, Greeted, Lines, Null
<1>7. NoStrayBeat'
  BY <1>1, <1>2, Facts
       DEF GatewayInv, EngineInv, NumbersOK, ServesASession, NothingMadeUp, Counted,
           NoStrayBeat, StopsForGood, SaidOfSession, Open, Greeted, Lines, Null
<1>8. StopsForGood'
  BY <1>1, <1>2, Facts
       DEF GatewayInv, EngineInv, NumbersOK, ServesASession, NothingMadeUp, Counted,
           NoStrayBeat, StopsForGood, SaidOfSession, Open, Greeted, Lines, Null
<1>9. SaidOfSession'
  BY <1>1, <1>2, Facts
       DEF GatewayInv, EngineInv, NumbersOK, ServesASession, NothingMadeUp, Counted,
           NoStrayBeat, StopsForGood, SaidOfSession, Open, Greeted, Lines, Null
<1> QED
  BY <1>1, <1>3, <1>4, <1>5, <1>6, <1>7, <1>8, <1>9
     DEF GatewayInv, EngineInv

\* RESUMED: it has the next number of the session.
LEMMA ResumedKeeps ==
  ASSUME GatewayInv, Resumed
  PROVE  GatewayInv'
<1>1. /\ WriterInv' /\ fut' = fut /\ writeFaults' = writeFaults
      /\ said'.session = said.session /\ said'.sequence = said.sequence
  <2>1. Jelez([Says("ready") EXCEPT !.event = TRUE, !.n = Once("resumed")])
    BY DEF Resumed
  <2>2. "ready" \in Statuses \cup {""}
    BY DEF Statuses
  <2> QED
    BY <2>1, <2>2, Signals, SignalOfStatus, Zenon DEF GatewayInv
<1>2. /\ process # "exited" /\ line = "resuming" /\ line' = "ready" /\ session = valid
      /\ cursor = sent /\ sent' = sent + 1 /\ cursor' = sent' /\ sequence' = sent'
      /\ UNCHANGED <<process, session, acked, szivveres, puffer, batch, stored, valid, issued,
                      silent, happened, troubles>>
  BY DEF Resumed, Alive, collectorVars
<1>3. FlagsOK'
  BY <1>2, Zenon DEF GatewayInv, FlagsOK
<1>4. NumbersOK'
  BY <1>1, <1>2, Facts
       DEF GatewayInv, EngineInv, NumbersOK, ServesASession, NothingMadeUp, Counted,
           NoStrayBeat, StopsForGood, SaidOfSession, Open, Greeted, Lines, Null
<1>5. ServesASession'
  BY <1>1, <1>2, Facts
       DEF GatewayInv, EngineInv, NumbersOK, ServesASession, NothingMadeUp, Counted,
           NoStrayBeat, StopsForGood, SaidOfSession, Open, Greeted, Lines, Null
<1>6. NothingMadeUp'
  BY <1>1, <1>2, Facts
       DEF GatewayInv, EngineInv, NumbersOK, ServesASession, NothingMadeUp, Counted,
           NoStrayBeat, StopsForGood, SaidOfSession, Open, Greeted, Lines, Null
<1>7. NoStrayBeat'
  BY <1>1, <1>2, Facts
       DEF GatewayInv, EngineInv, NumbersOK, ServesASession, NothingMadeUp, Counted,
           NoStrayBeat, StopsForGood, SaidOfSession, Open, Greeted, Lines, Null
<1>8. StopsForGood'
  BY <1>1, <1>2, Facts
       DEF GatewayInv, EngineInv, NumbersOK, ServesASession, NothingMadeUp, Counted,
           NoStrayBeat, StopsForGood, SaidOfSession, Open, Greeted, Lines, Null
<1>9. SaidOfSession'
  BY <1>1, <1>2, Facts
       DEF GatewayInv, EngineInv, NumbersOK, ServesASession, NothingMadeUp, Counted,
           NoStrayBeat, StopsForGood, SaidOfSession, Open, Greeted, Lines, Null
<1> QED
  BY <1>1, <1>3, <1>4, <1>5, <1>6, <1>7, <1>8, <1>9
     DEF GatewayInv, EngineInv

\* INVALID_SESSION: a session is forgotten with its number.
LEMMA InvalidSessionKeeps ==
  ASSUME GatewayInv, NEW d \in BOOLEAN, InvalidSession(d)
  PROVE  GatewayInv'
<1>1. WriterInv' /\ UNCHANGED <<fuggo, fut, stateRow, said, writeFaults>>
  <2>1. UNCHANGED writerVars
    BY DEF InvalidSession
  <2> QED
    BY <2>1, WriterIdle DEF GatewayInv
<1>2. /\ line \in {"identifying", "resuming"} /\ line' = "closing"
      /\ \/ UNCHANGED <<session, sequence>>
         \/ session' = Null /\ sequence' = Null
      /\ troubles' = troubles \/ (troubles < MaxTroubles /\ troubles' = troubles + 1)
      /\ UNCHANGED <<process, acked, szivveres, puffer, batch, stored, valid, issued, sent,
                      cursor, silent, happened>>
  BY DEF InvalidSession, Trouble, collectorVars, discordVars
<1>3. FlagsOK'
  BY <1>2, Zenon DEF GatewayInv, FlagsOK
<1>4. NumbersOK'
  BY <1>1, <1>2, Facts
       DEF GatewayInv, EngineInv, NumbersOK, ServesASession, NothingMadeUp, Counted,
           NoStrayBeat, StopsForGood, SaidOfSession, Open, Greeted, Lines, Null
<1>5. ServesASession'
  BY <1>1, <1>2, Facts
       DEF GatewayInv, EngineInv, NumbersOK, ServesASession, NothingMadeUp, Counted,
           NoStrayBeat, StopsForGood, SaidOfSession, Open, Greeted, Lines, Null
<1>6. NothingMadeUp'
  BY <1>1, <1>2, Facts
       DEF GatewayInv, EngineInv, NumbersOK, ServesASession, NothingMadeUp, Counted,
           NoStrayBeat, StopsForGood, SaidOfSession, Open, Greeted, Lines, Null
<1>7. NoStrayBeat'
  BY <1>1, <1>2, Facts
       DEF GatewayInv, EngineInv, NumbersOK, ServesASession, NothingMadeUp, Counted,
           NoStrayBeat, StopsForGood, SaidOfSession, Open, Greeted, Lines, Null
<1>8. StopsForGood'
  BY <1>1, <1>2, Facts
       DEF GatewayInv, EngineInv, NumbersOK, ServesASession, NothingMadeUp, Counted,
           NoStrayBeat, StopsForGood, SaidOfSession, Open, Greeted, Lines, Null
<1>9. SaidOfSession'
  BY <1>1, <1>2, Facts
       DEF GatewayInv, EngineInv, NumbersOK, ServesASession, NothingMadeUp, Counted,
           NoStrayBeat, StopsForGood, SaidOfSession, Open, Greeted, Lines, Null
<1> QED
  BY <1>1, <1>3, <1>4, <1>5, <1>6, <1>7, <1>8, <1>9
     DEF GatewayInv, EngineInv

\* An event: it is counted once, when its number is kept.
LEMMA DispatchKeeps ==
  ASSUME GatewayInv, Dispatch
  PROVE  GatewayInv'
<1>1. /\ WriterInv' /\ fut' = fut /\ writeFaults' = writeFaults
      /\ said'.session = said.session /\ said'.sequence = sequence'
  <2>1. /\ Jelez([Blank EXCEPT !.event = TRUE, !.sequence = sequence'])
        /\ sequence' = cursor' /\ cursor' = cursor + 1 /\ line \in {"resuming", "ready"}
    BY DEF Dispatch
  <2>2. sequence' \in Nat /\ sequence' # 0 /\ sequence' >= said.sequence
    BY <2>1, Facts DEF GatewayInv, EngineInv, NumbersOK, ServesASession, SaidOfSession
  <2>3. Is([Blank EXCEPT !.event = TRUE, !.sequence = sequence'], "", 0, sequence')
    BY <2>2, Signals, Zenon
  <2>4. /\ "" \in Statuses \cup {""} /\ 0 \in Nat
    OBVIOUS
  <2>5. /\ WriterInv' /\ UNCHANGED <<fut, stateRow, writeFaults>>
        /\ said'.session = (IF 0 # 0 THEN 0 ELSE said.session)
        /\ said'.sequence = (IF sequence' # 0 THEN sequence' ELSE said.sequence)
    BY <2>1, <2>2, <2>3, <2>4, Signalled, Zenon DEF GatewayInv
  <2> QED
    BY <2>2, <2>5
<1>2. /\ process # "exited" /\ line \in {"resuming", "ready"} /\ session = valid /\ cursor < sent
      /\ cursor' = cursor + 1 /\ sequence' = cursor' /\ puffer' = puffer + 1
      /\ UNCHANGED <<process, line, session, acked, szivveres, batch, stored, valid,
                      issued, sent, silent, happened, troubles>>
  BY DEF Dispatch, Alive
<1>3. FlagsOK'
  BY <1>2, Zenon DEF GatewayInv, FlagsOK
<1>4. NumbersOK'
  BY <1>1, <1>2, Facts
       DEF GatewayInv, EngineInv, NumbersOK, ServesASession, NothingMadeUp, Counted,
           NoStrayBeat, StopsForGood, SaidOfSession, Open, Greeted, Lines, Null
<1>5. ServesASession'
  BY <1>1, <1>2, Facts
       DEF GatewayInv, EngineInv, NumbersOK, ServesASession, NothingMadeUp, Counted,
           NoStrayBeat, StopsForGood, SaidOfSession, Open, Greeted, Lines, Null
<1>6. NothingMadeUp'
  BY <1>1, <1>2, Facts
       DEF GatewayInv, EngineInv, NumbersOK, ServesASession, NothingMadeUp, Counted,
           NoStrayBeat, StopsForGood, SaidOfSession, Open, Greeted, Lines, Null
<1>7. NoStrayBeat'
  BY <1>1, <1>2, Facts
       DEF GatewayInv, EngineInv, NumbersOK, ServesASession, NothingMadeUp, Counted,
           NoStrayBeat, StopsForGood, SaidOfSession, Open, Greeted, Lines, Null
<1>8. StopsForGood'
  BY <1>1, <1>2, Facts
       DEF GatewayInv, EngineInv, NumbersOK, ServesASession, NothingMadeUp, Counted,
           NoStrayBeat, StopsForGood, SaidOfSession, Open, Greeted, Lines, Null
<1>9. SaidOfSession'
  BY <1>1, <1>2, Facts
       DEF GatewayInv, EngineInv, NumbersOK, ServesASession, NothingMadeUp, Counted,
           NoStrayBeat, StopsForGood, SaidOfSession, Open, Greeted, Lines, Null
<1> QED
  BY <1>1, <1>3, <1>4, <1>5, <1>6, <1>7, <1>8, <1>9
     DEF GatewayInv, EngineInv

\* RECONNECT.
LEMMA ReconnectAskedKeeps ==
  ASSUME GatewayInv, ReconnectAsked
  PROVE  GatewayInv'
<1>1. WriterInv' /\ UNCHANGED <<fuggo, fut, stateRow, said, writeFaults>>
  <2>1. UNCHANGED writerVars
    BY DEF ReconnectAsked
  <2> QED
    BY <2>1, WriterIdle DEF GatewayInv
<1>2. /\ line \in Open /\ line' = "closing"
      /\ troubles < MaxTroubles /\ troubles' = troubles + 1
      /\ UNCHANGED <<process, session, sequence, acked, szivveres, puffer, batch, stored, valid,
                      issued, sent, cursor, silent, happened>>
  BY DEF ReconnectAsked, Trouble, collectorVars, discordVars
<1>3. FlagsOK'
  BY <1>2, Zenon DEF GatewayInv, FlagsOK
<1>4. NumbersOK'
  BY <1>1, <1>2, Facts
       DEF GatewayInv, EngineInv, NumbersOK, ServesASession, NothingMadeUp, Counted,
           NoStrayBeat, StopsForGood, SaidOfSession, Open, Greeted, Lines, Null
<1>5. ServesASession'
  BY <1>1, <1>2, Facts
       DEF GatewayInv, EngineInv, NumbersOK, ServesASession, NothingMadeUp, Counted,
           NoStrayBeat, StopsForGood, SaidOfSession, Open, Greeted, Lines, Null
<1>6. NothingMadeUp'
  BY <1>1, <1>2, Facts
       DEF GatewayInv, EngineInv, NumbersOK, ServesASession, NothingMadeUp, Counted,
           NoStrayBeat, StopsForGood, SaidOfSession, Open, Greeted, Lines, Null
<1>7. NoStrayBeat'
  BY <1>1, <1>2, Facts
       DEF GatewayInv, EngineInv, NumbersOK, ServesASession, NothingMadeUp, Counted,
           NoStrayBeat, StopsForGood, SaidOfSession, Open, Greeted, Lines, Null
<1>8. StopsForGood'
  BY <1>1, <1>2, Facts
       DEF GatewayInv, EngineInv, NumbersOK, ServesASession, NothingMadeUp, Counted,
           NoStrayBeat, StopsForGood, SaidOfSession, Open, Greeted, Lines, Null
<1>9. SaidOfSession'
  BY <1>1, <1>2, Facts
       DEF GatewayInv, EngineInv, NumbersOK, ServesASession, NothingMadeUp, Counted,
           NoStrayBeat, StopsForGood, SaidOfSession, Open, Greeted, Lines, Null
<1> QED
  BY <1>1, <1>3, <1>4, <1>5, <1>6, <1>7, <1>8, <1>9
     DEF GatewayInv, EngineInv

\* A heartbeat, or the end of a zombie.
LEMMA BeatsKeeps ==
  ASSUME GatewayInv, Beats
  PROVE  GatewayInv'
<1>1. WriterInv' /\ UNCHANGED <<fuggo, fut, stateRow, said, writeFaults>>
  <2>1. UNCHANGED writerVars
    BY DEF Beats
  <2> QED
    BY <2>1, WriterIdle DEF GatewayInv
<1>2. /\ acked' = FALSE \/ acked' = acked
      /\ line' = line \/ (line \in Open /\ line' = "closing")
      /\ UNCHANGED <<process, session, sequence, szivveres, puffer, batch, stored, valid,
                      issued, sent, cursor, silent, happened, troubles>>
  BY DEF Beats, Szivver, collectorVars, discordVars
<1>3. FlagsOK'
  BY <1>2, Zenon DEF GatewayInv, FlagsOK
<1>4. NumbersOK'
  BY <1>1, <1>2, Facts
       DEF GatewayInv, EngineInv, NumbersOK, ServesASession, NothingMadeUp, Counted,
           NoStrayBeat, StopsForGood, SaidOfSession, Open, Greeted, Lines, Null
<1>5. ServesASession'
  BY <1>1, <1>2, Facts
       DEF GatewayInv, EngineInv, NumbersOK, ServesASession, NothingMadeUp, Counted,
           NoStrayBeat, StopsForGood, SaidOfSession, Open, Greeted, Lines, Null
<1>6. NothingMadeUp'
  BY <1>1, <1>2, Facts
       DEF GatewayInv, EngineInv, NumbersOK, ServesASession, NothingMadeUp, Counted,
           NoStrayBeat, StopsForGood, SaidOfSession, Open, Greeted, Lines, Null
<1>7. NoStrayBeat'
  BY <1>1, <1>2, Facts
       DEF GatewayInv, EngineInv, NumbersOK, ServesASession, NothingMadeUp, Counted,
           NoStrayBeat, StopsForGood, SaidOfSession, Open, Greeted, Lines, Null
<1>8. StopsForGood'
  BY <1>1, <1>2, Facts
       DEF GatewayInv, EngineInv, NumbersOK, ServesASession, NothingMadeUp, Counted,
           NoStrayBeat, StopsForGood, SaidOfSession, Open, Greeted, Lines, Null
<1>9. SaidOfSession'
  BY <1>1, <1>2, Facts
       DEF GatewayInv, EngineInv, NumbersOK, ServesASession, NothingMadeUp, Counted,
           NoStrayBeat, StopsForGood, SaidOfSession, Open, Greeted, Lines, Null
<1> QED
  BY <1>1, <1>3, <1>4, <1>5, <1>6, <1>7, <1>8, <1>9
     DEF GatewayInv, EngineInv

\* HEARTBEAT_ACK.
LEMMA HeartbeatAckKeeps ==
  ASSUME GatewayInv, HeartbeatAck
  PROVE  GatewayInv'
<1>1. /\ WriterInv' /\ fut' = fut /\ writeFaults' = writeFaults
      /\ said'.session = said.session /\ said'.sequence = said.sequence
  <2>1. Jelez([Blank EXCEPT !.event = TRUE])
    BY DEF HeartbeatAck
  <2>2. "" \in Statuses \cup {""}
    OBVIOUS
  <2> QED
    BY <2>1, <2>2, Signals, SignalOfStatus, Zenon DEF GatewayInv
<1>2. /\ process # "exited" /\ line \in Greeted /\ acked' = TRUE
      /\ UNCHANGED <<process, line, session, sequence, szivveres, puffer, batch, stored, valid,
                      issued, sent, cursor, silent, happened, troubles>>
  BY DEF HeartbeatAck, Alive, collectorVars, discordVars
<1>3. FlagsOK'
  BY <1>2, Zenon DEF GatewayInv, FlagsOK
<1>4. NumbersOK'
  BY <1>1, <1>2, Facts
       DEF GatewayInv, EngineInv, NumbersOK, ServesASession, NothingMadeUp, Counted,
           NoStrayBeat, StopsForGood, SaidOfSession, Open, Greeted, Lines, Null
<1>5. ServesASession'
  BY <1>1, <1>2, Facts
       DEF GatewayInv, EngineInv, NumbersOK, ServesASession, NothingMadeUp, Counted,
           NoStrayBeat, StopsForGood, SaidOfSession, Open, Greeted, Lines, Null
<1>6. NothingMadeUp'
  BY <1>1, <1>2, Facts
       DEF GatewayInv, EngineInv, NumbersOK, ServesASession, NothingMadeUp, Counted,
           NoStrayBeat, StopsForGood, SaidOfSession, Open, Greeted, Lines, Null
<1>7. NoStrayBeat'
  BY <1>1, <1>2, Facts
       DEF GatewayInv, EngineInv, NumbersOK, ServesASession, NothingMadeUp, Counted,
           NoStrayBeat, StopsForGood, SaidOfSession, Open, Greeted, Lines, Null
<1>8. StopsForGood'
  BY <1>1, <1>2, Facts
       DEF GatewayInv, EngineInv, NumbersOK, ServesASession, NothingMadeUp, Counted,
           NoStrayBeat, StopsForGood, SaidOfSession, Open, Greeted, Lines, Null
<1>9. SaidOfSession'
  BY <1>1, <1>2, Facts
       DEF GatewayInv, EngineInv, NumbersOK, ServesASession, NothingMadeUp, Counted,
           NoStrayBeat, StopsForGood, SaidOfSession, Open, Greeted, Lines, Null
<1> QED
  BY <1>1, <1>3, <1>4, <1>5, <1>6, <1>7, <1>8, <1>9
     DEF GatewayInv, EngineInv

\* The close event: the heartbeat ends with the connection.
LEMMA LezarvaKeeps ==
  ASSUME GatewayInv, NEW fatal \in BOOLEAN, Lezarva(fatal),
         process # "exited", troubles' = troubles \/ (troubles < MaxTroubles /\ troubles' = troubles + 1)
  PROVE  GatewayInv'
<1>1. /\ WriterInv' /\ fut' = fut /\ writeFaults' = writeFaults
      /\ said'.session = said.session /\ said'.sequence = said.sequence
      /\ process # "running" => fuggo' = fuggo /\ said'.status = said.status
  <2>1. CASE process # "running"
    <3>1. UNCHANGED writerVars
      BY <2>1 DEF Lezarva, Quiet
    <3> QED
      BY <3>1, WriterIdle DEF GatewayInv
  <2>2. CASE process = "running" /\ fatal
    <3>1. Jelez(Says("failed"))
      BY <2>2 DEF Lezarva
    <3>2. "failed" \in Statuses /\ "failed" \in Statuses \cup {""}
      BY DEF Statuses
    <3> QED
      BY <2>2, <3>1, <3>2, Signals, SignalOfStatus, Zenon DEF GatewayInv
  <2>3. CASE process = "running" /\ ~fatal
    <3>1. Jelez([Says("disconnected") EXCEPT !.n = Once("reconnect")])
      BY <2>3 DEF Lezarva
    <3>2. "disconnected" \in Statuses \cup {""}
      BY DEF Statuses
    <3> QED
      BY <2>3, <3>1, <3>2, Signals, SignalOfStatus, Zenon DEF GatewayInv
  <2> QED
    BY <2>1, <2>2, <2>3
<1>2. /\ szivveres' = FALSE
      /\ line' = "down" \/ (process = "running" /\ line' \in {"failed", "waiting"})
      /\ UNCHANGED <<process, session, sequence, acked, puffer, batch, stored, valid,
                      issued, sent, cursor, silent, happened>>
  BY DEF Lezarva, collectorVars, discordVars
<1>3. FlagsOK'
  BY <1>2, Zenon DEF GatewayInv, FlagsOK
<1>4. NumbersOK'
  BY <1>1, <1>2, Facts
       DEF GatewayInv, EngineInv, NumbersOK, ServesASession, NothingMadeUp, Counted,
           NoStrayBeat, StopsForGood, SaidOfSession, Open, Greeted, Lines, Null
<1>5. ServesASession'
  BY <1>1, <1>2, Facts
       DEF GatewayInv, EngineInv, NumbersOK, ServesASession, NothingMadeUp, Counted,
           NoStrayBeat, StopsForGood, SaidOfSession, Open, Greeted, Lines, Null
<1>6. NothingMadeUp'
  BY <1>1, <1>2, Facts
       DEF GatewayInv, EngineInv, NumbersOK, ServesASession, NothingMadeUp, Counted,
           NoStrayBeat, StopsForGood, SaidOfSession, Open, Greeted, Lines, Null
<1>7. NoStrayBeat'
  BY <1>1, <1>2, Facts
       DEF GatewayInv, EngineInv, NumbersOK, ServesASession, NothingMadeUp, Counted,
           NoStrayBeat, StopsForGood, SaidOfSession, Open, Greeted, Lines, Null
<1>8. StopsForGood'
  BY <1>1, <1>2, Facts
       DEF GatewayInv, EngineInv, NumbersOK, ServesASession, NothingMadeUp, Counted,
           NoStrayBeat, StopsForGood, SaidOfSession, Open, Greeted, Lines, Null
<1>9. SaidOfSession'
  BY <1>1, <1>2, Facts
       DEF GatewayInv, EngineInv, NumbersOK, ServesASession, NothingMadeUp, Counted,
           NoStrayBeat, StopsForGood, SaidOfSession, Open, Greeted, Lines, Null
<1> QED
  BY <1>1, <1>3, <1>4, <1>5, <1>6, <1>7, <1>8, <1>9
     DEF GatewayInv, EngineInv

LEMMA StandsStill ==
  ASSUME NEW e \in Entries
  PROVE  FollowsOn(e, e)
<1>1. e.session \in Nat /\ e.sequence \in Nat
  BY EntryParts, Zenon
<1> QED
  BY <1>1 DEF FollowsOn

----------------------------------------------------------------------------
(* The collector, the shutdown, and the world around. *)

\* A flush moves what was counted, and may lose it; it adds nothing.
LEMMA Flushing ==
  ASSUME GatewayInv, NEW who \in {"timer", "leall"}, FlushBegins(who) \/ FlushEnds(who)
  PROVE  /\ puffer' \in Nat /\ batch' \in [{"timer", "leall"} -> Nat] /\ stored' \in Nat
         /\ Counted' <= Counted /\ Counted' \in Nat
<1>1. /\ batch \in [{"timer", "leall"} -> Nat] /\ puffer \in Nat /\ stored \in Nat
      /\ batch["timer"] \in Nat /\ batch["leall"] \in Nat
  BY Facts DEF GatewayInv, EngineInv, NumbersOK
<1>2. CASE FlushBegins(who)
  <2>1. batch' = [batch EXCEPT ![who] = puffer] /\ puffer' = 0 /\ stored' = stored
    BY <1>2 DEF FlushBegins
  <2>2. CASE who = "timer"
    BY <1>1, <2>1, <2>2 DEF Counted
  <2>3. CASE who = "leall"
    BY <1>1, <2>1, <2>3 DEF Counted
  <2> QED
    BY <2>2, <2>3
<1>3. CASE FlushEnds(who)
  <2>1. /\ batch' = [batch EXCEPT ![who] = 0] /\ puffer' = puffer
        /\ stored' = stored + batch[who] \/ stored' = stored
    BY <1>3 DEF FlushEnds
  <2>2. CASE who = "timer"
    BY <1>1, <2>1, <2>2 DEF Counted
  <2>3. CASE who = "leall"
    BY <1>1, <2>1, <2>3 DEF Counted
  <2> QED
    BY <2>2, <2>3
<1> QED
  BY <1>2, <1>3

\* What is lost of the counted makes up nothing.
LEMMA FewerCounted ==
  ASSUME GatewayInv, Counted' <= Counted, Counted' \in Nat, happened' = happened,
         \/ UNCHANGED <<valid, session, sequence, sent>>
         \/ session' = Null
  PROVE  NothingMadeUp'
<1>1. \A a, b, s, h, q \in Nat : a <= b /\ b + s <= h + q => a + s <= h + q
  OBVIOUS
<1>2. \A a, b, h \in Nat : a <= b /\ b <= h => a <= h
  OBVIOUS
<1>3. Counted \in Nat /\ sent \in Nat /\ sequence \in Nat /\ happened \in Nat
  BY Facts DEF GatewayInv, EngineInv, NumbersOK
<1>4. Counted <= happened
  BY DEF GatewayInv, EngineInv, NothingMadeUp
<1>5. Counted' <= happened'
  <2>1. Counted' <= happened
    BY <1>2, <1>3, <1>4, Zenon
  <2> QED
    BY <2>1, Zenon
<1>6. CASE UNCHANGED <<valid, session, sequence, sent>>
  <2>1. valid' = valid /\ session' = session /\ sequence' = sequence /\ sent' = sent
    BY <1>6
  <2>2. ASSUME valid # Null, session = valid
        PROVE  sequence <= sent /\ Counted' + sent <= happened + sequence
    <3>1. sequence <= sent /\ Counted + sent <= happened + sequence
      BY <2>2 DEF GatewayInv, EngineInv, NothingMadeUp
    <3> QED
      BY <1>1, <1>3, <3>1, Zenon
  <2> QED
    BY <1>5, <2>1, <2>2, Zenon DEF NothingMadeUp
<1>7. CASE session' = Null
  BY <1>5, <1>7, Zenon DEF NothingMadeUp
<1> QED
  BY <1>6, <1>7

\* The flush timer.
LEMMA FlushTimerKeeps ==
  ASSUME GatewayInv, FlushTimer
  PROVE  GatewayInv'
<1>1. /\ WriterInv' /\ UNCHANGED <<fuggo, fut, stateRow, said, writeFaults>>
      /\ puffer' \in Nat /\ batch' \in [{"timer", "leall"} -> Nat] /\ stored' \in Nat
      /\ Counted' <= Counted /\ Counted' \in Nat
  <2>1. UNCHANGED writerVars /\ FlushBegins("timer")
    BY DEF FlushTimer
  <2>2. "timer" \in {"timer", "leall"}
    OBVIOUS
  <2>3. WriterInv' /\ UNCHANGED <<fuggo, fut, stateRow, said, writeFaults>>
    BY <2>1, WriterIdle DEF GatewayInv
  <2>4. /\ puffer' \in Nat /\ batch' \in [{"timer", "leall"} -> Nat] /\ stored' \in Nat
        /\ Counted' <= Counted /\ Counted' \in Nat
    BY <2>1, <2>2, Flushing, Zenon
  <2> QED
    BY <2>3, <2>4
<1>2. /\ process' = process
      /\ UNCHANGED <<line, session, sequence, acked, szivveres, valid, issued, sent, cursor,
                      silent, happened, troubles>>
  BY DEF FlushTimer, engineVars, discordVars
<1>3. FlagsOK'
  BY <1>2, Zenon DEF GatewayInv, FlagsOK
<1>4. NumbersOK'
  BY <1>1, <1>2, Facts
       DEF GatewayInv, EngineInv, NumbersOK, ServesASession, NothingMadeUp,
           NoStrayBeat, StopsForGood, SaidOfSession, Open, Greeted, Lines, Null
<1>5. ServesASession'
  BY <1>1, <1>2, Facts
       DEF GatewayInv, EngineInv, NumbersOK, ServesASession, NothingMadeUp,
           NoStrayBeat, StopsForGood, SaidOfSession, Open, Greeted, Lines, Null
<1>6. NothingMadeUp'
  BY <1>1, <1>2, FewerCounted
<1>7. NoStrayBeat'
  BY <1>1, <1>2, Facts
       DEF GatewayInv, EngineInv, NumbersOK, ServesASession, NothingMadeUp,
           NoStrayBeat, StopsForGood, SaidOfSession, Open, Greeted, Lines, Null
<1>8. StopsForGood'
  BY <1>1, <1>2, Facts
       DEF GatewayInv, EngineInv, NumbersOK, ServesASession, NothingMadeUp,
           NoStrayBeat, StopsForGood, SaidOfSession, Open, Greeted, Lines, Null
<1>9. SaidOfSession'
  BY <1>1, <1>2, Facts
       DEF GatewayInv, EngineInv, NumbersOK, ServesASession, NothingMadeUp,
           NoStrayBeat, StopsForGood, SaidOfSession, Open, Greeted, Lines, Null
<1> QED
  BY <1>1, <1>3, <1>4, <1>5, <1>6, <1>7, <1>8, <1>9
     DEF GatewayInv, EngineInv

\* The timer's flush ends.
LEMMA FlushTimerEndsKeeps ==
  ASSUME GatewayInv, FlushTimerEnds
  PROVE  GatewayInv'
<1>1. /\ WriterInv' /\ UNCHANGED <<fuggo, fut, stateRow, said, writeFaults>>
      /\ puffer' \in Nat /\ batch' \in [{"timer", "leall"} -> Nat] /\ stored' \in Nat
      /\ Counted' <= Counted /\ Counted' \in Nat
  <2>1. UNCHANGED writerVars /\ FlushEnds("timer")
    BY DEF FlushTimerEnds
  <2>2. "timer" \in {"timer", "leall"}
    OBVIOUS
  <2>3. WriterInv' /\ UNCHANGED <<fuggo, fut, stateRow, said, writeFaults>>
    BY <2>1, WriterIdle DEF GatewayInv
  <2>4. /\ puffer' \in Nat /\ batch' \in [{"timer", "leall"} -> Nat] /\ stored' \in Nat
        /\ Counted' <= Counted /\ Counted' \in Nat
    BY <2>1, <2>2, Flushing, Zenon
  <2> QED
    BY <2>3, <2>4
<1>2. /\ process' = process
      /\ UNCHANGED <<line, session, sequence, acked, szivveres, valid, issued, sent, cursor,
                      silent, happened, troubles>>
  BY DEF FlushTimerEnds, engineVars, discordVars
<1>3. FlagsOK'
  BY <1>2, Zenon DEF GatewayInv, FlagsOK
<1>4. NumbersOK'
  BY <1>1, <1>2, Facts
       DEF GatewayInv, EngineInv, NumbersOK, ServesASession, NothingMadeUp,
           NoStrayBeat, StopsForGood, SaidOfSession, Open, Greeted, Lines, Null
<1>5. ServesASession'
  BY <1>1, <1>2, Facts
       DEF GatewayInv, EngineInv, NumbersOK, ServesASession, NothingMadeUp,
           NoStrayBeat, StopsForGood, SaidOfSession, Open, Greeted, Lines, Null
<1>6. NothingMadeUp'
  BY <1>1, <1>2, FewerCounted
<1>7. NoStrayBeat'
  BY <1>1, <1>2, Facts
       DEF GatewayInv, EngineInv, NumbersOK, ServesASession, NothingMadeUp,
           NoStrayBeat, StopsForGood, SaidOfSession, Open, Greeted, Lines, Null
<1>8. StopsForGood'
  BY <1>1, <1>2, Facts
       DEF GatewayInv, EngineInv, NumbersOK, ServesASession, NothingMadeUp,
           NoStrayBeat, StopsForGood, SaidOfSession, Open, Greeted, Lines, Null
<1>9. SaidOfSession'
  BY <1>1, <1>2, Facts
       DEF GatewayInv, EngineInv, NumbersOK, ServesASession, NothingMadeUp,
           NoStrayBeat, StopsForGood, SaidOfSession, Open, Greeted, Lines, Null
<1> QED
  BY <1>1, <1>3, <1>4, <1>5, <1>6, <1>7, <1>8, <1>9
     DEF GatewayInv, EngineInv

\* leall: the last flush begins.
LEMMA LeallKeeps ==
  ASSUME GatewayInv, Leall
  PROVE  GatewayInv'
<1>1. /\ WriterInv' /\ UNCHANGED <<fuggo, fut, stateRow, said, writeFaults>>
      /\ puffer' \in Nat /\ batch' \in [{"timer", "leall"} -> Nat] /\ stored' \in Nat
      /\ Counted' <= Counted /\ Counted' \in Nat
  <2>1. UNCHANGED writerVars /\ FlushBegins("leall")
    BY DEF Leall
  <2>2. "leall" \in {"timer", "leall"}
    OBVIOUS
  <2>3. WriterInv' /\ UNCHANGED <<fuggo, fut, stateRow, said, writeFaults>>
    BY <2>1, WriterIdle DEF GatewayInv
  <2>4. /\ puffer' \in Nat /\ batch' \in [{"timer", "leall"} -> Nat] /\ stored' \in Nat
        /\ Counted' <= Counted /\ Counted' \in Nat
    BY <2>1, <2>2, Flushing, Zenon
  <2> QED
    BY <2>3, <2>4
<1>2. /\ process = "running" /\ process' = "flushing" /\ szivveres' = FALSE
      /\ UNCHANGED <<line, session, sequence, acked, valid, issued, sent, cursor,
                      silent, happened, troubles>>
  BY DEF Leall, discordVars
<1>3. FlagsOK'
  BY <1>2, Zenon DEF GatewayInv, FlagsOK
<1>4. NumbersOK'
  BY <1>1, <1>2, Facts
       DEF GatewayInv, EngineInv, NumbersOK, ServesASession, NothingMadeUp,
           NoStrayBeat, StopsForGood, SaidOfSession, Open, Greeted, Lines, Null
<1>5. ServesASession'
  BY <1>1, <1>2, Facts
       DEF GatewayInv, EngineInv, NumbersOK, ServesASession, NothingMadeUp,
           NoStrayBeat, StopsForGood, SaidOfSession, Open, Greeted, Lines, Null
<1>6. NothingMadeUp'
  BY <1>1, <1>2, FewerCounted
<1>7. NoStrayBeat'
  BY <1>1, <1>2, Facts
       DEF GatewayInv, EngineInv, NumbersOK, ServesASession, NothingMadeUp,
           NoStrayBeat, StopsForGood, SaidOfSession, Open, Greeted, Lines, Null
<1>8. StopsForGood'
  BY <1>1, <1>2, Facts
       DEF GatewayInv, EngineInv, NumbersOK, ServesASession, NothingMadeUp,
           NoStrayBeat, StopsForGood, SaidOfSession, Open, Greeted, Lines, Null
<1>9. SaidOfSession'
  BY <1>1, <1>2, Facts
       DEF GatewayInv, EngineInv, NumbersOK, ServesASession, NothingMadeUp,
           NoStrayBeat, StopsForGood, SaidOfSession, Open, Greeted, Lines, Null
<1> QED
  BY <1>1, <1>3, <1>4, <1>5, <1>6, <1>7, <1>8, <1>9
     DEF GatewayInv, EngineInv

\* leall, after its flush: the connection is closed and the row will say so.
LEMMA LeallClosesKeeps ==
  ASSUME GatewayInv, LeallCloses
  PROVE  GatewayInv'
<1>1. /\ WriterInv' /\ fut' = fut /\ writeFaults' = writeFaults
      /\ said'.session = said.session /\ said'.sequence = said.sequence
      /\ said'.status = "disconnected"
      /\ puffer' \in Nat /\ batch' \in [{"timer", "leall"} -> Nat] /\ stored' \in Nat
      /\ Counted' <= Counted /\ Counted' \in Nat
  <2>1. Jelez(Says("disconnected")) /\ FlushEnds("leall")
    BY DEF LeallCloses
  <2>2. "disconnected" \in Statuses /\ "disconnected" \in Statuses \cup {""}
    BY DEF Statuses
  <2>3. /\ WriterInv' /\ fut' = fut /\ writeFaults' = writeFaults
        /\ said'.session = said.session /\ said'.sequence = said.sequence
        /\ said'.status = (IF "disconnected" # "" THEN "disconnected" ELSE said.status)
    BY <2>1, <2>2, Signals, SignalOfStatus, Zenon DEF GatewayInv
  <2>4. "leall" \in {"timer", "leall"}
    OBVIOUS
  <2>5. /\ puffer' \in Nat /\ batch' \in [{"timer", "leall"} -> Nat] /\ stored' \in Nat
        /\ Counted' <= Counted /\ Counted' \in Nat
    BY <2>1, <2>4, Flushing, Zenon
  <2> QED
    BY <2>3, <2>5
<1>2. /\ process = "flushing" /\ process' = "draining"
      /\ line' = (IF line \in Open THEN "closing" ELSE line)
      /\ UNCHANGED <<session, sequence, acked, szivveres, valid, issued, sent, cursor,
                      silent, happened, troubles>>
  BY DEF LeallCloses, discordVars
<1>3. FlagsOK'
  BY <1>2, Zenon DEF GatewayInv, FlagsOK
<1>4. NumbersOK'
  BY <1>1, <1>2, Facts
       DEF GatewayInv, EngineInv, NumbersOK, ServesASession, NothingMadeUp,
           NoStrayBeat, StopsForGood, SaidOfSession, Open, Greeted, Lines, Null
<1>5. ServesASession'
  BY <1>1, <1>2, Facts
       DEF GatewayInv, EngineInv, NumbersOK, ServesASession, NothingMadeUp,
           NoStrayBeat, StopsForGood, SaidOfSession, Open, Greeted, Lines, Null
<1>6. NothingMadeUp'
  BY <1>1, <1>2, FewerCounted
<1>7. NoStrayBeat'
  BY <1>1, <1>2, Facts
       DEF GatewayInv, EngineInv, NumbersOK, ServesASession, NothingMadeUp,
           NoStrayBeat, StopsForGood, SaidOfSession, Open, Greeted, Lines, Null
<1>8. StopsForGood'
  BY <1>1, <1>2, Facts
       DEF GatewayInv, EngineInv, NumbersOK, ServesASession, NothingMadeUp,
           NoStrayBeat, StopsForGood, SaidOfSession, Open, Greeted, Lines, Null
<1>9. SaidOfSession'
  BY <1>1, <1>2, Facts
       DEF GatewayInv, EngineInv, NumbersOK, ServesASession, NothingMadeUp,
           NoStrayBeat, StopsForGood, SaidOfSession, Open, Greeted, Lines, Null
<1> QED
  BY <1>1, <1>3, <1>4, <1>5, <1>6, <1>7, <1>8, <1>9
     DEF GatewayInv, EngineInv

\* kiurit: what is pending is written, once nothing is under way.
LEMMA KiuritKeeps ==
  ASSUME GatewayInv, Kiurit
  PROVE  GatewayInv'
<1>1. /\ WriterInv' /\ writeFaults' = writeFaults /\ said' = said /\ fut = {}
      /\ \/ process' = "exited" /\ fuggo = Blank /\ fuggo' = fuggo /\ fut' = fut
         \/ process' = "lastWrite" /\ fuggo' = Blank
  <2>1. fut = {} /\ MaxWriteFaults \in Nat
    BY WriterAssumption DEF Kiurit
  <2>2. CASE fuggo = Blank
    <3>1. process' = "exited" /\ UNCHANGED writerVars
      BY <2>2 DEF Kiurit
    <3> QED
      BY <2>1, <2>2, <3>1, WriterIdle DEF GatewayInv
  <2>3. CASE fuggo # Blank
    <3>1. process' = "lastWrite" /\ Kiir
      BY <2>3 DEF Kiurit
    <3>2. WriterInv'
      BY <3>1, KiirKeeps, Zenon DEF GatewayInv
    <3>3. fuggo' = Blank /\ said' = said /\ writeFaults' = writeFaults
      BY <2>3, <3>1 DEF Kiir
    <3> QED
      BY <2>1, <3>1, <3>2, <3>3
  <2> QED
    BY <2>2, <2>3
<1>2. /\ process = "draining"
      /\ UNCHANGED <<line, session, sequence, acked, szivveres, puffer, batch, stored, valid,
                      issued, sent, cursor, silent, happened, troubles>>
  BY DEF Kiurit, engineVars, collectorVars, discordVars
<1>3. FlagsOK'
  BY <1>2, Zenon DEF GatewayInv, FlagsOK
<1>4. NumbersOK'
  BY <1>1, <1>2, Facts
       DEF GatewayInv, EngineInv, NumbersOK, ServesASession, NothingMadeUp, Counted,
           NoStrayBeat, StopsForGood, SaidOfSession, Open, Greeted, Lines, Null
<1>5. ServesASession'
  BY <1>1, <1>2, Facts
       DEF GatewayInv, EngineInv, NumbersOK, ServesASession, NothingMadeUp, Counted,
           NoStrayBeat, StopsForGood, SaidOfSession, Open, Greeted, Lines, Null
<1>6. NothingMadeUp'
  BY <1>1, <1>2, Facts
       DEF GatewayInv, EngineInv, NumbersOK, ServesASession, NothingMadeUp, Counted,
           NoStrayBeat, StopsForGood, SaidOfSession, Open, Greeted, Lines, Null
<1>7. NoStrayBeat'
  BY <1>1, <1>2, Facts
       DEF GatewayInv, EngineInv, NumbersOK, ServesASession, NothingMadeUp, Counted,
           NoStrayBeat, StopsForGood, SaidOfSession, Open, Greeted, Lines, Null
<1>8. StopsForGood'
  BY <1>1, <1>2, Facts
       DEF GatewayInv, EngineInv, NumbersOK, ServesASession, NothingMadeUp, Counted,
           NoStrayBeat, StopsForGood, SaidOfSession, Open, Greeted, Lines, Null
<1>9. SaidOfSession'
  BY <1>1, <1>2, Facts
       DEF GatewayInv, EngineInv, NumbersOK, ServesASession, NothingMadeUp, Counted,
           NoStrayBeat, StopsForGood, SaidOfSession, Open, Greeted, Lines, Null
<1> QED
  BY <1>1, <1>3, <1>4, <1>5, <1>6, <1>7, <1>8, <1>9
     DEF GatewayInv, EngineInv

\* The last write has ended.
LEMMA ExitsKeeps ==
  ASSUME GatewayInv, Exits
  PROVE  GatewayInv'
<1>1. WriterInv' /\ UNCHANGED <<fuggo, fut, stateRow, said, writeFaults>> /\ fut = {}
  <2>1. UNCHANGED writerVars /\ fut = {}
    BY DEF Exits
  <2> QED
    BY <2>1, WriterIdle DEF GatewayInv
<1>2. /\ process = "lastWrite" /\ process' = "exited"
      /\ UNCHANGED <<line, session, sequence, acked, szivveres, puffer, batch, stored, valid,
                      issued, sent, cursor, silent, happened, troubles>>
  BY DEF Exits, engineVars, collectorVars, discordVars
<1>3. FlagsOK'
  BY <1>2, Zenon DEF GatewayInv, FlagsOK
<1>4. NumbersOK'
  BY <1>1, <1>2, Facts
       DEF GatewayInv, EngineInv, NumbersOK, ServesASession, NothingMadeUp, Counted,
           NoStrayBeat, StopsForGood, SaidOfSession, Open, Greeted, Lines, Null
<1>5. ServesASession'
  BY <1>1, <1>2, Facts
       DEF GatewayInv, EngineInv, NumbersOK, ServesASession, NothingMadeUp, Counted,
           NoStrayBeat, StopsForGood, SaidOfSession, Open, Greeted, Lines, Null
<1>6. NothingMadeUp'
  BY <1>1, <1>2, Facts
       DEF GatewayInv, EngineInv, NumbersOK, ServesASession, NothingMadeUp, Counted,
           NoStrayBeat, StopsForGood, SaidOfSession, Open, Greeted, Lines, Null
<1>7. NoStrayBeat'
  BY <1>1, <1>2, Facts
       DEF GatewayInv, EngineInv, NumbersOK, ServesASession, NothingMadeUp, Counted,
           NoStrayBeat, StopsForGood, SaidOfSession, Open, Greeted, Lines, Null
<1>8. StopsForGood'
  BY <1>1, <1>2, Facts
       DEF GatewayInv, EngineInv, NumbersOK, ServesASession, NothingMadeUp, Counted,
           NoStrayBeat, StopsForGood, SaidOfSession, Open, Greeted, Lines, Null
<1>9. SaidOfSession'
  BY <1>1, <1>2, Facts
       DEF GatewayInv, EngineInv, NumbersOK, ServesASession, NothingMadeUp, Counted,
           NoStrayBeat, StopsForGood, SaidOfSession, Open, Greeted, Lines, Null
<1> QED
  BY <1>1, <1>3, <1>4, <1>5, <1>6, <1>7, <1>8, <1>9
     DEF GatewayInv, EngineInv

\* The process is replaced: what it held is lost, what it wrote stays.
LEMMA RestartKeeps ==
  ASSUME GatewayInv, Restart
  PROVE  GatewayInv'
<1>1. /\ WriterInv' /\ writeFaults' = writeFaults + 1 /\ said'.session <= said.session
      /\ said'.session \in Nat
      /\ puffer' \in Nat /\ batch' \in [{"timer", "leall"} -> Nat] /\ stored' \in Nat
      /\ Counted' <= Counted /\ Counted' \in Nat
  <2>1. /\ WriterLost /\ writeFaults < MaxWriteFaults /\ writeFaults' = writeFaults + 1
    BY DEF Restart
  <2>2. writeFaults' \in 0 .. MaxWriteFaults
    BY <2>1, Facts, WriterAssumption
  <2>3. WriterInv' /\ said'.session <= said.session
    BY <2>1, <2>2, LossKeeps, Zenon DEF GatewayInv
  <2>4. said' \in Entries
    BY <2>3, Zenon DEF WriterInv, WriterTypeOK
  <2>5. said'.session \in Nat
    BY <2>4, EntryParts, Zenon
  <2>6. /\ puffer' = 0 /\ batch' = [timer |-> 0, leall |-> 0]
        /\ stored' \in {stored, stored + batch["timer"], stored + batch["leall"],
                        stored + batch["timer"] + batch["leall"]}
    BY DEF Restart
  <2>7. batch' \in [{"timer", "leall"} -> Nat] /\ batch'["timer"] = 0 /\ batch'["leall"] = 0
    BY <2>6
  <2>8. puffer \in Nat /\ stored \in Nat /\ batch["timer"] \in Nat /\ batch["leall"] \in Nat
    BY Facts DEF GatewayInv, EngineInv, NumbersOK
  <2>9. stored' \in Nat /\ Counted' <= Counted /\ Counted' \in Nat
    <3>1. Counted' = stored' + 0 + 0 + 0
      BY <2>6, <2>7 DEF Counted
    <3>2. Counted' = stored' /\ stored' \in Nat
      <4>1. stored' \in Nat
        BY <2>6, <2>8
      <4>2. \A k \in Nat : k + 0 + 0 + 0 = k
        OBVIOUS
      <4> QED
        BY <3>1, <4>1, <4>2, Zenon
    <3>3. stored' <= Counted
      BY <2>6, <2>8 DEF Counted
    <3> QED
      BY <3>2, <3>3, Zenon
  <2> QED
    BY <2>1, <2>3, <2>5, <2>6, <2>7, <2>9
<1>2. /\ process' = "running" /\ line' = "waiting"
      /\ session' = Null /\ sequence' = Null /\ acked' = TRUE /\ szivveres' = FALSE
      /\ UNCHANGED <<valid, issued, sent, cursor, silent, happened, troubles>>
  BY DEF Restart, discordVars
<1>3. FlagsOK'
  BY <1>2, Zenon DEF GatewayInv, FlagsOK
<1>4. NumbersOK'
  BY <1>1, <1>2, Facts
       DEF GatewayInv, EngineInv, NumbersOK, ServesASession, NothingMadeUp,
           NoStrayBeat, StopsForGood, SaidOfSession, Open, Greeted, Lines, Null
<1>5. ServesASession'
  BY <1>1, <1>2, Facts
       DEF GatewayInv, EngineInv, NumbersOK, ServesASession, NothingMadeUp,
           NoStrayBeat, StopsForGood, SaidOfSession, Open, Greeted, Lines, Null
<1>6. NothingMadeUp'
  BY <1>1, <1>2, FewerCounted
<1>7. NoStrayBeat'
  BY <1>1, <1>2, Facts
       DEF GatewayInv, EngineInv, NumbersOK, ServesASession, NothingMadeUp,
           NoStrayBeat, StopsForGood, SaidOfSession, Open, Greeted, Lines, Null
<1>8. StopsForGood'
  BY <1>1, <1>2, Facts
       DEF GatewayInv, EngineInv, NumbersOK, ServesASession, NothingMadeUp,
           NoStrayBeat, StopsForGood, SaidOfSession, Open, Greeted, Lines, Null
<1>9. SaidOfSession'
  BY <1>1, <1>2, Facts
       DEF GatewayInv, EngineInv, NumbersOK, ServesASession, NothingMadeUp,
           NoStrayBeat, StopsForGood, SaidOfSession, Open, Greeted, Lines, Null
<1> QED
  BY <1>1, <1>3, <1>4, <1>5, <1>6, <1>7, <1>8, <1>9
     DEF GatewayInv, EngineInv

\* An event happens.
LEMMA HappensKeeps ==
  ASSUME GatewayInv, Happens
  PROVE  GatewayInv'
<1>1. WriterInv' /\ UNCHANGED <<fuggo, fut, stateRow, said, writeFaults>>
  <2>1. UNCHANGED writerVars
    BY DEF Happens
  <2> QED
    BY <2>1, WriterIdle DEF GatewayInv
<1>2. /\ happened < MaxEvents /\ happened' = happened + 1 /\ sent' = sent + 1
      /\ UNCHANGED <<process, line, session, sequence, acked, szivveres, puffer, batch, stored,
                      valid, issued, cursor, silent, troubles>>
  BY DEF Happens, engineVars, collectorVars
<1>3. FlagsOK'
  BY <1>2, Zenon DEF GatewayInv, FlagsOK
<1>4. NumbersOK'
  BY <1>1, <1>2, Facts
       DEF GatewayInv, EngineInv, NumbersOK, ServesASession, NothingMadeUp, Counted,
           NoStrayBeat, StopsForGood, SaidOfSession, Open, Greeted, Lines, Null
<1>5. ServesASession'
  BY <1>1, <1>2, Facts
       DEF GatewayInv, EngineInv, NumbersOK, ServesASession, NothingMadeUp, Counted,
           NoStrayBeat, StopsForGood, SaidOfSession, Open, Greeted, Lines, Null
<1>6. NothingMadeUp'
  BY <1>1, <1>2, Facts
       DEF GatewayInv, EngineInv, NumbersOK, ServesASession, NothingMadeUp, Counted,
           NoStrayBeat, StopsForGood, SaidOfSession, Open, Greeted, Lines, Null
<1>7. NoStrayBeat'
  BY <1>1, <1>2, Facts
       DEF GatewayInv, EngineInv, NumbersOK, ServesASession, NothingMadeUp, Counted,
           NoStrayBeat, StopsForGood, SaidOfSession, Open, Greeted, Lines, Null
<1>8. StopsForGood'
  BY <1>1, <1>2, Facts
       DEF GatewayInv, EngineInv, NumbersOK, ServesASession, NothingMadeUp, Counted,
           NoStrayBeat, StopsForGood, SaidOfSession, Open, Greeted, Lines, Null
<1>9. SaidOfSession'
  BY <1>1, <1>2, Facts
       DEF GatewayInv, EngineInv, NumbersOK, ServesASession, NothingMadeUp, Counted,
           NoStrayBeat, StopsForGood, SaidOfSession, Open, Greeted, Lines, Null
<1> QED
  BY <1>1, <1>3, <1>4, <1>5, <1>6, <1>7, <1>8, <1>9
     DEF GatewayInv, EngineInv

\* Discord forgets the session.
LEMMA ForgetsKeeps ==
  ASSUME GatewayInv, Forgets
  PROVE  GatewayInv'
<1>1. WriterInv' /\ UNCHANGED <<fuggo, fut, stateRow, said, writeFaults>>
  <2>1. UNCHANGED writerVars
    BY DEF Forgets
  <2> QED
    BY <2>1, WriterIdle DEF GatewayInv
<1>2. /\ valid' = Null
      /\ UNCHANGED <<process, line, session, sequence, acked, szivveres, puffer, batch, stored,
                      issued, sent, cursor, silent, happened, troubles>>
  BY DEF Forgets, engineVars, collectorVars
<1>3. FlagsOK'
  BY <1>2, Zenon DEF GatewayInv, FlagsOK
<1>4. NumbersOK'
  BY <1>1, <1>2, Facts
       DEF GatewayInv, EngineInv, NumbersOK, ServesASession, NothingMadeUp, Counted,
           NoStrayBeat, StopsForGood, SaidOfSession, Open, Greeted, Lines, Null
<1>5. ServesASession'
  BY <1>1, <1>2, Facts
       DEF GatewayInv, EngineInv, NumbersOK, ServesASession, NothingMadeUp, Counted,
           NoStrayBeat, StopsForGood, SaidOfSession, Open, Greeted, Lines, Null
<1>6. NothingMadeUp'
  BY <1>1, <1>2, Facts
       DEF GatewayInv, EngineInv, NumbersOK, ServesASession, NothingMadeUp, Counted,
           NoStrayBeat, StopsForGood, SaidOfSession, Open, Greeted, Lines, Null
<1>7. NoStrayBeat'
  BY <1>1, <1>2, Facts
       DEF GatewayInv, EngineInv, NumbersOK, ServesASession, NothingMadeUp, Counted,
           NoStrayBeat, StopsForGood, SaidOfSession, Open, Greeted, Lines, Null
<1>8. StopsForGood'
  BY <1>1, <1>2, Facts
       DEF GatewayInv, EngineInv, NumbersOK, ServesASession, NothingMadeUp, Counted,
           NoStrayBeat, StopsForGood, SaidOfSession, Open, Greeted, Lines, Null
<1>9. SaidOfSession'
  BY <1>1, <1>2, Facts
       DEF GatewayInv, EngineInv, NumbersOK, ServesASession, NothingMadeUp, Counted,
           NoStrayBeat, StopsForGood, SaidOfSession, Open, Greeted, Lines, Null
<1> QED
  BY <1>1, <1>3, <1>4, <1>5, <1>6, <1>7, <1>8, <1>9
     DEF GatewayInv, EngineInv

\* The other side falls silent.
LEMMA FallsSilentKeeps ==
  ASSUME GatewayInv, FallsSilent
  PROVE  GatewayInv'
<1>1. WriterInv' /\ UNCHANGED <<fuggo, fut, stateRow, said, writeFaults>>
  <2>1. UNCHANGED writerVars
    BY DEF FallsSilent
  <2> QED
    BY <2>1, WriterIdle DEF GatewayInv
<1>2. /\ silent' = TRUE /\ troubles < MaxTroubles /\ troubles' = troubles + 1
      /\ UNCHANGED <<process, line, session, sequence, acked, szivveres, puffer, batch, stored,
                      valid, issued, sent, cursor, happened>>
  BY DEF FallsSilent, Trouble, engineVars, collectorVars
<1>3. FlagsOK'
  BY <1>2, Zenon DEF GatewayInv, FlagsOK
<1>4. NumbersOK'
  BY <1>1, <1>2, Facts
       DEF GatewayInv, EngineInv, NumbersOK, ServesASession, NothingMadeUp, Counted,
           NoStrayBeat, StopsForGood, SaidOfSession, Open, Greeted, Lines, Null
<1>5. ServesASession'
  BY <1>1, <1>2, Facts
       DEF GatewayInv, EngineInv, NumbersOK, ServesASession, NothingMadeUp, Counted,
           NoStrayBeat, StopsForGood, SaidOfSession, Open, Greeted, Lines, Null
<1>6. NothingMadeUp'
  BY <1>1, <1>2, Facts
       DEF GatewayInv, EngineInv, NumbersOK, ServesASession, NothingMadeUp, Counted,
           NoStrayBeat, StopsForGood, SaidOfSession, Open, Greeted, Lines, Null
<1>7. NoStrayBeat'
  BY <1>1, <1>2, Facts
       DEF GatewayInv, EngineInv, NumbersOK, ServesASession, NothingMadeUp, Counted,
           NoStrayBeat, StopsForGood, SaidOfSession, Open, Greeted, Lines, Null
<1>8. StopsForGood'
  BY <1>1, <1>2, Facts
       DEF GatewayInv, EngineInv, NumbersOK, ServesASession, NothingMadeUp, Counted,
           NoStrayBeat, StopsForGood, SaidOfSession, Open, Greeted, Lines, Null
<1>9. SaidOfSession'
  BY <1>1, <1>2, Facts
       DEF GatewayInv, EngineInv, NumbersOK, ServesASession, NothingMadeUp, Counted,
           NoStrayBeat, StopsForGood, SaidOfSession, Open, Greeted, Lines, Null
<1> QED
  BY <1>1, <1>3, <1>4, <1>5, <1>6, <1>7, <1>8, <1>9
     DEF GatewayInv, EngineInv

\* The writer's own steps.
LEMMA WriterStepsKeeps ==
  ASSUME GatewayInv, WriterSteps
  PROVE  GatewayInv'
<1>1. /\ WriterInv' /\ said' = said /\ FollowsOn(stateRow, stateRow')
      /\ writeFaults' = writeFaults \/ writeFaults' = writeFaults + 1
      /\ (process = "lastWrite" /\ writeFaults' = writeFaults /\ fuggo = Blank)
           => fuggo' = Blank
  <2>0. WriterInv /\ stateRow \in Entries
    BY Zenon DEF GatewayInv, WriterInv, WriterTypeOK
  <2>1. CASE TimerFires
    <3>1. Kiir
      BY <2>1 DEF TimerFires
    <3>2. WriterInv'
      BY <2>0, <3>1, KiirKeeps, Zenon
    <3>3. /\ said' = said /\ writeFaults' = writeFaults /\ stateRow' = stateRow
          /\ fuggo = Blank => fuggo' = Blank
      BY <3>1 DEF Kiir, NoneInFlight
    <3>4. FollowsOn(stateRow, stateRow)
      BY <2>0, StandsStill, Zenon
    <3> QED
      BY <3>2, <3>3, <3>4
  <2>2. CASE Written
    BY <2>0, <2>2, WrittenKeeps
  <2>3. CASE WriteFails
    <3>1. writeFaults \in Nat
      BY Facts
    <3> QED
      BY <2>0, <2>3, <3>1, FailureKeeps
  <2> QED
    BY <2>1, <2>2, <2>3 DEF WriterSteps
<1>2. /\ process # "exited" /\ process' = process
      /\ UNCHANGED <<line, session, sequence, acked, szivveres, puffer, batch, stored, valid,
                      issued, sent, cursor, silent, happened, troubles>>
  BY DEF WriterSteps, Alive, engineVars, collectorVars, discordVars
<1>3. FlagsOK'
  BY <1>2, Zenon DEF GatewayInv, FlagsOK
<1>4. NumbersOK'
  BY <1>1, <1>2, Facts
       DEF GatewayInv, EngineInv, NumbersOK, ServesASession, NothingMadeUp, Counted,
           NoStrayBeat, StopsForGood, SaidOfSession, Open, Greeted, Lines, Null
<1>5. ServesASession'
  BY <1>1, <1>2, Facts
       DEF GatewayInv, EngineInv, NumbersOK, ServesASession, NothingMadeUp, Counted,
           NoStrayBeat, StopsForGood, SaidOfSession, Open, Greeted, Lines, Null
<1>6. NothingMadeUp'
  BY <1>1, <1>2, Facts
       DEF GatewayInv, EngineInv, NumbersOK, ServesASession, NothingMadeUp, Counted,
           NoStrayBeat, StopsForGood, SaidOfSession, Open, Greeted, Lines, Null
<1>7. NoStrayBeat'
  BY <1>1, <1>2, Facts
       DEF GatewayInv, EngineInv, NumbersOK, ServesASession, NothingMadeUp, Counted,
           NoStrayBeat, StopsForGood, SaidOfSession, Open, Greeted, Lines, Null
<1>8. StopsForGood'
  BY <1>1, <1>2, Facts
       DEF GatewayInv, EngineInv, NumbersOK, ServesASession, NothingMadeUp, Counted,
           NoStrayBeat, StopsForGood, SaidOfSession, Open, Greeted, Lines, Null
<1>9. SaidOfSession'
  BY <1>1, <1>2, Facts
       DEF GatewayInv, EngineInv, NumbersOK, ServesASession, NothingMadeUp, Counted,
           NoStrayBeat, StopsForGood, SaidOfSession, Open, Greeted, Lines, Null
<1> QED
  BY <1>1, <1>3, <1>4, <1>5, <1>6, <1>7, <1>8, <1>9
     DEF GatewayInv, EngineInv

----------------------------------------------------------------------------
(* The theorems. *)

LEMMA GatewayStarts == GatewayInit => GatewayInv
<1> SUFFICES ASSUME GatewayInit
             PROVE  GatewayInv
  OBVIOUS
<1>1. /\ fuggo = Blank /\ fut = {} /\ idozito = FALSE /\ twice = FALSE /\ writeFaults = 0
      /\ stateRow = [Blank EXCEPT !.status = "disconnected"] /\ said = stateRow
  BY Zenon DEF GatewayInit, WriterInit
<1>2. Is(stateRow, "disconnected", 0, 0)
  <2>1. stateRow = Says("disconnected") /\ "disconnected" \in Statuses
    BY <1>1 DEF Says, Statuses
  <2> QED
    BY <2>1, Signals, Zenon
<1>3. stateRow \in Entries /\ stateRow.session = 0 /\ stateRow.sequence = 0
  BY <1>2, Zenon DEF Is
<1>4. UnderWay = Blank /\ Osszevon(stateRow, Blank) = stateRow
  BY <1>1, <1>3, TheOnlyOne, BlankOver, Zenon
<1>5. FollowsOn(stateRow, stateRow)
  BY <1>3, StandsStill, Zenon
<1>6. SaidIsOutstanding
  <2>1. \A c \in Counters : stateRow.n[c] \in Nat
    BY <1>3, EntryParts, Zenon
  <2>2. \A c \in Counters : stateRow.n[c] >= stateRow.n[c]
    BY <2>1
  <2>3. Tells(stateRow, Blank, Blank, stateRow, twice)
    BY <1>4, <2>2, Zenon DEF Tells
  <2> QED
    BY <1>1, <1>4, <2>3, Zenon DEF SaidIsOutstanding
<1>7. InOrder
  <2>1. RunsOn(stateRow, Blank, Blank)
    BY <1>4, <1>5, Zenon DEF RunsOn
  <2> QED
    BY <1>1, <1>4, <2>1, Zenon DEF InOrder
<1>8. WriterTypeOK
  <2>1. fuggo \in Entries /\ said \in Entries /\ fut \in SUBSET Entries
    BY <1>1, <1>3, BlankIsBlank
  <2>2. idozito \in BOOLEAN /\ twice \in BOOLEAN
    BY <1>1, Zenon
  <2>3. writeFaults \in 0 .. MaxWriteFaults
    BY <1>1, WriterAssumption
  <2> QED
    BY <1>3, <2>1, <2>2, <2>3, Zenon DEF WriterTypeOK
<1>9. OneInFlight /\ PendingIsScheduled
  BY <1>1, Zenon DEF OneInFlight, PendingIsScheduled
<1>10. WriterInv
  BY <1>6, <1>7, <1>8, <1>9, Zenon DEF WriterInv
<1>11. FlagsOK
  BY Zenon DEF GatewayInit, FlagsOK
<1>12. /\ process = "running" /\ line = "waiting" /\ session = Null /\ sequence = Null
       /\ puffer = 0 /\ batch = [timer |-> 0, leall |-> 0] /\ stored = 0
       /\ valid = Null /\ issued = 0 /\ sent = 0 /\ cursor = 0
       /\ happened = 0 /\ troubles = 0 /\ (szivveres => FALSE)
  BY DEF GatewayInit
<1>13. EngineInv
  <2>1. batch \in [{"timer", "leall"} -> Nat] /\ batch["timer"] = 0 /\ batch["leall"] = 0
    BY <1>12
  <2>2. NumbersOK
    BY <1>12, <2>1, GatewayAssumption DEF NumbersOK, Lines, Null
  <2>3. ServesASession /\ NothingMadeUp /\ NoStrayBeat /\ StopsForGood
    BY <1>12, <2>1 DEF ServesASession, NothingMadeUp, Counted, NoStrayBeat, StopsForGood, Null
  <2>4. SaidOfSession
    BY <1>1, <1>3, <1>12 DEF SaidOfSession, Null
  <2> QED
    BY <2>2, <2>3, <2>4 DEF EngineInv
<1> QED
  BY <1>10, <1>11, <1>13 DEF GatewayInv

LEMMA GatewayKeeps == GatewayInv /\ [GatewayNext]_gatewayVars => GatewayInv'
<1> SUFFICES ASSUME GatewayInv, [GatewayNext]_gatewayVars
             PROVE  GatewayInv'
  OBVIOUS
<1>1. CASE Engine
  <2>1. CASE Csatlakoz
    BY <2>1, CsatlakozKeeps
  <2>2. CASE Hello
    BY <2>2, HelloKeeps
  <2>3. CASE Ready
    BY <2>3, ReadyKeeps
  <2>4. CASE Resumed
    BY <2>4, ResumedKeeps
  <2>5. CASE Dispatch
    BY <2>5, DispatchKeeps
  <2>6. CASE Beats
    BY <2>6, BeatsKeeps
  <2>7. CASE HeartbeatAck
    BY <2>7, HeartbeatAckKeeps
  <2>8. CASE Closed
    <3>1. Lezarva(FALSE) /\ process # "exited" /\ troubles' = troubles
      BY <2>8 DEF Closed, Alive
    <3>2. FALSE \in BOOLEAN
      OBVIOUS
    <3> QED
      BY <3>1, <3>2, LezarvaKeeps, Zenon
  <2>9. CASE \E d \in BOOLEAN : InvalidSession(d)
    BY <2>9, InvalidSessionKeeps, Zenon
  <2> QED
    BY <1>1, <2>1, <2>2, <2>3, <2>4, <2>5, <2>6, <2>7, <2>8, <2>9, Zenon DEF Engine
<1>2. CASE Collector
  BY <1>2, FlushTimerKeeps, FlushTimerEndsKeeps DEF Collector
<1>3. CASE Shutdown
  BY <1>3, LeallKeeps, LeallClosesKeeps, KiuritKeeps, ExitsKeeps DEF Shutdown
<1>4. CASE Around
  <2>1. CASE Happens
    BY <2>1, HappensKeeps
  <2>2. CASE Forgets
    BY <2>2, ForgetsKeeps
  <2>3. CASE FallsSilent
    BY <2>3, FallsSilentKeeps
  <2>4. CASE ReconnectAsked
    BY <2>4, ReconnectAskedKeeps
  <2>5. CASE Dropped
    <3>1. /\ Lezarva(FALSE) /\ line \in Open
          /\ troubles' = troubles \/ (troubles < MaxTroubles /\ troubles' = troubles + 1)
          /\ process # "exited"
      BY <2>5 DEF Dropped, Trouble, Alive
    <3>2. FALSE \in BOOLEAN
      OBVIOUS
    <3> QED
      BY <3>1, <3>2, LezarvaKeeps, Zenon
  <2>6. CASE IdentifyRefused
    <3>1. Lezarva(TRUE) /\ process # "exited" /\ troubles' = troubles
      BY <2>6 DEF IdentifyRefused, Alive
    <3>2. TRUE \in BOOLEAN
      OBVIOUS
    <3> QED
      BY <3>1, <3>2, LezarvaKeeps, Zenon
  <2>7. CASE Restart
    BY <2>7, RestartKeeps
  <2> QED
    BY <1>4, <2>1, <2>2, <2>3, <2>4, <2>5, <2>6, <2>7, Zenon DEF Around
<1>5. CASE WriterSteps
  BY <1>5, WriterStepsKeeps
<1>6. CASE UNCHANGED gatewayVars
  <2>1. UNCHANGED writerVars /\ UNCHANGED <<process, line, session, sequence, acked, szivveres,
            puffer, batch, stored, valid, issued, sent, cursor, silent, happened, troubles>>
    BY <1>6 DEF gatewayVars, engineVars, collectorVars, discordVars
  <2>2. WriterInv' /\ UNCHANGED <<fuggo, fut, stateRow, said, writeFaults>>
    BY <2>1, WriterIdle DEF GatewayInv
  <2>3. FlagsOK'
    BY <2>1, Zenon DEF GatewayInv, FlagsOK
  <2>4. EngineInv'
    BY <2>1, <2>2 DEF GatewayInv, EngineInv, NumbersOK, ServesASession, NothingMadeUp, Counted,
                      NoStrayBeat, StopsForGood, SaidOfSession
  <2> QED
    BY <2>2, <2>3, <2>4 DEF GatewayInv
<1> QED
  BY <1>1, <1>2, <1>3, <1>4, <1>5, <1>6, Zenon DEF GatewayNext

LEMMA GatewayInvIsSafe == GatewayInv => GatewaySafe
<1> SUFFICES ASSUME GatewayInv
             PROVE  GatewaySafe
  OBVIOUS
<1>1. WriterTypeOK /\ PendingIsScheduled /\ SaidIsOutstanding /\ OneInFlight
  BY Zenon DEF GatewayInv, WriterInv
<1>2. GatewayTypeOK
  <2>1. FlagsOK
    BY Zenon DEF GatewayInv
  <2>2. NumbersOK
    BY Zenon DEF GatewayInv, EngineInv
  <2> QED
    BY <1>1, <2>1, <2>2, Zenon DEF GatewayTypeOK, FlagsOK, NumbersOK
<1>3. /\ stateRow \in Entries /\ fuggo \in Entries /\ said \in Entries /\ UnderWay \in Entries
  BY <1>1, TheOnlyOne, Zenon DEF WriterTypeOK
<1>4. NothingSaidIsLost
  <2>1. Outstanding \in Entries
    BY <1>3, Laid, Zenon DEF Outstanding
  <2>2. /\ Outstanding.status = said.status /\ Outstanding.session = said.session
        /\ Outstanding.sequence = said.sequence /\ Outstanding.event = said.event
        /\ \A c \in Counters : Outstanding.n[c] >= said.n[c] /\ (~twice => Outstanding.n[c] = said.n[c])
    BY <1>1, Zenon DEF SaidIsOutstanding, Tells, Outstanding
  <2>3. [Outstanding EXCEPT !.n = said.n] = said
    BY <1>3, <2>1, <2>2, OtherCounts, Zenon
  <2> QED
    BY <2>2, <2>3, Zenon DEF NothingSaidIsLost
<1>5. NeverCountedTwice
  BY DEF GatewayInv, EngineInv, NothingMadeUp, Counted, NeverCountedTwice
<1>6. NoStrayBeat
  BY Zenon DEF GatewayInv, EngineInv
<1>7. StoppedSaysSo
  <2> SUFFICES ASSUME process = "exited", writeFaults = 0
               PROVE  stateRow.status = "disconnected"
    BY DEF StoppedSaysSo
  <2>1. fuggo = Blank /\ fut = {} /\ said.status = "disconnected"
    BY DEF GatewayInv, EngineInv, StopsForGood
  <2>2. UnderWay = Blank /\ Osszevon(stateRow, Blank) = stateRow
    BY <1>3, <2>1, TheOnlyOne, BlankOver, Zenon
  <2>3. Osszevon(Osszevon(stateRow, UnderWay), fuggo).status = said.status
    BY <1>1, Zenon DEF SaidIsOutstanding, Tells
  <2> QED
    BY <2>1, <2>2, <2>3, Zenon
<1> QED
  BY <1>1, <1>2, <1>4, <1>5, <1>6, <1>7, Zenon DEF GatewaySafe

\* The gateway process and its row, at every moment: no signal is lost or overtaken
\* through failed writes (AllapotIro.jelez, kiir), what is pending will be written, no
\* event is counted twice (Gyujto.kiir, RESUME), no heartbeat of an old socket beats
\* on a new one (lezarva), and a stop in which the database answered says so (leall).
THEOREM GatewayIsSafe == GatewaySpec => []GatewaySafe
<1> QED
  BY GatewayStarts, GatewayKeeps, GatewayInvIsSafe, PTL DEF GatewaySpec

\* The row of discord_gateway_state never goes back to an older session or to an older
\* number of the same one: a failed write goes back under what is pending (kiir's
\* catch), and one write at a time reaches the database.
THEOREM RowNeverStepsBack == GatewaySpec => NeverStepsBack
<1> DEFINE Forwards == FollowsOn(stateRow, stateRow')
<1>1. GatewayInv /\ [GatewayNext]_gatewayVars => [Forwards]_gatewayVars
  <2> SUFFICES ASSUME GatewayInv, GatewayNext
               PROVE  Forwards
    OBVIOUS
  <2>1. WriterInv /\ stateRow \in Entries
    BY Zenon DEF GatewayInv, WriterInv, WriterTypeOK
  <2>2. stateRow' = stateRow => Forwards
    <3>1. FollowsOn(stateRow, stateRow)
      BY <2>1, StandsStill, Zenon
    <3> QED
      BY <3>1, Zenon
  <2>3. ASSUME NEW m, Jelez(m)
        PROVE  stateRow' = stateRow
    BY <2>3 DEF Jelez
  <2>4. UNCHANGED writerVars => stateRow' = stateRow
    BY DEF writerVars
  <2>5. Kiir => stateRow' = stateRow
    BY DEF Kiir
  <2>6. CASE Engine \/ Collector
    <3>1. \/ UNCHANGED writerVars
          \/ \E m : Jelez(m)
      BY <2>6, Zenon DEF Engine, Collector, Csatlakoz, Hello, Ready, Resumed, Dispatch, Beats,
             HeartbeatAck, Closed, Lezarva, InvalidSession, FlushTimer, FlushTimerEnds, Quiet
    <3> QED
      BY <2>2, <2>3, <2>4, <3>1
  <2>7. CASE Shutdown
    <3>1. \/ UNCHANGED writerVars
          \/ Kiir
          \/ \E m : Jelez(m)
      BY <2>7, Zenon DEF Shutdown, Leall, LeallCloses, Kiurit, Exits
    <3> QED
      BY <2>2, <2>3, <2>4, <2>5, <3>1
  <2>8. CASE Around
    <3>1. \/ UNCHANGED writerVars
          \/ \E m : Jelez(m)
          \/ Restart
      BY <2>8, Zenon DEF Around, Happens, Forgets, FallsSilent, ReconnectAsked, Dropped,
             IdentifyRefused, Lezarva, Quiet
    <3>2. CASE Restart
      <4>1. WriterLost /\ writeFaults' = writeFaults + 1 /\ writeFaults < MaxWriteFaults
        BY <3>2 DEF Restart
      <4>2. writeFaults' \in 0 .. MaxWriteFaults
        BY <4>1, Facts, WriterAssumption
      <4> QED
        BY <2>1, <4>1, <4>2, LossKeeps
    <3> QED
      BY <2>2, <2>3, <2>4, <3>1, <3>2
  <2>9. CASE WriterSteps
    BY <2>1, <2>2, <2>5, <2>9, WrittenKeeps, FailureKeeps DEF WriterSteps, TimerFires
  <2> QED
    BY <2>6, <2>7, <2>8, <2>9, Zenon DEF GatewayNext
<1>2. [Forwards]_gatewayVars
        => [ \/ stateRow'.session > stateRow.session
             \/ stateRow'.session = stateRow.session /\ stateRow'.sequence >= stateRow.sequence
           ]_gatewayVars
  BY Zenon DEF FollowsOn
<1> QED
  BY <1>1, <1>2, GatewayStarts, GatewayKeeps, PTL DEF GatewaySpec, NeverStepsBack
=============================================================================
