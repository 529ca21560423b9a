------------------------------- MODULE Wake -------------------------------
(* How an idle worker learns of work (src/apps/api/src/infrastructure/queue/wake.ts
   and the lanes in index.ts): a lane that finds nothing sleeps, until a
   notification of Postgres, the end of its wait or the abort of the process.

   Which lane gets which job, and what becomes of it, is JobQueue's business: here
   a job is ready or taken.  The notification is sent after the insert; it is heard
   by every connection that listens at that moment, or by nobody.

   The process means to have one such connection.  It can have several: the loss of
   one whose LISTEN is under way is scheduled twice, by the error event and by the
   rejected query (lines 201-206 and 223-225). *)
EXTENDS Naturals, FiniteSets

CONSTANTS Sleepers, Work,         \* the lanes of one worker process; jobs
          Links                   \* the pg.Clients connectListener may create

\* Bounds of the model, not of the code.
CONSTANTS MaxDeaf,             \* connections lost or refused, claims that failed
          MaxDues              \* jobs that come due by themselves

ASSUME WakeAssumption == MaxDeaf \in Nat /\ MaxDues \in Nat /\ IsFiniteSet(Links)

VARIABLES inserted,    \* jobs that exist
          ready,       \* jobs a claim would find
          notifying,   \* jobs inserted, their NOTIFY not sent yet
          notices,     \* <<k, j>>: the notification of j on its way to connection k
          lane,        \* where each lane is
          link,        \* the state of each connection
          held,      \* the connection the variable `client` holds, or none
          timers,      \* reconnects that are scheduled
          aborted,
          overslept,   \* history: jobs that nobody may have been woken for
          doubled,     \* history: losses that were scheduled twice
          leftOpen,    \* history: the stop fell into a connect or a LISTEN
          deaf, dues

linkVars == <<link, held, timers, doubled, leftOpen>>
wakeVars == <<inserted, ready, notifying, notices, lane, aborted, overslept, linkVars,
              deaf, dues>>

\* "asking": at the loop's head.  "emptyHanded": the claim found nothing, the lane
\* is not in sleepers yet.  "asleep": it is.
LaneStates == {"asking", "emptyHanded", "asleep", "working", "ended"}

\* "listening": the LISTENs are sent, one after the other; notifications have no
\* handler yet.  "mute": a LISTEN was refused and the connection is still open.
LinkStates == {"none", "connecting", "listening", "up", "mute"}
OpenLinks == {k \in Links : link[k] # "none"}
UpLinks == {k \in Links : link[k] = "up"}

WakeInit ==
  /\ inserted = {} /\ ready = {} /\ notifying = {} /\ notices = {}
  /\ lane = [l \in Sleepers |-> "asking"]
  /\ \E k \in Links : link = [c \in Links |-> IF c = k THEN "connecting" ELSE "none"]
  /\ held = {} /\ timers = 0 /\ aborted = FALSE
  /\ overslept = {} /\ doubled = 0 /\ leftOpen = FALSE /\ deaf = 0 /\ dues = 0

Deaf == deaf < MaxDeaf /\ deaf' = deaf + 1

----------------------------------------------------------------------------
\* Mutant of Inserts: the row becomes visible after the notification (a transaction
\* around both).
InsertsLater(j) ==
  /\ IF j \notin inserted
     THEN inserted' = inserted \cup {j} /\ notifying' = notifying \cup {j} /\ UNCHANGED ready
     ELSE j \notin notifying \cup ready /\ ready' = ready \cup {j}
          /\ UNCHANGED <<inserted, notifying>>
  /\ UNCHANGED <<notices, lane, aborted, overslept, linkVars, deaf, dues>>

\* enqueue: the job is inserted, due at once, within the second or later; who is due
\* later is not announced.
Inserts(j) ==
  /\ j \notin inserted /\ inserted' = inserted \cup {j}
  /\ \E due, soon \in BOOLEAN :
       /\ due => soon
       /\ ready' = IF due THEN ready \cup {j} ELSE ready
       /\ notifying' = IF soon THEN notifying \cup {j} ELSE notifying
  /\ UNCHANGED <<notices, lane, aborted, overslept, linkVars, deaf, dues>>

\* A job a claim would not have found is there: its time has come, its backoff is
\* over, it is retried by hand, its lease went stale.  Nothing announces it.
ComesDue(j) ==
  /\ j \in inserted \ ready /\ dues < MaxDues /\ dues' = dues + 1
  /\ ready' = ready \cup {j} /\ overslept' = overslept \cup {j}
  /\ UNCHANGED <<inserted, notifying, notices, lane, aborted, linkVars, deaf>>

\* notifyJob, after the insert; what nobody listens to is gone.
NotifyJob(j) ==
  /\ j \in notifying /\ notifying' = notifying \ {j}
  /\ notices' = notices \cup (UpLinks \X {j})
  /\ overslept' = IF UpLinks = {} THEN overslept \cup {j} ELSE overslept
  /\ UNCHANGED <<inserted, ready, lane, aborted, linkVars, deaf, dues>>

\* A lane that is woken looks at the signal, then asks.
Woken == IF aborted THEN "ended" ELSE "asking"

\* wakeAll.  A lane that has its empty answer and does not sleep yet misses it.
WakeAll(k, j) ==
  /\ <<k, j>> \in notices /\ notices' = notices \ {<<k, j>>}
  /\ lane' = [l \in Sleepers |-> IF lane[l] = "asleep" THEN Woken ELSE lane[l]]
  /\ overslept' = IF \E l \in Sleepers : lane[l] = "emptyHanded" THEN overslept \cup {j}
                  ELSE overslept
  /\ UNCHANGED <<inserted, ready, notifying, aborted, linkVars, deaf, dues>>

\* Mutant of WaitEnds: a timer that does not keep the event loop alive.
WaitEndsNever(l) == FALSE /\ UNCHANGED wakeVars

\* The wait is over: the safety net.
WaitEnds(l) ==
  /\ lane[l] = "asleep" /\ lane' = [lane EXCEPT ![l] = Woken]
  /\ UNCHANGED <<inserted, ready, notifying, notices, aborted, overslept, linkVars, deaf, dues>>

----------------------------------------------------------------------------
\* The loop's head and claim.  A claim that was sent is answered, whatever
\* happens to the signal meanwhile.
Asks(l) ==
  /\ lane[l] = "asking"
  /\ \/ \E j \in ready : ready' = ready \ {j} /\ lane' = [lane EXCEPT ![l] = "working"]
     \/ ready = {} /\ UNCHANGED ready /\ lane' = [lane EXCEPT ![l] = "emptyHanded"]
  /\ UNCHANGED <<inserted, notifying, notices, aborted, overslept, linkVars, deaf, dues>>

\* The database cannot be asked: as if there were nothing.
AskFails(l) ==
  /\ lane[l] = "asking" /\ Deaf
  /\ lane' = [lane EXCEPT ![l] = "emptyHanded"]
  /\ overslept' = overslept \cup ready
  /\ UNCHANGED <<inserted, ready, notifying, notices, aborted, linkVars, dues>>

\* sleepUntilWork: an abort that has already happened is not seen any more.
FallsAsleep(l) ==
  /\ lane[l] = "emptyHanded" /\ lane' = [lane EXCEPT ![l] = "asleep"]
  /\ UNCHANGED <<inserted, ready, notifying, notices, aborted, overslept, linkVars, deaf, dues>>

\* runOne
Works(l) ==
  /\ lane[l] = "working" /\ lane' = [lane EXCEPT ![l] = Woken]
  /\ UNCHANGED <<inserted, ready, notifying, notices, aborted, overslept, linkVars, deaf, dues>>

----------------------------------------------------------------------------
(* The listening connections. *)

\* A connection that ends takes with it what was on its way to it.
LosesNotices(k) ==
  /\ notices' = {n \in notices : n[1] # k}
  /\ overslept' = overslept \cup {j \in inserted : <<k, j>> \in notices}

\* schedule, which does nothing after the stop.
SchedulesLink(n) == timers' = IF aborted THEN timers ELSE timers + n
Doubled == doubled' = IF aborted THEN doubled ELSE doubled + 1

\* SIGTERM: who sleeps wakes and ends; stop ends the connection in `client`, and
\* no other.
StopsWaiting ==
  /\ ~aborted /\ aborted' = TRUE
  /\ lane' = [l \in Sleepers |-> IF lane[l] = "asleep" THEN "ended" ELSE lane[l]]
  /\ link' = [k \in Links |-> IF k \in held THEN "none" ELSE link[k]]
  /\ held' = {}
  /\ notices' = {n \in notices : n[1] \notin held}
  /\ overslept' = overslept \cup {j \in inserted : \E k \in held : <<k, j>> \in notices}
  /\ leftOpen' = (\E k \in Links : link[k] \in {"connecting", "listening"})
  /\ UNCHANGED <<inserted, ready, notifying, timers, doubled, deaf, dues>>

\* connect: await next.connect().
LinkConnects(k) ==
  /\ link[k] = "connecting" /\ link' = [link EXCEPT ![k] = "listening"]
  /\ UNCHANGED <<inserted, ready, notifying, notices, lane, aborted, overslept, held,
                 timers, doubled, leftOpen, deaf, dues>>

\* The last LISTEN is answered: the handler is attached, the stop is not asked about.
LinkListens(k) ==
  /\ link[k] = "listening" /\ link' = [link EXCEPT ![k] = "up"] /\ held' = {k}
  /\ UNCHANGED <<inserted, ready, notifying, notices, lane, aborted, overslept, timers,
                 doubled, leftOpen, deaf, dues>>

\* The connect is refused: the catch schedules.
LinkRefused(k) ==
  /\ link[k] = "connecting" /\ Deaf
  /\ link' = [link EXCEPT ![k] = "none"] /\ SchedulesLink(1)
  /\ UNCHANGED <<inserted, ready, notifying, notices, lane, aborted, overslept, held,
                 doubled, leftOpen, dues>>

\* A LISTEN is refused and the connection stays: the catch schedules another and
\* ends nothing.
ListenRefused(k) ==
  /\ link[k] = "listening" /\ Deaf
  /\ link' = [link EXCEPT ![k] = "mute"] /\ SchedulesLink(1) /\ Doubled
  /\ UNCHANGED <<inserted, ready, notifying, notices, lane, aborted, overslept, held,
                 leftOpen, dues>>

\* The connection breaks: the error event schedules; during the LISTEN the catch
\* schedules too.
LinkDrops(k) ==
  /\ link[k] \in {"listening", "up", "mute"} /\ Deaf
  /\ link' = [link EXCEPT ![k] = "none"] /\ held' = held \ {k}
  /\ IF link[k] = "listening" THEN SchedulesLink(2) /\ Doubled
     ELSE SchedulesLink(1) /\ UNCHANGED doubled
  /\ LosesNotices(k)
  /\ UNCHANGED <<inserted, ready, notifying, lane, aborted, leftOpen, dues>>

\* The timer of schedule: connect.
LinkTimerFires ==
  /\ timers > 0 /\ timers' = timers - 1
  /\ \/ aborted /\ UNCHANGED link
     \/ /\ ~aborted
        /\ \E k \in Links \ OpenLinks : link' = [link EXCEPT ![k] = "connecting"]
  /\ UNCHANGED <<inserted, ready, notifying, notices, lane, aborted, overslept, held,
                 doubled, leftOpen, deaf, dues>>

----------------------------------------------------------------------------
LaneSteps(l) == WaitEnds(l) \/ Asks(l) \/ AskFails(l) \/ FallsAsleep(l) \/ Works(l)
LinkSteps(k) ==
  \/ LinkConnects(k) \/ LinkListens(k) \/ LinkRefused(k) \/ ListenRefused(k) \/ LinkDrops(k)

WakeNext ==
  \/ \E j \in Work : Inserts(j) \/ ComesDue(j) \/ NotifyJob(j)
  \/ \E k \in Links, j \in Work : WakeAll(k, j)
  \/ \E l \in Sleepers : LaneSteps(l)
  \/ \E k \in Links : LinkSteps(k)
  \/ StopsWaiting \/ LinkTimerFires

WakeSpec == WakeInit /\ [][WakeNext]_wakeVars

----------------------------------------------------------------------------
\* The shape of the state; no lane ends before the abort, and the connection in
\* `client` is one that listens.
WakeTypeOK ==
  /\ inserted \subseteq Work /\ ready \subseteq inserted
  /\ notifying \subseteq inserted /\ notices \subseteq UpLinks \X inserted
  /\ overslept \subseteq inserted
  /\ lane \in [Sleepers -> LaneStates] /\ link \in [Links -> LinkStates]
  /\ held \subseteq UpLinks /\ timers \in Nat /\ doubled \in Nat
  /\ aborted \/ \A l \in Sleepers : lane[l] # "ended"
  /\ aborted \in BOOLEAN /\ leftOpen \in BOOLEAN /\ deaf \in 0 .. MaxDeaf
  /\ dues \in 0 .. MaxDues

\* No lane sleeps beside a job that waits: its notification is on the way, or nobody
\* was told of it (it came due by itself, nobody listened, the connection that was to
\* hear it broke or was ended, the claim failed), or it was heard when a lane had just
\* found nothing.  In these cases, and in no other, the job waits for the safety net.
NobodySleepsOnWork ==
  ready # {} /\ (\E l \in Sleepers : lane[l] = "asleep") =>
    \A j \in ready : j \in notifying \cup overslept \/ \E k \in Links : <<k, j>> \in notices

\* Before the stop the listener is never given up and never multiplies by itself: for
\* the one connection that is meant to be there is one, or one timer, and one more
\* for each loss that was scheduled twice.
ListenerIsKept == ~aborted => timers + Cardinality(OpenLinks) = 1 + doubled

\* After the stop no connection is left, which would keep the process alive, unless a
\* connect or a LISTEN was under way at the stop or a loss had been scheduled twice.
StoppedListens == aborted /\ OpenLinks # {} => leftOpen \/ doubled > 0

\* However many notifications are lost, a job is taken in the end.
NoWorkForgotten == \A j \in Work : j \in ready ~> j \notin ready \/ aborted

\* Every lane ends after the abort, the one included that missed it between its
\* claim and its sleep.
LanesEnd == aborted ~> \A l \in Sleepers : lane[l] = "ended"

\* The listener comes back after whatever broke, though the reconnect is refused, or
\* breaks in its LISTEN, again.
ListenerReturns == timers > 0 ~> aborted \/ UpLinks # {}

\* Lanes, their wake-up and the listener at every moment: nobody sleeps on work without
\* one of the named reasons, the listener is neither given up nor multiplied but by a
\* loss scheduled twice, and the stop leaves only what it is known to leave.
WakeSafe ==
  /\ WakeTypeOK
  /\ NobodySleepsOnWork
  /\ ListenerIsKept
  /\ StoppedListens

\* What lanes owe: the work is taken, they end when they are told to, and they can
\* be told of work again.
WakeBehaves ==
  /\ NoWorkForgotten
  /\ LanesEnd
  /\ ListenerReturns
=============================================================================
