------------------------------ MODULE Gateway ------------------------------
(* The gateway process (src/apps/api/src/modules/discord/gateway-main.ts): the
   connection to Discord with its heartbeat, session and reconnects, the counters
   it collects (Gyujto in gateway.ts), the signals it gives to the writer of its
   row (StateWriter) and its shutdown.

   Discord is external: it greets a new connection, accepts a session it still
   knows and refuses any other, delivers the events of a session in order, and
   after RESUME those that followed the number it was given.  resume_gateway_url
   comes and goes with session_id, so the session stands for both.  The lengths of
   the waits (heartbeat, ujraVaras) are left out; commands and greetings, which
   an event may start, are not part of this process's state. *)
EXTENDS StateWriter

\* Bounds of the model, not of the code.
CONSTANTS MaxEvents,      \* events of Discord that are counted
          MaxTroubles,    \* connections lost or reset, silences, sessions forgotten
          MaxReconnects   \* never reached by the model of the code

ASSUME GatewayAssumption ==
  MaxEvents \in Nat /\ MaxTroubles \in Nat /\ MaxReconnects \in Nat

Null == 0        \* sessionId and sequence when they are null

VARIABLES process,    \* "running", "flushing", "draining", "lastWrite" (in leall), "exited"
          line,       \* the connection, see Lines
          session, sequence, acked,      \* EngineState
          szivveres,                     \* the first heartbeat's timer, or the interval
          puffer,     \* events counted in memory
          batch,      \* in flight to the database: of the flush timer, of leall
          stored,     \* events in discord_message_stats_daily
          valid, issued,  \* the session Discord accepts, the last one it gave
          sent,       \* the number of the last event of that session
          cursor,     \* the last event delivered on this connection
          silent,     \* the other side of this connection is dead
          happened, troubles

engineVars == <<line, session, sequence, acked, szivveres>>
collectorVars == <<puffer, batch, stored>>
discordVars == <<valid, issued, sent, cursor, silent, happened>>
gatewayVars == <<writerVars, process, engineVars, collectorVars, discordVars, troubles>>

\* "waiting": for setTimeout(csatlakoz).  "open": asked for, not greeted.  "identifying" and
\* "resuming": greeted, the request sent.  "closing": close() called.
Open == {"open", "identifying", "resuming", "ready"}
Greeted == Open \ {"open"}
Lines == Open \cup {"waiting", "closing", "failed", "down"}

GatewayInit ==
  /\ WriterInit
  /\ process = "running" /\ line = "waiting"
  /\ session = Null /\ sequence = Null /\ acked = TRUE
  /\ szivveres = FALSE
  /\ puffer = 0 /\ batch = [timer |-> 0, leall |-> 0] /\ stored = 0
  /\ valid = Null /\ issued = 0 /\ sent = 0 /\ cursor = 0 /\ silent = FALSE
  /\ happened = 0 /\ troubles = 0

Alive == process # "exited"
Trouble == troubles < MaxTroubles /\ troubles' = troubles + 1
Quiet == UNCHANGED writerVars      \* nothing is signalled

Says(s) == [Blank EXCEPT !.status = s]

----------------------------------------------------------------------------
Folytathato == session # Null /\ sequence # Null

\* csatlakoz.  The open event only resets the count of attempts, on which the
\* waits depend.
Csatlakoz ==
  /\ Alive /\ line = "waiting" /\ said.n["reconnect"] < MaxReconnects
  /\ IF process # "running" THEN line' = "down" /\ Quiet
     ELSE /\ line' = "open"
          /\ Jelez(Says(IF Folytathato THEN "resuming" ELSE "connecting"))
  /\ silent' = FALSE
  /\ UNCHANGED <<process, session, sequence, acked, szivveres, collectorVars,
                 valid, issued, sent, cursor, happened, troubles>>

\* HELLO: the timers start anew, then resume or identify.
Hello ==
  /\ Alive /\ line = "open"
  /\ acked' = TRUE /\ szivveres' = TRUE
  /\ IF Folytathato THEN line' = "resuming" /\ cursor' = sequence
     ELSE line' = "identifying" /\ UNCHANGED cursor
  /\ UNCHANGED <<writerVars, process, session, sequence, collectorVars, valid, issued,
                 sent, silent, happened, troubles>>

\* READY: a new session, and its first event.
Ready ==
  /\ Alive /\ line = "identifying" /\ ~silent
  /\ issued' = issued + 1 /\ valid' = issued' /\ sent' = 1 /\ cursor' = 1
  /\ session' = issued' /\ sequence' = 1 /\ line' = "ready"
  /\ Jelez([Says("ready") EXCEPT !.event = TRUE, !.session = issued', !.sequence = 1,
                                 !.n = Once("identified")])
  /\ UNCHANGED <<process, acked, szivveres, collectorVars, silent, happened, troubles>>

\* RESUMED, after what was missed; it has a number of its own.
Resumed ==
  /\ Alive /\ line = "resuming" /\ ~silent /\ session = valid /\ cursor = sent
  /\ sent' = sent + 1 /\ cursor' = sent' /\ sequence' = sent' /\ line' = "ready"
  /\ Jelez([Says("ready") EXCEPT !.event = TRUE, !.n = Once("resumed")])
  /\ UNCHANGED <<process, session, acked, szivveres, collectorVars, valid, issued,
                 silent, happened, troubles>>

\* INVALID_SESSION: d = FALSE forgets the session.  Discord says so of a session
\* it does not know; it may also put off any request.
InvalidSession(d) ==
  /\ Alive /\ line \in {"identifying", "resuming"} /\ ~silent
  /\ IF line = "resuming" /\ session # valid THEN ~d /\ UNCHANGED troubles ELSE Trouble
  /\ IF d THEN UNCHANGED <<session, sequence>> ELSE session' = Null /\ sequence' = Null
  /\ line' = "closing"
  /\ UNCHANGED <<writerVars, process, acked, szivveres, collectorVars, discordVars>>

\* An event: its number is kept, it is counted, and the number signalled.
Dispatch ==
  /\ Alive /\ line \in {"resuming", "ready"} /\ ~silent /\ session = valid /\ cursor < sent
  /\ cursor' = cursor + 1 /\ sequence' = cursor' /\ puffer' = puffer + 1
  /\ Jelez([Blank EXCEPT !.event = TRUE, !.sequence = sequence'])
  /\ UNCHANGED <<process, line, session, acked, szivveres, batch, stored, valid,
                 issued, sent, silent, happened, troubles>>

\* RECONNECT
ReconnectAsked ==
  /\ Alive /\ line \in Open /\ ~silent /\ Trouble
  /\ line' = "closing"
  /\ UNCHANGED <<writerVars, process, session, sequence, acked, szivveres,
                 collectorVars, discordVars>>

----------------------------------------------------------------------------
\* szivver: with the last one unacknowledged the connection is a zombie.
Szivver ==
  IF acked THEN acked' = FALSE /\ UNCHANGED line
  ELSE UNCHANGED acked /\ line' = IF line \in Open THEN "closing" ELSE line

\* The heartbeat's timer.  Its interval is longer than Discord takes to
\* acknowledge, unless the other side is silent.
Beats ==
  /\ Alive /\ szivveres /\ (acked \/ silent)
  /\ Szivver
  /\ UNCHANGED <<writerVars, process, session, sequence, szivveres, collectorVars, discordVars,
                 troubles>>

\* HEARTBEAT_ACK
HeartbeatAck ==
  /\ Alive /\ line \in Greeted /\ ~silent /\ ~acked
  /\ acked' = TRUE
  /\ Jelez([Blank EXCEPT !.event = TRUE])
  /\ UNCHANGED <<process, line, session, sequence, szivveres, collectorVars,
                 discordVars, troubles>>

\* The close event.  In a shutdown it is the end, after a fatal code a person must
\* help, otherwise csatlakoz is scheduled.
Lezarva(fatal) ==
  /\ szivveres' = FALSE
  /\ IF process # "running" THEN line' = "down" /\ Quiet
     ELSE IF fatal THEN line' = "failed" /\ Jelez(Says("failed"))
     ELSE line' = "waiting" /\ Jelez([Says("disconnected") EXCEPT !.n = Once("reconnect")])
  /\ UNCHANGED <<process, session, sequence, acked, collectorVars, discordVars>>

Closed == Alive /\ line = "closing" /\ Lezarva(FALSE) /\ UNCHANGED troubles
Dropped == Alive /\ line \in Open /\ Trouble /\ Lezarva(FALSE)
\* The codes of vegzetes: a bad token, a privileged intent.
IdentifyRefused == Alive /\ line = "identifying" /\ ~silent /\ Lezarva(TRUE) /\ UNCHANGED troubles

----------------------------------------------------------------------------
\* Gyujto.kiir: the buffer is emptied before the write.
FlushBegins(who) ==
  /\ batch' = [batch EXCEPT ![who] = puffer]
  /\ puffer' = 0
  /\ UNCHANGED stored

\* The flush timer; a second write of its own meanwhile is left out.
FlushTimer ==
  /\ process = "running" /\ batch["timer"] = 0 /\ puffer > 0
  /\ FlushBegins("timer")
  /\ UNCHANGED <<writerVars, process, engineVars, discordVars, troubles>>

\* The write ends, or fails: what it held is not tried again.
FlushEnds(who) == \E done \in BOOLEAN :
  /\ stored' = IF done THEN stored + batch[who] ELSE stored
  /\ batch' = [batch EXCEPT ![who] = 0]
  /\ UNCHANGED puffer

FlushTimerEnds ==
  /\ Alive /\ batch["timer"] > 0 /\ FlushEnds("timer")
  /\ UNCHANGED <<writerVars, process, engineVars, discordVars, troubles>>

----------------------------------------------------------------------------
\* leall, to its first await: the heartbeat stops, the last flush begins.
Leall ==
  /\ process = "running" /\ process' = "flushing"
  /\ szivveres' = FALSE
  /\ FlushBegins("leall")
  /\ UNCHANGED <<writerVars, line, session, sequence, acked, discordVars, troubles>>

\* The flush is through: the connection is closed, the row says so.
LeallCloses ==
  /\ process = "flushing" /\ process' = "draining"
  /\ FlushEnds("leall")
  /\ line' = IF line \in Open THEN "closing" ELSE line
  /\ Jelez(Says("disconnected"))
  /\ UNCHANGED <<session, sequence, acked, szivveres, discordVars, troubles>>

\* kiurit, when the write under way has ended: what is pending is written.
Kiurit ==
  /\ process = "draining" /\ fut = {}
  /\ IF fuggo = Blank THEN process' = "exited" /\ UNCHANGED writerVars
     ELSE process' = "lastWrite" /\ Kiir
  /\ UNCHANGED <<engineVars, collectorVars, discordVars, troubles>>

\* That was the only attempt.
Exits ==
  /\ process = "lastWrite" /\ fut = {}
  /\ process' = "exited"
  /\ UNCHANGED <<writerVars, engineVars, collectorVars, discordVars, troubles>>

\* The process is replaced: killed, or after its exit.  The new one knows no session.
Restart ==
  /\ writeFaults < MaxWriteFaults /\ writeFaults' = writeFaults + 1
  /\ process' = "running" /\ line' = "waiting"
  /\ session' = Null /\ sequence' = Null /\ acked' = TRUE
  /\ szivveres' = FALSE
  /\ puffer' = 0 /\ batch' = [timer |-> 0, leall |-> 0]
  /\ stored' \in {stored, stored + batch["timer"], stored + batch["leall"],
                  stored + batch["timer"] + batch["leall"]}
  /\ WriterLost
  /\ UNCHANGED <<discordVars, troubles>>

----------------------------------------------------------------------------
\* An event happens in a session Discord keeps, connected or not.
Happens ==
  /\ valid # Null /\ happened < MaxEvents
  /\ happened' = happened + 1 /\ sent' = sent + 1
  /\ UNCHANGED <<writerVars, process, engineVars, collectorVars, valid, issued, cursor,
                 silent, troubles>>

\* Discord forgets the session of a connection that was lost.
Forgets ==
  /\ valid # Null /\ line \notin Greeted
  /\ valid' = Null
  /\ UNCHANGED <<writerVars, process, engineVars, collectorVars, issued, sent, cursor,
                 silent, happened, troubles>>

\* The other side of a greeted connection falls silent.  (An opened connection
\* that is never greeted has no timer at all: the code waits for ever.)
FallsSilent ==
  /\ line \in Greeted /\ ~silent /\ Trouble
  /\ silent' = TRUE
  /\ UNCHANGED <<writerVars, process, engineVars, collectorVars, valid, issued, sent,
                 cursor, happened>>

----------------------------------------------------------------------------
\* The writer's own steps.  Its timer no longer fires once leall waits for kiurit,
\* and everything ends with the process.
WriterSteps ==
  /\ Alive
  /\ \/ TimerFires /\ process \in {"running", "flushing"}
     \/ Written
     \/ WriteFails
  /\ UNCHANGED <<process, engineVars, collectorVars, discordVars, troubles>>

Engine == \/ Csatlakoz \/ Hello \/ Ready \/ Resumed \/ Dispatch
          \/ Beats \/ HeartbeatAck \/ Closed
          \/ \E d \in BOOLEAN : InvalidSession(d)
Collector == FlushTimer \/ FlushTimerEnds
Shutdown == Leall \/ LeallCloses \/ Kiurit \/ Exits
Around ==
  \/ Happens \/ Forgets \/ FallsSilent \/ ReconnectAsked \/ Dropped \/ IdentifyRefused
  \/ Restart

GatewayNext == Engine \/ Collector \/ Shutdown \/ Around \/ WriterSteps

GatewaySpec == GatewayInit /\ [][GatewayNext]_gatewayVars

\* Timers fire, close events and answers come: of the network from a Discord that
\* is there, greets who connects and answers every request; of the database.
GatewayFairness ==
  /\ WF_gatewayVars(Csatlakoz) /\ WF_gatewayVars(Hello)
  /\ WF_gatewayVars(Ready \/ Resumed \/ Dispatch \/ InvalidSession(FALSE))
  /\ WF_gatewayVars(Beats) /\ WF_gatewayVars(Closed)
  /\ WF_gatewayVars(LeallCloses) /\ WF_gatewayVars(Kiurit) /\ WF_gatewayVars(Exits)
  /\ WF_gatewayVars(WriterSteps)

----------------------------------------------------------------------------
\* The shape of the state; a session and its number are known together.
GatewayTypeOK ==
  /\ WriterTypeOK
  /\ process \in {"running", "flushing", "draining", "lastWrite", "exited"} /\ line \in Lines
  /\ session \in Nat /\ sequence \in Nat /\ (session = Null <=> sequence = Null)
  /\ acked \in BOOLEAN
  /\ szivveres \in BOOLEAN
  /\ puffer \in Nat /\ batch \in [{"timer", "leall"} -> Nat] /\ stored \in Nat
  /\ valid \in Nat /\ issued \in Nat /\ sent \in Nat /\ cursor \in Nat
  /\ silent \in BOOLEAN
  /\ happened \in 0 .. MaxEvents /\ troubles \in 0 .. MaxTroubles

\* The row never steps back to an older session, or to an older number of the
\* same session, although old writes fail and are repeated.
NeverStepsBack ==
  [][ \/ stateRow'.session > stateRow.session
      \/ stateRow'.session = stateRow.session /\ stateRow'.sequence >= stateRow.sequence
  ]_gatewayVars

\* No event is counted twice in the daily statistics, through resumes, overlapping
\* flushes, the flush of a shutdown and kills: missing is acceptable, doubled is not.
NeverCountedTwice == stored + puffer + batch["timer"] + batch["leall"] <= happened

\* A heartbeat belongs to a greeted connection: the timer of a lost one never
\* beats on its successor, which would be closed as a zombie before its HELLO.
NoStrayBeat ==
  process = "running" /\ szivveres => line \in Greeted \cup {"closing"}

\* After a shutdown in which the database answered, the row says "disconnected",
\* whatever was being written or arrived while the process stopped.
StoppedSaysSo == process = "exited" /\ writeFaults = 0 => stateRow.status = "disconnected"

\* Connections lost, sessions forgotten, zombies: in the end the gateway is ready
\* on a live connection, or failed for good, or stopped.
BackOnline ==
  \/ []<>(line = "ready" /\ ~silent)
  \/ <>[](line = "failed")
  \/ <>[](process = "exited")

\* The row comes to say what the gateway last said, if the process lives on.
RowCatchesUp == []<>(stateRow.status = said.status) \/ <>[](process = "exited")

\* The engine and the writer of its row at every moment: nothing said is lost or counted
\* twice, what is pending is scheduled, no beat of an old socket, and a stop says so.
GatewaySafe ==
  /\ GatewayTypeOK
  /\ NothingSaidIsLost
  /\ PendingIsScheduled
  /\ NeverCountedTwice
  /\ NoStrayBeat
  /\ StoppedSaysSo

\* What becomes of the engine and its row: the row never steps back and catches up, and
\* after trouble the engine is online again.
GatewayBehaves ==
  /\ NeverStepsBack
  /\ BackOnline
  /\ RowCatchesUp
=============================================================================
