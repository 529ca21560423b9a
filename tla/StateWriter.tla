---------------------------- MODULE StateWriter ----------------------------
(* AllapotIro: the writer of the gateway's row in discord_gateway_state and of
   its daily counters (src/apps/api/src/modules/discord/gateway.ts).

   What is signalled is merged into one pending entry; at most one write runs; a
   write that failed goes back under what was signalled meanwhile.  An entry is
   blank where it says nothing.  When the timer fires (at once for a change of
   status, after an interval for an event) is time, and left out; that it is
   armed is not. *)
EXTENDS Naturals

\* Bound of the model: writes that fail or whose answer is lost, processes killed.
CONSTANT MaxWriteFaults

ASSUME WriterAssumption == MaxWriteFaults \in Nat

Counters == {"reconnect", "resumed", "identified"}
Statuses == {"connecting", "resuming", "ready", "disconnected", "failed"}

VARIABLES fuggo,     \* the pending entry
          fut,       \* the entries being written: at most one
          idozito,   \* whether the timer of the next write is armed
          stateRow,       \* what the database holds, as an entry
          said,      \* history: everything signalled, as one entry
          twice,     \* history: a write was applied and its answer lost
          writeFaults

writerVars == <<fuggo, fut, idozito, stateRow, said, twice, writeFaults>>

Entries == [status : Statuses \cup {""}, session : Nat, sequence : Nat,
            event : BOOLEAN, n : [Counters -> Nat]]

Blank == [status |-> "", session |-> 0, sequence |-> 0, event |-> FALSE,
          n |-> [c \in Counters |-> 0]]
Once(c) == [x \in Counters |-> IF x = c THEN 1 ELSE 0]

WriterInit ==
  /\ fuggo = Blank /\ fut = {} /\ idozito = FALSE
  /\ stateRow = [Blank EXCEPT !.status = "disconnected"] /\ said = stateRow
  /\ twice = FALSE /\ writeFaults = 0

----------------------------------------------------------------------------
\* What b says wins over what a says; the counters add up.
Osszevon(a, b) ==
  [status   |-> IF b.status # "" THEN b.status ELSE a.status,
   session  |-> IF b.session # 0 THEN b.session ELSE a.session,
   sequence |-> IF b.sequence # 0 THEN b.sequence ELSE a.sequence,
   event    |-> a.event \/ b.event,
   n        |-> [c \in Counters |-> a.n[c] + b.n[c]]]

\* Mutant of NoneInFlight: writes are started beside each other.
NoneInFlightAlways == TRUE

\* One write at a time: utemez and kiir both look.
NoneInFlight == fut = {}

\* jelez, utemez: a running write schedules the next one when it ends.
Jelez(m) ==
  /\ fuggo' = Osszevon(fuggo, m)
  /\ said' = Osszevon(said, m)
  /\ idozito' = (idozito \/ NoneInFlight)
  /\ UNCHANGED <<fut, stateRow, twice, writeFaults>>

\* kiir, from the timer or from kiurit: one write at a time.
Kiir ==
  /\ NoneInFlight
  /\ idozito' = FALSE
  /\ IF fuggo = Blank THEN UNCHANGED <<fut, fuggo>>
     ELSE fut' = fut \cup {fuggo} /\ fuggo' = Blank
  /\ UNCHANGED <<stateRow, said, twice, writeFaults>>

TimerFires == idozito /\ Kiir

\* allapotIr: the row and the daily counters in one statement; then the next write
\* is scheduled if there is something to say.
Written == \E m \in fut :
  /\ stateRow' = Osszevon(stateRow, m)
  /\ fut' = fut \ {m}
  /\ idozito' = (fuggo # Blank)
  /\ UNCHANGED <<fuggo, said, twice, writeFaults>>

\* The statement fails, or it was carried out and only its answer is lost.
Failure(m) ==
  /\ writeFaults < MaxWriteFaults /\ writeFaults' = writeFaults + 1
  /\ \E applied \in BOOLEAN :
       /\ stateRow' = IF applied THEN Osszevon(stateRow, m) ELSE stateRow
       /\ twice' = (twice \/ applied)
  /\ fut' = fut \ {m}
  /\ UNCHANGED said

\* Mutant of WriteFails: nobody schedules the next attempt.
WriteFailsIdle == \E m \in fut : Failure(m) /\ fuggo' = Osszevon(m, fuggo) /\ UNCHANGED idozito

\* The failed entry goes back under what is pending, and the next write is scheduled.
WriteFails == \E m \in fut : Failure(m) /\ fuggo' = Osszevon(m, fuggo) /\ idozito' = TRUE

\* The process is gone.  What it had not written is lost; a write under way
\* reaches the database or does not.
WriterLost ==
  /\ fuggo' = Blank /\ fut' = {} /\ idozito' = FALSE
  /\ stateRow' \in {stateRow} \cup {Osszevon(stateRow, m) : m \in fut}
  /\ said' = stateRow'
  /\ UNCHANGED twice

----------------------------------------------------------------------------
WriterTypeOK ==
  /\ fuggo \in Entries /\ stateRow \in Entries /\ said \in Entries
  /\ fut \in SUBSET Entries
  /\ idozito \in BOOLEAN /\ twice \in BOOLEAN /\ writeFaults \in 0 .. MaxWriteFaults

\* What the database will hold when all that is under way has been written.
UnderWay == IF fut = {} THEN Blank ELSE CHOOSE m \in fut : TRUE
Outstanding == Osszevon(Osszevon(stateRow, UnderWay), fuggo)

\* No signal is lost and none overtaken, through any number of failed writes: the
\* row, with the write under way and what is pending laid over it in this order,
\* says exactly what was signalled.  Only a counter can run ahead, and only when
\* the answer of a write that was applied was lost.
NothingSaidIsLost ==
  /\ [Outstanding EXCEPT !.n = said.n] = said
  /\ \A c \in Counters : /\ Outstanding.n[c] >= said.n[c]
                         /\ ~twice => Outstanding.n[c] = said.n[c]

\* A pending entry always has somebody who will write it.
PendingIsScheduled == fuggo # Blank => idozito \/ fut # {}
=============================================================================
