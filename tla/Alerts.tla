------------------------------- MODULE Alerts -------------------------------
(***************************************************************************)
(* The alert of one monitored subject (modules/system/alerts.ts).  A       *)
(* collection cycle takes a reading, reads the open row, decides and then  *)
(* writes by the row's id.  Two cycles can overlap: the monitor job keeps  *)
(* one dedupe key, but a run that outlives its lease or its timeout goes   *)
(* on beside its successor.  The row is written first; the event about it  *)
(* is put into the webhooks' queue by a call nobody waits for and which    *)
(* swallows its failures (emitEvent).                                      *)
(***************************************************************************)
EXTENDS Naturals

CONSTANTS
  Cycles,             \* runs of the monitor job that may be under way together
  AlertIds,           \* rows monitor_alerts may keep for the subject
  DEBOUNCE_CYCLES, RECOVERY_CYCLES,
  MaxTroubles         \* bound: changes of health, cycles that end half way, lost events

ASSUME AlertAssumption == /\ DEBOUNCE_CYCLES \in Nat \ {0, 1}
                          /\ RECOVERY_CYCLES \in Nat \ {0}
                          /\ MaxTroubles \in Nat

VARIABLES
  health,       \* what a reading finds: "ok", "warning" or "critical"
  alerts,       \* the rows of the subject
  cycle,        \* per cycle: its step, its reading, the open row it read
  past,         \* history per row: readings, and what became of its two events
  torn,         \* history: rows closed by a cycle that trouble had overtaken
  troubles

alertVars == <<health, alerts, cycle, past, torn, troubles>>

Levels == {"ok", "warning", "critical"}
NoAlert == [status |-> "none"]
Alert == [status : {"pending", "firing", "resolved"}, severity : Levels \ {"ok"},
          streak : 1..DEBOUNCE_CYCLES, healthy : 0..RECOVERY_CYCLES]
\* What became of the last event of a kind: "owed" while emitEvent runs.
News == {"none", "owed", "told", "lost"}
NoPast == [seen |-> 0, well |-> 0, alert |-> "none", recovery |-> "none"]
Nobody == "nobody"
Resting == [step |-> "idle", reading |-> "ok", id |-> Nobody, row |-> NoAlert]

AlertTypeOK ==
  /\ health \in Levels
  /\ alerts \in [AlertIds -> Alert \cup {NoAlert}]
  /\ cycle \in [Cycles -> [step : {"idle", "collected", "read"}, reading : Levels,
                           id : AlertIds \cup {Nobody}, row : Alert \cup {NoAlert}]]
  /\ past \in [AlertIds -> [seen : 0..DEBOUNCE_CYCLES, well : 0..RECOVERY_CYCLES,
                            alert : News, recovery : News]]
  /\ torn \subseteq AlertIds
  /\ troubles \in 0..MaxTroubles

IsOpenAlert(i) == alerts[i].status \in {"pending", "firing"}
Capped(n, top) == IF n > top THEN top ELSE n

AlertInit ==
  /\ health = "ok" /\ alerts = [i \in AlertIds |-> NoAlert]
  /\ cycle = [c \in Cycles |-> Resting]
  /\ past = [i \in AlertIds |-> NoPast] /\ torn = {}
  /\ troubles = 0

-----------------------------------------------------------------------------
\* A streak is capped where nothing tells its values apart.
Enough(streak) == streak >= DEBOUNCE_CYCLES

\* What may be done with a reading, from the row as it was read.  A firing
\* alert is announced again when it worsened or cooled down; time decides.
Decisions(reading, row) ==
  IF reading = "ok"
  THEN CASE row = NoAlert -> {"ignore"}
         [] row # NoAlert /\ row.healthy + 1 < RECOVERY_CYCLES -> {"recovering"}
         [] OTHER -> {"resolve"}
  ELSE CASE row = NoAlert -> {"open"}
         [] row.status = "pending" -> {IF Enough(row.streak + 1) THEN "notify" ELSE "accumulate"}
         [] OTHER -> {"notify"} \cup (IF row.severity = "warning" /\ reading = "critical"
                                     THEN {} ELSE {"accumulate"})

Decides(c, what) == cycle[c].step = "read" /\ what \in Decisions(cycle[c].reading, cycle[c].row)

HeldBack(c) == cycle[c].id
Rests(c) == cycle' = [cycle EXCEPT ![c] = Resting]

\* Since the cycle read the row it fired, or an unhealthy reading was written to it.
Overtaken(c) ==
  /\ IsOpenAlert(HeldBack(c))
  /\ \/ alerts[HeldBack(c)].status # cycle[c].row.status
     \/ alerts[HeldBack(c)].healthy < cycle[c].row.healthy

\* The metrics and probes are collected and stored.
Collect(c) ==
  /\ cycle[c].step = "idle"
  /\ cycle' = [cycle EXCEPT ![c] = [Resting EXCEPT !.step = "collected", !.reading = health]]
  /\ UNCHANGED <<health, alerts, past, torn, troubles>>

\* SELECT ... WHERE status <> 'resolved'.
OpenAlerts(c) ==
  /\ cycle[c].step = "collected"
  /\ \/ /\ \A i \in AlertIds : ~IsOpenAlert(i)
        /\ cycle' = [cycle EXCEPT ![c].step = "read"]
     \/ \E i \in AlertIds :
          /\ IsOpenAlert(i)
          /\ cycle' = [cycle EXCEPT ![c].step = "read", ![c].id = i, ![c].row = alerts[i]]
  /\ UNCHANGED <<health, alerts, past, torn, troubles>>

Ignores(c) ==
  /\ Decides(c, "ignore") /\ Rests(c)
  /\ UNCHANGED <<health, alerts, past, torn, troubles>>

\* Mutant of OpensAlert: nobody looks whether one was opened meanwhile.
OpensTwice(c) ==
  /\ Decides(c, "open") /\ Rests(c)
  /\ \E i \in AlertIds :
       /\ alerts[i] = NoAlert
       /\ alerts' = [alerts EXCEPT ![i] =
            [status |-> "pending", severity |-> cycle[c].reading, streak |-> 1,
             healthy |-> 0]]
       /\ past' = [past EXCEPT ![i].seen = 1]
  /\ UNCHANGED <<health, torn, troubles>>

\* INSERT ... ON CONFLICT (subject) WHERE status <> 'resolved' DO NOTHING.
OpensAlert(c) ==
  /\ Decides(c, "open") /\ Rests(c)
  /\ IF \E i \in AlertIds : IsOpenAlert(i)
     THEN UNCHANGED <<alerts, past>>
     ELSE LET i == CHOOSE j \in AlertIds : alerts[j] = NoAlert IN
            /\ \E j \in AlertIds : alerts[j] = NoAlert
            /\ alerts' = [alerts EXCEPT ![i] =
                 [status |-> "pending", severity |-> cycle[c].reading, streak |-> 1,
                  healthy |-> 0]]
            /\ past' = [past EXCEPT ![i].seen = 1]
  /\ UNCHANGED <<health, torn, troubles>>

\* The row worsens in the database, whatever became of it since it was read.
Worse(row, reading) ==
  [row EXCEPT !.severity = reading, !.healthy = 0,
              !.streak = Capped(@ + 1, DEBOUNCE_CYCLES)]

Accumulates(c) ==
  /\ Decides(c, "accumulate") /\ Rests(c)
  /\ alerts' = [alerts EXCEPT ![HeldBack(c)] = Worse(@, cycle[c].reading)]
  /\ past' = [past EXCEPT ![HeldBack(c)].seen = Capped(@ + 1, DEBOUNCE_CYCLES),
                          ![HeldBack(c)].well = IF IsOpenAlert(HeldBack(c)) THEN 0 ELSE @]
  /\ UNCHANGED <<health, torn, troubles>>

\* A row that was resolved meanwhile is opened again, unless another is open:
\* then the unique index refuses the update and the cycle fails.
MayFire(i) == \A j \in AlertIds \ {i} : ~IsOpenAlert(j)

\* The row fires, or fires again; its event is under way.
Notifies(c) ==
  /\ Decides(c, "notify") /\ MayFire(HeldBack(c)) /\ Rests(c)
  /\ alerts' = [alerts EXCEPT ![HeldBack(c)] =
       [Worse(@, cycle[c].reading) EXCEPT !.status = "firing"]]
  /\ past' = [past EXCEPT ![HeldBack(c)].seen = Capped(@ + 1, DEBOUNCE_CYCLES),
                          ![HeldBack(c)].well = 0, ![HeldBack(c)].alert = "owed",
                          ![HeldBack(c)].recovery = IF @ = "owed" THEN @ ELSE "none"]
  /\ torn' = torn \ {HeldBack(c)}
  /\ UNCHANGED <<health, troubles>>

NotifyFails(c) ==
  /\ Decides(c, "notify") /\ ~MayFire(HeldBack(c)) /\ Rests(c)
  /\ UNCHANGED <<health, alerts, past, torn, troubles>>

\* Mutant of Recovers: a healthy cycle is not counted.
RecoversUncounted(c) ==
  /\ Decides(c, "recovering") /\ Rests(c)
  /\ UNCHANGED <<health, alerts, past, torn, troubles>>

Recovers(c) ==
  /\ Decides(c, "recovering") /\ Rests(c)
  /\ alerts' = [alerts EXCEPT ![HeldBack(c)].healthy = Capped(@ + 1, RECOVERY_CYCLES)]
  /\ past' = [past EXCEPT ![HeldBack(c)].well = Capped(@ + 1, RECOVERY_CYCLES)]
  /\ UNCHANGED <<health, torn, troubles>>

\* The row closes; its recovery is an event only if the row, as it was read, had fired.
ResolvesAlert(c) ==
  /\ Decides(c, "resolve") /\ Rests(c)
  /\ alerts' = [alerts EXCEPT ![HeldBack(c)].status = "resolved",
                              ![HeldBack(c)].healthy = Capped(@ + 1, RECOVERY_CYCLES)]
  /\ past' = [past EXCEPT ![HeldBack(c)].well = Capped(@ + 1, RECOVERY_CYCLES),
                          ![HeldBack(c)].recovery =
                            IF cycle[c].row.status = "firing" THEN "owed" ELSE @]
  /\ torn' = IF Overtaken(c) THEN torn \cup {HeldBack(c)} ELSE torn
  /\ UNCHANGED <<health, troubles>>

-----------------------------------------------------------------------------
\* emitEvent has put the event into the queue of the webhooks.
AlertIsQueued(i) ==
  /\ past[i].alert = "owed" /\ past' = [past EXCEPT ![i].alert = "told"]
  /\ UNCHANGED <<health, alerts, cycle, torn, troubles>>

RecoveryIsQueued(i) ==
  /\ past[i].recovery = "owed" /\ past' = [past EXCEPT ![i].recovery = "told"]
  /\ UNCHANGED <<health, alerts, cycle, torn, troubles>>

\* It has not: the UPDATE was done and its answer lost, the process died, a statement
\* of emitEvent failed.  Nobody hears of that.
NewsIsLost(i) ==
  /\ troubles < MaxTroubles /\ troubles' = troubles + 1
  /\ \/ past[i].alert = "owed" /\ past' = [past EXCEPT ![i].alert = "lost"]
     \/ past[i].recovery = "owed" /\ past' = [past EXCEPT ![i].recovery = "lost"]
  /\ UNCHANGED <<health, alerts, cycle, torn>>

-----------------------------------------------------------------------------
\* Old rows go; neither a cycle nor an event lasts the 90 days they are kept.
PruneResolved(i) ==
  /\ alerts[i].status = "resolved" /\ \A c \in Cycles : HeldBack(c) # i
  /\ "owed" \notin {past[i].alert, past[i].recovery}
  /\ alerts' = [alerts EXCEPT ![i] = NoAlert]
  /\ past' = [past EXCEPT ![i] = NoPast] /\ torn' = torn \ {i}
  /\ UNCHANGED <<health, cycle, troubles>>

\* The process, or a statement before the write, fails.
CycleDies(c) ==
  /\ cycle[c].step # "idle" /\ troubles < MaxTroubles
  /\ troubles' = troubles + 1 /\ Rests(c)
  /\ UNCHANGED <<health, alerts, past, torn>>

Swings(h) ==
  /\ troubles < MaxTroubles /\ h # health
  /\ troubles' = troubles + 1 /\ health' = h
  /\ UNCHANGED <<alerts, cycle, past, torn>>

-----------------------------------------------------------------------------
Decided(c) == \/ Ignores(c) \/ OpensAlert(c) \/ Accumulates(c) \/ Notifies(c)
              \/ NotifyFails(c) \/ Recovers(c) \/ ResolvesAlert(c)
CycleSteps(c) == Collect(c) \/ OpenAlerts(c) \/ Decided(c)

AlertNext ==
  \/ \E c \in Cycles : CycleSteps(c) \/ CycleDies(c)
  \/ \E i \in AlertIds : \/ PruneResolved(i) \/ AlertIsQueued(i) \/ RecoveryIsQueued(i)
                         \/ NewsIsLost(i)
  \/ \E h \in Levels : Swings(h)

AlertSpec == AlertInit /\ [][AlertNext]_alertVars

-----------------------------------------------------------------------------
\* At most one row of a subject is open, also when overlapping cycles open,
\* resolve and fire it in any order (monitor_alerts_open_idx).
OneOpenAlert ==
  \A i, j \in AlertIds : IsOpenAlert(i) /\ IsOpenAlert(j) => i = j

\* "A condition must hold for several consecutive collection cycles before it
\* fires": an alert that is announced, or is about to be, rests on as many unhealthy
\* readings as the debounce asks for, taken while that row was kept, whichever cycles
\* overlapped.
FiresOnEvidence ==
  \A i \in AlertIds : past[i].alert # "none" => past[i].seen >= DEBOUNCE_CYCLES

\* "only announce recovery for alerts that actually fired": never for another,
\* whichever cycles overlapped.
NoRecoveryUnfired ==
  \A i \in AlertIds : past[i].recovery # "none" => past[i].alert # "none"

\* A row is closed by as many healthy readings in a row as the recovery asks for, and
\* the end of one that fired is told, is about to be, or was lost as an event can be.
\* The exception is a row closed by a cycle that had read it before it fired, or before
\* it was seen unhealthy again: it closes in silence, or too early.
RecoveryIsTold ==
  \A i \in AlertIds \ torn :
    alerts[i].status = "resolved" =>
      /\ past[i].well >= RECOVERY_CYCLES
      /\ past[i].alert # "none" => past[i].recovery # "none"

\* A problem that lasts fires and somebody is told of it, for the event that was lost is
\* made up for when the cooldown is over; health that lasts closes the alert; whatever
\* overlapped or died on the way.
LastingProblemFires ==
  (<>[](health # "ok")) =>
    /\ <>[](\E i \in AlertIds : alerts[i].status = "firing")
    /\ []<>(\E i \in AlertIds : past[i].alert = "told")
LastingHealthResolves ==
  (<>[](health = "ok")) => <>[](\A i \in AlertIds : ~IsOpenAlert(i))

\* Alerts at every moment: one open for a problem, fired on evidence of enough cycles,
\* closed on evidence of enough, and its recovery an event exactly if it had fired, but
\* for the cycles that were overtaken.
AlertSafe ==
  /\ AlertTypeOK
  /\ OneOpenAlert
  /\ FiresOnEvidence
  /\ NoRecoveryUnfired
  /\ RecoveryIsTold

\* What a problem, and a recovery, that lasts comes to.
AlertBehaves ==
  /\ LastingProblemFires
  /\ LastingHealthResolves
=============================================================================
