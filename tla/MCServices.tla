----------------------------- MODULE MCServices -----------------------------
(***************************************************************************)
(* The small components that keep no state together, checked in one run:   *)
(* the first state chooses which of them moves, the others stay in their   *)
(* initial state.  Each behaviour is one of a component's own              *)
(* specification, under the fairness its scheduling justifies.             *)
(***************************************************************************)
EXTENDS WebhookDelivery, ProviderBreaker, S3Upload, PubSub, Wake, Alerts, WatchStats

CONSTANTS p1, p2, w1, w2, w3, w4, e1, e2, k1, j2
ChainOfTwo == <<p1, p2>>
EpisodeOfTick == [t \in Ticks |-> IF t \in {w1, w2} THEN e1 ELSE e2]

VARIABLE active
allVars == <<active, webhookVars, breakerVars, uploadVars, pubsubVars, wakeVars,
             alertVars, watchVars>>

Components == {"webhook", "breaker", "upload", "pubsub", "wake", "listener", "alerts",
               "numbers", "reports", "achievements"}

MCInit ==
  /\ active \in Components
  /\ WebhookInit /\ BreakerInit /\ UploadInit /\ PubSubInit /\ WakeInit /\ AlertInit
  /\ WatchInit
  /\ active = "upload" \/ upload.need = 1
  /\ link[k1] = "connecting"

\* The profile is run three times: two reports and the numbers; four reports without
\* the numbers, a fault only while no sitting ended; one report with faults and the founder's job.
Idle(t) == tick'[t].step = "idle"
WatchRun == {"numbers", "reports", "achievements"}
WatchScene ==
  \/ /\ active = "numbers" /\ watchFaults' = 0 /\ founderXp' = 0
     /\ Idle(w2) /\ Idle(w4) /\ \A e \in Episodes : watched'[e].ended = 0
  \/ /\ active = "reports" /\ compute' = compute /\ founderXp' = 0
     /\ watchFaults' = 0 \/ \A e \in Episodes : watched'[e].ended = 0
  \/ active = "achievements" /\ Idle(w2) /\ Idle(w3) /\ Idle(w4)

\* The wake-up is run twice: two jobs beside one trouble of the listener, or one that
\* comes due by itself; one job beside two troubles, the loss that is scheduled twice
\* among them.
WakeScene ==
  \/ active = "wake" /\ doubled' = 0 /\ deaf' + dues' <= 1
  \/ active = "listener" /\ doubled' <= 1 /\ dues' = 0 /\ j2 \notin inserted'
WakeRun == {"wake", "listener"}

\* Two troubles beside one start, or one beside two.
PubSubScene == losses' + starts' <= 3

MCNext ==
  /\ UNCHANGED active
  /\ \/ /\ active = "webhook" /\ WebhookNext
        /\ UNCHANGED <<breakerVars, uploadVars, pubsubVars, wakeVars, alertVars, watchVars>>
     \/ /\ active = "breaker" /\ BreakerNext
        /\ UNCHANGED <<webhookVars, uploadVars, pubsubVars, wakeVars, alertVars, watchVars>>
     \/ /\ active = "upload" /\ UploadNext
        /\ UNCHANGED <<webhookVars, breakerVars, pubsubVars, wakeVars, alertVars, watchVars>>
     \/ /\ active = "pubsub" /\ PubSubNext /\ PubSubScene
        /\ UNCHANGED <<webhookVars, breakerVars, uploadVars, wakeVars, alertVars, watchVars>>
     \/ /\ WakeNext /\ WakeScene
        /\ UNCHANGED <<webhookVars, breakerVars, uploadVars, pubsubVars, alertVars, watchVars>>
     \/ /\ active = "alerts" /\ AlertNext
        /\ UNCHANGED <<webhookVars, breakerVars, uploadVars, pubsubVars, wakeVars, watchVars>>
     \/ /\ WatchNext /\ WatchScene
        /\ UNCHANGED <<webhookVars, breakerVars, uploadVars, pubsubVars, wakeVars, alertVars>>

\* Requests time out, statements are answered, timers fire, the queue claims what is
\* due; nothing that people or other systems do is fair, except that somebody goes on
\* looking at the profile.
Numbers == active \in {"numbers", "achievements"}
MCFairness ==
  /\ \A d \in DeliveryJobs : WF_webhookVars(active = "webhook" /\ Deliver(d))
  /\ \A r \in Resolves : WF_breakerVars(active = "breaker" /\ Resolve(r))
  /\ \A p \in Providers : WF_breakerVars(active = "breaker" /\ CooldownEnds(p))
  /\ WF_pubsubVars(active = "pubsub" /\ StartConnects)
  /\ WF_pubsubVars(active = "pubsub" /\ TimerFires)
  /\ \A c \in Conns : WF_pubsubVars(active = "pubsub" /\ (Opened(c) \/ Listens(c)))
  /\ \A l \in Sleepers : /\ WF_wakeVars(active \in WakeRun /\ WaitEnds(l))
                      /\ WF_wakeVars(active \in WakeRun /\ Asks(l))
                      /\ WF_wakeVars(active \in WakeRun /\ FallsAsleep(l))
                      /\ WF_wakeVars(active \in WakeRun /\ Works(l))
  /\ WF_wakeVars(active \in WakeRun /\ LinkTimerFires)
  /\ \A k \in Links : WF_wakeVars(active \in WakeRun /\ (LinkConnects(k) \/ LinkListens(k)))
  /\ \A c \in Cycles : WF_alertVars(active = "alerts" /\ CycleSteps(c))
  /\ \A c \in Cycles : SF_alertVars(active = "alerts" /\ Notifies(c))
  /\ \A i \in AlertIds : WF_alertVars(active = "alerts" /\ PruneResolved(i))
  /\ \A i \in AlertIds : WF_alertVars(active = "alerts" /\ (AlertIsQueued(i) \/ RecoveryIsQueued(i)))
  /\ \A t \in Ticks : WF_watchVars(active \in WatchRun /\ TickSteps(t))
  /\ \A p \in Computers : WF_watchVars(Numbers /\ ComputeSteps(p))
  /\ WF_watchVars(Numbers /\ JobStarts)
  /\ WF_watchVars(Numbers /\ StatsAge)
  /\ \A r \in Readers : WF_watchVars(Numbers /\ AsksStats(r))

LiveSpec == MCInit /\ [][MCNext]_allVars /\ MCFairness
=============================================================================
