--------------------------- MODULE ServicesProofs ---------------------------
(* Theorems about the small components of the services side, each about its own
   specification and for any number of deliveries, requests, parts, connections,
   lanes, cycles, reports and readers. *)
EXTENDS WebhookDelivery, ProviderBreaker, S3Upload, PubSub, Wake, Alerts, WatchStats,
        Integers, FiniteSetTheorems, TLAPS

----------------------------------------------------------------------------
(* Webhook deliveries.  OffAtTheLimit is inductive with the type; the two action
   properties need to know what the row's count and the set of stragglers stand for. *)

\* The row never counts more failures than there were since the last success or reset.
FailuresAreCounted == hook.failures <= streak

\* While the row is switched off, what is under way was under way when that happened.
NobodyBeginsWhileOff ==
  hook.exists /\ ~hook.enabled =>
    {d \in Deliveries : delivery[d].pc \in UnderWay} \subseteq stragglers

WebhookInv == WebhookTypeOK /\ OffAtTheLimit /\ FailuresAreCounted /\ NobodyBeginsWhileOff

\* The handler of one delivery goes on, returns or throws: one record changes, to one
\* that is not under way unless the handler goes on.
LEMMA HandlerMoves ==
  ASSUME WebhookTypeOK, NEW d \in Deliveries,
         NEW pc \in UnderWay \cup {"queued", "done"}, Goto(d, pc)
  PROVE  /\ delivery' \in [Deliveries -> [pc : UnderWay \cup {"queued", "done"},
                                          tries : 0 .. MAX_ATTEMPTS, outcome : Outcomes]]
         /\ delivery'[d].pc = pc
         /\ \A e \in Deliveries : e # d => delivery'[e] = delivery[e]
  BY WebhookAssumption DEF WebhookTypeOK, Goto

LEMMA HandlerEnds ==
  ASSUME WebhookTypeOK, NEW d \in Deliveries, Return(d) \/ Throw(d)
  PROVE  /\ delivery' \in [Deliveries -> [pc : UnderWay \cup {"queued", "done"},
                                          tries : 0 .. MAX_ATTEMPTS, outcome : Outcomes]]
         /\ delivery'[d].pc \in {"queued", "done"}
         /\ \A e \in Deliveries : e # d => delivery'[e] = delivery[e]
<1>1. PICK pc \in {"queued", "done"} : Goto(d, pc)
  BY DEF Return, Throw
<1> QED
  BY <1>1, HandlerMoves

\* An UPDATE that respects the limit keeps the row in order.
LEMMA UpdateSound ==
  ASSUME WebhookInv, NEW on \in BOOLEAN, NEW failures \in Nat,
         Update(on, failures), failures >= FAILURE_LIMIT => ~on
  PROVE  /\ hook' \in [exists : BOOLEAN, enabled : BOOLEAN, failures : Nat]
         /\ hook'.exists \/ (~hook'.enabled /\ hook'.failures = 0)
         /\ stragglers' \subseteq Deliveries
         /\ OffAtTheLimit'
         /\ hook'.exists = hook.exists
         /\ hook.exists => hook'.failures = failures /\ hook'.enabled = on
         /\ ~hook.exists => hook'.failures = 0
         /\ hook.exists /\ ~on =>
              {d \in Deliveries : delivery[d].pc \in UnderWay} \subseteq stragglers'
<1>1. CASE hook.exists
  BY WebhookAssumption, <1>1 DEF WebhookInv, WebhookTypeOK, OffAtTheLimit, Update, NobodyBeginsWhileOff
<1>2. CASE ~hook.exists
  BY WebhookAssumption, <1>2 DEF WebhookInv, WebhookTypeOK, OffAtTheLimit, Update
<1> QED
  BY <1>1, <1>2

LEMMA WebhookStarts == WebhookInit => WebhookInv
<1> SUFFICES ASSUME WebhookInit PROVE WebhookInv
  OBVIOUS
<1>1. WebhookTypeOK
  <2>1. hook \in [exists : BOOLEAN, enabled : BOOLEAN, failures : Nat] /\ hook.exists
    BY DEF WebhookInit
  <2>2. delivery \in [Deliveries -> [pc : UnderWay \cup {"queued", "done"},
                                     tries : 0 .. MAX_ATTEMPTS, outcome : Outcomes]]
    BY WebhookAssumption DEF WebhookInit, Outcomes
  <2>3. streak \in Nat /\ stragglers \subseteq Deliveries /\ patches \in 0 .. MaxPatches
    BY WebhookAssumption DEF WebhookInit
  <2>4. condemned \in BOOLEAN
    BY Zenon DEF WebhookInit
  <2> QED
    BY <2>1, <2>2, <2>3, <2>4 DEF WebhookTypeOK
<1>2. OffAtTheLimit /\ FailuresAreCounted /\ NobodyBeginsWhileOff
  BY WebhookAssumption DEF WebhookInit, OffAtTheLimit, FailuresAreCounted, NobodyBeginsWhileOff
<1> QED
  BY <1>1, <1>2 DEF WebhookInv

\* A delivery that does not touch the row.
LEMMA RowUntouched ==
  ASSUME WebhookInv, NEW d \in Deliveries, UNCHANGED <<hook, history, patches>>,
         delivery' \in [Deliveries -> [pc : UnderWay \cup {"queued", "done"},
                                       tries : 0 .. MAX_ATTEMPTS, outcome : Outcomes]],
         delivery'[d].pc \in UnderWay => hook.enabled \/ delivery[d].pc \in UnderWay,
         \A e \in Deliveries : e # d => delivery'[e] = delivery[e]
  PROVE  WebhookInv'
<1> USE DEF WebhookInv, history
<1>1. WebhookTypeOK' /\ OffAtTheLimit' /\ FailuresAreCounted'
  BY WebhookAssumption DEF WebhookTypeOK, OffAtTheLimit, FailuresAreCounted
<1>2. NobodyBeginsWhileOff'
  <2> SUFFICES ASSUME hook.exists, ~hook.enabled, NEW e \in Deliveries,
                      delivery'[e].pc \in UnderWay
               PROVE  e \in stragglers
    BY DEF NobodyBeginsWhileOff
  <2>1. delivery[e].pc \in UnderWay
    OBVIOUS
  <2> QED
    BY <2>1 DEF NobodyBeginsWhileOff
<1> QED
  BY <1>1, <1>2

\* A delivery that ends with an UPDATE of the row.
LEMMA RowUpdated ==
  ASSUME WebhookInv, NEW d \in Deliveries, NEW on \in BOOLEAN, NEW failures \in Nat,
         Update(on, failures), failures >= FAILURE_LIMIT => ~on,
         on => hook.enabled \/ ~hook.exists \/ {e \in Deliveries : delivery[e].pc \in UnderWay} \subseteq stragglers,
         Return(d) \/ Throw(d),
         streak' \in Nat, hook.exists => failures <= streak', condemned' \in BOOLEAN, UNCHANGED patches
  PROVE  WebhookInv'
<1>1. /\ hook' \in [exists : BOOLEAN, enabled : BOOLEAN, failures : Nat]
      /\ hook'.exists \/ (~hook'.enabled /\ hook'.failures = 0)
      /\ stragglers' \subseteq Deliveries /\ OffAtTheLimit' /\ hook'.exists = hook.exists
      /\ hook.exists => hook'.failures = failures /\ hook'.enabled = on
      /\ ~hook.exists => hook'.failures = 0
      /\ hook.exists /\ ~on =>
           {e \in Deliveries : delivery[e].pc \in UnderWay} \subseteq stragglers'
  BY UpdateSound
<1>2. /\ delivery' \in [Deliveries -> [pc : UnderWay \cup {"queued", "done"},
                                       tries : 0 .. MAX_ATTEMPTS, outcome : Outcomes]]
      /\ delivery'[d].pc \in {"queued", "done"}
      /\ \A e \in Deliveries : e # d => delivery'[e] = delivery[e]
  BY HandlerEnds DEF WebhookInv
<1>3. WebhookTypeOK'
  BY WebhookAssumption, <1>1, <1>2 DEF WebhookInv, WebhookTypeOK
<1>4. FailuresAreCounted'
  BY <1>1 DEF FailuresAreCounted
<1>5. NobodyBeginsWhileOff'
  BY <1>1, <1>2 DEF NobodyBeginsWhileOff, UnderWay
<1> QED
  BY <1>1, <1>3, <1>4, <1>5 DEF WebhookInv

\* The administrator edits it: the deliveries go on.
LEMMA RowEdited ==
  ASSUME WebhookInv, NEW on \in BOOLEAN, NEW failures \in Nat,
         Update(on, failures), failures >= FAILURE_LIMIT => ~on,
         Edit, UNCHANGED delivery,
         streak' \in Nat, failures <= streak', condemned' \in BOOLEAN
  PROVE  WebhookInv'
<1>1. /\ hook' \in [exists : BOOLEAN, enabled : BOOLEAN, failures : Nat]
      /\ hook'.exists \/ (~hook'.enabled /\ hook'.failures = 0)
      /\ stragglers' \subseteq Deliveries /\ OffAtTheLimit' /\ hook'.exists = hook.exists
      /\ hook.exists => hook'.failures = failures /\ hook'.enabled = on
      /\ ~hook.exists => hook'.failures = 0
      /\ hook.exists /\ ~on =>
           {e \in Deliveries : delivery[e].pc \in UnderWay} \subseteq stragglers'
  BY UpdateSound
<1>2. WebhookTypeOK'
  BY <1>1, WebhookAssumption DEF WebhookInv, WebhookTypeOK, Edit
<1>3. FailuresAreCounted' /\ NobodyBeginsWhileOff'
  BY <1>1 DEF FailuresAreCounted, NobodyBeginsWhileOff, Edit
<1> QED
  BY <1>1, <1>2, <1>3 DEF WebhookInv

LEMMA WebhookSteps == WebhookInv /\ [WebhookNext]_webhookVars => WebhookInv'
<1> SUFFICES ASSUME WebhookInv, [WebhookNext]_webhookVars PROVE WebhookInv'
  OBVIOUS
<1>t. WebhookTypeOK
  BY DEF WebhookInv
<1>1. ASSUME NEW d \in Deliveries, Begin(d) PROVE WebhookInv'
  <2>1. /\ delivery' \in [Deliveries -> [pc : UnderWay \cup {"queued", "done"},
                                         tries : 0 .. MAX_ATTEMPTS, outcome : Outcomes]]
        /\ \A e \in Deliveries : e # d => delivery'[e] = delivery[e]
    BY WebhookAssumption, <1>1, <1>t DEF Begin, WebhookTypeOK, UnderWay
  <2> QED
    BY <2>1, <1>1, RowUntouched DEF Begin
<1>2. ASSUME NEW d \in Deliveries, Drop(d) PROVE WebhookInv'
  <2>1. /\ delivery' \in [Deliveries -> [pc : UnderWay \cup {"queued", "done"},
                                         tries : 0 .. MAX_ATTEMPTS, outcome : Outcomes]]
        /\ \A e \in Deliveries : e # d => delivery'[e] = delivery[e]
        /\ delivery'[d].pc \notin UnderWay
    BY WebhookAssumption, <1>2, <1>t DEF Drop, WebhookTypeOK, UnderWay
  <2> QED
    BY <2>1, <1>2, RowUntouched DEF Drop
<1>3. ASSUME NEW d \in Deliveries, AddressRefused(d) PROVE WebhookInv'
  <2>1. delivery[d].pc \in UnderWay /\ Goto(d, "refusing")
    BY <1>3 DEF AddressRefused, UnderWay
  <2>2. /\ delivery' \in [Deliveries -> [pc : UnderWay \cup {"queued", "done"},
                                         tries : 0 .. MAX_ATTEMPTS, outcome : Outcomes]]
        /\ \A e \in Deliveries : e # d => delivery'[e] = delivery[e]
    BY <2>1, <1>t, HandlerMoves DEF UnderWay
  <2> QED
    BY <2>1, <2>2, <1>3, RowUntouched DEF AddressRefused
<1>4. ASSUME NEW d \in Deliveries, NEW outcome \in Outcomes, Sent(d, outcome)
      PROVE  WebhookInv'
  <2>1. /\ delivery' \in [Deliveries -> [pc : UnderWay \cup {"queued", "done"},
                                         tries : 0 .. MAX_ATTEMPTS, outcome : Outcomes]]
        /\ \A e \in Deliveries : e # d => delivery'[e] = delivery[e]
        /\ delivery[d].pc \in UnderWay
    BY WebhookAssumption, <1>4, <1>t, ZenonT(40) DEF Sent, WebhookTypeOK, UnderWay
  <2> QED
    BY <2>1, <1>4, RowUntouched DEF Sent
<1>5. ASSUME NEW d \in Deliveries, BreaksOff(d) \/ SettleThrottled(d) PROVE WebhookInv'
  <2>1. /\ delivery' \in [Deliveries -> [pc : UnderWay \cup {"queued", "done"},
                                         tries : 0 .. MAX_ATTEMPTS, outcome : Outcomes]]
        /\ \A e \in Deliveries : e # d => delivery'[e] = delivery[e]
        /\ delivery'[d].pc \in {"queued", "done"}
    BY <1>5, <1>t, HandlerEnds DEF BreaksOff, SettleThrottled
  <2> QED
    BY <2>1, <1>5, RowUntouched DEF BreaksOff, SettleThrottled, UnderWay
<1>6. ASSUME NEW d \in Deliveries, Refuse(d) PROVE WebhookInv'
  <2>1. hook.failures \in Nat /\ streak \in Nat /\ condemned \in BOOLEAN
        /\ hook.failures <= streak
    BY WebhookAssumption, <1>t DEF WebhookTypeOK, WebhookInv, FailuresAreCounted
  <2> QED
    BY <2>1, <1>6, RowUpdated DEF Refuse
<1>7. ASSUME NEW d \in Deliveries, SettlePermanent(d) PROVE WebhookInv'
  <2>1. hook.failures + 1 \in Nat /\ streak + 1 \in Nat /\ hook.exists \in BOOLEAN
        /\ hook.failures + 1 <= streak + 1
    BY WebhookAssumption, <1>t DEF WebhookTypeOK, WebhookInv, FailuresAreCounted
  <2> QED
    BY <2>1, <1>7, RowUpdated DEF SettlePermanent
<1>8. ASSUME NEW d \in Deliveries, SettleError(d) PROVE WebhookInv'
  <2>1. hook.failures + 1 \in Nat /\ streak + 1 \in Nat /\ condemned \in BOOLEAN
        /\ hook.failures + 1 <= streak + 1
    BY WebhookAssumption, <1>t DEF WebhookTypeOK, WebhookInv, FailuresAreCounted
  <2>2. hook.enabled \/ ~hook.exists
          \/ {e \in Deliveries : delivery[e].pc \in UnderWay} \subseteq stragglers
    BY DEF WebhookInv, NobodyBeginsWhileOff
  <2>3. hook.failures + 1 >= FAILURE_LIMIT => ~(hook.failures + 1 < FAILURE_LIMIT)
    BY <2>1, WebhookAssumption
  <2> QED
    <3>1. PICK on \in BOOLEAN : on <=> hook.failures + 1 < FAILURE_LIMIT
      OBVIOUS
    <3>2. on = (hook.failures + 1 < FAILURE_LIMIT)
      BY <3>1
    <3>3. Update(on, hook.failures + 1) /\ Throw(d)
      BY <3>2, <1>8 DEF SettleError
    <3> QED
      BY <2>1, <2>2, <3>1, <2>3, <3>3, <1>8, RowUpdated DEF SettleError
<1>9. ASSUME NEW d \in Deliveries, SettleOk(d) PROVE WebhookInv'
  <2>1. hook.enabled \in BOOLEAN /\ condemned \in BOOLEAN /\ ~(0 >= FAILURE_LIMIT)
    BY WebhookAssumption, <1>t DEF WebhookTypeOK
  <2> QED
    BY <2>1, <1>9, RowUpdated DEF SettleOk
<1>10. CASE Enable
  <2>1. Update(TRUE, 0) /\ Edit /\ UNCHANGED delivery /\ streak' = 0
    BY <1>10, Zenon DEF Enable
  <2>2. ~(0 >= FAILURE_LIMIT)
    BY WebhookAssumption
  <2>3. 0 \in Nat /\ streak' \in Nat /\ 0 <= streak'
    BY <2>1
  <2>4. condemned' \in BOOLEAN
    BY <1>10, Zenon DEF Enable
  <2> QED
    BY <2>1, <2>2, <2>3, <2>4, RowEdited, Zenon
<1>11. CASE Disable
  <2>1. hook.failures \in Nat /\ streak \in Nat /\ condemned \in BOOLEAN
        /\ hook.failures <= streak
    BY <1>t DEF WebhookTypeOK, WebhookInv, FailuresAreCounted
  <2>2. Update(FALSE, hook.failures) /\ Edit /\ UNCHANGED <<delivery, streak, condemned>>
    BY <1>11 DEF Disable
  <2> QED
    BY <2>1, <2>2, RowEdited
<1>12. CASE DeleteHook
  <2>1. condemned' \in BOOLEAN
    BY <1>12, Zenon DEF DeleteHook
  <2>2. /\ hook' = [exists |-> FALSE, enabled |-> FALSE, failures |-> 0]
        /\ streak' = 0 /\ stragglers' = {} /\ UNCHANGED delivery
        /\ patches < MaxPatches /\ patches' = patches + 1
    BY <1>12, Zenon DEF DeleteHook, Edit
  <2>3. WebhookTypeOK'
    BY <2>1, <2>2, <1>t, WebhookAssumption DEF WebhookTypeOK
  <2>4. OffAtTheLimit' /\ FailuresAreCounted' /\ NobodyBeginsWhileOff'
    BY <2>2 DEF OffAtTheLimit, FailuresAreCounted, NobodyBeginsWhileOff
  <2> QED
    BY <2>3, <2>4 DEF WebhookInv
<1>13. CASE UNCHANGED webhookVars
  BY WebhookAssumption, <1>13 DEF webhookVars, WebhookInv, WebhookTypeOK, OffAtTheLimit, FailuresAreCounted,
               NobodyBeginsWhileOff
<1> QED
  BY <1>1, <1>2, <1>3, <1>4, <1>5, <1>6, <1>7, <1>8, <1>9, <1>10, <1>11, <1>12, <1>13
  DEF WebhookNext, Deliver

LEMMA WebhookInvariant == WebhookSpec => []WebhookInv
  BY WebhookStarts, WebhookSteps, PTL DEF WebhookSpec

\* The row of a webhook is in order at every moment: off when its count is at the limit,
\* whatever the deliveries, the administrator and the queue do in whatever order.
THEOREM WebhookIsSafe == WebhookSpec => []WebhookSafe
<1>1. WebhookInv => WebhookSafe
  BY DEF WebhookInv, WebhookSafe
<1> QED
  BY <1>1, WebhookInvariant, PTL

\* A webhook is switched off by the administrator, or for one of the three causes.
THEOREM WebhookOffForCause == WebhookSpec => SwitchedOffForCause
<1>1. ASSUME WebhookInv, [WebhookNext]_webhookVars, hook.enabled, ~hook'.enabled
      PROVE  \/ patches' # patches
             \/ streak' >= FAILURE_LIMIT
             \/ \E d \in Deliveries :
                  /\ delivery[d].pc = "refusing" \/ delivery[d].outcome = "permanent"
                  /\ delivery'[d].pc # delivery[d].pc
  <2> USE <1>1
  <2>t. WebhookTypeOK /\ hook.failures <= streak
    BY DEF WebhookInv, FailuresAreCounted
  <2>1. CASE Enable \/ Disable \/ DeleteHook
    <3>1. patches' = patches + 1
      BY <2>1, Zenon DEF Enable, Disable, DeleteHook, Edit
    <3>2. patches' # patches
      BY <3>1, <2>t, WebhookAssumption DEF WebhookTypeOK
    <3> QED
      BY <3>2
  <2>2. ASSUME NEW d \in Deliveries, Refuse(d) \/ SettlePermanent(d)
        PROVE  /\ delivery[d].pc = "refusing" \/ delivery[d].outcome = "permanent"
               /\ delivery'[d].pc # delivery[d].pc
    <3>1. Return(d) \/ Throw(d)
      BY <2>2 DEF Refuse, SettlePermanent
    <3>2. delivery'[d].pc \in {"queued", "done"}
      BY <3>1, <2>t, HandlerEnds
    <3> QED
      BY <2>2, <3>2 DEF Refuse, SettlePermanent
  <2>3. ASSUME NEW d \in Deliveries, SettleError(d) PROVE streak' >= FAILURE_LIMIT
    BY WebhookAssumption, <2>3, <2>t DEF SettleError, Update, WebhookTypeOK
  <2>4. ASSUME NEW d \in Deliveries, SettleOk(d) PROVE FALSE
    BY WebhookAssumption, <2>4, <2>t DEF SettleOk, Update, WebhookTypeOK
  <2>5. ASSUME NEW d \in Deliveries,
               Begin(d) \/ Drop(d) \/ AddressRefused(d) \/ BreaksOff(d) \/ SettleThrottled(d)
                 \/ \E outcome \in Outcomes : Sent(d, outcome)
        PROVE  FALSE
    BY <2>5 DEF Begin, Drop, AddressRefused, BreaksOff, SettleThrottled, Sent
  <2> QED
    BY <2>1, <2>2, <2>3, <2>4, <2>5 DEF WebhookNext, Deliver, webhookVars
<1> QED
  BY <1>1, WebhookInvariant, PTL DEF WebhookSpec, SwitchedOffForCause

\* A webhook that is off comes on by the administrator, or by the answer to a delivery
\* that was under way when it was switched off.
THEOREM WebhookRevival == WebhookSpec => RevivedByStragglersOnly
<1>1. ASSUME WebhookInv, [WebhookNext]_webhookVars, ~hook.enabled, hook'.enabled
      PROVE  \/ patches' # patches
             \/ \E d \in stragglers : delivery[d].pc = "settling" /\ delivery'[d].pc # "settling"
  <2> USE <1>1
  <2>t. WebhookTypeOK /\ NobodyBeginsWhileOff
    BY DEF WebhookInv
  <2>1. CASE Enable \/ Disable \/ DeleteHook
    <3>1. patches' = patches + 1
      BY <2>1, Zenon DEF Enable, Disable, DeleteHook, Edit
    <3>2. patches' # patches
      BY <3>1, <2>t, WebhookAssumption DEF WebhookTypeOK
    <3> QED
      BY <3>2
  <2>2. ASSUME NEW d \in Deliveries, SettleError(d)
        PROVE  d \in stragglers /\ delivery[d].pc = "settling" /\ delivery'[d].pc # "settling"
    <3>1. delivery'[d].pc \in {"queued", "done"}
      BY <2>2, <2>t, HandlerEnds DEF SettleError
    <3>2. hook.exists
      BY <2>2 DEF SettleError, Update
    <3>3. delivery[d].pc = "settling"
      BY <2>2 DEF SettleError
    <3> QED
      BY <3>1, <3>2, <3>3, <2>t DEF NobodyBeginsWhileOff, UnderWay
  <2>3. ASSUME NEW d \in Deliveries, Refuse(d) \/ SettlePermanent(d) \/ SettleOk(d)
        PROVE  FALSE
    BY WebhookAssumption, <2>3, <2>t DEF Refuse, SettlePermanent, SettleOk, Update, WebhookTypeOK
  <2>4. ASSUME NEW d \in Deliveries,
               Begin(d) \/ Drop(d) \/ AddressRefused(d) \/ BreaksOff(d) \/ SettleThrottled(d)
                 \/ \E outcome \in Outcomes : Sent(d, outcome)
        PROVE  FALSE
    BY <2>4 DEF Begin, Drop, AddressRefused, BreaksOff, SettleThrottled, Sent
  <2> QED
    BY <2>1, <2>2, <2>3, <2>4 DEF WebhookNext, Deliver, webhookVars
<1> QED
  BY <1>1, WebhookInvariant, PTL DEF WebhookSpec, RevivedByStragglersOnly

----------------------------------------------------------------------------
(* The channel between instances.  The invariant counts attempts: as long as nothing
   has crossed, there is one at a time, be it a timer, a start that goes on, a
   connection under way or the listener itself. *)

\* A connection that is not live has nothing to hand over.
OnlyLiveHear == \A c \in Conns : conn[c] # "live" => wire[c] = {}

\* What was not published has been heard by nobody.
UnsentIsUnheard ==
  \A m \in Messages \ sent :
    /\ heard[m] = 0 /\ fetching[m] = 0
    /\ \A c \in Conns : m \notin wire[c]

\* The instance hears its own messages from itself alone.
OwnHeardOnce == \A m \in Own : heard[m] <= 1 /\ fetching[m] = 0

OneAttempt ==
  /\ strays = 0
  /\ \A b, c \in Conns : conn[b] # "closed" /\ conn[c] # "closed" => b = c
  /\ timer \/ hub = "starting" => \A c \in Conns : conn[c] = "closed"
  /\ hub = "starting" => stopped /\ ~timer
  /\ \A c \in Conns : conn[c] = "live" => client = c /\ ~stopped

\* A message of another instance is heard, or being read, or on the wire.
PeersHeardOnce ==
  \A m \in Messages \ Own :
    /\ heard[m] + fetching[m] <= 1
    /\ (\E c \in Conns : m \in wire[c]) => heard[m] + fetching[m] = 0

PubSubInv ==
  /\ PubSubTypeOK
  /\ OnlyLiveHear /\ UnsentIsUnheard /\ OwnHeardOnce
  /\ ~crossed => OneAttempt /\ PeersHeardOnce

LEMMA PubSubStarts == PubSubInit => PubSubInv
<1> SUFFICES ASSUME PubSubInit PROVE PubSubInv
  OBVIOUS
<1>1. stopped \in BOOLEAN /\ timer \in BOOLEAN /\ crossed \in BOOLEAN
  BY Zenon DEF PubSubInit
<1>2. PubSubTypeOK
  BY <1>1, PubSubAssumption DEF PubSubInit, PubSubTypeOK, LiveConns, Pending
<1>3. OnlyLiveHear /\ UnsentIsUnheard /\ OwnHeardOnce
  BY PubSubAssumption DEF PubSubInit, OnlyLiveHear, UnsentIsUnheard, OwnHeardOnce
<1>4. OneAttempt /\ PeersHeardOnce
  BY PubSubAssumption DEF PubSubInit, OneAttempt, PeersHeardOnce
<1> QED
  BY <1>2, <1>3, <1>4 DEF PubSubInv

\* What scheduleReconnect leaves behind.
LEMMA Scheduled ==
  ASSUME PubSubTypeOK, NEW n \in {1, 2}, Schedule(n)
  PROVE  /\ timer' \in BOOLEAN /\ strays' \in Nat
         /\ stopped => timer' = timer /\ strays' = strays
         /\ ~stopped => timer'
         /\ ~timer /\ n = 1 => strays' = strays
<1>1. CASE stopped
  BY <1>1 DEF Schedule, PubSubTypeOK
<1>2. CASE ~stopped
  <2>1. timer' = TRUE /\ strays' = strays + n - (IF timer THEN 0 ELSE 1)
    BY <1>2, Zenon DEF Schedule
  <2>2. timer' \in BOOLEAN /\ timer'
    BY <2>1, Zenon
  <2>3. strays' = strays + n - (IF timer THEN 0 ELSE 1)
    BY <2>1
  <2>4. strays' \in Nat /\ (~timer /\ n = 1 => strays' = strays)
    BY <2>3 DEF PubSubTypeOK
  <2> QED
    BY <1>2, <2>2, <2>4
<1> QED
  BY <1>1, <1>2

\* connect takes a connection that is closed.
LEMMA Opening ==
  ASSUME PubSubTypeOK, Opens
  PROVE  /\ conn' \in [Conns -> {"closed", "opening", "listening", "live"}]
         /\ \E c \in Conns : /\ conn[c] = "closed" /\ conn'[c] = "opening"
                             /\ \A b \in Conns : b # c => conn'[b] = conn[b]
         /\ LiveConns' = LiveConns /\ Pending \subseteq Pending'
<1>1. PICK c \in Conns : conn[c] = "closed" /\ conn' = [conn EXCEPT ![c] = "opening"]
  BY DEF Opens
<1> QED
  BY <1>1 DEF PubSubTypeOK, LiveConns, Pending

LEMMA PubSubKeepsType == PubSubTypeOK /\ [PubSubNext]_pubsubVars => PubSubTypeOK'
<1> SUFFICES ASSUME PubSubTypeOK, [PubSubNext]_pubsubVars PROVE PubSubTypeOK'
  OBVIOUS
<1> USE DEF LiveConns, Pending
<1>a. Conns \subseteq Nat \ {0} /\ Own \subseteq Messages /\ MaxLosses \in Nat /\ MaxStarts \in Nat
  BY PubSubAssumption
<1>1. ASSUME NEW c \in Conns, Opened(c) PROVE PubSubTypeOK'
  BY <1>1, <1>a DEF Opened, PubSubTypeOK, traffic
<1>2. ASSUME NEW c \in Conns, Listens(c) PROVE PubSubTypeOK'
  BY <1>2, <1>a DEF Listens, Answered, PubSubTypeOK, traffic
<1>3. ASSUME NEW c \in Conns, Refused(c) PROVE PubSubTypeOK'
  <2>1. timer' \in BOOLEAN /\ strays' \in Nat
    BY <1>3, Scheduled DEF Refused
  <2> QED
    BY <2>1, <1>3, <1>a DEF Refused, Loss, Closes, Answered, PubSubTypeOK, traffic
<1>4. ASSUME NEW c \in Conns, LostListening(c) PROVE PubSubTypeOK'
  <2>1. timer' \in BOOLEAN /\ strays' \in Nat
    BY <1>4, Scheduled DEF LostListening
  <2>2. crossed' \in BOOLEAN
    BY <1>4 DEF LostListening
  <2> QED
    BY <2>1, <2>2, <1>4, <1>a DEF LostListening, Loss, Closes, Answered, PubSubTypeOK, traffic
<1>5. ASSUME NEW c \in Conns, Lost(c) PROVE PubSubTypeOK'
  <2>1. timer' \in BOOLEAN /\ strays' \in Nat
    BY <1>5, Scheduled DEF Lost
  <2> QED
    BY <2>1, <1>5, <1>a DEF Lost, Loss, Closes, PubSubTypeOK, traffic
<1>6. CASE TimerFires
  <2>1. timer' \in BOOLEAN /\ strays' \in Nat
    <3>1. CASE timer /\ timer' = FALSE /\ UNCHANGED strays
      BY <3>1, Zenon DEF PubSubTypeOK
    <3>2. CASE strays > 0 /\ strays' = strays - 1 /\ UNCHANGED timer
      BY <3>2 DEF PubSubTypeOK
    <3> QED
      BY <1>6, <3>1, <3>2 DEF TimerFires
  <2>2. CASE stopped
    BY <2>1, <2>2, <1>6, <1>a DEF TimerFires, PubSubTypeOK, traffic
  <2>3. CASE ~stopped
    <3>1. Opens
      BY <2>3, <1>6 DEF TimerFires
    <3>2. /\ conn' \in [Conns -> {"closed", "opening", "listening", "live"}]
          /\ LiveConns' = LiveConns /\ Pending \subseteq Pending'
      BY <3>1, Opening
    <3> QED
      BY <2>1, <3>2, <1>6, <1>a DEF TimerFires, PubSubTypeOK, traffic
  <2> QED
    BY <2>2, <2>3
<1>7. CASE Start \/ Stop
  <2>1. stopped' \in BOOLEAN /\ timer' \in BOOLEAN /\ crossed' \in BOOLEAN
    <3>1. stopped' = TRUE /\ timer' = FALSE
      BY <1>7, Zenon DEF Start, Stop, Stops
    <3>2. crossed' \in BOOLEAN
      BY <1>7 DEF Start, Stop, PubSubTypeOK
    <3> QED
      BY <3>1, <3>2, Zenon
  <2>2. /\ client' = 0 /\ awaited = 0 /\ UNCHANGED <<strays, awaited, traffic>>
        /\ conn' = [c \in Conns |-> IF c = client THEN "closed" ELSE conn[c]]
        /\ wire' = [c \in Conns |-> IF c = client THEN {} ELSE wire[c]]
        /\ hub' \in {"starting", "down"}
        /\ losses' = losses /\ starts' \in 0 .. MaxStarts
    BY <1>7, <1>a DEF Start, Stop, Stops, PubSubTypeOK
  <2> QED
    BY <2>1, <2>2, <1>a DEF PubSubTypeOK, traffic
<1>8. CASE StartConnects
  <2>1. /\ conn' \in [Conns -> {"closed", "opening", "listening", "live"}]
        /\ LiveConns' = LiveConns /\ Pending \subseteq Pending'
    BY <1>8, Opening DEF StartConnects
  <2>2. PICK c \in Conns : /\ conn[c] = "closed" /\ conn'[c] = "opening"
                           /\ \A b \in Conns : b # c => conn'[b] = conn[b]
    BY <1>8, Opening DEF StartConnects
  <2>3. awaited' = c
    <3>1. conn'[awaited'] # conn[awaited'] /\ awaited' \in Conns
      BY <1>8, <2>2 DEF StartConnects
    <3> QED
      BY <3>1, <2>2
  <2>4. stopped' \in BOOLEAN
    BY <1>8, Zenon DEF StartConnects
  <2>5. hub' = "up" /\ UNCHANGED <<wire, client, timer, strays, traffic, crossed, losses, starts>>
    BY <1>8, Zenon DEF StartConnects
  <2> QED
    BY <2>1, <2>2, <2>3, <2>4, <2>5, <1>a DEF PubSubTypeOK, traffic
<1>9. ASSUME NEW m \in Messages, PeerSends(m) \/ Publish(m) PROVE PubSubTypeOK'
  <2>1. wire' \in [Conns -> SUBSET Messages] /\ sent' \subseteq Messages
    BY <1>9 DEF PeerSends, Publish, Notify, PubSubTypeOK
  <2>2. heard' \in [Messages -> Nat]
    BY <1>9 DEF PeerSends, Publish, PubSubTypeOK
  <2>3. UNCHANGED <<conn, client, stopped, timer, strays, hub, awaited, fetching, crossed,
                    losses, starts>>
    BY <1>9 DEF PeerSends, Publish
  <2> QED
    BY <2>1, <2>2, <2>3 DEF PubSubTypeOK
<1>10. ASSUME NEW m \in Messages, Rehydrated(m) PROVE PubSubTypeOK'
  BY <1>10 DEF Rehydrated, PubSubTypeOK
<1>11. ASSUME NEW c \in Conns, NEW m \in Messages, Notified(c, m) PROVE PubSubTypeOK'
  BY <1>11 DEF Notified, PubSubTypeOK
<1>12. CASE UNCHANGED pubsubVars
  BY <1>12 DEF pubsubVars, traffic, PubSubTypeOK
<1> QED
  BY <1>1, <1>2, <1>3, <1>4, <1>5, <1>6, <1>7, <1>8, <1>9, <1>10, <1>11, <1>12
  DEF PubSubNext, Connecting

LEMMA PubSubHearing ==
  ASSUME PubSubInv, [PubSubNext]_pubsubVars
  PROVE  OnlyLiveHear' /\ UnsentIsUnheard' /\ OwnHeardOnce'
<1> USE DEF PubSubInv
<1>t. PubSubTypeOK /\ OnlyLiveHear /\ UnsentIsUnheard /\ OwnHeardOnce
  OBVIOUS
<1>a. Conns \subseteq Nat \ {0} /\ Own \subseteq Messages
  BY PubSubAssumption
<1>1. ASSUME NEW c \in Conns, Opened(c) \/ Listens(c) PROVE OnlyLiveHear'
  BY <1>1, <1>t DEF Opened, Listens, OnlyLiveHear, PubSubTypeOK
<1>2. ASSUME NEW c \in Conns, Refused(c) \/ LostListening(c) \/ Lost(c) PROVE OnlyLiveHear'
  BY <1>2, <1>t DEF Refused, LostListening, Lost, Closes, OnlyLiveHear, PubSubTypeOK
<1>3. ASSUME TimerFires \/ StartConnects PROVE OnlyLiveHear'
  <2>1. Opens \/ UNCHANGED conn
    BY <1>3 DEF TimerFires, StartConnects
  <2>2. ASSUME Opens PROVE OnlyLiveHear'
    <3>1. LiveConns' = LiveConns /\ wire' = wire
      BY <2>2, <1>3, <1>t, Opening DEF TimerFires, StartConnects
    <3> QED
      BY <3>1, <1>t DEF OnlyLiveHear, LiveConns
  <2>3. wire' = wire
    BY <1>3, Zenon DEF TimerFires, StartConnects
  <2> QED
    BY <2>1, <2>2, <2>3, <1>t DEF OnlyLiveHear
<1>4. ASSUME Start \/ Stop PROVE OnlyLiveHear'
  <2>1. /\ conn' = [c \in Conns |-> IF c = client THEN "closed" ELSE conn[c]]
        /\ wire' = [c \in Conns |-> IF c = client THEN {} ELSE wire[c]]
    BY <1>4, Zenon DEF Start, Stop, Stops
  <2> QED
    BY <2>1, <1>t DEF OnlyLiveHear
<1>5. ASSUME NEW m \in Messages, PeerSends(m) \/ Publish(m) PROVE OnlyLiveHear'
  BY <1>5, <1>t DEF PeerSends, Publish, Notify, OnlyLiveHear, LiveConns, PubSubTypeOK
<1>6. ASSUME NEW m \in Messages, Rehydrated(m) PROVE OnlyLiveHear'
  BY <1>6, <1>t DEF Rehydrated, OnlyLiveHear
<1>7. ASSUME NEW c \in Conns, NEW m \in Messages, Notified(c, m) PROVE OnlyLiveHear'
  BY <1>7, <1>t DEF Notified, OnlyLiveHear, PubSubTypeOK
<1>8. ASSUME \/ Connecting \/ Start \/ Stop
             \/ \E c \in Conns : Refused(c) \/ LostListening(c) \/ Lost(c)
      PROVE  UnsentIsUnheard' /\ OwnHeardOnce'
  <2>1. /\ UNCHANGED traffic
        /\ \A c \in Conns : wire'[c] \subseteq wire[c]
    BY <1>8, <1>t DEF Connecting, Opened, Listens, TimerFires, StartConnects, Refused,
         LostListening, Lost, Closes, Start, Stop, Stops, PubSubTypeOK
  <2>2. heard' = heard /\ fetching' = fetching /\ sent' = sent
    BY <2>1 DEF traffic
  <2>3. UnsentIsUnheard'
    BY <2>1, <2>2, <1>t DEF UnsentIsUnheard
  <2> QED
    BY <2>2, <2>3, <1>t DEF OwnHeardOnce
<1>9. ASSUME NEW m \in Messages, PeerSends(m) PROVE UnsentIsUnheard' /\ OwnHeardOnce'
  BY <1>9, <1>t, <1>a DEF PeerSends, Notify, UnsentIsUnheard, OwnHeardOnce, PubSubTypeOK
<1>10. ASSUME NEW m \in Messages, Publish(m) PROVE UnsentIsUnheard' /\ OwnHeardOnce'
  <2>1. /\ m \notin sent /\ sent' = sent \cup {m} /\ fetching' = fetching /\ m \in Own
        /\ \A c \in Conns : wire'[c] \subseteq wire[c] \cup {m}
        /\ \A n \in Messages : heard'[n] = IF n = m THEN heard[n] + 1 ELSE heard[n]
    BY <1>10, <1>t DEF Publish, Notify, PubSubTypeOK
  <2>2. UnsentIsUnheard'
    BY <2>1, <1>t DEF UnsentIsUnheard
  <2>3. OwnHeardOnce'
    BY <2>1, <1>t, <1>a DEF UnsentIsUnheard, OwnHeardOnce
  <2> QED
    BY <2>2, <2>3
<1>11. ASSUME NEW m \in Messages, Rehydrated(m) PROVE UnsentIsUnheard' /\ OwnHeardOnce'
  BY <1>11, <1>t, <1>a DEF Rehydrated, UnsentIsUnheard, OwnHeardOnce, PubSubTypeOK
<1>12. ASSUME NEW c \in Conns, NEW m \in Messages, Notified(c, m)
       PROVE  UnsentIsUnheard' /\ OwnHeardOnce'
  <2>1. m \in sent /\ sent' = sent
    BY <1>12, <1>t DEF Notified, UnsentIsUnheard
  <2>2. /\ \A n \in Messages \ {m} : heard'[n] = heard[n] /\ fetching'[n] = fetching[n]
        /\ m \in Own => heard' = heard /\ fetching' = fetching
        /\ \A b \in Conns : wire'[b] \subseteq wire[b]
    BY <1>12, <1>t DEF Notified, Ignored, PubSubTypeOK
  <2> QED
    BY <2>1, <2>2, <1>t, <1>a DEF UnsentIsUnheard, OwnHeardOnce
<1>13. CASE UNCHANGED pubsubVars
  BY <1>13, <1>t DEF pubsubVars, traffic, OnlyLiveHear, UnsentIsUnheard, OwnHeardOnce
<1> QED
  BY <1>1, <1>2, <1>3, <1>4, <1>5, <1>6, <1>7, <1>8, <1>9, <1>10, <1>11, <1>12, <1>13
  DEF PubSubNext, Connecting

\* One attempt stays one attempt: what is lost becomes a timer, the timer a connection,
\* the connection the listener.
LEMMA AttemptStaysOne ==
  ASSUME PubSubTypeOK, OneAttempt, ~crossed, ~crossed', [PubSubNext]_pubsubVars
  PROVE  OneAttempt'
<1> USE DEF OneAttempt
<1>a. Conns \subseteq Nat \ {0}
  BY PubSubAssumption
<1>1. ASSUME NEW c \in Conns, Opened(c) PROVE OneAttempt'
  BY <1>1 DEF Opened, PubSubTypeOK
<1>2. ASSUME NEW c \in Conns, Listens(c) PROVE OneAttempt'
  BY <1>2 DEF Listens, PubSubTypeOK
<1>3. ASSUME NEW c \in Conns, Refused(c) \/ Lost(c) PROVE OneAttempt'
  <2>1. ~timer /\ hub # "starting" /\ Schedule(1) /\ UNCHANGED <<hub, stopped>>
    BY <1>3 DEF Refused, Lost, Pending
  <2>2. \A b \in Conns : conn'[b] = "closed"
    BY <1>3 DEF Refused, Lost, Closes, Pending, PubSubTypeOK
  <2>3. strays' = strays
    BY <2>1, Scheduled
  <2> QED
    BY <2>1, <2>2, <2>3
<1>4. ASSUME NEW c \in Conns, LostListening(c) PROVE OneAttempt'
  <2>1. stopped /\ UNCHANGED <<hub, stopped>> /\ Schedule(2)
    BY <1>4 DEF LostListening
  <2>2. timer' = timer /\ strays' = strays
    BY <2>1, Scheduled
  <2>3. \A b \in Conns : conn'[b] = "closed"
    BY <1>4 DEF LostListening, Closes, PubSubTypeOK
  <2> QED
    BY <2>1, <2>2, <2>3
<1>5. CASE TimerFires
  <2>1. timer /\ strays' = strays /\ UNCHANGED <<hub, client, stopped>>
    BY <1>5 DEF TimerFires, PubSubTypeOK
  <2>2. ~timer'
    BY <1>5, <2>1 DEF TimerFires, PubSubTypeOK
  <2>3. CASE stopped
    BY <1>5, <2>1, <2>2, <2>3 DEF TimerFires
  <2>4. CASE ~stopped
    <3>1. PICK c \in Conns : /\ conn[c] = "closed" /\ conn'[c] = "opening"
                             /\ \A b \in Conns : b # c => conn'[b] = conn[b]
      BY <1>5, <2>4, Opening DEF TimerFires
    <3>2. hub # "starting"
      BY <2>1
    <3> QED
      BY <2>1, <2>2, <2>4, <3>1, <3>2
  <2> QED
    BY <2>3, <2>4
<1>6. CASE Start
  <2>1. /\ Pending = {} /\ strays' = strays
        /\ conn' = [c \in Conns |-> IF c = client THEN "closed" ELSE conn[c]]
    BY <1>6 DEF Start, Stops
  <2>2. stopped' /\ ~timer'
    BY <1>6, Zenon DEF Start, Stops
  <2>3. \A c \in Conns : conn'[c] = "closed"
    BY <2>1 DEF Pending, PubSubTypeOK
  <2> QED
    BY <2>1, <2>2, <2>3
<1>7. CASE Stop
  <2>1. /\ strays' = strays /\ hub' = "down"
        /\ conn' = [c \in Conns |-> IF c = client THEN "closed" ELSE conn[c]]
    BY <1>7 DEF Stop, Stops
  <2>2. ~timer'
    BY <1>7, Zenon DEF Stop, Stops
  <2>3. \A c \in Conns : conn'[c] \in {conn[c], "closed"} /\ conn'[c] # "live"
    BY <2>1 DEF PubSubTypeOK
  <2> QED
    BY <2>1, <2>2, <2>3
<1>8. CASE StartConnects
  <2>1. PICK c \in Conns : /\ conn[c] = "closed" /\ conn'[c] = "opening"
                           /\ \A b \in Conns : b # c => conn'[b] = conn[b]
    BY <1>8, Opening DEF StartConnects
  <2>2. hub = "starting" /\ hub' = "up" /\ UNCHANGED <<timer, strays, client>>
    BY <1>8, Zenon DEF StartConnects
  <2> QED
    BY <2>1, <2>2
<1>9. CASE \/ \E m \in Messages : PeerSends(m) \/ Publish(m) \/ Rehydrated(m)
           \/ \E c \in Conns, m \in Messages : Notified(c, m)
           \/ UNCHANGED pubsubVars
  <2>1. UNCHANGED <<conn, client, stopped, timer, strays, hub>>
    BY <1>9 DEF PeerSends, Publish, Rehydrated, Notified, pubsubVars
  <2> QED
    BY <2>1
<1> QED
  BY <1>1, <1>2, <1>3, <1>4, <1>5, <1>6, <1>7, <1>8, <1>9 DEF PubSubNext, Connecting

\* With one listener a message of another instance has one way to be heard.
LEMMA PeersStayOnce ==
  ASSUME PubSubInv, ~crossed, [PubSubNext]_pubsubVars
  PROVE  PeersHeardOnce'
<1> USE DEF PubSubInv
<1>t. PubSubTypeOK /\ OnlyLiveHear /\ UnsentIsUnheard /\ OneAttempt /\ PeersHeardOnce
  OBVIOUS
<1>1. CASE Connecting \/ (\E c \in Conns : Refused(c) \/ LostListening(c) \/ Lost(c))
           \/ Start \/ Stop
  <2>1. /\ UNCHANGED traffic
        /\ \A c \in Conns : wire'[c] \subseteq wire[c]
    BY <1>1, <1>t DEF Connecting, Opened, Listens, TimerFires, StartConnects, Refused,
         LostListening, Lost, Closes, Start, Stop, Stops, PubSubTypeOK
  <2> QED
    BY <2>1, <1>t DEF PeersHeardOnce, traffic
<1>2. ASSUME NEW m \in Messages, PeerSends(m) \/ Publish(m) PROVE PeersHeardOnce'
  <2>1. /\ m \notin sent /\ fetching' = fetching
        /\ \A c \in Conns : wire'[c] \subseteq wire[c] \cup {m}
        /\ \A n \in Messages \ Own : heard'[n] = heard[n]
    BY <1>2, <1>t DEF PeerSends, Publish, Notify, PubSubTypeOK
  <2>2. heard[m] = 0 /\ fetching[m] = 0
    BY <2>1, <1>t DEF UnsentIsUnheard
  <2> QED
    BY <2>1, <2>2, <1>t DEF PeersHeardOnce
<1>3. ASSUME NEW m \in Messages, Rehydrated(m) PROVE PeersHeardOnce'
  BY <1>3, <1>t DEF Rehydrated, PeersHeardOnce, PubSubTypeOK
<1>4. ASSUME NEW c \in Conns, NEW m \in Messages, Notified(c, m) PROVE PeersHeardOnce'
  <2> SUFFICES ASSUME NEW n \in Messages \ Own
               PROVE  /\ heard'[n] + fetching'[n] <= 1
                      /\ (\E b \in Conns : n \in wire'[b]) => heard'[n] + fetching'[n] = 0
    BY DEF PeersHeardOnce
  <2>1. \A b \in Conns : wire'[b] = IF b = c THEN wire[b] \ {m} ELSE wire[b]
    BY <1>4, <1>t DEF Notified, PubSubTypeOK
  <2>2. CASE n # m
    <3>1. heard'[n] = heard[n] /\ fetching'[n] = fetching[n]
      BY <2>2, <1>4, <1>t DEF Notified, PubSubTypeOK
    <3> QED
      BY <2>1, <3>1, <1>t DEF PeersHeardOnce
  <2>3. CASE n = m
    <3>1. m \in wire[c]
      BY <1>4 DEF Notified
    <3>2. \A b \in Conns : m \notin wire'[b]
      BY <2>1, <3>1, <1>t DEF OnlyLiveHear, OneAttempt
    <3>3. heard[m] + fetching[m] = 0
      BY <3>1, <2>3, <1>t DEF PeersHeardOnce
    <3>4. heard'[m] + fetching'[m] = heard[m] + fetching[m] + 1
      BY <2>3, <1>4, <1>t DEF Notified, Ignored, PubSubTypeOK
    <3> QED
      BY <2>3, <3>2, <3>3, <3>4
  <2> QED
    BY <2>2, <2>3
<1>5. CASE UNCHANGED pubsubVars
  BY <1>5, <1>t DEF pubsubVars, traffic, PeersHeardOnce
<1> QED
  BY <1>1, <1>2, <1>3, <1>4, <1>5 DEF PubSubNext

LEMMA PubSubSteps == PubSubInv /\ [PubSubNext]_pubsubVars => PubSubInv'
<1> SUFFICES ASSUME PubSubInv, [PubSubNext]_pubsubVars PROVE PubSubInv'
  OBVIOUS
<1>1. PubSubTypeOK'
  BY PubSubKeepsType DEF PubSubInv
<1>2. OnlyLiveHear' /\ UnsentIsUnheard' /\ OwnHeardOnce'
  BY PubSubHearing
<1>3. ASSUME ~crossed' PROVE ~crossed
  <2>1. CASE \E c \in Conns : LostListening(c)
    BY <2>1, <1>3 DEF LostListening
  <2>2. CASE Start
    BY <2>2, <1>3 DEF Start
  <2>3. CASE ~Start /\ ~(\E c \in Conns : LostListening(c))
    <3>1. UNCHANGED crossed
      BY <2>3 DEF PubSubNext, Connecting, Opened, Listens, TimerFires, StartConnects,
           Refused, Lost, Stop, PeerSends, Publish, Rehydrated, Notified, pubsubVars
    <3> QED
      BY <3>1, <1>3
  <2> QED
    BY <2>1, <2>2, <2>3
<1>4. ASSUME ~crossed' PROVE OneAttempt' /\ PeersHeardOnce'
  BY <1>3, <1>4, AttemptStaysOne, PeersStayOnce DEF PubSubInv
<1> QED
  BY <1>1, <1>2, <1>4 DEF PubSubInv

\* The channel between instances: one listener, every message heard once, silence after
\* the stop, as long as none of the overlaps happened that the code does not keep apart.
THEOREM PubSubIsSafe == PubSubSpec => []PubSubSafe
<1>1. PubSubInv => PubSubSafe
  <2> SUFFICES ASSUME PubSubInv PROVE PubSubSafe
    OBVIOUS
  <2>1. ASSUME OneAttempt PROVE Cardinality(LiveConns) <= 1
    <3>1. CASE LiveConns = {}
      BY <3>1, FS_EmptySet
    <3>2. CASE LiveConns # {}
      <4>1. PICK c \in LiveConns : TRUE
        BY <3>2
      <4>2. LiveConns = {c}
        BY <4>1, <2>1 DEF LiveConns, OneAttempt
      <4> QED
        BY <4>2, FS_Singleton
    <3> QED
      BY <3>1, <3>2
  <2>2. OneListener
    BY <2>1 DEF OneListener, PubSubInv
  <2>3. HeardOnce
    <3> SUFFICES ASSUME ~crossed, NEW m \in Messages PROVE heard[m] <= 1
      BY DEF HeardOnce
    <3> QED
      BY DEF PubSubInv, OwnHeardOnce, PeersHeardOnce, PubSubTypeOK
  <2>4. StoppedIsSilent
    BY DEF PubSubInv, OneAttempt, StoppedIsSilent, LiveConns
  <2> QED
    BY <2>2, <2>3, <2>4 DEF PubSubInv, PubSubSafe
<1> QED
  BY <1>1, PubSubStarts, PubSubSteps, PTL DEF PubSubSpec

----------------------------------------------------------------------------
(* Lanes and their wake-up.  A lane that has its empty answer is already as blind as
   one that sleeps: the invariant speaks of both. *)
NobodyIsBlindToWork ==
  (\E l \in Sleepers : lane[l] \in {"asleep", "emptyHanded"}) =>
    \A j \in ready : j \in notifying \cup overslept \/ \E k \in Links : <<k, j>> \in notices

\* While no loss was scheduled twice, the connection that listens is the one in
\* `client`: stop knows it.
ClientIsTheOne ==
  ~aborted /\ doubled = 0 => \A k \in Links : link[k] # "mute" /\ (link[k] = "up" => k \in held)

ListenerInv == ListenerIsKept /\ ClientIsTheOne /\ StoppedListens

WakeInv == WakeTypeOK /\ NobodyIsBlindToWork /\ ListenerInv

\* Whatever does not touch the connections keeps what is said of them.
LEMMA ListenerUntouched ==
  ASSUME ListenerInv, UNCHANGED <<link, held, timers, doubled, leftOpen, aborted>>
  PROVE  ListenerInv'
BY DEF ListenerInv, ListenerIsKept, ClientIsTheOne, StoppedListens, OpenLinks

LEMMA WakeStarts == WakeInit => WakeInv
<1> SUFFICES ASSUME WakeInit PROVE WakeInv
  OBVIOUS
<1> PICK k \in Links : link = [c \in Links |-> IF c = k THEN "connecting" ELSE "none"]
  BY DEF WakeInit
<1>1. aborted \in BOOLEAN /\ leftOpen \in BOOLEAN /\ ~aborted
  BY Zenon DEF WakeInit
<1>2. WakeTypeOK
  BY <1>1, WakeAssumption DEF WakeInit, WakeTypeOK, LaneStates, LinkStates
<1>3. NobodyIsBlindToWork /\ StoppedListens /\ ClientIsTheOne
  BY <1>1 DEF WakeInit, NobodyIsBlindToWork, StoppedListens, ClientIsTheOne
<1>4. ListenerIsKept
  <2>1. OpenLinks = {k}
    BY DEF OpenLinks
  <2>2. Cardinality({k}) = 1
    BY FS_Singleton
  <2> QED
    BY <2>1, <2>2 DEF WakeInit, ListenerIsKept
<1> QED
  BY <1>2, <1>3, <1>4 DEF WakeInv, ListenerInv

\* The jobs and the lanes.
LEMMA LaneSide ==
  ASSUME WakeInv,
         \/ \E j \in Work : Inserts(j) \/ ComesDue(j) \/ NotifyJob(j)
         \/ \E k \in Links, j \in Work : WakeAll(k, j)
         \/ \E l \in Sleepers : LaneSteps(l)
  PROVE  WakeInv'
<1> USE DEF LaneStates
<1>t. WakeTypeOK /\ NobodyIsBlindToWork /\ ListenerInv
  BY DEF WakeInv
<1>a. MaxDeaf \in Nat /\ MaxDues \in Nat
  BY WakeAssumption
<1>l. UNCHANGED <<link, held, timers, doubled, leftOpen, aborted>>
  BY DEF Inserts, ComesDue, NotifyJob, WakeAll, LaneSteps, WaitEnds, Asks, AskFails,
         FallsAsleep, Works, linkVars, wakeVars
<1>u. ListenerInv' /\ UpLinks' = UpLinks
  BY <1>t, <1>l, ListenerUntouched DEF UpLinks
<1>1. ASSUME NEW j \in Work, Inserts(j) PROVE WakeInv'
  <2>1. WakeTypeOK'
    BY <1>1, <1>t, <1>u DEF Inserts, WakeTypeOK, linkVars
  <2>2. NobodyIsBlindToWork'
    BY <1>1, <1>t DEF Inserts, NobodyIsBlindToWork
  <2> QED
    BY <2>1, <2>2, <1>u DEF WakeInv
<1>2. ASSUME NEW j \in Work, ComesDue(j) PROVE WakeInv'
  <2>1. WakeTypeOK'
    BY <1>2, <1>t, <1>u, <1>a DEF ComesDue, WakeTypeOK, linkVars
  <2>2. NobodyIsBlindToWork'
    BY <1>2, <1>t DEF ComesDue, NobodyIsBlindToWork
  <2> QED
    BY <2>1, <2>2, <1>u DEF WakeInv
<1>3. ASSUME NEW j \in Work, NotifyJob(j) PROVE WakeInv'
  <2>1. WakeTypeOK'
    BY <1>3, <1>t, <1>u DEF NotifyJob, WakeTypeOK, linkVars
  <2>2. NobodyIsBlindToWork'
    <3> SUFFICES ASSUME \E l \in Sleepers : lane[l] \in {"asleep", "emptyHanded"},
                        NEW i \in ready
                 PROVE  \/ i \in notifying' \cup overslept'
                        \/ \E k \in Links : <<k, i>> \in notices'
      BY <1>3 DEF NotifyJob, NobodyIsBlindToWork
    <3>1. CASE i = j /\ UpLinks # {}
      <4> PICK k \in UpLinks : TRUE
        BY <3>1
      <4>1. <<k, i>> \in notices' /\ k \in Links
        BY <3>1, <1>3 DEF NotifyJob, UpLinks
      <4> QED
        BY <4>1
    <3>2. CASE ~(i = j /\ UpLinks # {})
      BY <3>2, <1>3, <1>t DEF NotifyJob, NobodyIsBlindToWork
    <3> QED
      BY <3>1, <3>2
  <2> QED
    BY <2>1, <2>2, <1>u DEF WakeInv
<1>4. ASSUME NEW k \in Links, NEW j \in Work, WakeAll(k, j) PROVE WakeInv'
  <2>1. WakeTypeOK'
    BY <1>4, <1>t, <1>u DEF WakeAll, Woken, WakeTypeOK, linkVars
  <2>2. NobodyIsBlindToWork'
    <3>1. \A l \in Sleepers : lane'[l] \in {"asleep", "emptyHanded"} => lane[l] = "emptyHanded"
      BY <1>4, <1>t DEF WakeAll, Woken, WakeTypeOK
    <3>2. CASE \E l \in Sleepers : lane[l] = "emptyHanded"
      <4>1. \A i \in ready : i \in notifying \cup overslept
                             \/ \E c \in Links : <<c, i>> \in notices
        BY <3>2, <1>t DEF NobodyIsBlindToWork
      <4>2. overslept' = overslept \cup {j} /\ notices' = notices \ {<<k, j>>}
            /\ ready' = ready /\ notifying' = notifying
        BY <3>2, <1>4 DEF WakeAll
      <4>3. \A i \in ready, c \in Links :
               <<c, i>> \in notices => i \in overslept' \/ <<c, i>> \in notices'
        BY <4>2
      <4> QED
        BY <4>1, <4>2, <4>3 DEF NobodyIsBlindToWork
    <3> QED
      BY <3>1, <3>2 DEF NobodyIsBlindToWork
  <2> QED
    BY <2>1, <2>2, <1>u DEF WakeInv
<1>5. ASSUME NEW l \in Sleepers, WaitEnds(l) \/ Works(l) PROVE WakeInv'
  <2>1. WakeTypeOK'
    BY <1>5, <1>t, <1>u DEF WaitEnds, Works, Woken, WakeTypeOK, linkVars
  <2>2. NobodyIsBlindToWork'
    BY <1>5, <1>t DEF WaitEnds, Works, Woken, WakeTypeOK, NobodyIsBlindToWork
  <2> QED
    BY <2>1, <2>2, <1>u DEF WakeInv
<1>6. ASSUME NEW l \in Sleepers, Asks(l) PROVE WakeInv'
  <2>1. WakeTypeOK'
    BY <1>6, <1>t, <1>u DEF Asks, WakeTypeOK, linkVars
  <2>2. NobodyIsBlindToWork'
    BY <1>6, <1>t DEF Asks, WakeTypeOK, NobodyIsBlindToWork
  <2> QED
    BY <2>1, <2>2, <1>u DEF WakeInv
<1>7. ASSUME NEW l \in Sleepers, AskFails(l) \/ FallsAsleep(l) PROVE WakeInv'
  <2>1. WakeTypeOK'
    BY <1>7, <1>t, <1>u, <1>a DEF AskFails, FallsAsleep, Deaf, WakeTypeOK, linkVars
  <2>2. NobodyIsBlindToWork'
    BY <1>7, <1>t DEF AskFails, FallsAsleep, WakeTypeOK, NobodyIsBlindToWork
  <2> QED
    BY <2>1, <2>2, <1>u DEF WakeInv
<1> QED
  BY <1>1, <1>2, <1>3, <1>4, <1>5, <1>6, <1>7 DEF LaneSteps

\* One connection more, one less, or none of both.
LEMMA CountsLinks ==
  ASSUME WakeTypeOK, NEW k \in Links, NEW s \in LinkStates, link' = [link EXCEPT ![k] = s]
  PROVE  /\ Cardinality(OpenLinks) \in Nat /\ IsFiniteSet(OpenLinks)
         /\ link[k] # "none" /\ s # "none" => OpenLinks' = OpenLinks
         /\ link[k] # "none" /\ s = "none" =>
              Cardinality(OpenLinks') = Cardinality(OpenLinks) - 1 /\ OpenLinks' \subseteq OpenLinks
         /\ link[k] = "none" /\ s # "none" => Cardinality(OpenLinks') = Cardinality(OpenLinks) + 1
<1>1. OpenLinks \in SUBSET Links /\ IsFiniteSet(Links)
  BY WakeAssumption DEF OpenLinks
<1>2. IsFiniteSet(OpenLinks) /\ Cardinality(OpenLinks) \in Nat
  BY <1>1, FS_Subset, FS_CardinalityType
<1>3. link'[k] = s /\ \A c \in Links \ {k} : link'[c] = link[c]
  BY DEF WakeTypeOK
<1>4. link[k] # "none" /\ s # "none" => OpenLinks' = OpenLinks
  BY <1>3 DEF OpenLinks
<1>5. link[k] # "none" /\ s = "none" => OpenLinks' = OpenLinks \ {k} /\ k \in OpenLinks
  BY <1>3 DEF OpenLinks
<1>6. link[k] = "none" /\ s # "none" => OpenLinks' = OpenLinks \cup {k} /\ k \notin OpenLinks
  BY <1>3 DEF OpenLinks
<1>7. k \in OpenLinks => Cardinality(OpenLinks \ {k}) = Cardinality(OpenLinks) - 1
  BY <1>2, FS_RemoveElement
<1>8. k \notin OpenLinks => Cardinality(OpenLinks \cup {k}) = Cardinality(OpenLinks) + 1
  BY <1>2, FS_AddElement
<1> QED
  BY <1>2, <1>4, <1>5, <1>6, <1>7, <1>8

\* The connections, their timers and the stop.
LEMMA LinkSide ==
  ASSUME WakeInv, StopsWaiting \/ LinkTimerFires \/ \E k \in Links : LinkSteps(k)
  PROVE  WakeInv'
<1> USE DEF LaneStates
<1>t. WakeTypeOK /\ NobodyIsBlindToWork
  BY DEF WakeInv
<1>i. ListenerIsKept /\ ClientIsTheOne /\ StoppedListens
  BY DEF WakeInv, ListenerInv
<1>a. MaxDeaf \in Nat /\ MaxDues \in Nat
  BY WakeAssumption
<1>n. timers \in Nat /\ doubled \in Nat /\ aborted \in BOOLEAN /\ link \in [Links -> LinkStates]
  BY <1>t DEF WakeTypeOK
<1>1. ASSUME NEW k \in Links, LinkConnects(k) PROVE WakeInv'
  <2>1. UpLinks' = UpLinks
    BY <1>1, <1>t DEF LinkConnects, UpLinks, WakeTypeOK
  <2>2. WakeTypeOK'
    BY <1>1, <1>t, <2>1 DEF LinkConnects, WakeTypeOK, LinkStates
  <2>3. NobodyIsBlindToWork'
    BY <1>1, <1>t DEF LinkConnects, NobodyIsBlindToWork
  <2>4. OpenLinks' = OpenLinks
    BY <1>1, <1>t, CountsLinks DEF LinkConnects, LinkStates
  <2>5. ListenerInv'
    BY <1>1, <1>i, <1>n, <2>4 DEF LinkConnects, ListenerInv, ListenerIsKept, ClientIsTheOne,
                                  StoppedListens
  <2> QED
    BY <2>2, <2>3, <2>5 DEF WakeInv
<1>2. ASSUME NEW k \in Links, LinkListens(k) PROVE WakeInv'
  <2>1. UpLinks' = UpLinks \cup {k}
    BY <1>2, <1>t DEF LinkListens, UpLinks, WakeTypeOK
  <2>2. WakeTypeOK'
    BY <1>2, <1>t, <2>1 DEF LinkListens, WakeTypeOK, LinkStates
  <2>3. NobodyIsBlindToWork'
    BY <1>2, <1>t DEF LinkListens, NobodyIsBlindToWork
  <2>4. OpenLinks' = OpenLinks /\ IsFiniteSet(OpenLinks) /\ Cardinality(OpenLinks) \in Nat
    BY <1>2, <1>t, CountsLinks DEF LinkListens, LinkStates
  <2>5. ClientIsTheOne'
    <3> SUFFICES ASSUME ~aborted, doubled = 0, NEW c \in Links, c # k
                 PROVE  link[c] = "none"
      BY <1>2, <1>n DEF LinkListens, ClientIsTheOne
    <3>1. Cardinality(OpenLinks) <= 1 /\ k \in OpenLinks
      BY <1>2, <1>i, <1>n, <2>4 DEF ListenerIsKept, LinkListens, OpenLinks
    <3>2. IsFiniteSet(OpenLinks \ {k}) /\ Cardinality(OpenLinks \ {k}) = Cardinality(OpenLinks) - 1
      BY <2>4, <3>1, FS_RemoveElement
    <3>3. Cardinality(OpenLinks \ {k}) \in Nat
      BY <3>2, FS_CardinalityType
    <3>4. OpenLinks \ {k} = {}
      BY <2>4, <3>1, <3>2, <3>3, FS_EmptySet
    <3> QED
      BY <3>4 DEF OpenLinks
  <2>6. ListenerIsKept' /\ StoppedListens'
    BY <1>2, <1>i, <2>4 DEF LinkListens, ListenerIsKept, StoppedListens
  <2> QED
    BY <2>2, <2>3, <2>5, <2>6 DEF WakeInv, ListenerInv
<1>3. ASSUME NEW k \in Links, LinkRefused(k) PROVE WakeInv'
  <2>1. UpLinks' = UpLinks
    BY <1>3, <1>t DEF LinkRefused, UpLinks, WakeTypeOK
  <2>2. WakeTypeOK'
    BY <1>3, <1>t, <1>a, <2>1 DEF LinkRefused, Deaf, SchedulesLink, WakeTypeOK, LinkStates
  <2>3. NobodyIsBlindToWork'
    BY <1>3, <1>t DEF LinkRefused, NobodyIsBlindToWork
  <2>4. /\ Cardinality(OpenLinks') = Cardinality(OpenLinks) - 1 /\ OpenLinks' \subseteq OpenLinks
        /\ Cardinality(OpenLinks) \in Nat
    BY <1>3, <1>t, CountsLinks DEF LinkRefused, LinkStates
  <2>5. ListenerIsKept'
    BY <1>3, <1>i, <1>n, <2>4 DEF LinkRefused, SchedulesLink, ListenerIsKept
  <2>6. ClientIsTheOne' /\ StoppedListens'
    BY <1>3, <1>i, <1>n, <2>4 DEF LinkRefused, ClientIsTheOne, StoppedListens
  <2> QED
    BY <2>2, <2>3, <2>5, <2>6 DEF WakeInv, ListenerInv
<1>4. ASSUME NEW k \in Links, ListenRefused(k) PROVE WakeInv'
  <2>1. UpLinks' = UpLinks
    BY <1>4, <1>t DEF ListenRefused, UpLinks, WakeTypeOK
  <2>2. WakeTypeOK'
    BY <1>4, <1>t, <1>a, <2>1 DEF ListenRefused, Deaf, SchedulesLink, Doubled, WakeTypeOK, LinkStates
  <2>3. NobodyIsBlindToWork'
    BY <1>4, <1>t DEF ListenRefused, NobodyIsBlindToWork
  <2>4. OpenLinks' = OpenLinks /\ Cardinality(OpenLinks) \in Nat
    BY <1>4, <1>t, CountsLinks DEF ListenRefused, LinkStates
  <2>5. ListenerIsKept'
    BY <1>4, <1>i, <1>n, <2>4 DEF ListenRefused, SchedulesLink, Doubled, ListenerIsKept
  <2>6. ClientIsTheOne' /\ StoppedListens'
    BY <1>4, <1>i, <1>n, <2>4 DEF ListenRefused, Doubled, ClientIsTheOne, StoppedListens
  <2> QED
    BY <2>2, <2>3, <2>5, <2>6 DEF WakeInv, ListenerInv
<1>5. ASSUME NEW k \in Links, LinkDrops(k) PROVE WakeInv'
  <2>1. UpLinks' = UpLinks \ {k}
    BY <1>5, <1>t DEF LinkDrops, UpLinks, WakeTypeOK
  <2>2. notices' = {n \in notices : n[1] # k} /\ notices \subseteq UpLinks \X inserted
        /\ overslept' = overslept \cup {j \in inserted : <<k, j>> \in notices}
    BY <1>5, <1>t DEF LinkDrops, LosesNotices, WakeTypeOK
  <2>3. notices' \subseteq UpLinks' \X inserted /\ overslept' \subseteq inserted
        /\ held' \subseteq UpLinks'
    BY <1>5, <1>t, <2>1, <2>2 DEF LinkDrops, WakeTypeOK
  <2>4. timers' \in Nat /\ doubled' \in Nat
    BY <1>5, <1>n DEF LinkDrops, SchedulesLink, Doubled
  <2>5. WakeTypeOK'
    BY <1>5, <1>t, <1>a, <2>3, <2>4 DEF LinkDrops, Deaf, WakeTypeOK, LinkStates
  <2>6. NobodyIsBlindToWork'
    <3>1. \A c \in Links, j \in inserted :
            <<c, j>> \in notices => j \in overslept' \/ <<c, j>> \in notices'
      BY <2>2
    <3>2. ready \subseteq inserted /\ ready' = ready /\ notifying' = notifying /\ lane' = lane
      BY <1>5, <1>t DEF LinkDrops, WakeTypeOK
    <3> QED
      BY <1>t, <2>2, <3>1, <3>2 DEF NobodyIsBlindToWork
  <2>7. /\ Cardinality(OpenLinks') = Cardinality(OpenLinks) - 1 /\ OpenLinks' \subseteq OpenLinks
        /\ Cardinality(OpenLinks) \in Nat
    BY <1>5, <1>t, CountsLinks DEF LinkDrops, LinkStates
  <2>8. ListenerIsKept'
    BY <1>5, <1>i, <1>n, <2>7 DEF LinkDrops, SchedulesLink, Doubled, ListenerIsKept
  <2>9. ClientIsTheOne' /\ StoppedListens'
    BY <1>5, <1>i, <1>n, <2>7 DEF LinkDrops, Doubled, ClientIsTheOne, StoppedListens
  <2> QED
    BY <2>5, <2>6, <2>8, <2>9 DEF WakeInv, ListenerInv
<1>6. CASE LinkTimerFires
  <2>1. UpLinks' = UpLinks
    BY <1>6, <1>t DEF LinkTimerFires, UpLinks, OpenLinks, WakeTypeOK
  <2>2. WakeTypeOK'
    BY <1>6, <1>t, <2>1 DEF LinkTimerFires, WakeTypeOK, LinkStates, OpenLinks
  <2>3. NobodyIsBlindToWork'
    BY <1>6, <1>t DEF LinkTimerFires, NobodyIsBlindToWork
  <2>4. ASSUME aborted PROVE ListenerInv'
    BY <2>4, <1>6, <1>i, <1>n DEF LinkTimerFires, ListenerInv, ListenerIsKept, ClientIsTheOne,
                                  StoppedListens, OpenLinks
  <2>5. ASSUME ~aborted PROVE ListenerInv'
    <3> PICK k \in Links \ OpenLinks : link' = [link EXCEPT ![k] = "connecting"]
      BY <2>5, <1>6 DEF LinkTimerFires
    <3>1. Cardinality(OpenLinks') = Cardinality(OpenLinks) + 1 /\ Cardinality(OpenLinks) \in Nat
      BY <1>t, CountsLinks DEF OpenLinks, LinkStates
    <3>2. ListenerIsKept'
      BY <2>5, <3>1, <1>6, <1>i, <1>n DEF LinkTimerFires, ListenerIsKept
    <3>3. ClientIsTheOne' /\ StoppedListens'
      BY <2>5, <1>6, <1>i, <1>n DEF LinkTimerFires, ClientIsTheOne, StoppedListens
    <3> QED
      BY <3>2, <3>3 DEF ListenerInv
  <2> QED
    BY <2>2, <2>3, <2>4, <2>5, <1>n DEF WakeInv
<1>7. CASE StopsWaiting
  <2>1. aborted' /\ aborted' \in BOOLEAN /\ ~aborted
    BY <1>7, Zenon DEF StopsWaiting
  <2>2. leftOpen' = (\E k \in Links : link[k] \in {"connecting", "listening"})
        /\ leftOpen' \in BOOLEAN
    BY <1>7 DEF StopsWaiting
  <2>3. /\ lane' = [l \in Sleepers |-> IF lane[l] = "asleep" THEN "ended" ELSE lane[l]]
        /\ link' = [k \in Links |-> IF k \in held THEN "none" ELSE link[k]]
        /\ held' = {}
        /\ notices' = {n \in notices : n[1] \notin held}
        /\ overslept' = overslept \cup {j \in inserted : \E k \in held : <<k, j>> \in notices}
        /\ UNCHANGED <<inserted, ready, notifying, timers, doubled, deaf, dues>>
    BY <1>7, Zenon DEF StopsWaiting
  <2>4. UpLinks' = UpLinks \ held
    BY <2>3, <1>t DEF WakeTypeOK, UpLinks
  <2>5. notices' \subseteq UpLinks' \X inserted /\ overslept' \subseteq inserted
    BY <2>3, <2>4, <1>t DEF WakeTypeOK
  <2>6. link' \in [Links -> LinkStates] /\ lane' \in [Sleepers -> LaneStates]
    BY <2>3, <1>t DEF WakeTypeOK, LinkStates
  <2>7. WakeTypeOK'
    BY <2>1, <2>2, <2>3, <2>5, <2>6, <1>t DEF WakeTypeOK
  <2>8. NobodyIsBlindToWork'
    <3>1. \A c \in Links, j \in inserted :
            <<c, j>> \in notices => j \in overslept' \/ <<c, j>> \in notices'
      BY <2>3
    <3>2. ready \subseteq inserted
      BY <1>t DEF WakeTypeOK
    <3>3. \A l \in Sleepers : lane'[l] \in {"asleep", "emptyHanded"} =>
                              lane[l] \in {"asleep", "emptyHanded"}
      BY <2>3
    <3> QED
      BY <2>3, <1>t, <3>1, <3>2, <3>3 DEF NobodyIsBlindToWork
  <2>9. StoppedListens'
    <3> SUFFICES ASSUME OpenLinks' # {}, doubled = 0 PROVE leftOpen'
      BY <2>3, <1>n DEF StoppedListens
    <3> PICK k \in Links : link'[k] # "none"
      BY DEF OpenLinks
    <3>1. k \notin held /\ link[k] # "none"
      BY <2>3
    <3>2. link[k] # "mute" /\ link[k] # "up"
      BY <3>1, <2>1, <1>i DEF ClientIsTheOne
    <3> QED
      BY <3>1, <3>2, <2>2, <1>n DEF LinkStates
  <2> QED
    BY <2>1, <2>7, <2>8, <2>9 DEF WakeInv, ListenerInv, ListenerIsKept, ClientIsTheOne
<1> QED
  BY <1>1, <1>2, <1>3, <1>4, <1>5, <1>6, <1>7 DEF LinkSteps

LEMMA WakeSteps == WakeInv /\ [WakeNext]_wakeVars => WakeInv'
<1> SUFFICES ASSUME WakeInv, [WakeNext]_wakeVars PROVE WakeInv'
  OBVIOUS
<1>1. CASE WakeNext
  BY <1>1, LaneSide, LinkSide DEF WakeNext
<1>2. CASE UNCHANGED wakeVars
  <2>1. WakeTypeOK' /\ NobodyIsBlindToWork'
    BY <1>2 DEF wakeVars, linkVars, WakeInv, WakeTypeOK, NobodyIsBlindToWork, UpLinks
  <2>2. ListenerInv'
    BY <1>2, ListenerUntouched DEF wakeVars, linkVars, WakeInv
  <2> QED
    BY <2>1, <2>2 DEF WakeInv
<1> QED
  BY <1>1, <1>2

\* Nobody sleeps beside a job that waits without one of the named reasons; before the
\* stop there is a connection or a timer for the one listener and for each loss that was
\* scheduled twice, and no other; after it nothing is left but what a connect under way
\* or such a loss leaves.
THEOREM WakeIsSafe == WakeSpec => []WakeSafe
<1>1. WakeInv => WakeSafe
  BY DEF WakeInv, ListenerInv, WakeSafe, NobodyIsBlindToWork, NobodySleepsOnWork
<1> QED
  BY <1>1, WakeStarts, WakeSteps, PTL DEF WakeSpec

----------------------------------------------------------------------------
(* The circuit breakers. *)

\* How long a provider is shut out follows the cooldowns that ran out: one ahead of
\* them while it cools, not ahead when the cooldown is over.
OpensFollowCooldowns ==
  \A p \in Providers :
    /\ breaker[p].opened = "no" => breaker[p].opens = 0
    /\ breaker[p].opened = "over" => breaker[p].opens <= cooldowns[p]
    /\ breaker[p].opened = "cooling" => breaker[p].opens <= cooldowns[p] + 1

\* The streak of a breaker is made of failures since the last answer.
StreakIsBad == \A p \in Providers : breaker[p].streak <= bad[p]

BreakerInv == BreakerTypeOK /\ OpensFollowCooldowns /\ StreakIsBad

LEMMA WalksTheChain ==
  ASSUME BreakerTypeOK, NEW r \in Resolves
  PROVE  /\ Asked(r) \in Providers
         /\ Onward(r) \in [pc : {"idle", "walking", "asking"}, at : DOMAIN Chain,
                           probe : BOOLEAN, doomed : BOOLEAN]
         /\ NoResolve \in [pc : {"idle", "walking", "asking"}, at : DOMAIN Chain,
                           probe : BOOLEAN, doomed : BOOLEAN]
<1>1. /\ Len(Chain) \in Nat \ {0} /\ DOMAIN Chain = 1 .. Len(Chain)
      /\ resolve[r].at \in DOMAIN Chain
  BY BreakerAssumption DEF BreakerTypeOK
<1>2. Asked(r) \in Providers
  BY <1>1 DEF Asked, Providers
<1>3. NoResolve \in [pc : {"idle", "walking", "asking"}, at : DOMAIN Chain,
                     probe : BOOLEAN, doomed : BOOLEAN]
  BY <1>1 DEF NoResolve
<1>4. ASSUME resolve[r].at < Len(Chain)
      PROVE  [NoResolve EXCEPT !.pc = "walking", !.at = resolve[r].at + 1]
               \in [pc : {"idle", "walking", "asking"}, at : DOMAIN Chain,
                    probe : BOOLEAN, doomed : BOOLEAN]
  <2>1. resolve[r].at + 1 \in DOMAIN Chain
    BY <1>1, <1>4
  <2> QED
    BY <2>1, <1>3
<1> QED
  BY <1>2, <1>3, <1>4 DEF Onward

\* One failure moves one breaker by one step.
LEMMA OneFailure ==
  ASSUME BreakerInv, NEW p \in Providers, Failed(p)
  PROVE  /\ breaker' \in [Providers -> [opened : {"no", "cooling", "over"},
                                        streak : 0 .. TRIP_AFTER, opens : 0 .. OpensCap]]
         /\ OpensFollowCooldowns'
         /\ breaker'[p].streak = UpTo(TRIP_AFTER, breaker[p].streak)
         /\ breaker[p].opened = "no" /\ breaker'[p].opened # "no" =>
              breaker[p].streak + 1 >= TRIP_AFTER
         /\ \A q \in Providers : q # p => breaker'[q] = breaker[q]
<1> DEFINE b == breaker[p]
<1>a. TRIP_AFTER \in Nat \ {0} /\ OpensCap \in Nat \ {0}
  BY BreakerAssumption
<1>1. /\ b \in [opened : {"no", "cooling", "over"}, streak : 0 .. TRIP_AFTER,
                opens : 0 .. OpensCap]
      /\ cooldowns[p] \in 0 .. OpensCap
  BY DEF BreakerInv, BreakerTypeOK
<1>2. breaker' = [breaker EXCEPT ![p] = AfterFailure(b)] /\ cooldowns' = cooldowns
  BY DEF Failed
<1>3. CASE Trips(b)
  <2>1. AfterFailure(b) = [opened |-> "cooling", streak |-> UpTo(TRIP_AFTER, b.streak),
                           opens |-> UpTo(OpensCap, b.opens)]
    BY <1>1, <1>3 DEF AfterFailure
  <2>2. /\ UpTo(TRIP_AFTER, b.streak) \in 0 .. TRIP_AFTER
        /\ UpTo(OpensCap, b.opens) \in 0 .. OpensCap
        /\ UpTo(OpensCap, b.opens) <= b.opens + 1
    BY <1>1, <1>a DEF UpTo
  <2>3. b.opens <= cooldowns[p]
    BY <1>1, <1>3 DEF BreakerInv, OpensFollowCooldowns, Trips
  <2>4. breaker'[p] = AfterFailure(b) /\ \A q \in Providers : q # p => breaker'[q] = breaker[q]
    BY <1>2 DEF BreakerInv, BreakerTypeOK
  <2>5. breaker' \in [Providers -> [opened : {"no", "cooling", "over"},
                                    streak : 0 .. TRIP_AFTER, opens : 0 .. OpensCap]]
    BY <1>2, <2>1, <2>2 DEF BreakerInv, BreakerTypeOK
  <2>6. OpensFollowCooldowns'
    BY <1>1, <1>2, <2>1, <2>2, <2>3, <2>4, <1>a DEF BreakerInv, BreakerTypeOK, OpensFollowCooldowns
  <2>7. b.opened = "no" => b.streak + 1 >= TRIP_AFTER
    BY <1>3 DEF Trips
  <2> QED
    BY <2>1, <2>4, <2>5, <2>6, <2>7
<1>4. CASE ~Trips(b)
  <2>1. AfterFailure(b) = [opened |-> b.opened, streak |-> UpTo(TRIP_AFTER, b.streak),
                           opens |-> b.opens]
    BY <1>1, <1>4 DEF AfterFailure
  <2>2. UpTo(TRIP_AFTER, b.streak) \in 0 .. TRIP_AFTER
    BY <1>1, <1>a DEF UpTo
  <2>3. breaker'[p] = AfterFailure(b) /\ \A q \in Providers : q # p => breaker'[q] = breaker[q]
    BY <1>2 DEF BreakerInv, BreakerTypeOK
  <2>4. breaker' \in [Providers -> [opened : {"no", "cooling", "over"},
                                    streak : 0 .. TRIP_AFTER, opens : 0 .. OpensCap]]
    BY <1>1, <1>2, <2>1, <2>2 DEF BreakerInv, BreakerTypeOK
  <2>5. OpensFollowCooldowns'
    BY <1>2, <2>1, <2>3 DEF BreakerInv, OpensFollowCooldowns
  <2> QED
    BY <2>1, <2>3, <2>4, <2>5
<1> QED
  BY <1>3, <1>4

LEMMA BreakerStarts == BreakerInit => BreakerInv
<1> SUFFICES ASSUME BreakerInit PROVE BreakerInv
  OBVIOUS
<1>a. /\ TRIP_AFTER \in Nat \ {0} /\ OpensCap \in Nat \ {0} /\ MaxOutages \in Nat
      /\ Len(Chain) \in Nat \ {0} /\ DOMAIN Chain = 1 .. Len(Chain)
  BY BreakerAssumption
<1>1. /\ Closed \in [opened : {"no", "cooling", "over"}, streak : 0 .. TRIP_AFTER,
                     opens : 0 .. OpensCap]
      /\ NoResolve \in [pc : {"idle", "walking", "asking"}, at : DOMAIN Chain,
                        probe : BOOLEAN, doomed : BOOLEAN]
  BY <1>a DEF Closed, NoResolve
<1>2. BreakerTypeOK
  BY <1>1, <1>a DEF BreakerInit, BreakerTypeOK
<1>3. OpensFollowCooldowns /\ StreakIsBad
  BY DEF BreakerInit, Closed, OpensFollowCooldowns, StreakIsBad
<1> QED
  BY <1>2, <1>3 DEF BreakerInv

LEMMA BreakerSteps == BreakerInv /\ [BreakerNext]_breakerVars => BreakerInv'
<1> SUFFICES ASSUME BreakerInv, [BreakerNext]_breakerVars PROVE BreakerInv'
  OBVIOUS
<1>t. BreakerTypeOK /\ OpensFollowCooldowns /\ StreakIsBad
  BY DEF BreakerInv
<1>a. TRIP_AFTER \in Nat \ {0} /\ OpensCap \in Nat \ {0} /\ MaxOutages \in Nat
  BY BreakerAssumption
<1>1. ASSUME NEW r \in Resolves, BeginResolve(r) \/ SkipProvider(r) \/ AskProvider(r)
      PROVE  BreakerInv'
  <2>1. resolve' \in [Resolves -> [pc : {"idle", "walking", "asking"}, at : DOMAIN Chain,
                                   probe : BOOLEAN, doomed : BOOLEAN]]
    <3>1. CASE BeginResolve(r)
      <4>1. [NoResolve EXCEPT !.pc = "walking"]
              \in [pc : {"idle", "walking", "asking"}, at : DOMAIN Chain,
                   probe : BOOLEAN, doomed : BOOLEAN]
        BY <1>t, WalksTheChain
      <4> QED
        BY <3>1, <4>1, <1>t DEF BeginResolve, BreakerTypeOK
    <3>2. CASE SkipProvider(r)
      BY <3>2, <1>t, WalksTheChain DEF SkipProvider, BreakerTypeOK
    <3>3. CASE AskProvider(r)
      <4>1. [resolve[r] EXCEPT !.pc = "asking",
                   !.probe = breaker[Asked(r)].opened = "over",
                   !.doomed = ~alive[Asked(r)]]
              \in [pc : {"idle", "walking", "asking"}, at : DOMAIN Chain,
                   probe : BOOLEAN, doomed : BOOLEAN]
        BY <1>t, ZenonT(40) DEF BreakerTypeOK
      <4> QED
        BY <3>3, <4>1, <1>t DEF AskProvider, BreakerTypeOK
    <3> QED
      BY <1>1, <3>1, <3>2, <3>3
  <2>2. UNCHANGED <<breaker, alive, bad, cooldowns, outages>>
    BY <1>1 DEF BeginResolve, SkipProvider, AskProvider
  <2> QED
    BY <2>1, <2>2, <1>t DEF BreakerInv, BreakerTypeOK, OpensFollowCooldowns, StreakIsBad
<1>2. ASSUME NEW r \in Resolves, ProviderHasIt(r) \/ ProviderHasNone(r) PROVE BreakerInv'
  <2>1. Asked(r) \in Providers
    BY <1>t, WalksTheChain
  <2>2. Succeeded(Asked(r)) /\ UNCHANGED <<alive, outages>>
    BY <1>2 DEF ProviderHasIt, ProviderHasNone
  <2>3. Closed \in [opened : {"no", "cooling", "over"}, streak : 0 .. TRIP_AFTER,
                    opens : 0 .. OpensCap]
    BY <1>a DEF Closed
  <2>4. resolve' \in [Resolves -> [pc : {"idle", "walking", "asking"}, at : DOMAIN Chain,
                                   probe : BOOLEAN, doomed : BOOLEAN]]
    BY <1>2, <1>t, WalksTheChain DEF ProviderHasIt, ProviderHasNone, BreakerTypeOK
  <2>5. BreakerTypeOK'
    BY <2>1, <2>2, <2>3, <2>4, <1>t, <1>a DEF Succeeded, BreakerTypeOK
  <2>6. OpensFollowCooldowns' /\ StreakIsBad'
    BY <2>1, <2>2, <1>t DEF Succeeded, Closed, BreakerTypeOK, OpensFollowCooldowns, StreakIsBad
  <2> QED
    BY <2>5, <2>6 DEF BreakerInv
<1>3. ASSUME NEW r \in Resolves, ProviderFails(r) PROVE BreakerInv'
  <2>1. Asked(r) \in Providers
    BY <1>t, WalksTheChain
  <2>2. /\ Failed(Asked(r)) /\ UNCHANGED <<alive, outages, cooldowns>>
        /\ bad' = [bad EXCEPT ![Asked(r)] = UpTo(TRIP_AFTER, @)]
    BY <1>3 DEF ProviderFails, Failed
  <2>3. resolve' \in [Resolves -> [pc : {"idle", "walking", "asking"}, at : DOMAIN Chain,
                                   probe : BOOLEAN, doomed : BOOLEAN]]
    BY <1>3, <1>t, WalksTheChain DEF ProviderFails, BreakerTypeOK
  <2>4. /\ breaker' \in [Providers -> [opened : {"no", "cooling", "over"},
                                       streak : 0 .. TRIP_AFTER, opens : 0 .. OpensCap]]
        /\ OpensFollowCooldowns'
        /\ breaker'[Asked(r)].streak = UpTo(TRIP_AFTER, breaker[Asked(r)].streak)
        /\ \A q \in Providers : q # Asked(r) => breaker'[q] = breaker[q]
    BY <2>1, <2>2, OneFailure
  <2>5. BreakerTypeOK'
    BY <2>1, <2>2, <2>3, <2>4, <1>t, <1>a DEF UpTo, BreakerTypeOK
  <2>6. StreakIsBad'
    BY <2>1, <2>2, <2>4, <1>t, <1>a DEF UpTo, BreakerTypeOK, StreakIsBad
  <2> QED
    BY <2>4, <2>5, <2>6 DEF BreakerInv
<1>4. ASSUME NEW p \in Providers, CooldownEnds(p) PROVE BreakerInv'
  <2>1. BreakerTypeOK'
    BY <1>4, <1>t, <1>a DEF CooldownEnds, UpTo, BreakerTypeOK
  <2>2. OpensFollowCooldowns' /\ StreakIsBad'
    BY <1>4, <1>t, <1>a
    DEF CooldownEnds, UpTo, BreakerTypeOK, OpensFollowCooldowns, StreakIsBad
  <2> QED
    BY <2>1, <2>2 DEF BreakerInv
<1>5. ASSUME NEW p \in Providers, Outage(p) PROVE BreakerInv'
  <2>1. BreakerTypeOK'
    BY <1>5, <1>t, <1>a DEF Outage, BreakerTypeOK
  <2> QED
    BY <2>1, <1>5, <1>t DEF Outage, BreakerInv, OpensFollowCooldowns, StreakIsBad
<1>6. CASE UNCHANGED breakerVars
  BY <1>6, <1>t DEF breakerVars, BreakerInv, BreakerTypeOK, OpensFollowCooldowns, StreakIsBad
<1> QED
  BY <1>1, <1>2, <1>3, <1>4, <1>5, <1>6 DEF BreakerNext, Resolve

LEMMA BreakerInvariant == BreakerSpec => []BreakerInv
  BY BreakerStarts, BreakerSteps, PTL DEF BreakerSpec

\* However many requests fail together, the wait grows once per cooldown that ran out.
THEOREM BreakerGrowsOncePerCooldown == BreakerSpec => [](BreakerTypeOK /\ OneStepPerCooldown)
<1>1. BreakerInv => BreakerTypeOK /\ OneStepPerCooldown
  BY DEF BreakerInv, BreakerTypeOK, OpensFollowCooldowns, OneStepPerCooldown
<1> QED
  BY <1>1, BreakerInvariant, PTL

\* A breaker opens after TRIP_AFTER failures with no answer between them, never for less.
THEOREM BreakerOpensForFailures == BreakerSpec => ShutOutForFailures
<1>1. ASSUME BreakerInv, [BreakerNext]_breakerVars, NEW p \in Providers,
             breaker[p].opened = "no", breaker'[p].opened # "no"
      PROVE  bad'[p] >= TRIP_AFTER
  <2>t. BreakerTypeOK /\ StreakIsBad /\ TRIP_AFTER \in Nat \ {0}
    BY <1>1, BreakerAssumption DEF BreakerInv
  <2>1. ASSUME NEW r \in Resolves, ProviderFails(r) PROVE bad'[p] >= TRIP_AFTER
    <3>1. /\ Failed(Asked(r)) /\ Asked(r) \in Providers
          /\ bad' = [bad EXCEPT ![Asked(r)] = UpTo(TRIP_AFTER, @)]
      BY <2>1, <2>t, WalksTheChain DEF ProviderFails
    <3>2. p = Asked(r) /\ breaker[p].streak + 1 >= TRIP_AFTER
      BY <3>1, <1>1, OneFailure
    <3> QED
      BY <3>1, <3>2, <2>t DEF UpTo, BreakerTypeOK, StreakIsBad
  <2>2. ASSUME NEW r \in Resolves, ProviderHasIt(r) \/ ProviderHasNone(r) PROVE FALSE
    <3>1. Asked(r) \in Providers /\ breaker' = [breaker EXCEPT ![Asked(r)] = Closed]
      BY <2>2, <2>t, WalksTheChain DEF ProviderHasIt, ProviderHasNone, Succeeded
    <3> QED
      BY <3>1, <1>1, <2>t DEF Closed, BreakerTypeOK
  <2>3. ASSUME NEW q \in Providers, CooldownEnds(q) PROVE FALSE
    BY <2>3, <1>1, <2>t DEF CooldownEnds, BreakerTypeOK
  <2>4. ASSUME breaker' = breaker PROVE FALSE
    BY <2>4, <1>1
  <2> QED
    BY <2>1, <2>2, <2>3, <2>4, <1>1
    DEF BreakerNext, Resolve, BeginResolve, SkipProvider, AskProvider, Outage, breakerVars
<1>2. BreakerInv /\ [BreakerNext]_breakerVars =>
        \A p \in Providers :
          breaker[p].opened = "no" /\ breaker'[p].opened # "no" => bad'[p] >= TRIP_AFTER
  BY <1>1
<1> QED
  BY <1>2, BreakerInvariant, PTL DEF BreakerSpec, ShutOutForFailures

----------------------------------------------------------------------------
(* Alerts.  The invariant relates a row to what was seen of it, and the copy a cycle
   holds to the row it was read from: cycles may overtake each other, but a row that is
   held is not pruned and its streak only grows. *)
Pasts == [seen : 0 .. DEBOUNCE_CYCLES, well : 0 .. RECOVERY_CYCLES,
          alert : News, recovery : News]

\* A row that was closed by a cycle no trouble had overtaken.
ToldInOrder(row, seen) ==
  row.status = "resolved" =>
    /\ seen.well >= RECOVERY_CYCLES
    /\ seen.alert # "none" => seen.recovery # "none"

\* Any row: what is open counts what was seen of it, and events follow its status.
RowInOrder(row, seen) ==
  /\ seen.seen = row.streak
  /\ row.status # "resolved" => seen.well = row.healthy
  /\ row.status = "firing" => row.streak >= DEBOUNCE_CYCLES /\ seen.alert # "none"
  /\ row.status = "pending" => seen.alert = "none"
  /\ seen.alert # "none" => seen.seen >= DEBOUNCE_CYCLES
  /\ seen.recovery # "none" => seen.alert # "none"

RowsInOrder ==
  \A i \in AlertIds :
    /\ alerts[i] = NoAlert => past[i] = NoPast /\ i \notin torn
    /\ alerts[i] # NoAlert =>
         /\ RowInOrder(alerts[i], past[i])
         /\ i \notin torn => ToldInOrder(alerts[i], past[i])

CopiesInOrder ==
  \A c \in Cycles : cycle[c].row # NoAlert =>
    /\ cycle[c].id \in AlertIds /\ alerts[cycle[c].id] # NoAlert
    /\ cycle[c].row.streak <= alerts[cycle[c].id].streak
    /\ cycle[c].row.status = "firing" => /\ cycle[c].row.streak >= DEBOUNCE_CYCLES
                                         /\ past[cycle[c].id].alert # "none"
    /\ cycle[c].row.status # "resolved"

AlertInv == AlertTypeOK /\ OneOpenAlert /\ RowsInOrder /\ CopiesInOrder

LEMMA AlertStarts == AlertInit => AlertInv
<1> SUFFICES ASSUME AlertInit PROVE AlertInv
  OBVIOUS
<1>a. DEBOUNCE_CYCLES \in Nat \ {0, 1} /\ RECOVERY_CYCLES \in Nat \ {0} /\ MaxTroubles \in Nat
  BY AlertAssumption
<1>1. AlertTypeOK
  <2>1. NoPast \in Pasts
    BY <1>a DEF NoPast, Pasts, News
  <2> QED
    BY <2>1, <1>a DEF AlertInit, AlertTypeOK, Resting, Levels, Pasts
<1>2. OneOpenAlert
  BY DEF AlertInit, OneOpenAlert, IsOpenAlert, NoAlert
<1>3. RowsInOrder /\ CopiesInOrder
  BY DEF AlertInit, RowsInOrder, CopiesInOrder, Resting
<1> QED
  BY <1>1, <1>2, <1>3 DEF AlertInv

\* What a decision says of the reading and of the copy it was taken from.
LEMMA DecisionSound ==
  ASSUME AlertInv, NEW c \in Cycles, NEW what, Decides(c, what)
  PROVE  /\ what = "open" => cycle[c].reading \in Levels \ {"ok"}
         /\ what \in {"accumulate", "notify", "recovering", "resolve"} =>
              /\ cycle[c].row \in Alert /\ cycle[c].row.status # "resolved"
              /\ HeldBack(c) \in AlertIds /\ alerts[HeldBack(c)] \in Alert
              /\ cycle[c].row.streak <= alerts[HeldBack(c)].streak
              /\ cycle[c].row.status = "firing" => past[HeldBack(c)].alert # "none"
         /\ what \in {"accumulate", "notify"} => cycle[c].reading \in Levels \ {"ok"}
         /\ what = "notify" => cycle[c].row.streak + 1 >= DEBOUNCE_CYCLES
         /\ what = "resolve" => cycle[c].row.healthy + 1 >= RECOVERY_CYCLES
<1> DEFINE row == cycle[c].row
           reading == cycle[c].reading
<1>a. DEBOUNCE_CYCLES \in Nat \ {0, 1} /\ RECOVERY_CYCLES \in Nat \ {0}
  BY AlertAssumption
<1>1. row \in Alert \cup {NoAlert} /\ reading \in Levels
  BY DEF AlertInv, AlertTypeOK
<1>2. row \in Alert => /\ row.status \in {"pending", "firing", "resolved"}
                       /\ row # NoAlert /\ row.streak \in Nat /\ row.healthy \in Nat
  BY <1>a DEF Alert, NoAlert
<1>3. row \in Alert =>
        /\ HeldBack(c) \in AlertIds /\ alerts[HeldBack(c)] \in Alert
        /\ row.streak <= alerts[HeldBack(c)].streak /\ row.status # "resolved"
        /\ row.status = "firing" => row.streak >= DEBOUNCE_CYCLES /\ past[HeldBack(c)].alert # "none"
  BY <1>2 DEF AlertInv, CopiesInOrder, HeldBack, AlertTypeOK
<1>4. what \in Decisions(reading, row)
  BY DEF Decides
<1>5. CASE reading = "ok"
  <2>1. CASE row = NoAlert
    <3>1. Decisions(reading, row) = {"ignore"}
      BY <1>5, <2>1 DEF Decisions
    <3> QED
      BY <3>1, <1>4
  <2>2. CASE row \in Alert /\ row.healthy + 1 < RECOVERY_CYCLES
    <3>1. Decisions(reading, row) = {"recovering"}
      BY <1>2, <1>5, <2>2 DEF Decisions
    <3> QED
      BY <3>1, <1>4, <1>3, <2>2
  <2>3. CASE row \in Alert /\ ~(row.healthy + 1 < RECOVERY_CYCLES)
    <3>1. Decisions(reading, row) = {"resolve"}
      BY <1>2, <1>5, <2>3 DEF Decisions
    <3>2. row.healthy + 1 >= RECOVERY_CYCLES
      BY <1>2, <2>3, <1>a
    <3> QED
      BY <3>1, <3>2, <1>4, <1>3, <2>3
  <2> QED
    BY <1>1, <2>1, <2>2, <2>3
<1>6. CASE reading # "ok"
  <2>1. CASE row = NoAlert
    <3>1. Decisions(reading, row) = {"open"}
      BY <1>6, <2>1 DEF Decisions, NoAlert
    <3> QED
      BY <3>1, <1>1, <1>4, <1>6
  <2>2. CASE row \in Alert /\ row.status = "pending"
    <3>1. Decisions(reading, row) = {IF Enough(row.streak + 1) THEN "notify" ELSE "accumulate"}
      BY <1>2, <1>6, <2>2 DEF Decisions
    <3>2. /\ what \in {"notify", "accumulate"}
          /\ what = "notify" => row.streak + 1 >= DEBOUNCE_CYCLES
      BY <3>1, <1>4 DEF Enough
    <3> QED
      BY <3>2, <1>1, <1>3, <1>6, <2>2
  <2>3. CASE row \in Alert /\ row.status # "pending"
    <3>1. Decisions(reading, row)
            = {"notify"} \cup (IF row.severity = "warning" /\ reading = "critical"
                               THEN {} ELSE {"accumulate"})
      BY <1>2, <1>6, <2>3 DEF Decisions
    <3>2. what \in {"notify", "accumulate"}
      BY <3>1, <1>4
    <3>3. row.streak + 1 >= DEBOUNCE_CYCLES
      BY <1>2, <1>3, <2>3, <1>a
    <3> QED
      BY <3>2, <3>3, <1>1, <1>3, <1>6, <2>3
  <2> QED
    BY <1>1, <2>1, <2>2, <2>3
<1> QED
  BY <1>5, <1>6

\* A cycle writes one row: what has to be true of the row it leaves behind.
LEMMA RowWritten ==
  ASSUME AlertInv, NEW c \in Cycles, NEW i \in AlertIds, NEW w \in Alert, NEW h \in Pasts,
         alerts' = [alerts EXCEPT ![i] = w], past' = [past EXCEPT ![i] = h], Rests(c),
         torn' \in {torn, torn \cup {i}, torn \ {i}}, UNCHANGED <<health, troubles>>,
         alerts[i] # NoAlert => w.streak >= alerts[i].streak,
         past[i].alert # "none" => h.alert # "none",
         w.status \in {"pending", "firing"} => MayFire(i),
         RowInOrder(w, h), i \notin torn' => ToldInOrder(w, h)
  PROVE  AlertInv'
<1>a. DEBOUNCE_CYCLES \in Nat \ {0, 1} /\ RECOVERY_CYCLES \in Nat \ {0}
  BY AlertAssumption
<1>t. AlertTypeOK /\ OneOpenAlert /\ RowsInOrder /\ CopiesInOrder
  BY DEF AlertInv
<1>w. w # NoAlert /\ w.streak \in Nat /\ \A a \in Alert : a.streak \in Nat /\ a # NoAlert
  BY <1>a DEF Alert, NoAlert
<1>1. /\ alerts'[i] = w /\ past'[i] = h
      /\ \A j \in AlertIds \ {i} : /\ alerts'[j] = alerts[j] /\ past'[j] = past[j]
                                   /\ j \in torn' <=> j \in torn
  BY <1>t DEF AlertTypeOK
<1>2. cycle'[c] = Resting /\ \A d \in Cycles \ {c} : cycle'[d] = cycle[d]
  BY <1>t DEF Rests, AlertTypeOK
<1>3. Resting \in [step : {"idle", "collected", "read"}, reading : Levels,
                   id : AlertIds \cup {Nobody}, row : Alert \cup {NoAlert}]
  BY DEF Resting, Levels
<1>4. AlertTypeOK'
  BY <1>t, <1>3 DEF Rests, AlertTypeOK, Pasts
<1>5. OneOpenAlert'
  BY <1>1, <1>t DEF OneOpenAlert, IsOpenAlert, MayFire
<1>6. RowsInOrder'
  <2> SUFFICES ASSUME NEW j \in AlertIds
               PROVE  /\ alerts'[j] = NoAlert => past'[j] = NoPast /\ j \notin torn'
                      /\ alerts'[j] # NoAlert =>
                           /\ RowInOrder(alerts'[j], past'[j])
                           /\ j \notin torn' => ToldInOrder(alerts'[j], past'[j])
    BY DEF RowsInOrder, RowInOrder, ToldInOrder
  <2>1. CASE j = i
    BY <2>1, <1>1, <1>w
  <2>2. CASE j # i
    BY <2>2, <1>1, <1>t DEF RowsInOrder
  <2> QED
    BY <2>1, <2>2
<1>7. CopiesInOrder'
  <2> SUFFICES ASSUME NEW d \in Cycles, cycle'[d].row # NoAlert
               PROVE  /\ cycle'[d].id \in AlertIds /\ alerts'[cycle'[d].id] # NoAlert
                      /\ cycle'[d].row.streak <= alerts'[cycle'[d].id].streak
                      /\ cycle'[d].row.status = "firing" =>
                           /\ cycle'[d].row.streak >= DEBOUNCE_CYCLES
                           /\ past'[cycle'[d].id].alert # "none"
                      /\ cycle'[d].row.status # "resolved"
    BY DEF CopiesInOrder
  <2>1. d # c /\ cycle'[d] = cycle[d]
    BY <1>2 DEF Resting
  <2>2. /\ cycle[d].id \in AlertIds /\ alerts[cycle[d].id] # NoAlert
        /\ cycle[d].row.streak <= alerts[cycle[d].id].streak
        /\ cycle[d].row.status = "firing" =>
             cycle[d].row.streak >= DEBOUNCE_CYCLES /\ past[cycle[d].id].alert # "none"
        /\ cycle[d].row.status # "resolved"
    BY <2>1, <1>t DEF CopiesInOrder
  <2>3. cycle[d].row \in Alert /\ alerts[cycle[d].id] \in Alert
    BY <2>1, <2>2, <1>t DEF AlertTypeOK
  <2> QED
    BY <2>1, <2>2, <2>3, <1>1, <1>w
<1> QED
  BY <1>4, <1>5, <1>6, <1>7 DEF AlertInv

\* A step that leaves rows and history alone and copies what is there.
CycleRecords == [step : {"idle", "collected", "read"}, reading : Levels,
                 id : AlertIds \cup {Nobody}, row : Alert \cup {NoAlert}]

LEMMA RowsUntouched ==
  ASSUME AlertInv, UNCHANGED <<alerts, past, torn>>, health' \in Levels,
         troubles' \in 0 .. MaxTroubles, NEW c \in Cycles, NEW k \in CycleRecords,
         cycle' = [cycle EXCEPT ![c] = k],
         \/ k.row = NoAlert
         \/ k.row = cycle[c].row /\ k.id = cycle[c].id
         \/ k.id \in AlertIds /\ IsOpenAlert(k.id) /\ k.row = alerts[k.id]
  PROVE  AlertInv'
<1>a. DEBOUNCE_CYCLES \in Nat \ {0, 1} /\ RECOVERY_CYCLES \in Nat \ {0}
  BY AlertAssumption
<1>t. AlertTypeOK /\ OneOpenAlert /\ RowsInOrder /\ CopiesInOrder
  BY DEF AlertInv
<1>1. AlertTypeOK' /\ OneOpenAlert' /\ RowsInOrder'
  BY <1>t DEF CycleRecords, AlertTypeOK, OneOpenAlert, IsOpenAlert, RowsInOrder, RowInOrder,
              ToldInOrder
<1>2. CopiesInOrder'
  <2> SUFFICES ASSUME NEW d \in Cycles, cycle'[d].row # NoAlert
               PROVE  /\ cycle'[d].id \in AlertIds /\ alerts[cycle'[d].id] # NoAlert
                      /\ cycle'[d].row.streak <= alerts[cycle'[d].id].streak
                      /\ cycle'[d].row.status = "firing" =>
                           /\ cycle'[d].row.streak >= DEBOUNCE_CYCLES
                           /\ past[cycle'[d].id].alert # "none"
                      /\ cycle'[d].row.status # "resolved"
    BY DEF CopiesInOrder
  <2>1. CASE cycle'[d].row = cycle[d].row /\ cycle'[d].id = cycle[d].id
    BY <2>1, <1>t DEF CopiesInOrder
  <2>2. CASE k.id \in AlertIds /\ IsOpenAlert(k.id) /\ k.row = alerts[k.id] /\ d = c
    <3>1. cycle'[d] = k
      BY <2>2, <1>t DEF AlertTypeOK
    <3>2. k.row \in Alert /\ k.row.streak \in Nat
      BY <3>1, <1>a, <2>2, <1>t DEF AlertTypeOK, Alert
    <3>3. RowInOrder(alerts[k.id], past[k.id])
      BY <3>1, <2>2, <1>t DEF RowsInOrder
    <3> QED
      BY <3>1, <3>2, <3>3, <2>2 DEF RowInOrder, IsOpenAlert
  <2> QED
    BY <2>1, <2>2, <1>t DEF AlertTypeOK
<1> QED
  BY <1>1, <1>2 DEF AlertInv

\* An event is told or lost: no row and no copy knows.
LEMMA NewsMoves ==
  ASSUME AlertInv, NEW i \in AlertIds, NEW h \in Pasts, past' = [past EXCEPT ![i] = h],
         UNCHANGED <<health, alerts, cycle, torn>>, troubles' \in 0 .. MaxTroubles,
         h.seen = past[i].seen, h.well = past[i].well,
         h.alert = "none" <=> past[i].alert = "none",
         h.recovery = "none" <=> past[i].recovery = "none", past[i] # NoPast
  PROVE  AlertInv'
<1>t. AlertTypeOK /\ OneOpenAlert /\ RowsInOrder /\ CopiesInOrder
  BY DEF AlertInv
<1>1. past'[i] = h /\ \A j \in AlertIds \ {i} : past'[j] = past[j]
  BY <1>t DEF AlertTypeOK
<1>2. AlertTypeOK' /\ OneOpenAlert'
  BY <1>t DEF AlertTypeOK, OneOpenAlert, IsOpenAlert, Pasts
<1>3. RowsInOrder'
  <2> SUFFICES ASSUME NEW j \in AlertIds
               PROVE  /\ alerts[j] = NoAlert => past'[j] = NoPast /\ j \notin torn
                      /\ alerts[j] # NoAlert =>
                           /\ RowInOrder(alerts[j], past'[j])
                           /\ j \notin torn => ToldInOrder(alerts[j], past'[j])
    BY DEF RowsInOrder, RowInOrder, ToldInOrder
  <2>1. CASE j = i
    BY <2>1, <1>1, <1>t DEF RowsInOrder, RowInOrder, ToldInOrder
  <2>2. CASE j # i
    BY <2>2, <1>1, <1>t DEF RowsInOrder
  <2> QED
    BY <2>1, <2>2
<1>4. CopiesInOrder'
  BY <1>1, <1>t DEF CopiesInOrder
<1> QED
  BY <1>2, <1>3, <1>4 DEF AlertInv

LEMMA AlertSteps == AlertInv /\ [AlertNext]_alertVars => AlertInv'
<1> SUFFICES ASSUME AlertInv, [AlertNext]_alertVars PROVE AlertInv'
  OBVIOUS
<1>a. DEBOUNCE_CYCLES \in Nat \ {0, 1} /\ RECOVERY_CYCLES \in Nat \ {0} /\ MaxTroubles \in Nat
  BY AlertAssumption
<1>t. AlertTypeOK /\ OneOpenAlert /\ RowsInOrder /\ CopiesInOrder
  BY DEF AlertInv
<1>h. health \in Levels /\ troubles \in 0 .. MaxTroubles
  BY <1>t DEF AlertTypeOK
<1>r. Resting \in CycleRecords /\ Resting.row = NoAlert
  BY DEF Resting, Levels, CycleRecords
<1>p. ASSUME NEW i \in AlertIds, alerts[i] \in Alert
      PROVE  /\ RowInOrder(alerts[i], past[i]) /\ past[i] \in Pasts
             /\ i \notin torn => ToldInOrder(alerts[i], past[i])
  BY <1>p, <1>t, <1>a DEF RowsInOrder, AlertTypeOK, Pasts, Alert, NoAlert
<1>f. ASSUME NEW w \in Alert
      PROVE  /\ w.status \in {"pending", "firing", "resolved"}
             /\ w.severity \in Levels \ {"ok"}
             /\ w.streak \in 1 .. DEBOUNCE_CYCLES /\ w.healthy \in 0 .. RECOVERY_CYCLES
  BY DEF Alert
<1>1. ASSUME NEW c \in Cycles, Collect(c) PROVE AlertInv'
  <2> DEFINE k == [Resting EXCEPT !.step = "collected", !.reading = health]
  <2>1. k \in CycleRecords /\ k.row = NoAlert
    BY <1>r, <1>h DEF CycleRecords
  <2>2. cycle' = [cycle EXCEPT ![c] = k] /\ UNCHANGED <<alerts, past, torn>>
    BY <1>1 DEF Collect
  <2>3. health' \in Levels /\ troubles' \in 0 .. MaxTroubles
    BY <1>1, <1>h DEF Collect
  <2> HIDE DEF k
  <2> QED
    BY <2>1, <2>2, <2>3, RowsUntouched
<1>2. ASSUME NEW c \in Cycles, OpenAlerts(c) PROVE AlertInv'
  <2>1. /\ UNCHANGED <<alerts, past, torn>>
        /\ health' \in Levels /\ troubles' \in 0 .. MaxTroubles
    BY <1>2, <1>h DEF OpenAlerts
  <2>2. cycle[c] \in CycleRecords /\ \A i \in AlertIds : alerts[i] \in Alert \cup {NoAlert}
    BY <1>t DEF AlertTypeOK, CycleRecords
  <2>3. CASE cycle' = [cycle EXCEPT ![c].step = "read"]
    <3> DEFINE k == [cycle[c] EXCEPT !.step = "read"]
    <3>1. k \in CycleRecords /\ k.row = cycle[c].row /\ k.id = cycle[c].id
      BY <2>2 DEF CycleRecords
    <3>2. cycle' = [cycle EXCEPT ![c] = k]
      BY <2>3, <1>t DEF AlertTypeOK
    <3> HIDE DEF k
    <3> QED
      BY <3>1, <3>2, <2>1, RowsUntouched
  <2>4. ASSUME NEW i \in AlertIds, IsOpenAlert(i),
               cycle' = [cycle EXCEPT ![c].step = "read", ![c].id = i, ![c].row = alerts[i]]
        PROVE  AlertInv'
    <3> DEFINE k == [cycle[c] EXCEPT !.step = "read", !.id = i, !.row = alerts[i]]
    <3>1. k \in CycleRecords /\ k.row = alerts[i] /\ k.id = i
      BY <2>2 DEF CycleRecords
    <3>2. cycle' = [cycle EXCEPT ![c] = k]
      BY <2>4, <1>t DEF AlertTypeOK
    <3> HIDE DEF k
    <3> QED
      BY <3>1, <3>2, <2>1, <2>4, RowsUntouched
  <2> QED
    BY <1>2, <2>3, <2>4 DEF OpenAlerts
<1>3. ASSUME NEW c \in Cycles, Ignores(c) \/ NotifyFails(c) \/ CycleDies(c) PROVE AlertInv'
  <2>1. UNCHANGED <<alerts, past, torn>> /\ cycle' = [cycle EXCEPT ![c] = Resting]
    BY <1>3 DEF Ignores, NotifyFails, CycleDies, Rests
  <2>2. health' \in Levels /\ troubles' \in 0 .. MaxTroubles
    BY <1>3, <1>h, <1>a DEF Ignores, NotifyFails, CycleDies
  <2> QED
    BY <2>1, <2>2, <1>r, RowsUntouched
<1>4. ASSUME NEW c \in Cycles, OpensAlert(c) PROVE AlertInv'
  <2>1. cycle[c].reading \in Levels \ {"ok"}
    BY <1>4, DecisionSound DEF OpensAlert
  <2>2. Rests(c) /\ UNCHANGED <<health, torn, troubles>>
    BY <1>4 DEF OpensAlert
  <2>3. CASE \E i \in AlertIds : IsOpenAlert(i)
    <3>1. UNCHANGED <<alerts, past, torn>>
      BY <2>3, <1>4 DEF OpensAlert
    <3>2. cycle' = [cycle EXCEPT ![c] = Resting]
      BY <2>2 DEF Rests
    <3>3. health' \in Levels /\ troubles' \in 0 .. MaxTroubles
      BY <2>2, <1>h
    <3> QED
      BY <3>1, <3>2, <3>3, <1>r, RowsUntouched
  <2>4. CASE ~ \E i \in AlertIds : IsOpenAlert(i)
    <3> DEFINE i == CHOOSE j \in AlertIds : alerts[j] = NoAlert
               w == [status |-> "pending", severity |-> cycle[c].reading, streak |-> 1,
                     healthy |-> 0]
               h == [past[i] EXCEPT !.seen = 1]
    <3>1. /\ \E j \in AlertIds : alerts[j] = NoAlert
          /\ alerts' = [alerts EXCEPT ![i] = w] /\ past' = [past EXCEPT ![i].seen = 1]
      BY <1>4, <2>4 DEF OpensAlert
    <3>2. i \in AlertIds /\ alerts[i] = NoAlert
      BY <3>1
    <3> HIDE DEF i
    <3>3. past[i] = NoPast /\ past[i] \in Pasts
      BY <3>2, <1>t DEF RowsInOrder, AlertTypeOK, Pasts
    <3>4. past' = [past EXCEPT ![i] = h]
      BY <3>1, <3>2, <1>t DEF AlertTypeOK
    <3>5. w \in Alert /\ w.streak = 1 /\ w.healthy = 0 /\ w.status = "pending"
      BY <2>1, <1>a DEF Alert
    <3>6. h \in Pasts /\ h.seen = 1 /\ h.well = 0 /\ h.alert = "none" /\ h.recovery = "none"
          /\ past[i].alert = "none"
      <4>1. past[i].well = 0 /\ past[i].alert = "none" /\ past[i].recovery = "none"
        BY <3>3 DEF NoPast
      <4> QED
        BY <4>1, <3>3, <1>a DEF Pasts
    <3>7. MayFire(i) /\ torn' = torn
      BY <2>2, <2>4 DEF MayFire
    <3> HIDE DEF w, h
    <3>8. RowInOrder(w, h) /\ ToldInOrder(w, h)
      BY <3>5, <3>6 DEF RowInOrder, ToldInOrder
    <3> QED
      BY <3>1, <3>2, <3>4, <3>5, <3>6, <3>7, <3>8, <2>2, RowWritten
  <2> QED
    BY <2>3, <2>4
<1>5. ASSUME NEW c \in Cycles, Accumulates(c) \/ Notifies(c) PROVE AlertInv'
  <2> DEFINE i == HeldBack(c)
             fires == Notifies(c)
             status == IF fires THEN "firing" ELSE alerts[i].status
             well == IF fires \/ IsOpenAlert(i) THEN 0 ELSE past[i].well
             alert == IF fires THEN "owed" ELSE past[i].alert
             recovery == IF fires /\ past[i].recovery # "owed" THEN "none" ELSE past[i].recovery
             w == [alerts[i] EXCEPT !.severity = cycle[c].reading, !.healthy = 0,
                                    !.streak = Capped(alerts[i].streak + 1, DEBOUNCE_CYCLES),
                                    !.status = status]
             h == [past[i] EXCEPT !.seen = Capped(past[i].seen + 1, DEBOUNCE_CYCLES),
                                  !.well = well, !.alert = alert, !.recovery = recovery]
  <2>1. /\ cycle[c].reading \in Levels \ {"ok"} /\ i \in AlertIds /\ alerts[i] \in Alert
        /\ cycle[c].row \in Alert /\ cycle[c].row.status # "resolved"
        /\ cycle[c].row.streak <= alerts[i].streak
        /\ fires => cycle[c].row.streak + 1 >= DEBOUNCE_CYCLES
    <3>1. CASE Accumulates(c) /\ ~fires
      BY <3>1, DecisionSound DEF Accumulates
    <3>2. CASE fires
      BY <3>2, DecisionSound DEF Notifies
    <3> QED
      BY <1>5, <3>1, <3>2
  <2> HIDE DEF i
  <2>2. /\ RowInOrder(alerts[i], past[i]) /\ past[i] \in Pasts
        /\ i \notin torn => ToldInOrder(alerts[i], past[i])
    BY <2>1, <1>p
  <2>3. Rests(c) /\ UNCHANGED <<health, troubles>>
    BY <1>5 DEF Accumulates, Notifies
  <2>4. torn' \in {torn, torn \cup {i}, torn \ {i}} /\ (~fires => torn' = torn)
    BY <1>5 DEF Accumulates, Notifies, i
  <2>5. /\ alerts[i].streak \in 1 .. DEBOUNCE_CYCLES
        /\ alerts[i].status \in {"pending", "firing", "resolved"}
    BY <2>1, <1>f
  <2>6. /\ w \in Alert
        /\ w.streak = Capped(alerts[i].streak + 1, DEBOUNCE_CYCLES) /\ w.healthy = 0
        /\ w.status = status
    <3>1. Capped(alerts[i].streak + 1, DEBOUNCE_CYCLES) \in 1 .. DEBOUNCE_CYCLES
      BY <2>5, <1>a DEF Capped
    <3>2. status \in {"pending", "firing", "resolved"} /\ 0 \in 0 .. RECOVERY_CYCLES
      BY <2>5, <1>a
    <3> HIDE DEF status
    <3> QED
      BY <3>1, <3>2, <2>1 DEF Alert
  <2>7. past[i].seen \in 0 .. DEBOUNCE_CYCLES /\ past[i].well \in 0 .. RECOVERY_CYCLES
        /\ past[i].alert \in News /\ past[i].recovery \in News
    BY <2>2 DEF Pasts
  <2>8. /\ h \in Pasts
        /\ h.seen = Capped(past[i].seen + 1, DEBOUNCE_CYCLES) /\ h.well = well
        /\ h.alert = alert /\ h.recovery = recovery
    <3>1. Capped(past[i].seen + 1, DEBOUNCE_CYCLES) \in 0 .. DEBOUNCE_CYCLES
      BY <2>7, <1>a DEF Capped
    <3>2. alert \in News /\ recovery \in News /\ well \in 0 .. RECOVERY_CYCLES
      BY <2>7, <1>a DEF News
    <3> HIDE DEF alert, recovery, well
    <3> QED
      BY <3>1, <3>2, <2>2 DEF Pasts
  <2>9. alerts' = [alerts EXCEPT ![i] = w] /\ past' = [past EXCEPT ![i] = h]
    <3>1. CASE fires
      <4>1. /\ alerts' = [alerts EXCEPT ![i] =
                 [Worse(alerts[i], cycle[c].reading) EXCEPT !.status = "firing"]]
            /\ past' = [past EXCEPT ![i].seen = Capped(@ + 1, DEBOUNCE_CYCLES),
                                    ![i].well = 0, ![i].alert = "owed",
                                    ![i].recovery = IF @ = "owed" THEN @ ELSE "none"]
        BY <3>1, <2>1, <1>t DEF Notifies, i, AlertTypeOK
      <4>2. [Worse(alerts[i], cycle[c].reading) EXCEPT !.status = "firing"] = w
        BY <3>1, <2>1 DEF Worse, Alert
      <4>3. past' = [past EXCEPT ![i] = [past[i] EXCEPT
                       !.seen = Capped(past[i].seen + 1, DEBOUNCE_CYCLES), !.well = 0,
                       !.alert = "owed",
                       !.recovery = IF past[i].recovery = "owed" THEN past[i].recovery ELSE "none"]]
        BY <4>1, <2>1, <2>2, <1>t DEF AlertTypeOK, Pasts
      <4>4. well = 0 /\ alert = "owed"
            /\ recovery = IF past[i].recovery = "owed" THEN past[i].recovery ELSE "none"
        BY <3>1
      <4> HIDE DEF well, alert, recovery
      <4> QED
        BY <4>1, <4>2, <4>3, <4>4
    <3>2. CASE ~fires
      <4>1. /\ alerts' = [alerts EXCEPT ![i] = Worse(alerts[i], cycle[c].reading)]
            /\ past' = [past EXCEPT ![i].seen = Capped(@ + 1, DEBOUNCE_CYCLES),
                                    ![i].well = IF IsOpenAlert(i) THEN 0 ELSE @]
        BY <3>2, <1>5, <2>1, <1>t DEF Accumulates, i, AlertTypeOK
      <4>2. Worse(alerts[i], cycle[c].reading) = w
        BY <3>2, <2>1 DEF Worse, Alert
      <4>3. alerts' = [alerts EXCEPT ![i] = w]
        BY <4>1, <4>2
      <4>4. alert = past[i].alert /\ recovery = past[i].recovery
            /\ well = IF IsOpenAlert(i) THEN 0 ELSE past[i].well
        BY <3>2
      <4> HIDE DEF well, alert, recovery
      <4>5. h = [past[i] EXCEPT !.seen = Capped(past[i].seen + 1, DEBOUNCE_CYCLES), !.well = well]
        BY <4>4, <2>2 DEF Pasts
      <4>6. past' = [past EXCEPT ![i] = [past[i] EXCEPT
                       !.seen = Capped(past[i].seen + 1, DEBOUNCE_CYCLES),
                       !.well = IF IsOpenAlert(i) THEN 0 ELSE past[i].well]]
        BY <4>1, <2>1, <2>2, <1>t DEF AlertTypeOK, Pasts
      <4> QED
        BY <4>3, <4>4, <4>5, <4>6
    <3> QED
      BY <3>1, <3>2
  <2>10. w.status \in {"pending", "firing"} => MayFire(i)
    <3>1. CASE fires
      BY <3>1 DEF Notifies, i
    <3>2. CASE ~fires
      BY <3>2, <2>1, <2>6, <1>t DEF MayFire, OneOpenAlert, IsOpenAlert
    <3> QED
      BY <3>1, <3>2
  <2>11. w.streak >= alerts[i].streak /\ (past[i].alert # "none" => h.alert # "none")
    BY <2>5, <2>6, <2>8, <1>a DEF Capped
  <2>12. RowInOrder(w, h)
    <3> HIDE DEF w, h
    <3>1. CASE fires
      <4>1. w.status = "firing" /\ h.well = 0 /\ h.alert = "owed"
        BY <3>1, <2>6, <2>8
      <4>2. w.streak = h.seen /\ w.streak >= DEBOUNCE_CYCLES
        BY <3>1, <2>1, <2>2, <2>5, <2>6, <2>7, <2>8, <1>a, <1>f DEF RowInOrder, Capped
      <4> QED
        BY <4>1, <4>2, <2>6 DEF RowInOrder
    <3>2. CASE ~fires
      <4>1. w.status = alerts[i].status /\ h.alert = past[i].alert /\ h.recovery = past[i].recovery
            /\ (w.status # "resolved" => h.well = 0)
        BY <3>2, <2>5, <2>6, <2>8 DEF IsOpenAlert
      <4>2. w.streak = h.seen /\ w.streak >= alerts[i].streak /\ h.seen >= past[i].seen
        BY <2>2, <2>5, <2>6, <2>7, <2>8, <1>a DEF RowInOrder, Capped
      <4> QED
        BY <4>1, <4>2, <2>2, <2>5, <2>6, <2>7, <1>a DEF RowInOrder
    <3> QED
      BY <3>1, <3>2
  <2>13. i \notin torn' => ToldInOrder(w, h)
    <3> SUFFICES ASSUME i \notin torn', w.status = "resolved"
                 PROVE  /\ h.well >= RECOVERY_CYCLES
                        /\ h.alert # "none" => h.recovery # "none"
      BY DEF ToldInOrder
    <3> HIDE DEF w, h
    <3>1. ~fires /\ alerts[i].status = "resolved"
      BY <2>6
    <3>2. h.well = past[i].well /\ h.alert = past[i].alert /\ h.recovery = past[i].recovery
      BY <3>1, <2>8 DEF IsOpenAlert
    <3> QED
      BY <3>1, <3>2, <2>2, <2>4 DEF ToldInOrder
  <2> HIDE DEF w, h
  <2> QED
    BY <2>1, <2>3, <2>4, <2>6, <2>8, <2>9, <2>10, <2>11, <2>12, <2>13, RowWritten
<1>6. ASSUME NEW c \in Cycles, Recovers(c) \/ ResolvesAlert(c) PROVE AlertInv'
  <2> DEFINE i == HeldBack(c)
             ends == ResolvesAlert(c)
             recovery == IF ends /\ cycle[c].row.status = "firing" THEN "owed" ELSE past[i].recovery
             w == [alerts[i] EXCEPT !.healthy = Capped(alerts[i].healthy + 1, RECOVERY_CYCLES),
                                    !.status = IF ends THEN "resolved" ELSE alerts[i].status]
             h == [past[i] EXCEPT !.well = Capped(past[i].well + 1, RECOVERY_CYCLES),
                                  !.recovery = recovery]
  <2>1. /\ i \in AlertIds /\ alerts[i] \in Alert
        /\ cycle[c].row \in Alert /\ cycle[c].row.status # "resolved"
        /\ ends => cycle[c].row.healthy + 1 >= RECOVERY_CYCLES
        /\ cycle[c].row.status = "firing" => past[i].alert # "none"
    <3>1. CASE Recovers(c) /\ ~ends
      BY <3>1, DecisionSound DEF Recovers
    <3>2. CASE ends
      BY <3>2, DecisionSound DEF ResolvesAlert
    <3> QED
      BY <1>6, <3>1, <3>2
  <2> HIDE DEF i
  <2>2. /\ RowInOrder(alerts[i], past[i]) /\ past[i] \in Pasts
        /\ i \notin torn => ToldInOrder(alerts[i], past[i])
    BY <2>1, <1>p
  <2>3. Rests(c) /\ UNCHANGED <<health, troubles>>
    BY <1>6 DEF Recovers, ResolvesAlert
  <2>4. /\ torn' \in {torn, torn \cup {i}, torn \ {i}}
        /\ i \notin torn' =>
             /\ i \notin torn
             /\ ends /\ IsOpenAlert(i) => /\ alerts[i].status = cycle[c].row.status
                                          /\ ~(alerts[i].healthy < cycle[c].row.healthy)
    BY <1>6 DEF Recovers, ResolvesAlert, Overtaken, i
  <2>5. /\ alerts[i].healthy \in 0 .. RECOVERY_CYCLES /\ alerts[i].streak \in 1 .. DEBOUNCE_CYCLES
        /\ alerts[i].status \in {"pending", "firing", "resolved"}
        /\ cycle[c].row.healthy \in 0 .. RECOVERY_CYCLES
    BY <2>1, <1>f
  <2>6. /\ w \in Alert
        /\ w.streak = alerts[i].streak
        /\ w.healthy = Capped(alerts[i].healthy + 1, RECOVERY_CYCLES)
        /\ w.status = IF ends THEN "resolved" ELSE alerts[i].status
    <3>1. Capped(alerts[i].healthy + 1, RECOVERY_CYCLES) \in 0 .. RECOVERY_CYCLES
      BY <2>5, <1>a DEF Capped
    <3> QED
      BY <3>1, <2>1, <2>5, <1>a DEF Alert
  <2>7. past[i].seen \in 0 .. DEBOUNCE_CYCLES /\ past[i].well \in 0 .. RECOVERY_CYCLES
        /\ past[i].alert \in News /\ past[i].recovery \in News
    BY <2>2 DEF Pasts
  <2>8. /\ h \in Pasts
        /\ h.seen = past[i].seen /\ h.well = Capped(past[i].well + 1, RECOVERY_CYCLES)
        /\ h.alert = past[i].alert /\ h.recovery = recovery
    <3>1. Capped(past[i].well + 1, RECOVERY_CYCLES) \in 0 .. RECOVERY_CYCLES
      BY <2>7, <1>a DEF Capped
    <3>2. recovery \in News
      BY <2>7 DEF News
    <3> HIDE DEF recovery
    <3> QED
      BY <3>1, <3>2, <2>2, <2>7, <1>a DEF Pasts
  <2>9. alerts' = [alerts EXCEPT ![i] = w] /\ past' = [past EXCEPT ![i] = h]
    <3>1. CASE ends
      <4>1. /\ alerts' = [alerts EXCEPT ![i].status = "resolved",
                                        ![i].healthy = Capped(@ + 1, RECOVERY_CYCLES)]
            /\ past' = [past EXCEPT ![i].well = Capped(@ + 1, RECOVERY_CYCLES),
                          ![i].recovery = IF cycle[c].row.status = "firing" THEN "owed" ELSE @]
        BY <3>1 DEF ResolvesAlert, i
      <4>2. past' = [past EXCEPT ![i] = [past[i] EXCEPT
                       !.well = Capped(past[i].well + 1, RECOVERY_CYCLES),
                       !.recovery = IF cycle[c].row.status = "firing" THEN "owed"
                                    ELSE past[i].recovery]]
        BY <4>1, <2>1, <2>2, <1>t DEF AlertTypeOK, Pasts
      <4>3. recovery = IF cycle[c].row.status = "firing" THEN "owed" ELSE past[i].recovery
        BY <3>1
      <4>4. alerts' = [alerts EXCEPT ![i] = w]
        BY <3>1, <4>1, <2>1, <1>t DEF AlertTypeOK
      <4> HIDE DEF recovery
      <4> QED
        BY <4>2, <4>3, <4>4
    <3>2. CASE ~ends
      <4>1. /\ alerts' = [alerts EXCEPT ![i].healthy = Capped(@ + 1, RECOVERY_CYCLES)]
            /\ past' = [past EXCEPT ![i].well = Capped(@ + 1, RECOVERY_CYCLES)]
        BY <3>2, <1>6 DEF Recovers, i
      <4>2. alerts' = [alerts EXCEPT ![i] = w]
        BY <3>2, <4>1, <2>1, <1>t DEF AlertTypeOK, Alert
      <4>3. past' = [past EXCEPT ![i] = h]
        BY <3>2, <4>1, <2>1, <2>2, <1>t DEF AlertTypeOK, Pasts
      <4> QED
        BY <4>2, <4>3
    <3> QED
      BY <3>1, <3>2
  <2>10. w.status \in {"pending", "firing"} => MayFire(i)
    BY <2>1, <2>6, <1>t DEF MayFire, OneOpenAlert, IsOpenAlert
  <2>11. RowInOrder(w, h)
    <3> HIDE DEF w, h
    <3>1. w.status # "resolved" => alerts[i].status = w.status /\ ~ends
      BY <2>6
    <3>2. w.status # "resolved" => h.well = w.healthy
      BY <3>1, <2>2, <2>5, <2>6, <2>7, <2>8, <1>a DEF RowInOrder, Capped
    <3>3. h.recovery # "none" => h.alert # "none"
      BY <2>1, <2>2, <2>8 DEF RowInOrder
    <3> QED
      BY <3>1, <3>2, <3>3, <2>2, <2>6, <2>8 DEF RowInOrder
  <2>12. i \notin torn' => ToldInOrder(w, h)
    <3> SUFFICES ASSUME i \notin torn', w.status = "resolved"
                 PROVE  /\ h.well >= RECOVERY_CYCLES
                        /\ h.alert # "none" => h.recovery # "none"
      BY DEF ToldInOrder
    <3> HIDE DEF w, h
    <3>1. CASE IsOpenAlert(i)
      <4>1. ends /\ alerts[i].status = cycle[c].row.status
            /\ ~(alerts[i].healthy < cycle[c].row.healthy)
        BY <3>1, <2>4, <2>6 DEF IsOpenAlert
      <4>2. past[i].well = alerts[i].healthy
        BY <3>1, <2>2 DEF RowInOrder, IsOpenAlert
      <4>3. h.well >= RECOVERY_CYCLES
        BY <4>1, <4>2, <2>1, <2>5, <2>7, <2>8, <1>a DEF Capped
      <4>4. h.alert # "none" => h.recovery # "none"
        BY <3>1, <4>1, <2>2, <2>8 DEF RowInOrder, IsOpenAlert
      <4> QED
        BY <4>3, <4>4
    <3>2. CASE ~IsOpenAlert(i)
      <4>1. alerts[i].status = "resolved"
        BY <3>2, <2>5 DEF IsOpenAlert
      <4>2. past[i].well >= RECOVERY_CYCLES /\ (past[i].alert # "none" => past[i].recovery # "none")
        BY <4>1, <2>2, <2>4 DEF ToldInOrder
      <4> QED
        BY <4>2, <2>7, <2>8, <1>a DEF Capped
    <3> QED
      BY <3>1, <3>2
  <2>13. w.streak >= alerts[i].streak /\ (past[i].alert # "none" => h.alert # "none")
    BY <2>5, <2>6, <2>8
  <2> HIDE DEF w, h
  <2> QED
    BY <2>1, <2>3, <2>4, <2>6, <2>8, <2>9, <2>10, <2>11, <2>12, <2>13, RowWritten
<1>7. ASSUME NEW i \in AlertIds, PruneResolved(i) PROVE AlertInv'
  <2>1. /\ alerts[i].status = "resolved" /\ UNCHANGED <<health, cycle, troubles>>
        /\ \A c \in Cycles : cycle[c].id # i
        /\ alerts'[i] = NoAlert /\ past'[i] = NoPast /\ torn' = torn \ {i}
        /\ \A j \in AlertIds \ {i} : alerts'[j] = alerts[j] /\ past'[j] = past[j]
    BY <1>7, <1>t DEF PruneResolved, HeldBack, AlertTypeOK
  <2>2. AlertTypeOK'
    <3>1. NoPast \in Pasts
      BY <1>a DEF NoPast, Pasts, News
    <3> QED
      BY <3>1, <1>7, <1>t DEF PruneResolved, AlertTypeOK, Pasts
  <2>3. OneOpenAlert'
    BY <2>1, <1>t DEF OneOpenAlert, IsOpenAlert, NoAlert
  <2>4. RowsInOrder'
    BY <2>1, <1>t DEF RowsInOrder, RowInOrder, ToldInOrder
  <2>5. CopiesInOrder'
    BY <2>1, <1>t DEF CopiesInOrder
  <2> QED
    BY <2>2, <2>3, <2>4, <2>5 DEF AlertInv
<1>8. ASSUME NEW h \in Levels, Swings(h) PROVE AlertInv'
  BY <1>8, <1>t, <1>a DEF Swings, AlertInv, AlertTypeOK, OneOpenAlert, IsOpenAlert,
     RowsInOrder, RowInOrder, ToldInOrder, CopiesInOrder
<1>10. ASSUME NEW i \in AlertIds, AlertIsQueued(i) \/ RecoveryIsQueued(i) \/ NewsIsLost(i)
       PROVE  AlertInv'
  <2>1. past[i] \in Pasts
    BY <1>t DEF AlertTypeOK, Pasts
  <2>2. ASSUME NEW v \in {"told", "lost"}, past[i].alert = "owed",
               past' = [past EXCEPT ![i].alert = v], UNCHANGED <<health, alerts, cycle, torn>>,
               troubles' \in 0 .. MaxTroubles
        PROVE  AlertInv'
    <3> DEFINE h == [past[i] EXCEPT !.alert = v]
    <3>1. /\ h \in Pasts /\ h.seen = past[i].seen /\ h.well = past[i].well
          /\ h.alert = v /\ h.recovery = past[i].recovery
      BY <2>1 DEF Pasts, News
    <3>2. past' = [past EXCEPT ![i] = h] /\ past[i] # NoPast
      BY <2>1, <2>2, <1>t DEF AlertTypeOK, NoPast
    <3> HIDE DEF h
    <3> QED
      BY <2>2, <3>1, <3>2, NewsMoves
  <2>3. ASSUME NEW v \in {"told", "lost"}, past[i].recovery = "owed",
               past' = [past EXCEPT ![i].recovery = v], UNCHANGED <<health, alerts, cycle, torn>>,
               troubles' \in 0 .. MaxTroubles
        PROVE  AlertInv'
    <3> DEFINE h == [past[i] EXCEPT !.recovery = v]
    <3>1. /\ h \in Pasts /\ h.seen = past[i].seen /\ h.well = past[i].well
          /\ h.recovery = v /\ h.alert = past[i].alert
      BY <2>1 DEF Pasts, News
    <3>2. past' = [past EXCEPT ![i] = h] /\ past[i] # NoPast
      BY <2>1, <2>3, <1>t DEF AlertTypeOK, NoPast
    <3> HIDE DEF h
    <3> QED
      BY <2>3, <3>1, <3>2, NewsMoves
  <2> QED
    BY <1>10, <2>2, <2>3, <1>h, <1>a DEF AlertIsQueued, RecoveryIsQueued, NewsIsLost
<1>9. CASE UNCHANGED alertVars
  BY <1>9, <1>t DEF alertVars, AlertInv, AlertTypeOK, OneOpenAlert, IsOpenAlert,
     RowsInOrder, RowInOrder, ToldInOrder, CopiesInOrder
<1> QED
  BY <1>1, <1>2, <1>3, <1>4, <1>5, <1>6, <1>7, <1>8, <1>9, <1>10 DEF AlertNext, CycleSteps, Decided

\* Alerts: one open row for a problem, an event that rests on as many readings as the
\* debounce asks for, no recovery of what never fired; and a row that no overtaken cycle
\* closed rests on enough healthy readings and had its recovery made an event, which is
\* told, under way or lost.
THEOREM AlertsAreSafe == AlertSpec => []AlertSafe
<1>1. AlertInv => AlertSafe
  <2> SUFFICES ASSUME AlertInv PROVE AlertSafe
    OBVIOUS
  <2>1. AlertTypeOK /\ OneOpenAlert /\ RowsInOrder
    BY DEF AlertInv
  <2>2. FiresOnEvidence
    BY <2>1 DEF FiresOnEvidence, RowsInOrder, RowInOrder, NoPast
  <2>3. RecoveryIsTold
    BY <2>1 DEF RecoveryIsTold, RowsInOrder, ToldInOrder, NoAlert
  <2>4. NoRecoveryUnfired
    BY <2>1 DEF NoRecoveryUnfired, RowsInOrder, RowInOrder, NoPast
  <2> QED
    BY <2>1, <2>2, <2>3, <2>4 DEF AlertSafe
<1> QED
  BY <1>1, AlertStarts, AlertSteps, PTL DEF AlertSpec

----------------------------------------------------------------------------
(* Uploads in parts. *)

\* A list of places that grows from one to the next and leaves none out is in order.
LEMMA IncreasingIsIdentity ==
  ASSUME NEW n \in Nat, NEW g \in [1 .. n -> 1 .. n],
         \A m \in 1 .. n : \E j \in 1 .. n : g[j] = m,
         \A i, j \in 1 .. n : i < j => g[i] < g[j]
  PROVE  \A i \in 1 .. n : g[i] = i
<1> SUFFICES ASSUME NEW i \in 1 .. n PROVE g[i] = i
  OBVIOUS
<1>0. g[i] \in 1 .. n /\ g[i] \in Int /\ i \in Int /\ n \in Int /\ i - 1 \in Int /\ g[i] - 1 \in Int
  OBVIOUS
<1>1. ASSUME NEW j \in 1 .. (i - 1) PROVE j \in 1 .. n /\ g[j] \in 1 .. (g[i] - 1)
  <2>1. j \in 1 .. n /\ j < i
    BY <1>0
  <2>2. g[j] < g[i] /\ g[j] \in 1 .. n
    BY <2>1
  <2> QED
    BY <2>1, <2>2, <1>0
<1>4. ASSUME NEW m \in 1 .. (g[i] - 1) PROVE \E j \in 1 .. (i - 1) : g[j] = m
  <2>1. m \in 1 .. n /\ m < g[i]
    BY <1>0
  <2>2. PICK j \in 1 .. n : g[j] = m
    BY <2>1
  <2>3. j # i
    BY <2>1, <2>2, <1>0
  <2>4. ~(i < j)
    <3> SUFFICES ASSUME i < j PROVE FALSE
      OBVIOUS
    <3>1. g[i] < g[j]
      BY <2>2
    <3> QED
      BY <3>1, <2>1, <2>2, <1>0
  <2> QED
    BY <2>2, <2>3, <2>4, <1>0
<1> DEFINE below == 1 .. (i - 1)
           under == 1 .. (g[i] - 1)
           h == [j \in below |-> g[j]]
<1>2. h \in [below -> under]
  BY <1>1
<1>3. \A a, b \in below : h[a] = h[b] => a = b
  <2> SUFFICES ASSUME NEW a \in below, NEW b \in below, g[a] = g[b] PROVE a = b
    BY <1>2
  <2>1. a \in 1 .. n /\ b \in 1 .. n /\ a \in Int /\ b \in Int
    BY <1>1
  <2>4. g[a] \in 1 .. n /\ g[b] \in 1 .. n
    BY <2>1
  <2>2. ~(a < b)
    BY <2>1, <2>4
  <2>3. ~(b < a)
    BY <2>1, <2>4
  <2> QED
    BY <2>1, <2>2, <2>3
<1>5. ExistsBijection(below, under)
  <2>1. \A m \in under : \E j \in below : h[j] = m
    BY <1>4
  <2> HIDE DEF h, below, under
  <2> QED
    BY <2>1, <1>2, <1>3, ZenonT(40) DEF ExistsBijection, Bijection, Injection, Surjection, IsInjective
<1>6. ASSUME NEW k \in 1 .. n
      PROVE  IsFiniteSet(1 .. (k - 1)) /\ Cardinality(1 .. (k - 1)) = k - 1
  <2>1. 1 \in Int /\ k - 1 \in Int /\ (1 > k - 1 => k - 1 = 0) /\ (k - 1) - 1 + 1 = k - 1
    OBVIOUS
  <2> QED
    BY <2>1, FS_Interval
<1>7. Cardinality(under) = Cardinality(below)
  <2>1. IsFiniteSet(below) /\ IsFiniteSet(under)
    BY <1>6, <1>0
  <2> HIDE DEF below, under
  <2> QED
    BY <1>5, <2>1, FS_Bijection
<1> QED
  BY <1>6, <1>7, <1>0

\* Numbers listed once each, in whatever order, are sent in theirs.
LEMMA SortedIsIdentity ==
  ASSUME NEW n \in Nat, listed \in Seq(PartNumbers), Len(listed) = n,
         \A i \in 1 .. n : listed[i] \in 1 .. n,
         \A m \in 1 .. n : \E i \in 1 .. n : listed[i] = m,
         \A i, j \in 1 .. n : listed[i] = listed[j] => i = j
  PROVE  ListToSend = [i \in 1 .. n |-> i]
<1> DEFINE Sorts(p) == /\ \A j \in 1 .. n : \E i \in 1 .. n : p[i] = j
                       /\ \A i, j \in 1 .. n : i < j => listed[p[i]] <= listed[p[j]]
           order == CHOOSE p \in [1 .. n -> 1 .. n] : Sorts(p)
           at == [m \in 1 .. n |-> CHOOSE i \in 1 .. n : listed[i] = m]
<1>0. ListToSend = [i \in 1 .. n |-> listed[order[i]]]
  <2>1. Len(listed) = n
    OBVIOUS
  <2> QED
    BY <2>1 DEF ListToSend
<1>1. ASSUME NEW m \in 1 .. n PROVE at[m] \in 1 .. n /\ listed[at[m]] = m
  OBVIOUS
<1>2. at \in [1 .. n -> 1 .. n] /\ Sorts(at)
  <2>1. at \in [1 .. n -> 1 .. n]
    BY <1>1
  <2>2. ASSUME NEW j \in 1 .. n PROVE listed[j] \in 1 .. n /\ at[listed[j]] = j
    BY <1>1
  <2>3. \A j \in 1 .. n : \E i \in 1 .. n : at[i] = j
    BY <2>2, SMTT(20)
  <2>4. \A i, j \in 1 .. n : i < j => listed[at[i]] <= listed[at[j]]
    BY <1>1
  <2> QED
    BY <2>1, <2>3, <2>4
<1>3. order \in [1 .. n -> 1 .. n] /\ Sorts(order)
  <2> HIDE DEF Sorts, at
  <2> QED
    BY <1>2, Zenon
<1> HIDE DEF order, at
<1> DEFINE g == [i \in 1 .. n |-> listed[order[i]]]
<1>4. g \in [1 .. n -> 1 .. n]
  BY <1>3
<1>5. \A m \in 1 .. n : \E j \in 1 .. n : g[j] = m
  <2> SUFFICES ASSUME NEW m \in 1 .. n PROVE \E j \in 1 .. n : g[j] = m
    OBVIOUS
  <2>1. PICK k \in 1 .. n : listed[k] = m
    OBVIOUS
  <2>2. PICK j \in 1 .. n : order[j] = k
    BY <1>3
  <2> QED
    BY <2>1, <2>2
<1>6. \A i, j \in 1 .. n : order[i] = order[j] => i = j
  <2>1. order \in Surjection(1 .. n, 1 .. n)
    BY <1>3, Zenon DEF Surjection
  <2>2. IsFiniteSet(1 .. n) /\ 1 \in Int /\ n \in Int
    <3>1. 1 \in Int /\ n \in Int
      OBVIOUS
    <3> QED
      BY <3>1, FS_Interval
  <2>3. order \in Injection(1 .. n, 1 .. n)
    BY <2>1, <2>2, FS_SurjSameCardinalityImpliesInj, Zenon
  <2> QED
    BY <2>3, Zenon DEF Injection, IsInjective
<1>7. \A i, j \in 1 .. n : i < j => g[i] < g[j]
  <2> SUFFICES ASSUME NEW i \in 1 .. n, NEW j \in 1 .. n, i < j PROVE g[i] < g[j]
    OBVIOUS
  <2>1. order[i] \in 1 .. n /\ order[j] \in 1 .. n
    BY <1>3
  <2>4. listed[order[i]] <= listed[order[j]]
    BY <1>3
  <2>2. order[i] # order[j]
    BY <1>6
  <2>3. listed[order[i]] # listed[order[j]]
    BY <2>1, <2>2
  <2>5. listed[order[i]] \in 1 .. n /\ listed[order[j]] \in 1 .. n
    BY <2>1
  <2> QED
    <3>1. \A a, b \in 1 .. n : a <= b /\ a # b => a < b
      OBVIOUS
    <3> HIDE DEF Sorts
    <3> QED
      BY <3>1, <2>3, <2>4, <2>5, Zenon
<1>8. PICK f \in [1 .. n -> 1 .. n] :
         /\ \A m \in 1 .. n : \E j \in 1 .. n : f[j] = m
         /\ \A i, j \in 1 .. n : i < j => f[i] < f[j]
         /\ ListToSend = f
  <2>1. ListToSend = g
    BY <1>0
  <2> HIDE DEF g
  <2> QED
    BY <1>4, <1>5, <1>7, <2>1
<1>i. \A k \in Nat : \A e \in [1 .. k -> 1 .. k] :
        /\ \A m \in 1 .. k : \E j \in 1 .. k : e[j] = m
        /\ \A i, j \in 1 .. k : i < j => e[i] < e[j]
        => \A i \in 1 .. k : e[i] = i
  BY IncreasingIsIdentity
<1>n. n \in Nat
  OBVIOUS
<1>j. \A e \in [1 .. n -> 1 .. n] :
        /\ \A m \in 1 .. n : \E j \in 1 .. n : e[j] = m
        /\ \A i, j \in 1 .. n : i < j => e[i] < e[j]
        => \A i \in 1 .. n : e[i] = i
  BY <1>i, <1>n, Zenon
<1>f. f \in [1 .. n -> 1 .. n]
  OBVIOUS
<1>k. /\ \A m \in 1 .. n : \E j \in 1 .. n : f[j] = m
      /\ \A i, j \in 1 .. n : i < j => f[i] < f[j]
  BY <1>8, Zenon
<1>9. \A i \in 1 .. n : f[i] = i
  BY <1>j, <1>f, <1>k, Zenon
<1> QED
  BY <1>8, <1>9

\* What the proof adds: parts go out in order and each is listed once when it lands, a
\* part given up is a failure, and each step of the main line knows what is in flight.
PartsAreCounted ==
  /\ upload.sent <= upload.need
  /\ \A n \in PartNumbers : part[n].at = "unsent" <=> n > upload.sent
  /\ \A n \in PartNumbers : part[n].at = "landed" <=> \E i \in 1 .. Len(listed) : listed[i] = n
  /\ \A i, j \in 1 .. Len(listed) : listed[i] = listed[j] => i = j
  /\ \A n \in PartNumbers : part[n].at = "lost" => upload.failure
  /\ \A n \in PartNumbers : part[n].at \in {"unsent", "flying"} => part[n].tries < ATTEMPTS

RoomToSend ==
  /\ Cardinality(InFlight) <= CONCURRENCY
  /\ upload.pc \in {"creating", "reading"} => Cardinality(InFlight) < CONCURRENCY

LineKnows ==
  /\ upload.pc = "creating" => upload.sent = 0 /\ bucket.state = "none"
  /\ upload.pc \in {"draining", "completing"} => upload.sent = upload.need
  /\ upload.pc = "completing" => ~upload.failure
  /\ upload.pc \in {"completing", "aborting", "done", "failed"} => InFlight = {}
  /\ upload.pc = "done" => bucket.state = "object"
  /\ upload.pc = "failed" => (bucket.state # "open" \/ leaked)

UploadInv ==
  /\ UploadTypeOK
  /\ PartsAreCounted
  /\ RoomToSend
  /\ LineKnows
  /\ ObjectIsTheFile

LEMMA FlightIsFinite ==
  ASSUME UploadTypeOK
  PROVE  IsFiniteSet(InFlight) /\ Cardinality(InFlight) \in Nat
<1>1. IsFiniteSet(PartNumbers)
  <2>1. 1 \in Int /\ MaxSource \in Int
    BY UploadAssumption
  <2> QED
    BY <2>1, FS_Interval DEF PartNumbers
<1>2. InFlight \subseteq PartNumbers
  BY DEF InFlight
<1> QED
  BY <1>1, <1>2, FS_Subset, FS_CardinalityType

\* With every part landed, the list to send is the file's parts in order.
LEMMA AllLandedIsTheFile ==
  ASSUME UploadTypeOK, PartsAreCounted, InFlight = {}, ~upload.failure,
         upload.sent = upload.need
  PROVE  ListToSend = [i \in 1 .. upload.need |-> i]
<1> DEFINE n == upload.need
<1>a. MaxSource \in Nat
  BY UploadAssumption
<1>t. n \in Nat /\ n \in PartNumbers /\ n <= MaxSource /\ listed \in Seq(PartNumbers)
  BY <1>a DEF UploadTypeOK, PartNumbers
<1>1. \A m \in PartNumbers : part[m].at = "landed" <=> m <= n
  <2> SUFFICES ASSUME NEW m \in PartNumbers PROVE part[m].at = "landed" <=> m <= n
    OBVIOUS
  <2>1. part[m].at \in {"unsent", "flying", "landed", "lost"}
    BY DEF UploadTypeOK
  <2>2. part[m].at # "flying"
    BY DEF InFlight
  <2>3. part[m].at # "lost"
    BY DEF PartsAreCounted
  <2>4. part[m].at = "unsent" <=> m > n
    BY DEF PartsAreCounted
  <2>5. m \in Int /\ n \in Int
    BY <1>t, <1>a DEF PartNumbers
  <2> QED
    BY <2>1, <2>2, <2>3, <2>4, <2>5
<1>2. ASSUME NEW i \in 1 .. Len(listed) PROVE listed[i] \in 1 .. n
  <2>1. listed[i] \in PartNumbers
    BY <1>t
  <2>2. part[listed[i]].at = "landed"
    BY <2>1 DEF PartsAreCounted
  <2>3. listed[i] <= n
    BY <2>1, <2>2, <1>1
  <2> QED
    BY <2>1, <2>3, <1>t DEF PartNumbers
<1>3. ASSUME NEW m \in 1 .. n PROVE \E i \in 1 .. Len(listed) : listed[i] = m
  <2>1. m \in PartNumbers /\ m <= n
    BY <1>t, <1>a DEF PartNumbers
  <2> QED
    BY <2>1, <1>1 DEF PartsAreCounted
<1>4. \A i, j \in 1 .. Len(listed) : listed[i] = listed[j] => i = j
  BY DEF PartsAreCounted
<1>5. Len(listed) = n
  <2> DEFINE f == [i \in 1 .. Len(listed) |-> listed[i]]
  <2>1. f \in [1 .. Len(listed) -> 1 .. n]
    BY <1>2
  <2>2. \A i, j \in 1 .. Len(listed) : f[i] = f[j] => i = j
    BY <1>4
  <2>3. \A m \in 1 .. n : \E i \in 1 .. Len(listed) : f[i] = m
    BY <1>3
  <2> HIDE DEF f, n
  <2>4. ExistsBijection(1 .. Len(listed), 1 .. n)
    BY <2>1, <2>2, <2>3
       DEF ExistsBijection, Bijection, Injection, Surjection, IsInjective
  <2>5. ASSUME NEW k \in Nat PROVE IsFiniteSet(1 .. k) /\ Cardinality(1 .. k) = k
    <3>1. 1 \in Int /\ k \in Int /\ (1 > k => k = 0) /\ k - 1 + 1 = k
      OBVIOUS
    <3> QED
      BY <3>1, FS_Interval
  <2>6. Len(listed) \in Nat
    BY <1>t
  <2>7. IsFiniteSet(1 .. Len(listed))
    BY <2>5, <2>6
  <2>8. Cardinality(1 .. n) = Cardinality(1 .. Len(listed))
    BY <2>4, <2>7, FS_Bijection
  <2> QED
    BY <2>5, <2>6, <2>8, <1>t
<1> QED
  BY <1>t, <1>2, <1>3, <1>4, <1>5, SortedIsIdentity

LEMMA UploadStarts == UploadInit => UploadInv
<1> SUFFICES ASSUME UploadInit PROVE UploadInv
  OBVIOUS
<1>a. CONCURRENCY \in Nat \ {0} /\ ATTEMPTS \in Nat \ {0} /\ MaxSource \in Nat \ {0}
  BY UploadAssumption
<1>0. PICK n \in PartNumbers :
        upload = [pc |-> "creating", need |-> n, sent |-> 0, failure |-> FALSE]
  BY DEF UploadInit
<1>1. upload.failure \in BOOLEAN /\ upload.pc = "creating" /\ upload.sent = 0
      /\ upload.need = n /\ DOMAIN upload = {"pc", "need", "sent", "failure"}
  BY <1>0
<1>2. UploadTypeOK
  <2>1. \A b \in BOOLEAN : [pc |-> "creating", need |-> n, sent |-> 0, failure |-> b]
          \in [pc : {"creating", "reading", "waiting", "draining", "completing",
                     "cleaning", "aborting", "done", "failed"},
              need : PartNumbers, sent : 0 .. MaxSource, failure : BOOLEAN]
    BY <1>a
  <2>2. FALSE \in BOOLEAN /\ leaked \in BOOLEAN
    BY Zenon DEF UploadInit
  <2>3. upload \in [pc : {"creating", "reading", "waiting", "draining", "completing",
                     "cleaning", "aborting", "done", "failed"},
              need : PartNumbers, sent : 0 .. MaxSource, failure : BOOLEAN]
    BY <1>0, <2>1, <2>2, Zenon
  <2>4. /\ part \in [PartNumbers -> [at : {"unsent", "flying", "landed", "lost"},
                                   tries : 0 .. ATTEMPTS]]
        /\ listed \in Seq(PartNumbers)
        /\ bucket \in [state : {"none", "open", "object", "aborted"}, object : Seq(PartNumbers)]
    BY <1>a DEF UploadInit, Unsent
  <2> QED
    BY <2>2, <2>3, <2>4 DEF UploadTypeOK
<1>3. \A m \in PartNumbers : part[m].at = "unsent"
  BY DEF UploadInit, Unsent
<1>4. InFlight = {}
  BY <1>3 DEF InFlight
<1>5. Cardinality(InFlight) = 0
  BY <1>4, FS_EmptySet
<1>6. listed = <<>> /\ bucket.state = "none"
  BY DEF UploadInit
<1>9. \A m \in PartNumbers : part[m].tries = 0
  BY DEF UploadInit, Unsent
<1>7. PartsAreCounted
  BY <1>0, <1>1, <1>3, <1>6, <1>a, <1>9 DEF PartsAreCounted, PartNumbers
<1>8. RoomToSend /\ LineKnows /\ ObjectIsTheFile
  BY <1>1, <1>4, <1>5, <1>6, <1>a DEF RoomToSend, LineKnows, ObjectIsTheFile
<1> QED
  BY <1>2, <1>7, <1>8 DEF UploadInv

LEMMA UploadSteps == UploadInv /\ [UploadNext]_uploadVars => UploadInv'
<1> SUFFICES ASSUME UploadInv, [UploadNext]_uploadVars PROVE UploadInv'
  OBVIOUS
<1>a. CONCURRENCY \in Nat \ {0} /\ ATTEMPTS \in Nat \ {0} /\ MaxSource \in Nat \ {0}
  BY UploadAssumption
<1>t. UploadTypeOK /\ PartsAreCounted /\ RoomToSend /\ LineKnows /\ ObjectIsTheFile
  BY DEF UploadInv
<1>f. IsFiniteSet(InFlight) /\ Cardinality(InFlight) \in Nat
  BY <1>t, FlightIsFinite
\* A step of the main line that changes neither the parts nor the list.
<1>m. ASSUME UNCHANGED <<part, listed>>, upload'.sent = upload.sent,
             upload'.need = upload.need, upload'.failure = upload.failure
      PROVE  PartsAreCounted' /\ InFlight' = InFlight
  BY <1>m, <1>t DEF PartsAreCounted, InFlight
<1>g. ASSUME NEW pc \in {"creating", "reading", "waiting", "draining", "completing",
                         "cleaning", "aborting", "done", "failed"}, UploadGoes(pc)
      PROVE  /\ upload'.pc = pc /\ upload'.sent = upload.sent
             /\ upload'.need = upload.need /\ upload'.failure = upload.failure
             /\ upload' \in [pc : {"creating", "reading", "waiting", "draining", "completing",
                        "cleaning", "aborting", "done", "failed"},
                 need : PartNumbers, sent : 0 .. MaxSource, failure : BOOLEAN]
  BY <1>g, <1>t DEF UploadGoes, UploadTypeOK
<1>1. CASE CreateUpload
  <2>1. upload.pc = "creating" /\ bucket.state = "none" /\ UNCHANGED <<part, listed>>
    BY <1>1, <1>t DEF CreateUpload, LineKnows
  <2>2. InFlight = {}
    <3>1. upload.sent = 0
      BY <2>1, <1>t DEF LineKnows
    <3> QED
      BY <3>1, <1>t DEF PartsAreCounted, InFlight, PartNumbers
  <2>3. PICK pc \in {"reading", "failed"} : UploadGoes(pc)
    BY <1>1 DEF CreateUpload
  <2>4. bucket' \in {bucket, [bucket EXCEPT !.state = "open"]}
    BY <1>1 DEF CreateUpload
  <2>5. leaked' \in BOOLEAN
    BY <1>1, <1>t DEF CreateUpload, UploadTypeOK
  <2>6. pc = "failed" => (bucket'.state # "open" \/ leaked')
    <3>1. CASE pc = "failed"
      <4>1. PICK took \in BOOLEAN :
              /\ bucket' = IF took THEN [bucket EXCEPT !.state = "open"] ELSE bucket
              /\ leaked' = took
        BY <1>1, <2>3, <3>1, <1>t DEF CreateUpload, UploadGoes, UploadTypeOK
      <4>2. CASE took
        BY <4>1, <4>2
      <4>3. CASE ~took
        BY <4>1, <4>3, <2>1
      <4> QED
        BY <4>2, <4>3
    <3> QED
      BY <3>1
  <2>7. upload'.pc = pc /\ PartsAreCounted' /\ InFlight' = InFlight
    BY <2>1, <2>3, <1>g, <1>m
  <2>8. UploadTypeOK'
    BY <2>1, <2>3, <2>4, <2>5, <1>g, <1>t DEF UploadTypeOK
  <2>9. RoomToSend'
    BY <2>1, <2>7, <1>t DEF RoomToSend
  <2>10. LineKnows'
    BY <2>2, <2>6, <2>7 DEF LineKnows
  <2>11. ObjectIsTheFile'
    BY <2>1, <2>4, <1>t DEF ObjectIsTheFile, UploadTypeOK
  <2> QED
    BY <2>7, <2>8, <2>9, <2>10, <2>11 DEF UploadInv
<1>2. CASE SendPart
  <2> DEFINE n == upload.sent + 1
  <2>1. /\ upload.pc = "reading" /\ upload.sent < upload.need
        /\ part' = [part EXCEPT ![n].at = "flying"]
        /\ UNCHANGED <<listed, bucket, leaked>>
    BY <1>2 DEF SendPart
  <2>2. /\ upload'.sent = n /\ upload'.need = upload.need /\ upload'.failure = upload.failure
        /\ upload'.pc = (IF Cardinality(InFlight) + 1 >= CONCURRENCY THEN "waiting" ELSE "reading")
    BY <1>2, <1>t, <2>1 DEF SendPart, UploadTypeOK
  <2>3. n \in PartNumbers /\ n <= upload.need /\ part[n].at = "unsent"
    <3>1. upload.need \in PartNumbers /\ upload.sent \in 0 .. MaxSource
      BY <1>t DEF UploadTypeOK
    <3>2. n \in PartNumbers /\ n <= upload.need /\ n > upload.sent
      BY <3>1, <2>1, <1>a DEF PartNumbers
    <3> QED
      BY <3>2, <1>t DEF PartsAreCounted
  <2>4. /\ part'[n].at = "flying" /\ part'[n].tries = part[n].tries
        /\ \A m \in PartNumbers \ {n} : part'[m] = part[m]
    BY <2>1, <2>3, <1>t DEF UploadTypeOK
  <2>5. UploadTypeOK'
    <3>1. part' \in [PartNumbers -> [at : {"unsent", "flying", "landed", "lost"},
                               tries : 0 .. ATTEMPTS]]
      BY <2>1, <2>3, <1>t DEF UploadTypeOK
    <3>2. n \in 0 .. MaxSource
      BY <2>3, <1>a DEF PartNumbers
    <3>3. upload' \in [pc : {"creating", "reading", "waiting", "draining", "completing",
                        "cleaning", "aborting", "done", "failed"},
                 need : PartNumbers, sent : 0 .. MaxSource, failure : BOOLEAN]
      BY <1>2, <3>2, <1>t DEF SendPart, UploadTypeOK
    <3> QED
      BY <3>1, <3>3, <2>1, <1>t DEF UploadTypeOK
  <2>6. InFlight' = InFlight \cup {n} /\ n \notin InFlight
    BY <2>3, <2>4, <1>t DEF InFlight
  <2>7. Cardinality(InFlight') = Cardinality(InFlight) + 1
    BY <2>6, <1>f, FS_AddElement
  <2>8. RoomToSend'
    BY <2>1, <2>2, <2>7, <1>f, <1>a, <1>t DEF RoomToSend
  <2>9. PartsAreCounted'
    <3>1. \A m \in PartNumbers : m \in Int /\ upload.sent \in Int
      BY <1>t DEF PartNumbers, UploadTypeOK
    <3>2. n <= upload.need
      BY <2>3
    <3>4. \A m \in PartNumbers : part'[m].at = "unsent" <=> m > n
      <4> SUFFICES ASSUME NEW m \in PartNumbers PROVE part'[m].at = "unsent" <=> m > n
        OBVIOUS
      <4>1. CASE m = n
        BY <4>1, <2>4, <3>1
      <4>2. CASE m # n
        <5>1. part'[m].at = "unsent" <=> m > upload.sent
          BY <4>2, <2>4, <1>t DEF PartsAreCounted
        <5> QED
          BY <5>1, <4>2, <3>1
      <4> QED
        BY <4>1, <4>2
    <3>5. \A m \in PartNumbers : part'[m].at = "landed"
                                 <=> \E i \in 1 .. Len(listed) : listed[i] = m
      BY <2>3, <2>4, <1>t DEF PartsAreCounted
    <3>6. \A m \in PartNumbers : part'[m].at = "lost" => upload.failure
      BY <2>3, <2>4, <1>t DEF PartsAreCounted
    <3>7. \A m \in PartNumbers : part'[m].at \in {"unsent", "flying"} => part'[m].tries < ATTEMPTS
      BY <2>3, <2>4, <1>t, <1>a DEF PartsAreCounted
    <3> QED
      BY <2>1, <2>2, <3>2, <3>4, <3>5, <3>6, <3>7, <1>t DEF PartsAreCounted
  <2>10. LineKnows' /\ ObjectIsTheFile'
    BY <2>1, <2>2, <1>t DEF LineKnows, ObjectIsTheFile
  <2> QED
    BY <2>5, <2>8, <2>9, <2>10 DEF UploadInv
\* The steps that only move the main line.
<1>h. ASSUME NEW pc \in {"creating", "reading", "waiting", "draining", "completing",
                         "cleaning", "aborting", "done", "failed"},
             UploadGoes(pc), UNCHANGED <<part, listed, bucket, leaked>>,
             pc \in {"reading", "waiting", "draining", "cleaning", "completing", "aborting"},
             pc = "reading" => Cardinality(InFlight) < CONCURRENCY,
             pc \in {"draining", "completing"} => upload.sent = upload.need,
             pc = "completing" => ~upload.failure,
             pc \in {"completing", "aborting"} => InFlight = {}
      PROVE  UploadInv'
  <2>1. /\ upload'.pc = pc /\ upload'.sent = upload.sent
        /\ upload'.need = upload.need /\ upload'.failure = upload.failure
    BY <1>h, <1>g
  <2>2. PartsAreCounted' /\ InFlight' = InFlight
    BY <1>h, <2>1, <1>m
  <2>3. UploadTypeOK'
    BY <1>h, <1>g, <1>t DEF UploadTypeOK
  <2>4. RoomToSend'
    BY <1>h, <2>1, <2>2, <1>t DEF RoomToSend
  <2>5. LineKnows'
    BY <1>h, <2>1, <2>2 DEF LineKnows
  <2>6. ObjectIsTheFile'
    BY <1>h, <2>1, <1>t DEF ObjectIsTheFile
  <2> QED
    BY <2>2, <2>3, <2>4, <2>5, <2>6 DEF UploadInv
<1>3. CASE ReadingFails
  BY <1>3, <1>h DEF ReadingFails
<1>4. CASE RoomAgain
  <2>1. UploadGoes(IF upload.failure THEN "cleaning" ELSE "reading")
        /\ UNCHANGED <<part, listed, bucket, leaked>>
        /\ Cardinality(InFlight) < CONCURRENCY
    BY <1>4 DEF RoomAgain
  <2>2. UploadGoes("cleaning") \/ UploadGoes("reading")
    BY <2>1
  <2> QED
    BY <2>1, <2>2, <1>h
<1>5. CASE SourceEnds
  BY <1>5, <1>h DEF SourceEnds
<1>6. CASE Drained
  <2>1. UploadGoes(IF upload.failure THEN "cleaning" ELSE "completing")
        /\ UNCHANGED <<part, listed, bucket, leaked>>
        /\ InFlight = {} /\ upload.pc = "draining"
    BY <1>6 DEF Drained
  <2>2. upload.sent = upload.need
    BY <2>1, <1>t DEF LineKnows
  <2>3. CASE upload.failure
    <3>1. UploadGoes("cleaning")
      BY <2>1, <2>3
    <3> QED
      BY <2>1, <3>1, <1>h
  <2>4. CASE ~upload.failure
    <3>1. UploadGoes("completing")
      BY <2>1, <2>4
    <3> QED
      BY <2>1, <2>2, <2>4, <3>1, <1>h
  <2> QED
    BY <2>3, <2>4
<1>7. CASE CompleteUpload
  <2>1. upload.pc = "completing" /\ UNCHANGED <<part, listed, leaked>>
    BY <1>7 DEF CompleteUpload
  <2>2. PICK took \in BOOLEAN, answered \in BOOLEAN :
          /\ bucket' = IF took THEN [state |-> "object", object |-> ListToSend] ELSE bucket
          /\ UploadGoes(IF took /\ answered THEN "done" ELSE "cleaning")
    BY <1>7 DEF CompleteUpload
  <2>3. PICK pc \in {"done", "cleaning"} : UploadGoes(pc) /\ (pc = "done" => took)
    <3>1. CASE took /\ answered
      BY <2>2, <3>1
    <3>2. CASE ~(took /\ answered)
      BY <2>2, <3>2
    <3> QED
      BY <3>1, <3>2
  <2>4. ListToSend = [i \in 1 .. upload.need |-> i]
    BY <2>1, <1>t, AllLandedIsTheFile DEF LineKnows
  <2>5. upload'.pc = pc /\ upload'.need = upload.need /\ PartsAreCounted' /\ InFlight' = InFlight
    BY <2>1, <2>3, <1>g, <1>m
  <2>6. ListToSend \in Seq(PartNumbers)
    <3>1. upload.need \in Nat /\ \A i \in 1 .. upload.need : i \in PartNumbers
      BY <1>t, <1>a DEF UploadTypeOK, PartNumbers
    <3> QED
      BY <2>4, <3>1
  <2>7. bucket'.object \in Seq(PartNumbers) /\ bucket'.state \in {"none", "open", "object", "aborted"}
        /\ bucket' \in [state : {"none", "open", "object", "aborted"}, object : Seq(PartNumbers)]
    BY <2>2, <2>6, <1>t DEF UploadTypeOK
  <2>8. took => bucket'.state = "object" /\ bucket'.object = ListToSend
    BY <2>2
  <2>9. ~took => bucket' = bucket
    BY <2>2
  <2>10. UploadTypeOK'
    BY <2>1, <2>3, <2>7, <1>g, <1>t DEF UploadTypeOK
  <2>11. RoomToSend'
    BY <2>1, <2>5, <1>t DEF RoomToSend
  <2>12. LineKnows'
    BY <2>1, <2>3, <2>5, <2>8, <1>t DEF LineKnows
  <2>13. ObjectIsTheFile'
    BY <2>4, <2>5, <2>8, <2>9, <1>t DEF ObjectIsTheFile
  <2> QED
    BY <2>5, <2>10, <2>11, <2>12, <2>13 DEF UploadInv
<1>8. CASE Cleaned
  BY <1>8, <1>h DEF Cleaned
<1>9. CASE AbortUpload
  <2>1. upload.pc = "aborting" /\ UNCHANGED <<part, listed>> /\ UploadGoes("failed")
        /\ InFlight = {}
    BY <1>9, <1>t DEF AbortUpload, LineKnows
  <2>2. bucket' \in {bucket, [bucket EXCEPT !.state = "aborted"]}
        /\ (bucket' # bucket => bucket.state = "open")
    BY <1>9 DEF AbortUpload
  <2>3. leaked' \in BOOLEAN
    BY <1>9, <1>t, Zenon DEF AbortUpload, UploadTypeOK
  <2>4. bucket'.state # "open" \/ leaked'
    <3>1. CASE leaked' = TRUE
      BY <3>1
    <3>2. CASE bucket' = IF bucket.state = "open" THEN [bucket EXCEPT !.state = "aborted"]
                     ELSE bucket
      BY <3>2, <1>t DEF UploadTypeOK
    <3> QED
      BY <3>1, <3>2, <1>9 DEF AbortUpload
  <2>5. upload'.pc = "failed" /\ upload'.need = upload.need /\ PartsAreCounted' /\ InFlight' = InFlight
    BY <2>1, <1>g, <1>m
  <2>6. UploadTypeOK'
    BY <2>1, <2>2, <2>3, <1>g, <1>t DEF UploadTypeOK
  <2>7. RoomToSend' /\ LineKnows'
    BY <2>1, <2>4, <2>5, <1>t DEF RoomToSend, LineKnows
  <2>8. ObjectIsTheFile'
    BY <2>2, <2>5, <1>t DEF ObjectIsTheFile, UploadTypeOK
  <2> QED
    BY <2>5, <2>6, <2>7, <2>8 DEF UploadInv
<1>10. ASSUME NEW n \in PartNumbers, PartLands(n) PROVE UploadInv'
  <2>1. /\ n \in InFlight /\ part[n].at = "flying"
        /\ part' = [part EXCEPT ![n].at = "landed"]
        /\ listed' = Append(listed, n)
        /\ UNCHANGED <<upload, bucket, leaked>>
    BY <1>10 DEF PartLands, InFlight
  <2>2. /\ part'[n].at = "landed" /\ part'[n].tries = part[n].tries
        /\ \A m \in PartNumbers \ {n} : part'[m] = part[m]
    BY <2>1, <1>t DEF UploadTypeOK
  <2>3. UploadTypeOK'
    <3>1. part' \in [PartNumbers -> [at : {"unsent", "flying", "landed", "lost"},
                               tries : 0 .. ATTEMPTS]]
      BY <2>1, <1>t DEF UploadTypeOK
    <3>2. listed' \in Seq(PartNumbers)
      BY <2>1, <1>t DEF UploadTypeOK
    <3> QED
      BY <3>1, <3>2, <2>1, <1>t DEF UploadTypeOK
  <2>4. /\ Len(listed) \in Nat /\ Len(listed') = Len(listed) + 1 /\ listed'[Len(listed) + 1] = n
        /\ \A i \in 1 .. Len(listed) : listed'[i] = listed[i] /\ listed[i] # n
    <3>1. \A i \in 1 .. Len(listed) : listed[i] # n
      BY <2>1, <1>t DEF PartsAreCounted
    <3> QED
      BY <3>1, <2>1, <1>t DEF UploadTypeOK
  <2>5. \A i \in 1 .. Len(listed') : i = Len(listed) + 1 \/ i \in 1 .. Len(listed)
    BY <2>4
  <2>6. PartsAreCounted'
    <3>1. \A m \in PartNumbers : part'[m].at = "unsent" <=> m > upload.sent
      BY <2>1, <2>2, <1>t DEF PartsAreCounted
    <3>2. \A m \in PartNumbers : part'[m].at = "landed"
                                 <=> \E i \in 1 .. Len(listed') : listed'[i] = m
      <4> SUFFICES ASSUME NEW m \in PartNumbers
                   PROVE part'[m].at = "landed" <=> \E i \in 1 .. Len(listed') : listed'[i] = m
        OBVIOUS
      <4>1. CASE m = n
        BY <4>1, <2>2, <2>4
      <4>2. CASE m # n
        <5>1. part'[m].at = "landed" <=> \E i \in 1 .. Len(listed) : listed[i] = m
          BY <4>2, <2>2, <1>t DEF PartsAreCounted
        <5> QED
          BY <5>1, <4>2, <2>4, <2>5
      <4> QED
        BY <4>1, <4>2
    <3>3. \A i, j \in 1 .. Len(listed') : listed'[i] = listed'[j] => i = j
      <4> SUFFICES ASSUME NEW i \in 1 .. Len(listed'), NEW j \in 1 .. Len(listed'),
                          listed'[i] = listed'[j]
                   PROVE  i = j
        OBVIOUS
      <4>1. i = Len(listed) + 1 \/ i \in 1 .. Len(listed)
        BY <2>5
      <4>2. j = Len(listed) + 1 \/ j \in 1 .. Len(listed)
        BY <2>5
      <4> QED
        BY <4>1, <4>2, <2>4, <1>t DEF PartsAreCounted
    <3>4. \A m \in PartNumbers : part'[m].at = "lost" => upload.failure
      BY <2>2, <1>t DEF PartsAreCounted
    <3>5. \A m \in PartNumbers : part'[m].at \in {"unsent", "flying"}
                                 => part'[m].tries < ATTEMPTS
      BY <2>2, <1>t DEF PartsAreCounted
    <3> QED
      BY <2>1, <3>1, <3>2, <3>3, <3>4, <3>5, <1>t DEF PartsAreCounted
  <2>7. InFlight' \subseteq InFlight
    BY <2>2 DEF InFlight
  <2>8. Cardinality(InFlight') <= Cardinality(InFlight) /\ Cardinality(InFlight') \in Nat
    BY <2>7, <1>f, FS_Subset, FS_CardinalityType
  <2>9. RoomToSend' /\ LineKnows' /\ ObjectIsTheFile'
    BY <2>1, <2>7, <2>8, <1>f, <1>a, <1>t DEF RoomToSend, LineKnows, ObjectIsTheFile
  <2> QED
    BY <2>3, <2>6, <2>9 DEF UploadInv
<1>11. ASSUME NEW n \in PartNumbers, PartFails(n) PROVE UploadInv'
  <2>1. n \in InFlight /\ part[n].at = "flying" /\ UNCHANGED <<listed, bucket, leaked>>
    BY <1>11 DEF PartFails, InFlight
  <2>t. part[n].tries \in Nat /\ part[n].tries < ATTEMPTS
    BY <2>1, <1>t, <1>a DEF UploadTypeOK, PartsAreCounted
  <2>2. /\ part'[n].at = (IF part[n].tries + 1 < ATTEMPTS THEN "flying" ELSE "lost")
        /\ part'[n].tries = part[n].tries + 1
        /\ \A m \in PartNumbers \ {n} : part'[m] = part[m]
    BY <1>11, <1>t DEF PartFails, UploadTypeOK
  <2>3. /\ upload'.pc = upload.pc /\ upload'.sent = upload.sent /\ upload'.need = upload.need
        /\ upload'.failure = (upload.failure \/ part[n].tries + 1 >= ATTEMPTS)
    BY <1>11, <1>t DEF PartFails, UploadTypeOK
  <2>4. UploadTypeOK'
    <3>1. part' \in [PartNumbers -> [at : {"unsent", "flying", "landed", "lost"},
                               tries : 0 .. ATTEMPTS]]
      BY <1>11, <2>t, <1>a, <1>t DEF PartFails, UploadTypeOK
    <3>2. upload' \in [pc : {"creating", "reading", "waiting", "draining", "completing",
                        "cleaning", "aborting", "done", "failed"},
                 need : PartNumbers, sent : 0 .. MaxSource, failure : BOOLEAN]
      BY <1>11, <1>t DEF PartFails, UploadTypeOK
    <3> QED
      BY <3>1, <3>2, <2>1, <1>t DEF UploadTypeOK
  <2>5. PartsAreCounted'
    <3>1. \A m \in PartNumbers : part'[m].at = "unsent" <=> m > upload.sent
      BY <2>1, <2>2, <1>t DEF PartsAreCounted
    <3>2. \A m \in PartNumbers : part'[m].at = "landed" <=> part[m].at = "landed"
      BY <2>1, <2>2
    <3>3. \A m \in PartNumbers : part'[m].at = "lost" => upload'.failure
      <4> SUFFICES ASSUME NEW m \in PartNumbers, part'[m].at = "lost" PROVE upload'.failure
        OBVIOUS
      <4>1. CASE m = n
        <5>1. part[n].tries + 1 >= ATTEMPTS
          BY <4>1, <2>2, <2>t, <1>a
        <5> QED
          BY <5>1, <2>3
      <4>2. CASE m # n
        <5>1. upload.failure
          BY <4>2, <2>2, <1>t DEF PartsAreCounted
        <5> QED
          BY <5>1, <2>3
      <4> QED
        BY <4>1, <4>2
    <3>4. \A m \in PartNumbers : part'[m].at \in {"unsent", "flying"}
                                 => part'[m].tries < ATTEMPTS
      BY <2>2, <1>t DEF PartsAreCounted
    <3> QED
      BY <2>1, <2>3, <3>1, <3>2, <3>3, <3>4, <1>t DEF PartsAreCounted
  <2>6. InFlight' \subseteq InFlight
    BY <2>1, <2>2 DEF InFlight
  <2>7. Cardinality(InFlight') <= Cardinality(InFlight) /\ Cardinality(InFlight') \in Nat
    BY <2>6, <1>f, FS_Subset, FS_CardinalityType
  <2>8. upload.pc # "completing"
    BY <2>1, <1>t DEF LineKnows
  <2>9. RoomToSend' /\ LineKnows' /\ ObjectIsTheFile'
    BY <2>1, <2>3, <2>6, <2>7, <2>8, <1>f, <1>a, <1>t DEF RoomToSend, LineKnows, ObjectIsTheFile
  <2> QED
    BY <2>4, <2>5, <2>9 DEF UploadInv
<1>12. CASE UNCHANGED uploadVars
  BY <1>12, <1>t DEF uploadVars, UploadInv, UploadTypeOK, PartsAreCounted, RoomToSend,
     LineKnows, ObjectIsTheFile, InFlight
<1> QED
  BY <1>1, <1>2, <1>3, <1>4, <1>5, <1>6, <1>7, <1>8, <1>9, <1>10, <1>11, <1>12
     DEF UploadNext, MainLine

\* Uploads: never more parts in flight than asked for, an object that is the file whatever
\* the order of the answers, and nothing left at the store when the upload is over.
THEOREM UploadIsSafe == UploadSpec => []UploadSafe
<1>1. UploadInv => UploadSafe
  BY DEF UploadInv, UploadSafe, RoomToSend, InFlightIsBounded, LineKnows, NothingLeftBehind
<1> QED
  BY <1>1, UploadStarts, UploadSteps, PTL DEF UploadSpec

----------------------------------------------------------------------------
(* Watch progress.  The transaction that holds the lock of an episode knows its sitting,
   so it opens one only if there is none and is paid only for one that was not finished;
   what it is paid was decided while the cap had room, and no other transaction of its
   episode is paid meanwhile.  Whoever inserts the achievement is alone in paying it. *)
TickRecords == [step : {"idle", "locked", "awarded", "committed", "done"},
                finished : BOOLEAN, found : Nat, again : BOOLEAN, pays : BOOLEAN]
ComputeRecords == [step : {"none", "reads", "writes", "grants", "inserts", "pays"},
                   xp : Nat, episodes : Nat]

OneTransaction ==
  \A s, t \in Ticks :
    InTransaction(s) /\ InTransaction(t) /\ EpisodeOf[s] = EpisodeOf[t] => s = t

TickShape ==
  /\ tick \in [Ticks -> TickRecords] /\ watched \in [Episodes -> Sittings]
  /\ episodeXp \in [Episodes -> Nat]
  /\ OneTransaction

ComputeShape ==
  /\ granted \in BOOLEAN /\ grantXp \in Nat /\ founderXp \in 0 .. 1
  /\ job \in {"none", "queued", "running"}
  /\ compute \in [Computers -> ComputeRecords]
  /\ job = "running" <=> compute["worker"].step # "none"
  /\ stats \in [row : BOOLEAN, fresh : BOOLEAN, xp : Nat, episodes : Nat]
  /\ watchFaults \in 0 .. MaxWatchFaults

\* What is paid for a sitting is paid when it is finished.
SittingsArePaidOnce ==
  \A e \in Episodes :
    /\ watched[e].inWindow <= 1
    /\ episodeXp[e] <= watched[e].ended + watched[e].inWindow
    /\ watched[e].inWindow = 1 /\ ~watched[e].finished => episodeXp[e] <= watched[e].ended

TransactionKnows ==
  \A t \in Ticks : InTransaction(t) =>
    /\ tick[t].found = watched[EpisodeOf[t]].inWindow
    /\ tick[t].again <=> /\ watched[EpisodeOf[t]].inWindow > 0
                         /\ watched[EpisodeOf[t]].finished
    /\ tick[t].pays => NewlyFinished(t)

PointRows == UNION {{<<e, i>> : i \in 1 .. episodeXp[e]} : e \in Episodes}
Paying == {e \in Episodes :
             \E t \in Ticks : EpisodeOf[t] = e /\ tick[t].step = "awarded" /\ tick[t].pays}

CapCounts ==
  /\ IsFiniteSet(PointRows)
  /\ Cardinality(PointRows) + Cardinality(Paying) < XP_EPISODES_PER_DAY + Cardinality(Episodes)

GrantIsPaidOnce ==
  /\ grantXp <= 1
  /\ ~granted => grantXp = 0
  /\ \A p \in Computers : Does(p, "pays") => granted /\ grantXp = 0
  /\ \A p, q \in Computers : Does(p, "pays") /\ Does(q, "pays") => p = q
  /\ granted /\ founderXp = 0 /\ watchFaults = 0 =>
       grantXp = 1 \/ \E p \in Computers : Does(p, "pays")

WatchInv ==
  TickShape /\ ComputeShape /\ SittingsArePaidOnce /\ TransactionKnows /\ CapCounts
  /\ GrantIsPaidOnce

\* The number of points is a number, and so is the number of who is being paid.
LEMMA PointsAreCounted ==
  ASSUME TickShape, CapCounts
  PROVE  /\ EpisodePoints = Cardinality(PointRows) /\ EpisodePoints \in Nat
         /\ WatchedEpisodes \in Nat
         /\ IsFiniteSet(Paying) /\ Cardinality(Paying) \in Nat
         /\ Cardinality(Paying) <= Cardinality(Episodes) /\ Cardinality(Episodes) \in Nat
<1>1. EpisodePoints = Cardinality(PointRows)
  BY DEF EpisodePoints, PointRows
<1>2. EpisodePoints \in Nat
  BY <1>1, FS_CardinalityType DEF CapCounts
<1>3. WatchedEpisodes \in Nat
  BY WatchAssumption, FS_Subset, FS_CardinalityType DEF WatchedEpisodes
<1>4. Paying \subseteq Episodes
  BY DEF Paying
<1>5. /\ IsFiniteSet(Paying) /\ Cardinality(Paying) \in Nat
      /\ Cardinality(Paying) <= Cardinality(Episodes) /\ Cardinality(Episodes) \in Nat
  BY <1>4, WatchAssumption, FS_Subset, FS_CardinalityType
<1> QED
  BY <1>1, <1>2, <1>3, <1>5

LEMMA WatchStarts == WatchInit => WatchInv
<1> SUFFICES ASSUME WatchInit PROVE WatchInv
  OBVIOUS
<1>1. \A t \in Ticks : tick[t].step = "idle"
  BY DEF WatchInit, NoTick
<1>2. TickShape
  <2>1. NoTick \in TickRecords /\ \A e \in Episodes : watched[e] \in Sittings
    BY DEF WatchInit, NoTick, TickRecords, Sittings
  <2> QED
    BY <1>1, <2>1 DEF WatchInit, TickShape, OneTransaction, InTransaction
<1>3. ComputeShape
  <2>1. NoCompute \in ComputeRecords /\ NoCompute.step = "none"
    BY DEF NoCompute, ComputeRecords
  <2>2. stats \in [row : BOOLEAN, fresh : BOOLEAN, xp : Nat, episodes : Nat]
    BY DEF WatchInit
  <2>3. "worker" \in Computers
    BY DEF Computers
  <2>4. compute \in [Computers -> ComputeRecords] /\ compute["worker"].step = "none"
    BY <2>1, <2>3 DEF WatchInit
  <2>5. grantXp \in Nat /\ founderXp \in 0 .. 1 /\ watchFaults \in 0 .. MaxWatchFaults
    BY WatchAssumption DEF WatchInit
  <2>6. granted \in BOOLEAN /\ job = "none"
    BY DEF WatchInit
  <2> QED
    BY <2>2, <2>4, <2>5, <2>6 DEF ComputeShape
<1>4. SittingsArePaidOnce
  BY DEF WatchInit, SittingsArePaidOnce
<1>5. TransactionKnows
  BY <1>1 DEF TransactionKnows, InTransaction
<1>6. CapCounts
  <2>1. PointRows = {}
    BY DEF WatchInit, PointRows
  <2>2. Paying = {}
    BY <1>1 DEF Paying
  <2>3. Cardinality(Episodes) \in Nat \ {0}
    BY WatchAssumption, FS_CardinalityType, FS_EmptySet
  <2> QED
    BY <2>1, <2>2, <2>3, FS_EmptySet, WatchAssumption DEF CapCounts
<1>7. GrantIsPaidOnce
  BY DEF WatchInit, GrantIsPaidOnce, Does, NoCompute
<1> QED
  BY <1>2, <1>3, <1>4, <1>5, <1>6, <1>7 DEF WatchInv

\* What the ticks do.
TicksInv == TickShape /\ SittingsArePaidOnce /\ TransactionKnows /\ CapCounts

\* A tick that changes nothing but its own step, to one that is paid nothing more.
LEMMA TickMoves ==
  ASSUME TicksInv, NEW t \in Ticks, NEW new \in TickRecords, tick' = [tick EXCEPT ![t] = new],
         UNCHANGED <<watched, episodeXp>>,
         new.step \in {"committed", "done"}
  PROVE  TicksInv'
<1>1. /\ tick' \in [Ticks -> TickRecords] /\ tick'[t] = new
      /\ \A s \in Ticks \ {t} : tick'[s] = tick[s]
  BY DEF TicksInv, TickShape
<1>2. TickShape'
  BY <1>1 DEF TicksInv, TickShape, OneTransaction, InTransaction
<1>3. SittingsArePaidOnce'
  BY DEF TicksInv, SittingsArePaidOnce
<1>4. TransactionKnows'
  BY <1>1 DEF TicksInv, TransactionKnows, InTransaction, NewlyFinished
<1>5. CapCounts'
  <2>1. PointRows' = PointRows
    BY DEF PointRows
  <2>2. Paying' \subseteq Paying
    BY <1>1 DEF Paying
  <2>3. Cardinality(Paying') <= Cardinality(Paying) /\ Cardinality(Paying') \in Nat
        /\ Cardinality(Paying) \in Nat /\ Cardinality(Episodes) \in Nat
    BY <2>2, PointsAreCounted, FS_Subset, FS_CardinalityType DEF TicksInv
  <2>4. Cardinality(PointRows) \in Nat
    BY PointsAreCounted DEF TicksInv
  <2> QED
    BY <2>1, <2>3, <2>4, WatchAssumption DEF TicksInv, CapCounts
<1> QED
  BY <1>2, <1>3, <1>4, <1>5 DEF TicksInv

LEMMA ReportsKeeps ==
  ASSUME TicksInv, NEW t \in Ticks, Reports(t) PROVE TicksInv'
<1>1. PICK e \in Episodes : e = EpisodeOf[t]
  BY WatchAssumption
<1>2. PICK finished \in BOOLEAN :
        tick' = [tick EXCEPT ![t] =
          [step |-> "locked", finished |-> finished, found |-> watched[e].inWindow,
           again |-> watched[e].inWindow > 0 /\ watched[e].finished, pays |-> FALSE]]
  BY <1>1 DEF Reports
<1>3. PICK again \in BOOLEAN : again = (watched[e].inWindow > 0 /\ watched[e].finished)
  <2>1. (watched[e].inWindow > 0 /\ watched[e].finished) \in BOOLEAN
    OBVIOUS
  <2> QED
    BY <2>1
<1> DEFINE new == [step |-> "locked", finished |-> finished, found |-> watched[e].inWindow,
                   again |-> again, pays |-> FALSE]
<1>4. tick' = [tick EXCEPT ![t] = new]
  BY <1>2, <1>3
<1>5. /\ new \in TickRecords /\ new.step = "locked" /\ new.found = watched[e].inWindow
      /\ (new.again <=> again) /\ ~new.pays
  BY DEF TickRecords, TicksInv, TickShape, Sittings
<1> HIDE DEF new
<1>6. /\ tick' \in [Ticks -> TickRecords] /\ tick'[t] = new
      /\ \A s \in Ticks \ {t} : tick'[s] = tick[s]
  BY <1>4, <1>5 DEF TicksInv, TickShape
<1>7. watched' = watched /\ episodeXp' = episodeXp
  BY DEF Reports
<1>8. \A s \in Ticks \ {t} : ~(InTransaction(s) /\ EpisodeOf[s] = EpisodeOf[t])
  BY DEF Reports, Locked
<1>9. TickShape'
  BY <1>5, <1>6, <1>7, <1>8 DEF TicksInv, TickShape, OneTransaction, InTransaction
<1>10. SittingsArePaidOnce'
  BY <1>7 DEF TicksInv, SittingsArePaidOnce
<1>11. TransactionKnows'
  BY <1>1, <1>3, <1>5, <1>6, <1>7 DEF TicksInv, TransactionKnows, InTransaction, NewlyFinished
<1>12. CapCounts'
  <2>1. PointRows' = PointRows
    BY <1>7 DEF PointRows
  <2>2. Paying' = Paying
    BY <1>5, <1>6 DEF Paying, Reports
  <2> QED
    BY <2>1, <2>2 DEF TicksInv, CapCounts
<1> QED
  BY <1>9, <1>10, <1>11, <1>12 DEF TicksInv

LEMMA AwardsKeeps ==
  ASSUME TicksInv, NEW t \in Ticks, Awards(t) PROVE TicksInv'
<1>1. PICK pays \in BOOLEAN : pays = (NewlyFinished(t) /\ UnderTheCap)
  <2>1. (NewlyFinished(t) /\ UnderTheCap) \in BOOLEAN
    OBVIOUS
  <2> QED
    BY <2>1
<1>2. /\ tick' = [tick EXCEPT ![t].step = "awarded", ![t].pays = pays]
      /\ watched' = watched /\ episodeXp' = episodeXp /\ tick[t].step = "locked"
  BY <1>1 DEF Awards
<1>3. /\ tick' \in [Ticks -> TickRecords]
      /\ tick'[t].step = "awarded" /\ (tick'[t].pays <=> pays)
      /\ tick'[t].found = tick[t].found /\ tick'[t].again = tick[t].again
      /\ tick'[t].finished = tick[t].finished
      /\ \A s \in Ticks \ {t} : tick'[s] = tick[s]
  BY <1>2 DEF TicksInv, TickShape, TickRecords
<1>4. \A s \in Ticks : InTransaction(s)' <=> InTransaction(s)
  BY <1>2, <1>3 DEF InTransaction
<1>5. TickShape'
  BY <1>2, <1>3, <1>4 DEF TicksInv, TickShape, OneTransaction
<1>6. SittingsArePaidOnce'
  BY <1>2 DEF TicksInv, SittingsArePaidOnce
<1>7. TransactionKnows'
  BY <1>1, <1>2, <1>3, <1>4, ZenonT(40) DEF TicksInv, TransactionKnows, NewlyFinished
<1>8. CapCounts'
  <2>1. PointRows' = PointRows
    BY <1>2 DEF PointRows
  <2>2. /\ EpisodePoints = Cardinality(PointRows) /\ Cardinality(PointRows) \in Nat
        /\ Cardinality(Episodes) \in Nat /\ Cardinality(Paying) \in Nat
    BY PointsAreCounted DEF TicksInv
  <2>3. Paying' \subseteq Episodes
    BY DEF Paying
  <2>4. Cardinality(Paying') \in Nat /\ Cardinality(Paying') <= Cardinality(Episodes)
    BY <2>3, WatchAssumption, FS_Subset, FS_CardinalityType
  <2>5. CASE pays
    <3>1. EpisodePoints < XP_EPISODES_PER_DAY /\ IsFiniteSet(PointRows)
      BY <1>1, <2>5 DEF UnderTheCap, TicksInv, CapCounts
    <3>2. Cardinality(PointRows) + Cardinality(Paying')
            < XP_EPISODES_PER_DAY + Cardinality(Episodes)
      BY <2>2, <2>4, <3>1, WatchAssumption
    <3> QED
      BY <2>1, <3>1, <3>2 DEF CapCounts
  <2>6. CASE ~pays
    <3>1. Paying' \subseteq Paying
      BY <1>3, <2>6 DEF Paying
    <3>2. Cardinality(Paying') <= Cardinality(Paying)
      BY <3>1, PointsAreCounted, FS_Subset DEF TicksInv
    <3> QED
      BY <2>1, <2>2, <2>4, <3>2, WatchAssumption DEF TicksInv, CapCounts
  <2> QED
    BY <2>5, <2>6
<1> QED
  BY <1>5, <1>6, <1>7, <1>8 DEF TicksInv

LEMMA CommitsKeeps ==
  ASSUME TicksInv, NEW t \in Ticks, Commits(t) PROVE TicksInv'
<1>1. PICK e \in Episodes : e = EpisodeOf[t]
  BY WatchAssumption
<1>2. PICK after \in {"committed", "done"} :
        /\ tick' = [tick EXCEPT ![t].step = after]
        /\ tick[t].step = "awarded"
  BY DEF Commits
<1>3. /\ tick' \in [Ticks -> TickRecords] /\ tick'[t].step = after
      /\ \A s \in Ticks \ {t} : tick'[s] = tick[s]
  BY <1>2 DEF TicksInv, TickShape, TickRecords
<1>4. \A s \in Ticks : InTransaction(s)' => s # t /\ InTransaction(s) /\ EpisodeOf[s] # e
  BY <1>1, <1>2, <1>3 DEF TicksInv, TickShape, OneTransaction, InTransaction
<1> DEFINE w == watched[e]
           opens == w.inWindow = 0
<1>5. /\ tick[t].found = w.inWindow
      /\ tick[t].again <=> w.inWindow > 0 /\ w.finished
      /\ tick[t].pays => tick[t].finished /\ ~tick[t].again
      /\ tick[t].finished \in BOOLEAN
  BY <1>1, <1>2 DEF TicksInv, TransactionKnows, InTransaction, NewlyFinished, TickShape,
                    TickRecords
<1>6. w \in Sittings /\ episodeXp[e] \in Nat
  BY DEF TicksInv, TickShape
<1>7. PICK sitting \in Sittings :
        /\ watched' = [watched EXCEPT ![e] = sitting]
        /\ sitting.inWindow = IF opens THEN w.inWindow + 1 ELSE w.inWindow
        /\ sitting.finished <=> tick[t].finished \/ (~opens /\ w.finished)
        /\ sitting.ended = w.ended
  <2>1. PICK finished \in BOOLEAN : finished = (tick[t].finished \/ (~(tick[t].found = 0) /\ w.finished))
    <3>1. (tick[t].finished \/ (~(tick[t].found = 0) /\ w.finished)) \in BOOLEAN
      OBVIOUS
    <3> QED
      BY <3>1
  <2>2. PICK n, m \in Nat :
          /\ n = IF tick[t].found = 0 THEN w.inWindow + 1 ELSE w.inWindow
          /\ m = IF NewlyFinished(t) THEN w.finishes + 1 ELSE w.finishes
    BY <1>6 DEF Sittings
  <2>3. watched' = [watched EXCEPT ![e].inWindow = n, ![e].finished = finished,
                                   ![e].finishes = m]
    BY <1>1, <2>1, <2>2 DEF Commits
  <2> DEFINE sitting == [w EXCEPT !.inWindow = n, !.finished = finished, !.finishes = m]
  <2>4. watched' = [watched EXCEPT ![e] = sitting]
    BY <2>3 DEF TicksInv, TickShape
  <2>5. sitting \in Sittings /\ sitting.inWindow = n /\ sitting.ended = w.ended
        /\ sitting.finished = finished
    BY <1>6 DEF Sittings
  <2> HIDE DEF sitting
  <2> QED
    BY <1>5, <2>1, <2>2, <2>4, <2>5
<1>8. /\ watched' \in [Episodes -> Sittings] /\ watched'[e] = sitting
      /\ \A d \in Episodes \ {e} : watched'[d] = watched[d]
  BY <1>7 DEF TicksInv, TickShape
<1>9. /\ episodeXp' \in [Episodes -> Nat]
      /\ episodeXp'[e] = IF tick[t].pays THEN episodeXp[e] + 1 ELSE episodeXp[e]
      /\ \A d \in Episodes \ {e} : episodeXp'[d] = episodeXp[d]
  BY <1>1 DEF Commits, TicksInv, TickShape
<1>10. TickShape'
  BY <1>3, <1>4, <1>8, <1>9 DEF TicksInv, TickShape, OneTransaction
<1>11. SittingsArePaidOnce'
  <2>1. /\ w.inWindow <= 1 /\ episodeXp[e] <= w.ended + w.inWindow
        /\ w.inWindow = 1 /\ ~w.finished => episodeXp[e] <= w.ended
    BY DEF TicksInv, SittingsArePaidOnce
  <2>2. /\ sitting.inWindow <= 1 /\ episodeXp'[e] <= sitting.ended + sitting.inWindow
        /\ sitting.inWindow = 1 /\ ~sitting.finished => episodeXp'[e] <= sitting.ended
    BY <1>5, <1>6, <1>7, <1>9, <2>1 DEF Sittings
  <2> QED
    BY <1>8, <1>9, <2>2 DEF TicksInv, SittingsArePaidOnce
<1>12. TransactionKnows'
  BY <1>3, <1>4, <1>8, WatchAssumption DEF TicksInv, TransactionKnows, NewlyFinished
<1>13. CapCounts'
  <2>1. /\ IsFiniteSet(PointRows) /\ Cardinality(PointRows) \in Nat
        /\ IsFiniteSet(Paying) /\ Cardinality(Paying) \in Nat /\ Cardinality(Episodes) \in Nat
    BY PointsAreCounted DEF TicksInv, CapCounts
  <2>2. CASE tick[t].pays
    <3> DEFINE row == <<e, episodeXp[e] + 1>>
    <3>1. \A d \in Episodes \ {e} : 1 .. episodeXp'[d] = 1 .. episodeXp[d]
      BY <1>9
    <3>2. 1 .. episodeXp'[e] = (1 .. episodeXp[e]) \cup {episodeXp[e] + 1}
      BY <1>6, <1>9, <2>2
    <3>3. PointRows' = PointRows \cup {row}
      <4>1. \A x : x \in PointRows' <=> \E d \in Episodes : \E i \in 1 .. episodeXp'[d] : x = <<d, i>>
        BY DEF PointRows
      <4>2. \A x : x \in PointRows <=> \E d \in Episodes : \E i \in 1 .. episodeXp[d] : x = <<d, i>>
        BY DEF PointRows
      <4> HIDE DEF row
      <4>3. \A x : x \in PointRows' <=> x \in PointRows \/ x = <<e, episodeXp[e] + 1>>
        BY <3>1, <3>2, <4>1, <4>2
      <4> QED
        BY <4>3 DEF row
    <3>4. row \notin PointRows
      BY <1>6 DEF PointRows
    <3>5. IsFiniteSet(PointRows') /\ Cardinality(PointRows') = Cardinality(PointRows) + 1
      BY <2>1, <3>3, <3>4, FS_AddElement
    <3>6. e \in Paying
      BY <1>1, <1>2, <2>2 DEF Paying
    <3>7. Paying' = Paying \ {e}
      BY <1>1, <1>3, <1>4, WatchAssumption DEF Paying, InTransaction
    <3>8. Cardinality(Paying') = Cardinality(Paying) - 1
      BY <2>1, <3>6, <3>7, FS_RemoveElement
    <3> QED
      BY <2>1, <3>5, <3>8, WatchAssumption DEF TicksInv, CapCounts
  <2>3. CASE ~tick[t].pays
    <3>1. PointRows' = PointRows
      BY <1>9, <2>3 DEF PointRows, TicksInv, TickShape
    <3>2. Paying' = Paying
      BY <1>3, <2>3 DEF Paying
    <3> QED
      BY <3>1, <3>2 DEF TicksInv, CapCounts
  <2> QED
    BY <2>2, <2>3
<1> QED
  BY <1>10, <1>11, <1>12, <1>13 DEF TicksInv

LEMMA WindowKeeps ==
  ASSUME TicksInv, NEW e \in Episodes, WindowEnds(e) PROVE TicksInv'
<1>1. watched[e] \in Sittings /\ episodeXp[e] \in Nat
  BY DEF TicksInv, TickShape
<1>2. /\ watched' = [watched EXCEPT ![e].inWindow = 0, ![e].finished = FALSE, ![e].ended = @ + 1]
      /\ tick' = tick /\ episodeXp' = episodeXp /\ watched[e].inWindow > 0
  BY DEF WindowEnds
<1>3. /\ watched' \in [Episodes -> Sittings]
      /\ watched'[e].inWindow = 0 /\ watched'[e].ended = watched[e].ended + 1
      /\ \A d \in Episodes \ {e} : watched'[d] = watched[d]
  BY <1>1, <1>2 DEF Sittings, TicksInv, TickShape
<1>4. TickShape'
  BY <1>2, <1>3 DEF TicksInv, TickShape, OneTransaction, InTransaction
<1>5. SittingsArePaidOnce'
  BY <1>1, <1>2, <1>3 DEF TicksInv, SittingsArePaidOnce, Sittings
<1>6. TransactionKnows'
  <2>1. \A t \in Ticks : InTransaction(t) => EpisodeOf[t] # e /\ EpisodeOf[t] \in Episodes
    BY WatchAssumption DEF WindowEnds, Locked
  <2> QED
    BY <1>2, <1>3, <2>1 DEF TicksInv, TransactionKnows, InTransaction, NewlyFinished
<1>7. CapCounts'
  BY <1>2 DEF TicksInv, CapCounts, PointRows, Paying
<1> QED
  BY <1>4, <1>5, <1>6, <1>7 DEF TicksInv

LEMMA TicksKeep == TicksInv /\ [WatchNext]_watchVars => TicksInv'
<1> SUFFICES ASSUME TicksInv, [WatchNext]_watchVars PROVE TicksInv'
  OBVIOUS
<1>1. ASSUME NEW t \in Ticks, AsksForStats(t) \/ TickDies(t) PROVE TicksInv'
  <2> DEFINE new == [tick[t] EXCEPT !.step = "done"]
  <2>1. new \in TickRecords /\ new.step = "done"
    BY DEF TicksInv, TickShape, TickRecords
  <2>2. tick' = [tick EXCEPT ![t] = new] /\ UNCHANGED <<watched, episodeXp>>
    BY <1>1 DEF AsksForStats, TickDies
  <2> HIDE DEF new
  <2> QED
    BY <2>1, <2>2, TickMoves
<1>2. ASSUME UNCHANGED <<tick, watched, episodeXp>> PROVE TicksInv'
  BY <1>2 DEF TicksInv, TickShape, OneTransaction, InTransaction, SittingsArePaidOnce,
              TransactionKnows, NewlyFinished, CapCounts, PointRows, Paying
<1>3. ASSUME \/ \E p \in Computers : ComputeSteps(p) \/ ComputeDies(p)
             \/ \E r \in Readers : AsksStats(r) \/ AsksAchievements(r)
             \/ JobStarts \/ StatsAge \/ Founds \/ UNCHANGED watchVars
      PROVE  UNCHANGED <<tick, watched, episodeXp>>
  BY <1>3 DEF ComputeSteps, ReadsLedgers, WritesStats, Measures, InsertsGrant, Pays, ComputeDies,
     AsksStats, AsksAchievements, JobStarts, StatsAge, Founds, watchVars
<1> QED
  BY <1>1, <1>2, <1>3, ReportsKeeps, AwardsKeeps, CommitsKeeps, WindowKeeps DEF WatchNext, TickSteps

----------------------------------------------------------------------------
GrantsInv == ComputeShape /\ GrantIsPaidOnce

\* Who goes on without paying, or stops.
LEMMA ComputeMoves ==
  ASSUME GrantsInv, NEW p \in Computers, NEW new \in ComputeRecords,
         compute' = [compute EXCEPT ![p] = new], new.step # "pays",
         compute[p].step = "pays" => watchFaults' # 0,
         UNCHANGED <<granted, grantXp, founderXp>>,
         watchFaults' \in 0 .. MaxWatchFaults, watchFaults' = 0 => watchFaults = 0,
         stats' \in [row : BOOLEAN, fresh : BOOLEAN, xp : Nat, episodes : Nat],
         job' \in {"none", "queued", "running"},
         IF p = "worker" THEN job' = "running" <=> new.step # "none"
         ELSE job' = "running" <=> job = "running"
  PROVE  GrantsInv'
<1>1. /\ compute' \in [Computers -> ComputeRecords] /\ compute'[p] = new
      /\ \A q \in Computers \ {p} : compute'[q] = compute[q]
  BY DEF GrantsInv, ComputeShape
<1>2. job' = "running" <=> compute'["worker"].step # "none"
  BY <1>1 DEF GrantsInv, ComputeShape, Computers
<1>3. ComputeShape'
  BY <1>1, <1>2 DEF GrantsInv, ComputeShape
<1>4. \A q \in Computers : Does(q, "pays")' => q # p /\ Does(q, "pays")
  BY <1>1 DEF Does
<1>5. watchFaults' = 0 => \A q \in Computers : Does(q, "pays") => Does(q, "pays")'
  BY <1>1 DEF Does
<1>6. GrantIsPaidOnce'
  BY <1>4, <1>5 DEF GrantsInv, GrantIsPaidOnce
<1> QED
  BY <1>3, <1>6 DEF GrantsInv

LEMMA GrantsKeep == TicksInv /\ GrantsInv /\ [WatchNext]_watchVars => GrantsInv'
<1> SUFFICES ASSUME TicksInv, GrantsInv, [WatchNext]_watchVars PROVE GrantsInv'
  OBVIOUS
<1>1. /\ DOMAIN compute = Computers /\ \A p \in Computers : compute[p] \in ComputeRecords
      /\ job \in {"none", "queued", "running"}
      /\ job = "running" <=> compute["worker"].step # "none"
      /\ stats \in [row : BOOLEAN, fresh : BOOLEAN, xp : Nat, episodes : Nat]
      /\ watchFaults \in 0 .. MaxWatchFaults
  BY DEF GrantsInv, ComputeShape
<1>2. /\ "worker" \in Computers
      /\ \A r \in Readers : r \in Computers /\ r # "worker"
  BY WatchAssumption DEF Computers
<1>3. TotalXp \in Nat /\ WatchedEpisodes \in Nat /\ EpisodePoints \in Nat
  BY PointsAreCounted DEF TotalXp, TicksInv, GrantsInv, ComputeShape
<1>4. ASSUME NEW p \in Computers, NEW step \in {"none", "reads", "grants", "inserts", "writes"},
             Step(p, step)
      PROVE  /\ [compute[p] EXCEPT !.step = step] \in ComputeRecords
             /\ [compute[p] EXCEPT !.step = step].step = step
             /\ compute' = [compute EXCEPT ![p] = [compute[p] EXCEPT !.step = step]]
  BY <1>1, <1>4 DEF Step, ComputeRecords
<1>5. ASSUME NEW p \in Computers, NEW step \in {"none", "reads", "grants", "inserts", "writes"},
             Step(p, step), compute[p].step # "pays",
             UNCHANGED <<granted, grantXp, founderXp, stats, watchFaults>>,
             job' \in {"none", "queued", "running"},
             IF p = "worker" THEN job' = "running" <=> step # "none"
             ELSE job' = "running" <=> job = "running"
      PROVE  GrantsInv'
  <2> DEFINE new == [compute[p] EXCEPT !.step = step]
  <2>1. new \in ComputeRecords /\ new.step = step /\ compute' = [compute EXCEPT ![p] = new]
    BY <1>4, <1>5
  <2> HIDE DEF new
  <2> QED
    BY <1>1, <1>5, <2>1, ComputeMoves
<1>6. ASSUME JobStarts PROVE GrantsInv'
  BY <1>1, <1>2, <1>5, <1>6 DEF JobStarts
<1>7. ASSUME NEW r \in Readers, AsksStats(r) \/ AsksAchievements(r) PROVE GrantsInv'
  <2>1. /\ Step(r, "reads") \/ Step(r, "inserts")
        /\ compute[r].step # "pays" /\ job' = job
        /\ UNCHANGED <<granted, grantXp, founderXp, stats, watchFaults>>
    BY <1>7 DEF AsksStats, AsksAchievements, Does
  <2> QED
    BY <1>1, <1>2, <1>5, <2>1
<1>8. ASSUME NEW p \in Computers, ReadsLedgers(p) PROVE GrantsInv'
  <2> DEFINE new == [step |-> "writes", xp |-> TotalXp, episodes |-> WatchedEpisodes]
  <2>1. new \in ComputeRecords /\ new.step = "writes"
    BY <1>3 DEF ComputeRecords
  <2>2. /\ compute' = [compute EXCEPT ![p] = new] /\ compute[p].step = "reads"
        /\ UNCHANGED <<granted, grantXp, founderXp, stats, watchFaults, job>>
    BY <1>8 DEF ReadsLedgers, Does
  <2> HIDE DEF new
  <2> QED
    BY <1>1, <2>1, <2>2, ComputeMoves
<1>9. ASSUME NEW p \in Computers, WritesStats(p) PROVE GrantsInv'
  <2> DEFINE new == [NoCompute EXCEPT !.step = "grants"]
  <2>1. new \in ComputeRecords /\ new.step = "grants"
    BY DEF ComputeRecords, NoCompute
  <2>2. /\ compute' = [compute EXCEPT ![p] = new] /\ compute[p].step = "writes"
        /\ UNCHANGED <<granted, grantXp, founderXp, watchFaults, job>>
    BY <1>9 DEF WritesStats, Does
  <2>3. stats' \in [row : BOOLEAN, fresh : BOOLEAN, xp : Nat, episodes : Nat]
    <3>1. compute[p].xp \in Nat /\ compute[p].episodes \in Nat
      BY <1>1 DEF ComputeRecords
    <3>2. stats' = [row |-> TRUE, fresh |-> TRUE, xp |-> compute[p].xp,
                    episodes |-> compute[p].episodes]
      BY <1>9 DEF WritesStats
    <3> QED
      BY <3>1, <3>2
  <2> HIDE DEF new
  <2> QED
    BY <1>1, <2>1, <2>2, <2>3, ComputeMoves
<1>10. ASSUME NEW p \in Computers, Measures(p) PROVE GrantsInv'
  <2>1. /\ compute[p].step = "grants"
        /\ UNCHANGED <<granted, grantXp, founderXp, stats, watchFaults>>
        /\ \/ Step(p, "inserts") /\ job' = job
           \/ Step(p, "none") /\ job' = IF p = "worker" THEN "none" ELSE job
    BY <1>10 DEF Measures, Does, Ends
  <2> QED
    BY <1>1, <1>5, <2>1
<1>11. ASSUME NEW p \in Computers, InsertsGrant(p) PROVE GrantsInv'
  <2>1. CASE granted
    <3>1. /\ compute[p].step = "inserts" /\ granted' = TRUE
          /\ UNCHANGED <<grantXp, founderXp, stats, watchFaults>>
          /\ Step(p, "none") /\ job' = IF p = "worker" THEN "none" ELSE job
      BY <1>11, <2>1 DEF InsertsGrant, Does, Ends
    <3>2. granted' = granted
      BY <2>1, <3>1 DEF GrantsInv, ComputeShape
    <3> QED
      BY <1>1, <1>5, <3>1, <3>2
  <2>2. CASE ~granted
    <3> DEFINE new == [compute[p] EXCEPT !.step = "pays"]
    <3>1. /\ compute[p].step = "inserts" /\ granted'
          /\ granted' \in BOOLEAN
          /\ UNCHANGED <<grantXp, founderXp, stats, watchFaults, job>>
          /\ compute' = [compute EXCEPT ![p] = new]
      BY <1>1, <1>11, <2>2 DEF InsertsGrant, Does, Step
    <3>2. new \in ComputeRecords /\ new.step = "pays"
      BY <1>1 DEF ComputeRecords
    <3> HIDE DEF new
    <3>3. /\ compute' \in [Computers -> ComputeRecords] /\ compute'[p] = new
          /\ \A q \in Computers \ {p} : compute'[q] = compute[q]
      BY <1>1, <3>1, <3>2 DEF GrantsInv, ComputeShape
    <3>4. job' = "running" <=> compute'["worker"].step # "none"
      BY <1>1, <1>2, <3>1, <3>2, <3>3
    <3>5. ComputeShape'
      BY <3>1, <3>3, <3>4 DEF GrantsInv, ComputeShape
    <3>6. \A q \in Computers : Does(q, "pays")' <=> q = p
      BY <2>2, <3>2, <3>3 DEF GrantsInv, GrantIsPaidOnce, Does
    <3>7. GrantIsPaidOnce'
      BY <2>2, <3>1, <3>6 DEF GrantsInv, GrantIsPaidOnce
    <3> QED
      BY <3>5, <3>7 DEF GrantsInv
  <2> QED
    BY <2>1, <2>2
<1>12. ASSUME NEW p \in Computers, Pays(p) PROVE GrantsInv'
  <2> DEFINE new == [compute[p] EXCEPT !.step = "none"]
  <2>1. /\ Does(p, "pays") /\ grantXp' = grantXp + 1
        /\ UNCHANGED <<granted, founderXp, stats, watchFaults>>
        /\ job' = IF p = "worker" THEN "none" ELSE job
        /\ compute' = [compute EXCEPT ![p] = new]
    BY <1>1, <1>12 DEF Pays, Ends, Step
  <2>2. new \in ComputeRecords /\ new.step = "none"
    BY <1>1 DEF ComputeRecords
  <2> HIDE DEF new
  <2>3. /\ compute' \in [Computers -> ComputeRecords] /\ compute'[p] = new
        /\ \A q \in Computers \ {p} : compute'[q] = compute[q]
    BY <1>1, <2>1, <2>2 DEF GrantsInv, ComputeShape
  <2>4. job' = "running" <=> compute'["worker"].step # "none"
    BY <1>1, <1>2, <2>1, <2>2, <2>3
  <2>5. granted /\ grantXp = 0 /\ grantXp' = 1
    BY <2>1 DEF GrantsInv, GrantIsPaidOnce
  <2>6. ComputeShape'
    BY <1>1, <2>1, <2>3, <2>4, <2>5 DEF GrantsInv, ComputeShape
  <2>7. \A q \in Computers : ~Does(q, "pays")'
    BY <2>1, <2>2, <2>3 DEF GrantsInv, GrantIsPaidOnce, Does
  <2>8. GrantIsPaidOnce'
    BY <2>1, <2>5, <2>7 DEF GrantIsPaidOnce
  <2> QED
    BY <2>6, <2>8 DEF GrantsInv
<1>13. ASSUME NEW p \in Computers, ComputeDies(p) PROVE GrantsInv'
  <2>1. NoCompute \in ComputeRecords /\ NoCompute.step = "none"
    BY DEF ComputeRecords, NoCompute
  <2>2. /\ compute' = [compute EXCEPT ![p] = NoCompute]
        /\ watchFaults < MaxWatchFaults /\ watchFaults' = watchFaults + 1
        /\ job' = IF p = "worker" THEN "queued" ELSE job
        /\ UNCHANGED <<granted, grantXp, founderXp, stats>>
    BY <1>13 DEF ComputeDies
  <2>3. watchFaults' \in 0 .. MaxWatchFaults /\ watchFaults' # 0
    BY <1>1, <2>2, WatchAssumption
  <2> QED
    BY <1>1, <2>1, <2>2, <2>3, ComputeMoves
<1>14. ASSUME \/ \E t \in Ticks : Reports(t) \/ Awards(t) \/ Commits(t)
              \/ \E e \in Episodes : WindowEnds(e)
              \/ UNCHANGED watchVars
       PROVE  GrantsInv'
  <2>1. UNCHANGED <<granted, grantXp, founderXp, job, compute, stats, watchFaults>>
    BY <1>14 DEF Reports, Awards, Commits, WindowEnds, watchVars
  <2> QED
    BY <2>1 DEF GrantsInv, ComputeShape, GrantIsPaidOnce, Does
<1>15. ASSUME NEW t \in Ticks, AsksForStats(t) \/ TickDies(t) PROVE GrantsInv'
  <2>1. /\ UNCHANGED <<granted, grantXp, founderXp, compute, stats>>
        /\ job' = job \/ (job = "none" /\ job' = "queued")
        /\ \/ watchFaults' = watchFaults
           \/ watchFaults < MaxWatchFaults /\ watchFaults' = watchFaults + 1
    BY <1>15 DEF AsksForStats, TickDies
  <2>2. watchFaults' \in 0 .. MaxWatchFaults /\ (watchFaults' = 0 => watchFaults = 0)
    BY <1>1, <2>1, WatchAssumption
  <2>3. ComputeShape'
    BY <1>1, <2>1, <2>2 DEF GrantsInv, ComputeShape
  <2>4. GrantIsPaidOnce'
    BY <2>1, <2>2 DEF GrantsInv, GrantIsPaidOnce, Does
  <2> QED
    BY <2>3, <2>4 DEF GrantsInv
<1>16. ASSUME StatsAge PROVE GrantsInv'
  <2>1. /\ UNCHANGED <<granted, grantXp, founderXp, compute, job, watchFaults>>
        /\ stats' = [stats EXCEPT !.fresh = FALSE]
    BY <1>16 DEF StatsAge
  <2>2. stats' \in [row : BOOLEAN, fresh : BOOLEAN, xp : Nat, episodes : Nat]
    BY <1>1, <2>1
  <2> QED
    BY <2>1, <2>2 DEF GrantsInv, ComputeShape, GrantIsPaidOnce, Does
<1>17. ASSUME Founds PROVE GrantsInv'
  <2>1. /\ UNCHANGED <<grantXp, compute, job, watchFaults>>
        /\ granted' /\ granted' \in BOOLEAN /\ founderXp' = 1
    BY <1>17 DEF Founds
  <2>2. stats' \in [row : BOOLEAN, fresh : BOOLEAN, xp : Nat, episodes : Nat]
    <3>1. Cardinality(Episodes) \in Nat
      BY WatchAssumption, FS_CardinalityType
    <3>2. stats' = [row |-> TRUE, fresh |-> TRUE, xp |-> TotalXp + 1,
                    episodes |-> Cardinality(Episodes)]
      BY <1>17 DEF Founds
    <3> QED
      BY <1>3, <3>1, <3>2
  <2>3. ComputeShape'
    BY <2>1, <2>2 DEF GrantsInv, ComputeShape
  <2>4. GrantIsPaidOnce'
    BY <2>1 DEF GrantsInv, GrantIsPaidOnce, Does
  <2> QED
    BY <2>3, <2>4 DEF GrantsInv
<1> QED
  BY <1>6, <1>7, <1>8, <1>9, <1>10, <1>11, <1>12, <1>13, <1>14, <1>15, <1>16, <1>17
     DEF WatchNext, TickSteps, ComputeSteps

\* What holds of the watch progress at every moment.
LEMMA WatchInvariant == WatchSpec => []WatchInv
<1>1. WatchInv <=> TicksInv /\ GrantsInv
  BY DEF WatchInv, TicksInv, GrantsInv
<1>2. WatchInv /\ [WatchNext]_watchVars => WatchInv'
  BY <1>1, TicksKeep, GrantsKeep DEF WatchInv, TicksInv, GrantsInv
<1> QED
  BY <1>2, WatchStarts, PTL DEF WatchSpec

\* However many reports of an episode come together, in whatever order their transactions
\* commit or die, one sitting is one row and is paid once (recordProgress).
THEOREM SittingsArePaid == WatchSpec => []OneSittingOnePayment
<1>1. WatchInv => OneSittingOnePayment
  BY DEF WatchInv, SittingsArePaidOnce, OneSittingOnePayment
<1> QED
  BY <1>1, WatchInvariant, PTL

\* The ceiling of a day is overrun by less than one award per episode, because the
\* transactions of one episode exclude each other (recordProgress).
THEOREM CeilingIsKept == WatchSpec => []CeilingHolds
<1>1. WatchInv => CeilingHolds
  <2> SUFFICES ASSUME WatchInv PROVE CeilingHolds
    OBVIOUS
  <2>1. /\ EpisodePoints = Cardinality(PointRows) /\ EpisodePoints \in Nat
        /\ Cardinality(Paying) \in Nat /\ Cardinality(Episodes) \in Nat
        /\ Cardinality(PointRows) + Cardinality(Paying)
             < XP_EPISODES_PER_DAY + Cardinality(Episodes)
    BY PointsAreCounted DEF WatchInv, CapCounts
  <2> QED
    BY <2>1, WatchAssumption DEF CeilingHolds
<1> QED
  BY <1>1, WatchInvariant, PTL

\* The achievement is paid once, whoever grants it, and is not left unpaid unless a
\* process died in between (grantNew).
THEOREM AchievementIsPaidOnce == WatchSpec => []PaidOnce
<1>1. WatchInv => PaidOnce
  BY DEF WatchInv, GrantIsPaidOnce, PaidOnce
<1> QED
  BY <1>1, WatchInvariant, PTL
\* Reports, sittings, points and numbers keep their shape, and two reports of an episode
\* are never inside their transactions together (recordProgress, recomputeProfileStats).
THEOREM WatchKeepsItsShape == WatchSpec => []WatchTypeOK
<1>1. WatchInv => WatchTypeOK
  <2> SUFFICES ASSUME WatchInv PROVE WatchTypeOK
    OBVIOUS
  <2>1. ASSUME NEW s \in Ticks, NEW t \in Ticks, s # t, EpisodeOf[s] = EpisodeOf[t]
        PROVE  {tick[s].step, tick[t].step} \cap {"idle", "committed", "done"} # {}
    <3>1. ~InTransaction(s) \/ ~InTransaction(t)
      BY <2>1 DEF WatchInv, TickShape, OneTransaction
    <3>2. /\ tick[s].step \in {"idle", "locked", "awarded", "committed", "done"}
          /\ tick[t].step \in {"idle", "locked", "awarded", "committed", "done"}
      BY DEF WatchInv, TickShape, TickRecords
    <3> QED
      BY <3>1, <3>2 DEF InTransaction
  <2> QED
    BY <2>1 DEF WatchInv, TickShape, ComputeShape, TickRecords, ComputeRecords, WatchTypeOK
<1> QED
  BY <1>1, WatchInvariant, PTL
=============================================================================
