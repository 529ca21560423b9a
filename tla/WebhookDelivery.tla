-------------------------- MODULE WebhookDelivery --------------------------
(* One row of webhooks, the deliveries that are on their way to it and the
   administrator who edits it (src/apps/api/src/modules/webhooks/delivery.ts,
   routes.ts).

   deliver reads the row once; whatever it finds out at the endpoint it writes
   into the row much later, whatever the row has become meanwhile.  A delivery
   is a job of the queue, run again until it succeeds or its attempts are used
   up, or an administrator's test, run once.  Of the queue this module keeps
   what JobQueue shows: the attempt is counted when the job is claimed, and a
   run that dies is followed by another one. *)
EXTENDS Naturals, FiniteSets

CONSTANTS DeliveryJobs, TestSends,   \* deliveries by the queue, by the administrator
          FAILURE_LIMIT,             \* 20: consecutive failures that switch it off
          MAX_ATTEMPTS               \* max_attempts of the job

\* Bounds of the model, not of the code.
CONSTANTS MaxPatches                 \* edits by the administrator

Deliveries == DeliveryJobs \cup TestSends

ASSUME WebhookAssumption ==
  /\ DeliveryJobs \cap TestSends = {}
  /\ FAILURE_LIMIT \in Nat \ {0} /\ MAX_ATTEMPTS \in Nat \ {0}
  /\ MaxPatches \in Nat

VARIABLES hook,        \* the row: whether it exists, enabled, failure_count
          delivery,    \* each delivery: its step, its attempts, what came back
          streak,      \* history: failures settled since the last success or reset
          stragglers,  \* history: deliveries under way when it was last switched off
          condemned,   \* history: an answer said "gone", nobody re-enabled it since
          patches

webhookVars == <<hook, delivery, streak, stragglers, condemned, patches>>
history == <<streak, stragglers, condemned>>

\* What a request comes to: 2xx, 429, a status of PERMANENT, another error.
Outcomes == {"ok", "throttled", "permanent", "error"}
UnderWay == {"sending", "settling", "refusing"}

WebhookInit ==
  /\ hook = [exists |-> TRUE, enabled |-> TRUE, failures |-> 0]
  /\ delivery = [d \in Deliveries |-> [pc |-> "queued", tries |-> 0, outcome |-> "ok"]]
  /\ streak = 0 /\ stragglers = {} /\ condemned = FALSE
  /\ patches = 0

Goto(d, pc) == delivery' = [delivery EXCEPT ![d].pc = pc]

\* The handler returned: complete.  It threw: failJob reschedules the job or
\* declares it dead; a test only shows the error.
Return(d) == Goto(d, "done")
Throw(d) ==
  Goto(d, IF d \in DeliveryJobs /\ delivery[d].tries < MAX_ATTEMPTS THEN "queued" ELSE "done")

\* An UPDATE of the row, which changes nothing when the row is gone; switching it
\* off is what makes stragglers of the deliveries under way.
Update(on, failures) ==
  /\ hook' = IF hook.exists THEN [exists |-> TRUE, enabled |-> on, failures |-> failures]
             ELSE hook
  /\ stragglers' = IF hook.enabled /\ ~on
                   THEN {d \in Deliveries : delivery[d].pc \in UnderWay}
                   ELSE stragglers

----------------------------------------------------------------------------
\* The job is claimed, deliver reads the row: it is there and switched on.
Begin(d) ==
  /\ delivery[d].pc = "queued" /\ delivery[d].tries < MAX_ATTEMPTS
  /\ hook.exists /\ hook.enabled
  /\ delivery' = [delivery EXCEPT ![d].pc = "sending", ![d].tries = @ + 1]
  /\ UNCHANGED <<hook, history, patches>>

\* It is not, or webhooks are off for the whole site: nothing is sent, and the
\* event is gone.
Drop(d) ==
  /\ delivery[d].pc = "queued" /\ delivery[d].tries < MAX_ATTEMPTS
  /\ delivery' = [delivery EXCEPT ![d].pc = "done", ![d].tries = @ + 1]
  /\ UNCHANGED <<hook, history, patches>>

\* checkOutboundUrl: the address, public when it was saved, points inward now.
AddressRefused(d) ==
  /\ delivery[d].pc = "sending"
  /\ Goto(d, "refusing")
  /\ UNCHANGED <<hook, history, patches>>

\* The refusal is logged and the row switched off; the handler throws.
Refuse(d) ==
  /\ delivery[d].pc = "refusing"
  /\ Update(FALSE, hook.failures)
  /\ Throw(d)
  /\ UNCHANGED <<streak, condemned, patches>>

\* The address passes, guardedRequest ends (a status, or an exception after 10 s at
\* the latest) and is logged in webhook_deliveries.
Sent(d, outcome) ==
  /\ delivery[d].pc = "sending"
  /\ delivery' = [delivery EXCEPT ![d].pc = "settling", ![d].outcome = outcome]
  /\ UNCHANGED <<hook, history, patches>>

\* A statement fails (the log's, when the row is gone), or the run dies: the job is
\* run again and what this run found out is not in the row.
BreaksOff(d) ==
  /\ delivery[d].pc \in UnderWay
  /\ Throw(d)
  /\ UNCHANGED <<hook, history, patches>>

\* 429: only last_error is written, the job waits as long as the endpoint asked.
SettleThrottled(d) ==
  /\ delivery[d].pc = "settling" /\ delivery[d].outcome = "throttled"
  /\ Throw(d)
  /\ UNCHANGED <<hook, history, patches>>

\* The endpoint is gone: counted, switched off, and the job is not repeated.
SettlePermanent(d) ==
  /\ delivery[d].pc = "settling" /\ delivery[d].outcome = "permanent"
  /\ Update(FALSE, hook.failures + 1)
  /\ streak' = streak + 1
  /\ condemned' = hook.exists
  /\ Return(d)
  /\ UNCHANGED patches

\* Any other failure: enabled is computed from the count alone.
SettleError(d) ==
  /\ delivery[d].pc = "settling" /\ delivery[d].outcome = "error"
  /\ Update(hook.failures + 1 < FAILURE_LIMIT, hook.failures + 1)
  /\ streak' = streak + 1
  /\ Throw(d)
  /\ UNCHANGED <<condemned, patches>>

\* Mutant of SettleOk: the count goes on over a success.
SettleOkKeeps(d) ==
  /\ delivery[d].pc = "settling" /\ delivery[d].outcome = "ok"
  /\ streak' = 0
  /\ Return(d)
  /\ UNCHANGED <<hook, stragglers, condemned, patches>>

SettleOk(d) ==
  /\ delivery[d].pc = "settling" /\ delivery[d].outcome = "ok"
  /\ Update(hook.enabled, 0)
  /\ streak' = 0
  /\ Return(d)
  /\ UNCHANGED <<condemned, patches>>

----------------------------------------------------------------------------
\* PATCH and DELETE /v1/admin/webhooks/:id.
Edit == hook.exists /\ patches < MaxPatches /\ patches' = patches + 1

\* Mutant of Enable: the old count stays.
EnableKeeps ==
  /\ Edit
  /\ Update(TRUE, hook.failures)
  /\ streak' = 0 /\ condemned' = FALSE
  /\ UNCHANGED delivery

\* Switching it on starts the count afresh.
Enable ==
  /\ Edit
  /\ Update(TRUE, 0)
  /\ streak' = 0 /\ condemned' = FALSE
  /\ UNCHANGED delivery

Disable ==
  /\ Edit
  /\ Update(FALSE, hook.failures)
  /\ UNCHANGED <<delivery, streak, condemned>>

DeleteHook ==
  /\ Edit
  /\ hook' = [exists |-> FALSE, enabled |-> FALSE, failures |-> 0]
  /\ streak' = 0 /\ stragglers' = {} /\ condemned' = FALSE
  /\ UNCHANGED delivery

----------------------------------------------------------------------------
Deliver(d) ==
  \/ Begin(d) \/ Drop(d)
  \/ AddressRefused(d) \/ Refuse(d) \/ BreaksOff(d)
  \/ \E outcome \in Outcomes : Sent(d, outcome)
  \/ SettleThrottled(d) \/ SettlePermanent(d) \/ SettleError(d) \/ SettleOk(d)

WebhookNext ==
  \/ \E d \in Deliveries : Deliver(d)
  \/ Enable \/ Disable \/ DeleteHook

WebhookSpec == WebhookInit /\ [][WebhookNext]_webhookVars

----------------------------------------------------------------------------
\* The shape of the state; a row that was deleted under a delivery stays deleted.
WebhookTypeOK ==
  /\ hook \in [exists : BOOLEAN, enabled : BOOLEAN, failures : Nat]
  /\ hook.exists \/ (~hook.enabled /\ hook.failures = 0)
  /\ delivery \in [Deliveries -> [pc : UnderWay \cup {"queued", "done"},
                                  tries : 0 .. MAX_ATTEMPTS, outcome : Outcomes]]
  /\ streak \in Nat /\ stragglers \subseteq Deliveries
  /\ condemned \in BOOLEAN /\ patches \in 0 .. MaxPatches

\* A webhook whose count has reached the limit is off, whatever the order in which
\* parallel deliveries, the administrator and switch-offs for other reasons came.
OffAtTheLimit == hook.failures >= FAILURE_LIMIT => ~hook.enabled

\* Nobody but the administrator switches a working webhook off without one of
\* three causes: an address that points inward, an endpoint that said it is gone,
\* FAILURE_LIMIT failures with no success between them.  Answers of 429 are none
\* of them, however many there are.
SwitchedOffForCause ==
  [][hook.enabled /\ ~hook'.enabled =>
       \/ patches' # patches
       \/ streak' >= FAILURE_LIMIT
       \/ \E d \in Deliveries :
            /\ delivery[d].pc = "refusing" \/ delivery[d].outcome = "permanent"
            /\ delivery'[d].pc # delivery[d].pc]_webhookVars

\* A webhook that was switched off comes on again by the administrator, or by the
\* answer to a delivery that was under way at that moment: never by one begun later.
RevivedByStragglersOnly ==
  [][~hook.enabled /\ hook'.enabled =>
       \/ patches' # patches
       \/ \E d \in stragglers : delivery[d].pc = "settling" /\ delivery'[d].pc # "settling"
    ]_webhookVars

\* "The first such answer switches the webhook off" (delivery.ts:519): it stays off
\* until the administrator switches it on.  It does not: the answer to a delivery
\* that failed otherwise computes enabled from the count.
GoneStaysOff == condemned => ~hook.enabled

\* Every delivery the queue has begun comes to an end, also at an endpoint that
\* answers 429 for ever.
EveryDeliveryEnds ==
  \A d \in DeliveryJobs : delivery[d].pc \in UnderWay ~> delivery[d].pc = "done"

\* The row at every moment: its shape, and off when the count is at the limit.
WebhookSafe ==
  /\ WebhookTypeOK
  /\ OffAtTheLimit

\* What deliveries do to the row and what becomes of them: switched off for a cause,
\* on again by the administrator or by stragglers only, and every delivery ends.
WebhookBehaves ==
  /\ SwitchedOffForCause
  /\ RevivedByStragglersOnly
  /\ EveryDeliveryEnds
============================================================================
