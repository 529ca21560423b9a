-------------------------- MODULE ProviderBreaker --------------------------
(* The circuit breakers of the streaming providers and the requests that walk
   down the chain of providers
   (src/apps/api/src/modules/providers/health.ts, resolve.ts).

   A request looks at a breaker before it asks and reports to it when it has an
   answer; requests overlap, so a report may find the breaker in a state that the
   request never saw.  The clock is the action CooldownEnds. *)
EXTENDS Naturals, Sequences, FiniteSets

CONSTANTS Chain,        \* the providers in the order they are asked
          Resolves,     \* requests that may run at the same time
          TRIP_AFTER    \* failures in a row that open a breaker

\* Bounds of the model, not of the code.
CONSTANTS OpensCap,     \* opens is counted up to here; the cooldown stops growing at 6
          MaxOutages    \* times a provider breaks or recovers

ASSUME BreakerAssumption ==
  /\ Len(Chain) \in Nat \ {0} /\ DOMAIN Chain = 1 .. Len(Chain)
  /\ TRIP_AFTER \in Nat \ {0} /\ OpensCap \in Nat \ {0} /\ MaxOutages \in Nat

Providers == {Chain[i] : i \in DOMAIN Chain}

VARIABLES breaker,    \* entries: openedAt (with the cooldown on it), streak, opens
          alive,      \* whether a provider answers at present
          resolve,    \* each request: whom it asks, and what the breaker said then
          bad,        \* history: timeouts and exceptions since the last answer
          cooldowns,  \* history: cooldowns that ran out since the breaker opened
          outages

breakerVars == <<breaker, alive, resolve, bad, cooldowns, outages>>

\* opened: "no", "cooling" while state() says down, "over" when it says half-open.
Closed == [opened |-> "no", streak |-> 0, opens |-> 0]
NoResolve == [pc |-> "idle", at |-> 1, probe |-> FALSE, doomed |-> FALSE]

BreakerInit ==
  /\ breaker = [p \in Providers |-> Closed]
  /\ alive = [p \in Providers |-> TRUE]
  /\ resolve = [r \in Resolves |-> NoResolve]
  /\ bad = [p \in Providers |-> 0] /\ cooldowns = [p \in Providers |-> 0]
  /\ outages = 0

\* Counting that stops where nothing depends on it any more.
UpTo(cap, n) == IF n < cap THEN n + 1 ELSE cap

Asked(r) == Chain[resolve[r].at]

Usable(p) == breaker[p].opened # "cooling"

\* succeeded: closes the breaker, whoever reports it.
Succeeded(p) ==
  /\ breaker' = [breaker EXCEPT ![p] = Closed]
  /\ bad' = [bad EXCEPT ![p] = 0]
  /\ cooldowns' = [cooldowns EXCEPT ![p] = 0]

\* The breaker after a failure, by the state it is found in.
Trips(b) == b.opened = "over" \/ (b.opened = "no" /\ b.streak + 1 >= TRIP_AFTER)

AfterFailure(b) ==
  LET counted == [b EXCEPT !.streak = UpTo(TRIP_AFTER, b.streak)] IN
  IF Trips(b)
  THEN [counted EXCEPT !.opened = "cooling", !.opens = UpTo(OpensCap, b.opens)]
  ELSE counted

Failed(p) ==
  /\ breaker' = [breaker EXCEPT ![p] = AfterFailure(breaker[p])]
  /\ UNCHANGED cooldowns

\* Date.now() - openedAt reaches the cooldown.
CooldownEnds(p) ==
  /\ breaker[p].opened = "cooling"
  /\ breaker' = [breaker EXCEPT ![p].opened = "over"]
  /\ cooldowns' = [cooldowns EXCEPT ![p] = UpTo(OpensCap, @)]
  /\ UNCHANGED <<alive, resolve, bad, outages>>

----------------------------------------------------------------------------
\* A viewer's request that the cache does not answer: the loop of resolveEpisode.
BeginResolve(r) ==
  /\ resolve[r].pc = "idle"
  /\ resolve' = [resolve EXCEPT ![r] = [NoResolve EXCEPT !.pc = "walking"]]
  /\ UNCHANGED <<breaker, alive, bad, cooldowns, outages>>

\* On to the next provider, or out of the loop with no result.
Onward(r) == IF resolve[r].at < Len(Chain)
            THEN [NoResolve EXCEPT !.pc = "walking", !.at = resolve[r].at + 1]
            ELSE NoResolve

SkipProvider(r) ==
  /\ resolve[r].pc = "walking" /\ ~Usable(Asked(r))
  /\ resolve' = [resolve EXCEPT ![r] = Onward(r)]
  /\ UNCHANGED <<breaker, alive, bad, cooldowns, outages>>

AskProvider(r) ==
  /\ resolve[r].pc = "walking" /\ Usable(Asked(r))
  /\ resolve' = [resolve EXCEPT ![r] = [@ EXCEPT !.pc = "asking",
                   !.probe = breaker[Asked(r)].opened = "over",
                   !.doomed = ~alive[Asked(r)]]]
  /\ UNCHANGED <<breaker, alive, bad, cooldowns, outages>>

\* Sources came back: the request ends.
ProviderHasIt(r) ==
  /\ resolve[r].pc = "asking" /\ ~resolve[r].doomed
  /\ Succeeded(Asked(r))
  /\ resolve' = [resolve EXCEPT ![r] = NoResolve]
  /\ UNCHANGED <<alive, outages>>

\* Mutant of ProviderHasNone: an empty answer is a failure.
ProviderHasNoneFails(r) ==
  /\ resolve[r].pc = "asking" /\ ~resolve[r].doomed
  /\ Failed(Asked(r))
  /\ bad' = [bad EXCEPT ![Asked(r)] = 0]
  /\ resolve' = [resolve EXCEPT ![r] = Onward(r)]
  /\ UNCHANGED <<alive, outages>>

\* An empty answer is an answer; the next provider is asked.
ProviderHasNone(r) ==
  /\ resolve[r].pc = "asking" /\ ~resolve[r].doomed
  /\ Succeeded(Asked(r))
  /\ resolve' = [resolve EXCEPT ![r] = Onward(r)]
  /\ UNCHANGED <<alive, outages>>

\* An exception, or TIMEOUT_MS without an answer.
ProviderFails(r) ==
  /\ resolve[r].pc = "asking" /\ (resolve[r].doomed \/ ~alive[Asked(r)])
  /\ Failed(Asked(r))
  /\ bad' = [bad EXCEPT ![Asked(r)] = UpTo(TRIP_AFTER, @)]
  /\ resolve' = [resolve EXCEPT ![r] = Onward(r)]
  /\ UNCHANGED <<alive, outages>>

\* The provider breaks, or recovers.
Outage(p) ==
  /\ outages < MaxOutages /\ outages' = outages + 1
  /\ alive' = [alive EXCEPT ![p] = ~@]
  /\ UNCHANGED <<breaker, resolve, bad, cooldowns>>

----------------------------------------------------------------------------
Resolve(r) ==
  \/ BeginResolve(r) \/ SkipProvider(r) \/ AskProvider(r)
  \/ ProviderHasIt(r) \/ ProviderHasNone(r) \/ ProviderFails(r)

BreakerNext ==
  \/ \E r \in Resolves : Resolve(r)
  \/ \E p \in Providers : CooldownEnds(p) \/ Outage(p)

BreakerSpec == BreakerInit /\ [][BreakerNext]_breakerVars

----------------------------------------------------------------------------
\* The shape of the state: among others, nobody walks past the end of the chain.
BreakerTypeOK ==
  /\ breaker \in [Providers -> [opened : {"no", "cooling", "over"},
                                streak : 0 .. TRIP_AFTER, opens : 0 .. OpensCap]]
  /\ alive \in [Providers -> BOOLEAN]
  /\ resolve \in [Resolves -> [pc : {"idle", "walking", "asking"}, at : DOMAIN Chain,
                               probe : BOOLEAN, doomed : BOOLEAN]]
  /\ bad \in [Providers -> 0 .. TRIP_AFTER]
  /\ cooldowns \in [Providers -> 0 .. OpensCap]
  /\ outages \in 0 .. MaxOutages

\* However many requests fail together, the wait is lengthened once per cooldown
\* that ran out: a burst of failures that were all asked before the breaker opened
\* does not shut the provider out for longer than one would.
OneStepPerCooldown == \A p \in Providers : breaker[p].opens <= cooldowns[p] + 1

\* A breaker opens because of failures only: TRIP_AFTER of them with no answer in
\* between, when it was closed.  Empty answers never shut a provider out.
ShutOutForFailures ==
  [][\A p \in Providers :
       breaker[p].opened = "no" /\ breaker'[p].opened # "no" => bad'[p] >= TRIP_AFTER
    ]_breakerVars

\* "Half-open: we let ONE request through" (health.ts:14).  It lets every request
\* through that looks while the cooldown is over.
OneProbe == \A p \in Providers :
  Cardinality({r \in Resolves : resolve[r].probe /\ Asked(r) = p}) <= 1

\* A provider that stays alive is asked again: after the last failure of requests
\* that met it broken its breaker lets requests through for good.
RecoveredIsUsed == \A p \in Providers : <>[]alive[p] => <>[]Usable(p)

\* The breaker of a provider: opened by failures alone, lengthened once per cooldown,
\* however many requests fail together, and through again when the provider is back.
BreakerBehaves ==
  /\ []BreakerTypeOK
  /\ []OneStepPerCooldown
  /\ ShutOutForFailures
  /\ RecoveredIsUsed
============================================================================
