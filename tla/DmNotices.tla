----------------------------- MODULE DmNotices -----------------------------
(* A new episode of the user's library, told in a direct message, if the user
   switched that on (src/apps/api/src/modules/discord/dm-notify.ts).

   A round selects and claims in one statement, then delivers one message after the
   other and counts the failures in a row; the counter and the switch are columns of
   discord_links, which the settings page writes too. *)
EXTENDS Naturals, FiniteSets

CONSTANTS Users, DmRounds,
          Parts,              \* episodes 1, 2, ... in the order they come out
          MAX_HIBA, DM_BATCH  \* KOTEG

\* Bounds of the model, not of the code.
CONSTANTS MaxFlips,           \* times the users touch the switch
          MaxDmCrashes        \* rounds that break off

Due == Users \X Parts

ASSUME DmAssumption ==
  /\ Parts \subseteq Nat \ {0} /\ IsFiniteSet(Users) /\ IsFiniteSet(Parts)
  /\ MAX_HIBA \in Nat \ {0} /\ DM_BATCH \in Nat \ {0}
  /\ MaxFlips \in Nat /\ MaxDmCrashes \in Nat

VARIABLES out,        \* episodes that came out
          switch,     \* dm_new_episodes
          failures,   \* dm_failures
          since,      \* episodes that were out at dm_enabled_at
          deliveries, \* discord_dm_deliveries
          dms,        \* messages that arrived
          dmRound,    \* what each round has claimed, and the outcome in its hand
          wish,       \* history: what the user last asked for
          misses,     \* history: failures in a row since the user, or a success
          flips, dmCrashes

dmVars == <<out, switch, failures, since, deliveries, dms, dmRound, wish, misses,
            flips, dmCrashes>>

\* got: "none", or whether sendDirectMessage said so.
Asleep == [todo |-> {}, now |-> {}, got |-> "none"]

DmInit ==
  /\ out = {} /\ switch = [u \in Users |-> FALSE] /\ failures = [u \in Users |-> 0]
  /\ since = [u \in Users |-> {}] /\ deliveries = {}
  /\ dms = [d \in Due |-> 0] /\ dmRound = [n \in DmRounds |-> Asleep]
  /\ wish = [u \in Users |-> FALSE] /\ misses = [u \in Users |-> 0]
  /\ flips = 0 /\ dmCrashes = 0

----------------------------------------------------------------------------
ComesOut(e) ==
  /\ e \notin out /\ \A f \in Parts : f < e => f \in out
  /\ out' = out \cup {e}
  /\ UNCHANGED <<switch, failures, since, deliveries, dms, dmRound, wish, misses, flips, dmCrashes>>

\* setDm.
SetDm(u, on) ==
  /\ flips < MaxFlips /\ flips' = flips + 1
  /\ switch' = [switch EXCEPT ![u] = on] /\ wish' = [wish EXCEPT ![u] = on]
  /\ since' = IF on THEN [since EXCEPT ![u] = out] ELSE since
  /\ failures' = [failures EXCEPT ![u] = 0] /\ misses' = [misses EXCEPT ![u] = 0]
  /\ UNCHANGED <<out, deliveries, dms, dmRound, dmCrashes>>

----------------------------------------------------------------------------
\* jelolt: ORDER BY created_at LIMIT; which of two users goes first is not said.
Candidates ==
  LET due == {d \in Due \ deliveries : switch[d[1]] /\ d[2] \in out \ since[d[1]]}
  IN {c \in SUBSET due : /\ Cardinality(c) <= DM_BATCH
                         /\ c # due => Cardinality(c) = DM_BATCH
                         /\ \A d \in c, e \in due \ c : d[2] <= e[2]}

\* Selection and claim are one statement.
NotifyNew(n) ==
  /\ dmRound[n] = Asleep
  /\ \E c \in Candidates \ {{}} :
       /\ deliveries' = deliveries \cup c
       /\ dmRound' = [dmRound EXCEPT ![n].todo = c \ deliveries]
  /\ UNCHANGED <<out, switch, failures, since, dms, wish, misses, flips, dmCrashes>>

\* sendDirectMessage: two calls; "no" may also be an answer that was lost.
Sends(n) ==
  /\ dmRound[n].got = "none"
  /\ \E d \in dmRound[n].todo, got \in {"yes", "no"} :
       /\ dmRound' = [dmRound EXCEPT ![n] = [todo |-> @.todo \ {d}, now |-> {d}, got |-> got]]
       /\ \/ dms' = [dms EXCEPT ![d] = @ + 1]
          \/ got = "no" /\ UNCHANGED dms
  /\ UNCHANGED <<out, switch, failures, since, deliveries, wish, misses, flips, dmCrashes>>

\* episodeDetails found nothing: nobody is told, nothing is counted.
Vanished(n) ==
  /\ dmRound[n].got = "none"
  /\ \E d \in dmRound[n].todo : dmRound' = [dmRound EXCEPT ![n].todo = @ \ {d}]
  /\ UNCHANGED <<out, switch, failures, since, deliveries, dms, wish, misses, flips, dmCrashes>>

Outcome(n, got) ==
  /\ dmRound[n].got = got
  /\ dmRound' = [dmRound EXCEPT ![n] = [Asleep EXCEPT !.todo = dmRound[n].todo]]

\* Mutant of Succeeds: the counter is left alone.
SucceedsUncounted(n) ==
  /\ Outcome(n, "yes")
  /\ \E d \in dmRound[n].now : misses' = [misses EXCEPT ![d[1]] = 0]
  /\ UNCHANGED <<out, switch, failures, since, deliveries, dms, wish, flips, dmCrashes>>

Succeeds(n) ==
  /\ Outcome(n, "yes")
  /\ \E d \in dmRound[n].now : /\ failures' = [failures EXCEPT ![d[1]] = 0]
                               /\ misses' = [misses EXCEPT ![d[1]] = 0]
  /\ UNCHANGED <<out, switch, since, deliveries, dms, wish, flips, dmCrashes>>

\* One UPDATE: the new counter, and the switch from the new counter alone.
Fails(n) ==
  /\ Outcome(n, "no")
  /\ \E d \in dmRound[n].now :
       /\ failures' = [failures EXCEPT ![d[1]] = @ + 1]
       /\ misses' = [misses EXCEPT ![d[1]] = @ + 1]
       /\ switch' = [switch EXCEPT ![d[1]] = failures[d[1]] + 1 < MAX_HIBA]
  /\ UNCHANGED <<out, since, deliveries, dms, wish, flips, dmCrashes>>

\* The process dies, or a statement fails: kulon gives up the round.
DmRoundBreaks(n) ==
  /\ dmRound[n] # Asleep /\ dmCrashes < MaxDmCrashes /\ dmCrashes' = dmCrashes + 1
  /\ dmRound' = [dmRound EXCEPT ![n] = Asleep]
  /\ UNCHANGED <<out, switch, failures, since, deliveries, dms, wish, misses, flips>>

DmSteps(n) == NotifyNew(n) \/ Vanished(n) \/ Sends(n) \/ Succeeds(n) \/ Fails(n)

DmNext == \/ \E e \in Parts : ComesOut(e)
          \/ \E u \in Users, on \in BOOLEAN : SetDm(u, on)
          \/ \E n \in DmRounds : DmSteps(n) \/ DmRoundBreaks(n)

DmSpec == DmInit /\ [][DmNext]_dmVars

----------------------------------------------------------------------------
\* The shape of the state.  What is left of a batch may still fail after the switch
\* went off, so the counter may pass MAX_HIBA.
DmTypeOK ==
  /\ out \subseteq Parts /\ switch \in [Users -> BOOLEAN] /\ wish \in [Users -> BOOLEAN]
  /\ failures \in [Users -> 0 .. Cardinality(Parts)]
  /\ misses \in [Users -> 0 .. Cardinality(Parts)]
  /\ since \in [Users -> SUBSET Parts] /\ deliveries \subseteq Due
  /\ dms \in [Due -> 0 .. 1]
  /\ dmRound \in [DmRounds -> [todo : SUBSET Due, now : SUBSET Due,
                               got : {"none", "yes", "no"}]]
  /\ flips \in 0 .. MaxFlips /\ dmCrashes \in 0 .. MaxDmCrashes

\* What became of a message, in the terms of AtMostOnce.
DmCarried(d) == \E n \in DmRounds : d \in dmRound[n].todo
DmFate == [d \in Due |-> IF dms[d] = 1 THEN "told" ELSE IF dms[d] > 1 THEN "twice"
                         ELSE IF d \notin deliveries THEN "waiting"
                         ELSE IF DmCarried(d) THEN "taken" ELSE "lost"]
Telling == INSTANCE AtMostOnce WITH Notices <- Due, fate <- DmFate

\* A user is told of an episode once or not at all, whatever rounds overlap, break off
\* or lose Discord's answer (dm-notify.ts:11-14).
ToldAtMostOnce == Telling!Spec

\* The switch turns itself off only after MAX_HIBA failures in a row
\* (dm-notify.ts:16-18).
OffForCause ==
  [][\A u \in Users : switch[u] /\ ~switch'[u] /\ flips' = flips => misses'[u] >= MAX_HIBA]_dmVars

\* The switch is never on with the failures used up: a user who switches it back on
\* has all attempts again.
OnWithAttemptsLeft == \A u \in Users : switch[u] => failures[u] < MAX_HIBA

\* While the switch stays on, every episode that comes out is claimed.
EveryPartIsClaimed ==
  \A d \in Due : switch[d[1]] /\ d[2] \in out \ since[d[1]]
                   ~> d \in deliveries \/ ~switch[d[1]] \/ d[2] \in since[d[1]]

\* "BEKAPCSOLHATÓ, ALAPBÓL KI: a felhasználó ... kapcsolja be" (dm-notify.ts:4): who
\* asked for no messages is not switched on.
OffMeansOff == \A u \in Users : switch[u] => wish[u]

\* Notices to members: switched on means attempts left, told once, switched off for a
\* cause, and no part of the queue starved.
DmBehaves ==
  /\ []DmTypeOK
  /\ []OnWithAttemptsLeft
  /\ ToldAtMostOnce
  /\ OffForCause
  /\ EveryPartIsClaimed
=============================================================================
