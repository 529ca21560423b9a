----------------------------- MODULE WatchStats -----------------------------
(***************************************************************************)
(* One profile's watch progress, experience points, achievements and       *)
(* statistics: library/progress.ts (recordProgress, one transaction per    *)
(* tick of the player), library/achievements.ts (grantNew),                *)
(* system/stats-worker.ts (recomputeProfileStats, the stats job),          *)
(* library/routes.ts (/stats, /achievements) and library/founder.ts.       *)
(* Statements run in READ COMMITTED: what a transaction has not committed  *)
(* is not seen by the others.                                              *)
(*                                                                         *)
(* There is one achievement, for the first finished episode.  Every award  *)
(* counts one; all of them are made within the same 24 hours.              *)
(***************************************************************************)
EXTENDS Naturals, FiniteSets

CONSTANTS
  Ticks, Episodes, EpisodeOf,   \* reports of the player, and their episodes
  Readers,                      \* people who look at the profile
  XP_EPISODES_PER_DAY,
  MaxSittings, MaxWatchFaults   \* bounds: sittings per episode, processes that die

ASSUME WatchAssumption ==
  /\ IsFiniteSet(Ticks) /\ IsFiniteSet(Episodes) /\ Episodes # {}
  /\ EpisodeOf \in [Ticks -> Episodes]
  /\ "worker" \notin Readers
  /\ XP_EPISODES_PER_DAY \in Nat /\ MaxSittings \in Nat /\ MaxWatchFaults \in Nat

VARIABLES
  tick,         \* per report: its step and what its transaction has found
  watched,      \* per episode: the sittings in watch_history
  episodeXp,    \* per episode: its rows in xp_events
  granted,      \* profile_achievements
  grantXp,      \* rows of xp_events by grantNew, and by the founder's job
  founderXp,
  job,          \* the stats job of this profile in the queue
  compute,      \* per process: its recomputeProfileStats or grantNew
  stats,        \* the row of profile_stats
  watchFaults

watchVars == <<tick, watched, episodeXp, granted, grantXp, founderXp, job, compute,
               stats, watchFaults>>

Computers == Readers \cup {"worker"}

NoTick == [step |-> "idle", finished |-> FALSE, found |-> 0, again |-> FALSE, pays |-> FALSE]
NoCompute == [step |-> "none", xp |-> 0, episodes |-> 0]

\* A sitting is in its window for six hours; `finished` is of the latest one.
Sittings == [inWindow : Nat, finished : BOOLEAN, ended : Nat, finishes : Nat]

\* The shape of the state; the transactions of one episode hold its lock in turn.
WatchTypeOK ==
  /\ tick \in [Ticks -> [step : {"idle", "locked", "awarded", "committed", "done"},
                         finished : BOOLEAN, found : Nat, again : BOOLEAN, pays : BOOLEAN]]
  /\ watched \in [Episodes -> Sittings]
  /\ episodeXp \in [Episodes -> Nat] /\ granted \in BOOLEAN
  /\ grantXp \in Nat /\ founderXp \in 0 .. 1
  /\ job \in {"none", "queued", "running"}
  /\ compute \in [Computers -> [step : {"none", "reads", "writes", "grants", "inserts", "pays"},
                                xp : Nat, episodes : Nat]]
  /\ job = "running" <=> compute["worker"].step # "none"
  /\ stats \in [row : BOOLEAN, fresh : BOOLEAN, xp : Nat, episodes : Nat]
  /\ watchFaults \in 0 .. MaxWatchFaults
  /\ \A s, t \in Ticks :
       s # t /\ EpisodeOf[s] = EpisodeOf[t] =>
         {tick[s].step, tick[t].step} \cap {"idle", "committed", "done"} # {}

WatchInit ==
  /\ tick = [t \in Ticks |-> NoTick]
  /\ watched = [e \in Episodes |-> [inWindow |-> 0, finished |-> FALSE, ended |-> 0,
                                    finishes |-> 0]]
  /\ episodeXp = [e \in Episodes |-> 0] /\ granted = FALSE
  /\ grantXp = 0 /\ founderXp = 0
  /\ job = "none" /\ compute = [p \in Computers |-> NoCompute]
  /\ stats = [row |-> FALSE, fresh |-> FALSE, xp |-> 0, episodes |-> 0]
  /\ watchFaults = 0

-----------------------------------------------------------------------------
InTransaction(t) == tick[t].step \in {"locked", "awarded"}

\* The advisory lock of the episode, and after it the row of watch_progress.
Locked(e) == \E t \in Ticks : EpisodeOf[t] = e /\ InTransaction(t)

\* completed && was_finished === false
NewlyFinished(t) == tick[t].finished /\ ~tick[t].again

\* The transaction begins: the lock, the progress, the sitting it continues or opens.
Reports(t) ==
  LET e == EpisodeOf[t] IN
  /\ tick[t].step = "idle" /\ ~Locked(e)
  /\ \E finished \in BOOLEAN :
       tick' = [tick EXCEPT ![t] =
         [step |-> "locked", finished |-> finished, found |-> watched[e].inWindow,
          again |-> watched[e].inWindow > 0 /\ watched[e].finished, pays |-> FALSE]]
  /\ UNCHANGED <<watched, episodeXp, granted, grantXp, founderXp, job, compute, stats,
                 watchFaults>>

EpisodePoints == Cardinality(UNION {{<<e, i>> : i \in 1 .. episodeXp[e]} : e \in Episodes})

\* The awards committed so far are counted.
UnderTheCap == EpisodePoints < XP_EPISODES_PER_DAY

\* The award, for a sitting that was not finished before.
Awards(t) ==
  /\ tick[t].step = "locked"
  /\ tick' = [tick EXCEPT ![t].step = "awarded", ![t].pays = NewlyFinished(t) /\ UnderTheCap]
  /\ UNCHANGED <<watched, episodeXp, granted, grantXp, founderXp, job, compute, stats,
                 watchFaults>>

\* COMMIT: what the transaction wrote is seen.
Commits(t) ==
  LET e == EpisodeOf[t]
      opens == tick[t].found = 0
  IN /\ tick[t].step = "awarded"
     /\ watched' = [watched EXCEPT ![e].inWindow = IF opens THEN @ + 1 ELSE @,
                                   ![e].finished = tick[t].finished \/ (~opens /\ @),
                                   ![e].finishes = IF NewlyFinished(t) THEN @ + 1 ELSE @]
     /\ episodeXp' = [episodeXp EXCEPT ![e] = IF tick[t].pays THEN @ + 1 ELSE @]
     /\ tick' = [tick EXCEPT ![t].step = IF NewlyFinished(t) THEN "committed" ELSE "done"]
     /\ UNCHANGED <<granted, grantXp, founderXp, job, compute, stats, watchFaults>>

\* enqueue('stats', ... dedupe): dropped while a job of the profile waits or runs.
AsksForStats(t) ==
  /\ tick[t].step = "committed"
  /\ tick' = [tick EXCEPT ![t].step = "done"]
  /\ job' = IF job = "none" THEN "queued" ELSE job
  /\ UNCHANGED <<watched, episodeXp, granted, grantXp, founderXp, compute, stats, watchFaults>>

\* The process dies or the database does: the transaction is rolled back, or the
\* job is not asked for.
TickDies(t) ==
  /\ InTransaction(t) \/ tick[t].step = "committed"
  /\ watchFaults < MaxWatchFaults /\ watchFaults' = watchFaults + 1
  /\ tick' = [tick EXCEPT ![t].step = "done"]
  /\ UNCHANGED <<watched, episodeXp, granted, grantXp, founderXp, job, compute, stats>>

\* Six hours after a sitting began.
WindowEnds(e) ==
  /\ watched[e].inWindow > 0 /\ watched[e].ended + 1 < MaxSittings /\ ~Locked(e)
  /\ watched' = [watched EXCEPT ![e].inWindow = 0, ![e].finished = FALSE, ![e].ended = @ + 1]
  /\ UNCHANGED <<tick, episodeXp, granted, grantXp, founderXp, job, compute, stats,
                 watchFaults>>

-----------------------------------------------------------------------------
TotalXp == EpisodePoints + grantXp + founderXp
WatchedEpisodes == Cardinality({e \in Episodes : watched[e].finishes > 0})

Step(p, step) == compute' = [compute EXCEPT ![p].step = step]
Does(p, step) == compute[p].step = step

\* The stats job is claimed.
JobStarts ==
  /\ job = "queued" /\ job' = "running" /\ Step("worker", "reads")
  /\ UNCHANGED <<tick, watched, episodeXp, granted, grantXp, founderXp, stats, watchFaults>>

\* Mutant of StatsStale: a row there is will do.
StaleIfMissing == ~stats.row

\* GET /stats recomputes a row older than two minutes.
StatsStale == ~stats.row \/ ~stats.fresh

AsksStats(r) ==
  /\ Does(r, "none") /\ StatsStale /\ Step(r, "reads")
  /\ UNCHANGED <<tick, watched, episodeXp, granted, grantXp, founderXp, job, stats,
                 watchFaults>>

\* What grantNew measures, and does not find granted (neither is ever taken back).
Due == ~granted /\ \E e \in Episodes : watched[e].finishes > 0

\* GET /achievements grants what is due.
AsksAchievements(r) ==
  /\ Does(r, "none") /\ Due /\ Step(r, "inserts")
  /\ UNCHANGED <<tick, watched, episodeXp, granted, grantXp, founderXp, job, stats,
                 watchFaults>>

\* recomputeProfileStats: the statement reads the ledgers ...
ReadsLedgers(p) ==
  /\ Does(p, "reads")
  /\ compute' = [compute EXCEPT ![p] = [step |-> "writes", xp |-> TotalXp,
                                        episodes |-> WatchedEpisodes]]
  /\ UNCHANGED <<tick, watched, episodeXp, granted, grantXp, founderXp, job, stats,
                 watchFaults>>

\* ... and replaces the row, after whoever held it.
WritesStats(p) ==
  /\ Does(p, "writes")
  /\ stats' = [row |-> TRUE, fresh |-> TRUE, xp |-> compute[p].xp,
               episodes |-> compute[p].episodes]
  /\ compute' = [compute EXCEPT ![p] = [NoCompute EXCEPT !.step = "grants"]]
  /\ UNCHANGED <<tick, watched, episodeXp, granted, grantXp, founderXp, job, watchFaults>>

Ends(p) ==
  /\ Step(p, "none")
  /\ job' = IF p = "worker" THEN "none" ELSE job

Measures(p) ==
  /\ Does(p, "grants")
  /\ IF Due THEN Step(p, "inserts") /\ UNCHANGED job ELSE Ends(p)
  /\ UNCHANGED <<tick, watched, episodeXp, granted, grantXp, founderXp, stats, watchFaults>>

\* ON CONFLICT DO NOTHING RETURNING: only who inserted it pays for it.
InsertsGrant(p) ==
  /\ Does(p, "inserts")
  /\ granted' = TRUE
  /\ IF granted THEN Ends(p) ELSE Step(p, "pays") /\ UNCHANGED job
  /\ UNCHANGED <<tick, watched, episodeXp, grantXp, founderXp, stats, watchFaults>>

Pays(p) ==
  /\ Does(p, "pays") /\ grantXp' = grantXp + 1 /\ Ends(p)
  /\ UNCHANGED <<tick, watched, episodeXp, granted, founderXp, stats, watchFaults>>

\* A process dies in the middle; the job is taken up again.
ComputeDies(p) ==
  /\ ~Does(p, "none") /\ watchFaults < MaxWatchFaults /\ watchFaults' = watchFaults + 1
  /\ compute' = [compute EXCEPT ![p] = NoCompute]
  /\ job' = IF p = "worker" THEN "queued" ELSE job
  /\ UNCHANGED <<tick, watched, episodeXp, granted, grantXp, founderXp, stats>>

\* Two minutes.
StatsAge ==
  /\ stats.fresh /\ stats' = [stats EXCEPT !.fresh = FALSE]
  /\ UNCHANGED <<tick, watched, episodeXp, granted, grantXp, founderXp, job, compute,
                 watchFaults>>

\* The founder's job, its last transaction: every achievement, the points that carry
\* its own reason, and the statistics counted from the progress it has filled in.
Founds ==
  /\ founderXp = 0 /\ founderXp' = 1 /\ granted' = TRUE
  /\ stats' = [row |-> TRUE, fresh |-> TRUE, xp |-> TotalXp + 1,
               episodes |-> Cardinality(Episodes)]
  /\ UNCHANGED <<tick, watched, episodeXp, grantXp, job, compute, watchFaults>>

-----------------------------------------------------------------------------
TickSteps(t) == Awards(t) \/ Commits(t) \/ AsksForStats(t)
ComputeSteps(p) == ReadsLedgers(p) \/ WritesStats(p) \/ Measures(p) \/ InsertsGrant(p) \/ Pays(p)

WatchNext ==
  \/ \E t \in Ticks : Reports(t) \/ TickSteps(t) \/ TickDies(t)
  \/ \E e \in Episodes : WindowEnds(e)
  \/ \E p \in Computers : ComputeSteps(p) \/ ComputeDies(p)
  \/ \E r \in Readers : AsksStats(r) \/ AsksAchievements(r)
  \/ JobStarts \/ StatsAge \/ Founds

WatchSpec == WatchInit /\ [][WatchNext]_watchVars

-----------------------------------------------------------------------------
\* One sitting is one row: two reports of one episode never open two, and the points
\* of a sitting are paid once, however often it is reported finished.
OneSittingOnePayment ==
  \A e \in Episodes : /\ watched[e].inWindow <= 1
                      /\ episodeXp[e] <= watched[e].ended + watched[e].inWindow

\* The ceiling of a day is overrun by no more than the reports of other episodes that
\* were under way together: each counts the awards that are committed.
CeilingHolds ==
  EpisodePoints < XP_EPISODES_PER_DAY + Cardinality(Episodes)

\* The achievement is paid once, whoever grants it (the worker and two people looking
\* at the profile), and not left unpaid unless a process died in between.  (The
\* founder's job does not see that grantNew has paid, and pays it again.)
PaidOnce ==
  /\ grantXp <= 1
  /\ granted /\ founderXp = 0 /\ watchFaults = 0 =>
       grantXp = 1 \/ \E p \in Computers : Does(p, "pays")

\* While somebody goes on looking at the profile its numbers are the true ones in the
\* end, although the job asked for after a report is dropped while an earlier one is
\* running, a recomputation can write what it read before, and the founder's job
\* writes others.
NumbersCatchUp == <>[](stats.row => stats.xp = TotalXp /\ stats.episodes = WatchedEpisodes)

\* Watch progress, its points and its numbers: one sitting is paid once and the
\* achievement once, the ceiling of a day holds, and the numbers become the true ones.
WatchBehaves ==
  /\ []WatchTypeOK
  /\ []OneSittingOnePayment
  /\ []CeilingHolds
  /\ []PaidOnce
  /\ NumbersCatchUp
=============================================================================
