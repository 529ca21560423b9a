------------------------------ MODULE JobQueue ------------------------------
(* The durable job queue of the API (src/apps/api/src/infrastructure/queue):
   the jobs table, the lanes of the worker processes, and the administrator's
   retry and the pruning that act on the same table.

   Every statement against PostgreSQL is one action, because it is one
   transaction; whatever happens between two statements of the same caller
   (a heartbeat still on its way, a process that dies, a reply that is lost)
   is an action of its own.  Time is abstract: a lock is fresh or stale, and
   a job is due or not. *)
EXTENDS Naturals, FiniteSets

CONSTANTS Jobs,             \* ids the identity column can hand out
          Queues,           \* queue names
          Webhook,          \* the queue whose dead jobs are never announced
          Keys, NoKey,      \* values of payload.dedupe, and its absence
          Procs,            \* worker processes
          JOB_CONCURRENCY,  \* lanes of each process
          MaxAttempts,      \* jobs.max_attempts
          NoJob             \* a lane that holds no job

\* Bounds of the model, not of the code.
CONSTANTS MaxFaults,          \* process deaths and lost replies, together
          MaxStops,           \* graceful stops (deployments)
          MaxRevivals,        \* dead jobs given one more life
          MaxBeats,           \* heartbeats on their way at a time
          MaxRetriesInFlight  \* administrators inside retryJob at a time

ASSUME JobQueueAssumption ==
  /\ Queues # {}
  /\ NoJob \notin Jobs
  /\ NoKey \notin Keys
  /\ MaxAttempts \in Nat \ {0}
  /\ JOB_CONCURRENCY \in Nat \ {0}
  /\ {MaxFaults, MaxStops, MaxRevivals, MaxBeats, MaxRetriesInFlight} \subseteq Nat

VARIABLES rows,         \* the jobs table; a row means something once issued
          issued,       \* ids handed out so far: an id is never used again
          table,        \* ids present in the table
          minted,       \* lease ids made for each job: gen_random_uuid()
          run,          \* what each lane is doing
          up,           \* each worker process: "up", "stopping", "down"
          beats,        \* heartbeats sent and not yet applied
          superseding,  \* retryJob calls between their two statements
          announced,    \* deaths told to the listeners, by lease
          faults, stops, revivals

vars == <<rows, issued, table, minted, run, up, beats, superseding,
          announced, faults, stops, revivals>>

Lanes == Procs \X (1 .. JOB_CONCURRENCY)

Leases == Nat \ {0}
NoLease == 0               \* lease_id IS NULL

Row == [queue : Queues, key : Keys \cup {NoKey}, attempts : 0 .. MaxAttempts,
        locked : {"no", "fresh", "stale"}, lease : Nat, due : BOOLEAN,
        done : BOOLEAN, dead : BOOLEAN]

Idle == [phase |-> "idle", job |-> NoJob, lease |-> NoLease]
Claiming == [phase |-> "claiming", job |-> NoJob, lease |-> NoLease]
Held == [phase : {"running", "failing", "announcing"}, job : Jobs, lease : Leases]

----------------------------------------------------------------------------

\* The predicate of jobs_dedupe_idx and of jobs_poll_idx.
Open(j) == j \in table /\ ~rows[j].done /\ ~rows[j].dead

\* jobs_dedupe_idx refuses another open job of this queue and key.
KeyTaken(q, k) ==
  k # NoKey /\ \E j \in Jobs : Open(j) /\ rows[j].queue = q /\ rows[j].key = k

\* Mutant of Claimable: attempts are not compared with max_attempts.
ClaimableForever(j) == Open(j) /\ rows[j].due /\ rows[j].locked # "fresh"

\* The WHERE of claim.
Claimable(j) == /\ Open(j)
                /\ rows[j].due
                /\ rows[j].locked # "fresh"
                /\ rows[j].attempts < MaxAttempts

\* Mutant of Carries: the row is addressed by its id alone.
CarriesAnyLease(j, lease) == j \in table

\* The WHERE of beat, complete and failJob: the row still carries the lease.
Carries(j, lease) == j \in table /\ rows[j].lease = lease

\* A lane whose run may still write about job j.
HoldsLease(l, j) == /\ run[l].phase \in {"running", "failing"}
                    /\ run[l].job = j
                    /\ run[l].lease = rows[j].lease

LanesOf(p) == {l \in Lanes : l[1] = p}

----------------------------------------------------------------------------

Init == /\ rows = [j \in Jobs |-> [queue |-> CHOOSE q \in Queues : TRUE,
                                   key |-> NoKey, attempts |-> 0,
                                   locked |-> "no", lease |-> NoLease,
                                   due |-> FALSE, done |-> FALSE, dead |-> FALSE]]
        /\ issued = {}
        /\ table = {}
        /\ minted = [j \in Jobs |-> 0]
        /\ run = [l \in Lanes |-> Idle]
        /\ up = [p \in Procs |-> "up"]
        /\ beats = {}
        /\ superseding = {}
        /\ announced = {}
        /\ faults = 0 /\ stops = 0 /\ revivals = 0

----------------------------------------------------------------------------
\* enqueue: ON CONFLICT DO NOTHING, so a taken key changes nothing at all.
Enqueue(j, q, k, due) ==
  /\ j \notin issued
  /\ ~KeyTaken(q, k)
  /\ rows' = [rows EXCEPT ![j] = [queue |-> q, key |-> k, attempts |-> 0,
                                  locked |-> "no", lease |-> NoLease,
                                  due |-> due, done |-> FALSE, dead |-> FALSE]]
  /\ issued' = issued \cup {j}
  /\ table' = table \cup {j}
  /\ UNCHANGED <<minted, run, up, beats, superseding, announced, faults, stops, revivals>>

\* run_at arrives.
BecomesDue(j) ==
  /\ j \in table /\ ~rows[j].due
  /\ rows' = [rows EXCEPT ![j].due = TRUE]
  /\ UNCHANGED <<issued, table, minted, run, up, beats, superseding, announced,
                 faults, stops, revivals>>

\* LEASE_TIMEOUT_MS passes without a heartbeat being applied.
LeaseGoesStale(j) ==
  /\ j \in table /\ rows[j].locked = "fresh"
  /\ rows' = [rows EXCEPT ![j].locked = "stale"]
  /\ UNCHANGED <<issued, table, minted, run, up, beats, superseding, announced,
                 faults, stops, revivals>>

----------------------------------------------------------------------------
\* The head of a lane's loop: it tests the abort signal and calls claim.
Poll(l) ==
  /\ run[l] = Idle
  /\ up[l[1]] = "up"
  /\ run' = [run EXCEPT ![l] = Claiming]
  /\ UNCHANGED <<rows, issued, table, minted, up, beats, superseding, announced,
                 faults, stops, revivals>>

\* The row a claim leaves behind.
Leased(j) == [rows[j] EXCEPT !.locked = "fresh", !.attempts = @ + 1,
                             !.lease = minted[j] + 1]

\* Mutant of Claim: the lease belongs to the job instead of the claim.
ClaimSameLease(l, j) ==
  /\ run[l] = Claiming
  /\ Claimable(j)
  /\ rows' = [rows EXCEPT ![j] = Leased(j)]
  /\ run' = [run EXCEPT ![l] = [phase |-> "running", job |-> j,
                                lease |-> minted[j] + 1]]
  /\ UNCHANGED <<minted, issued, table, up, beats, superseding, announced,
                 faults, stops, revivals>>

\* claim found a row: a new lease, and the attempt is counted.
Claim(l, j) ==
  /\ run[l] = Claiming
  /\ Claimable(j)
  /\ rows' = [rows EXCEPT ![j] = Leased(j)]
  /\ minted' = [minted EXCEPT ![j] = @ + 1]
  /\ run' = [run EXCEPT ![l] = [phase |-> "running", job |-> j,
                                lease |-> minted[j] + 1]]
  /\ UNCHANGED <<issued, table, up, beats, superseding, announced, faults, stops, revivals>>

\* The COMMIT took effect but its reply was lost: claim throws, the lane
\* sleeps and goes on without the job it was given.
ClaimReplyLost(l, j) ==
  /\ run[l] = Claiming
  /\ Claimable(j)
  /\ faults < MaxFaults
  /\ faults' = faults + 1
  /\ rows' = [rows EXCEPT ![j] = Leased(j)]
  /\ minted' = [minted EXCEPT ![j] = @ + 1]
  /\ run' = [run EXCEPT ![l] = Idle]
  /\ UNCHANGED <<issued, table, up, beats, superseding, announced, stops, revivals>>

\* Nothing to do, or (counted as a fault) the database does not answer.
ClaimNothing(l) ==
  /\ run[l] = Claiming
  /\ \/ UNCHANGED faults /\ \A j \in Jobs : ~Claimable(j)
     \/ faults < MaxFaults /\ faults' = faults + 1
  /\ run' = [run EXCEPT ![l] = Idle]
  /\ UNCHANGED <<rows, issued, table, minted, up, beats, superseding, announced,
                 stops, revivals>>

----------------------------------------------------------------------------
\* The heartbeat timer of a run fires and sends its UPDATE.
Beat(l) ==
  /\ run[l].phase = "running"
  /\ Cardinality(beats) < MaxBeats
  /\ beats' = beats \cup {[job |-> run[l].job, lease |-> run[l].lease]}
  /\ UNCHANGED <<rows, issued, table, minted, run, up, superseding, announced,
                 faults, stops, revivals>>

\* Mutant of BeatLands: done_at is not looked at.
BeatLandsAnyway(b) ==
  /\ b \in beats
  /\ beats' = beats \ {b}
  /\ rows' = IF Carries(b.job, b.lease)
               THEN [rows EXCEPT ![b.job].locked = "fresh"]
               ELSE rows
  /\ UNCHANGED <<issued, table, minted, run, up, superseding, announced,
                 faults, stops, revivals>>

\* It is applied, perhaps after the run that sent it has ended.
BeatLands(b) ==
  /\ b \in beats
  /\ beats' = beats \ {b}
  /\ rows' = IF Carries(b.job, b.lease) /\ ~rows[b.job].done
               THEN [rows EXCEPT ![b.job].locked = "fresh"]
               ELSE rows
  /\ UNCHANGED <<issued, table, minted, run, up, superseding, announced,
                 faults, stops, revivals>>

\* It fails, and the error is swallowed.
BeatLost(b) ==
  /\ b \in beats
  /\ beats' = beats \ {b}
  /\ UNCHANGED <<rows, issued, table, minted, run, up, superseding, announced,
                 faults, stops, revivals>>

----------------------------------------------------------------------------
\* What complete writes, if the row still carries the lease.
Completed(l) ==
  LET j == run[l].job
  IN IF Carries(j, run[l].lease)
       THEN [rows EXCEPT ![j] = [@ EXCEPT !.done = TRUE, !.locked = "no"]]
       ELSE rows

\* The handler returned and complete went through.
Complete(l) ==
  /\ run[l].phase = "running"
  /\ rows' = Completed(l)
  /\ run' = [run EXCEPT ![l] = Idle]
  /\ UNCHANGED <<issued, table, minted, up, beats, superseding, announced,
                 faults, stops, revivals>>

\* complete was applied but its reply was lost: runOne takes it for a failure.
CompleteReplyLost(l) ==
  /\ run[l].phase = "running"
  /\ faults < MaxFaults
  /\ faults' = faults + 1
  /\ rows' = Completed(l)
  /\ run' = [run EXCEPT ![l].phase = "failing"]
  /\ UNCHANGED <<issued, table, minted, up, beats, superseding, announced, stops, revivals>>

\* The handler threw or overran JOB_TIMEOUT_MS, or complete was not applied.
HandlerFails(l) ==
  /\ run[l].phase = "running"
  /\ run' = [run EXCEPT ![l].phase = "failing"]
  /\ UNCHANGED <<rows, issued, table, minted, up, beats, superseding, announced,
                 faults, stops, revivals>>

\* Mutant of FailJob: the announcement is of the wrong queue's deaths.
FailJobTellsWebhooks(l) ==
  LET j == run[l].job
      mine == Carries(j, run[l].lease)
      spent == rows[j].attempts >= MaxAttempts
  IN /\ run[l].phase = "failing"
     /\ rows' = IF mine
                  THEN [rows EXCEPT ![j] = [@ EXCEPT !.locked = "no", !.due = FALSE,
                                                      !.dead = spent]]
                  ELSE rows
     /\ run' = [run EXCEPT ![l] = IF mine /\ spent /\ rows[j].queue = Webhook
                                    THEN [@ EXCEPT !.phase = "announcing"]
                                    ELSE Idle]
     /\ UNCHANGED <<issued, table, minted, up, beats, superseding, announced,
                    faults, stops, revivals>>

\* failJob's UPDATE: back off, or declare the job dead.  Whether a death is
\* to be announced is decided by what the UPDATE returned.
FailJob(l) ==
  LET j == run[l].job
      mine == Carries(j, run[l].lease)
      spent == rows[j].attempts >= MaxAttempts
  IN /\ run[l].phase = "failing"
     /\ rows' = IF mine
                  THEN [rows EXCEPT ![j] = [@ EXCEPT !.locked = "no", !.due = FALSE,
                                                      !.dead = spent]]
                  ELSE rows
     /\ run' = [run EXCEPT ![l] = IF mine /\ spent /\ rows[j].queue # Webhook
                                    THEN [@ EXCEPT !.phase = "announcing"]
                                    ELSE Idle]
     /\ UNCHANGED <<issued, table, minted, up, beats, superseding, announced,
                    faults, stops, revivals>>

\* The depth of the dead letters was read; every listener is called.
Announce(l) ==
  /\ run[l].phase = "announcing"
  /\ announced' = announced \cup {[job |-> run[l].job, lease |-> run[l].lease]}
  /\ run' = [run EXCEPT ![l] = Idle]
  /\ UNCHANGED <<rows, issued, table, minted, up, beats, superseding,
                 faults, stops, revivals>>

----------------------------------------------------------------------------
\* SIGTERM: the lanes finish what they hold and take nothing more.
Abort(p) ==
  /\ up[p] = "up"
  /\ stops < MaxStops
  /\ stops' = stops + 1
  /\ up' = [up EXCEPT ![p] = "stopping"]
  /\ UNCHANGED <<rows, issued, table, minted, run, beats, superseding, announced,
                 faults, revivals>>

\* Every lane has returned, so runWorker resolves and the process ends.
Exit(p) ==
  /\ up[p] = "stopping"
  /\ \A l \in LanesOf(p) : run[l] = Idle
  /\ up' = [up EXCEPT ![p] = "down"]
  /\ UNCHANGED <<rows, issued, table, minted, run, beats, superseding, announced,
                 faults, stops, revivals>>

\* The process dies: killed, out of memory, or because failJob itself threw
\* (runOne does not catch that, so runWorker rejects and the process ends).
Crash(p) ==
  /\ up[p] # "down"
  /\ faults < MaxFaults
  /\ faults' = faults + 1
  /\ up' = [up EXCEPT ![p] = "down"]
  /\ run' = [l \in Lanes |-> IF l[1] = p THEN Idle ELSE run[l]]
  /\ UNCHANGED <<rows, issued, table, minted, beats, superseding, announced, stops, revivals>>

\* The container is started again.
Boot(p) ==
  /\ up[p] = "down"
  /\ up' = [up EXCEPT ![p] = "up"]
  /\ UNCHANGED <<rows, issued, table, minted, run, beats, superseding, announced,
                 faults, stops, revivals>>

----------------------------------------------------------------------------
\* The first statement of retryJob matches: the job is dead and not done.
Retriable(j) == /\ j \in table /\ rows[j].dead /\ ~rows[j].done
                /\ Cardinality(superseding) < MaxRetriesInFlight

RetryJob(j) ==
  /\ Retriable(j)
  /\ ~KeyTaken(rows[j].queue, rows[j].key)
  /\ revivals < MaxRevivals
  /\ revivals' = revivals + 1
  /\ rows' = [rows EXCEPT ![j] = [@ EXCEPT !.attempts = 0, !.locked = "no",
                                            !.lease = NoLease, !.dead = FALSE,
                                            !.due = TRUE]]
  /\ UNCHANGED <<issued, table, minted, run, up, beats, superseding, announced,
                 faults, stops>>

\* It would break jobs_dedupe_idx (23505): nothing is written yet.
RetryConflict(j) ==
  /\ Retriable(j)
  /\ KeyTaken(rows[j].queue, rows[j].key)
  /\ superseding' = superseding \cup {j}
  /\ UNCHANGED <<rows, issued, table, minted, run, up, beats, announced,
                 faults, stops, revivals>>

\* Its second statement, which asks only that the job is not done.
Supersede(j) ==
  /\ j \in superseding
  /\ superseding' = superseding \ {j}
  /\ rows' = IF j \in table /\ ~rows[j].done
               THEN [rows EXCEPT ![j].done = TRUE]
               ELSE rows
  /\ UNCHANGED <<issued, table, minted, run, up, beats, announced, faults, stops, revivals>>

\* The second statement never runs: its process died, or the database did.
SupersedeLost(j) ==
  /\ j \in superseding
  /\ superseding' = superseding \ {j}
  /\ UNCHANGED <<rows, issued, table, minted, run, up, beats, announced,
                 faults, stops, revivals>>

\* pruneDoneJobs and pruneDeadLetters, one row at a time.
Prune(j) ==
  /\ j \in table
  /\ rows[j].done \/ rows[j].dead
  /\ table' = table \ {j}
  /\ UNCHANGED <<rows, issued, minted, run, up, beats, superseding, announced,
                 faults, stops, revivals>>

----------------------------------------------------------------------------
Lane(l) == \/ Poll(l)
           \/ \E j \in Jobs : Claim(l, j) \/ ClaimReplyLost(l, j)
           \/ ClaimNothing(l)
           \/ Beat(l)
           \/ Complete(l) \/ CompleteReplyLost(l) \/ HandlerFails(l)
           \/ FailJob(l) \/ Announce(l)

Table(j) == \/ \E q \in Queues, k \in Keys \cup {NoKey}, due \in BOOLEAN :
                 Enqueue(j, q, k, due)
            \/ BecomesDue(j) \/ LeaseGoesStale(j)
            \/ RetryJob(j) \/ RetryConflict(j) \/ Supersede(j) \/ SupersedeLost(j)
            \/ Prune(j)

Process(p) == Abort(p) \/ Exit(p) \/ Crash(p) \/ Boot(p)

Next == \/ \E l \in Lanes : Lane(l)
        \/ \E j \in Jobs : Table(j)
        \/ \E p \in Procs : Process(p)
        \/ \E b \in beats : BeatLands(b) \/ BeatLost(b)

Spec == Init /\ [][Next]_vars

(* A lane always takes its next step (the hard timeout bounds a handler, and a
   reply comes or the process dies); time passes; Docker restarts what ended.
   Nothing forces work to be enqueued, an administrator to act, a row to be
   pruned, a heartbeat to be sent, or anything to break. *)
Fairness ==
  /\ \A l \in Lanes : /\ WF_vars(Poll(l))
                      /\ WF_vars(ClaimNothing(l) \/ \E j \in Jobs : Claim(l, j))
                      /\ WF_vars(Complete(l) \/ HandlerFails(l))
                      /\ WF_vars(FailJob(l))
                      /\ WF_vars(Announce(l))
  /\ \A j \in Jobs : WF_vars(BecomesDue(j)) /\ WF_vars(LeaseGoesStale(j))
  /\ \A p \in Procs : WF_vars(Exit(p)) /\ WF_vars(Boot(p))

FairSpec == Spec /\ Fairness

----------------------------------------------------------------------------
\* Every variable keeps its shape: rows, lanes, processes and what is in flight.
TypeOK ==
  /\ rows \in [Jobs -> Row]
  /\ issued \subseteq Jobs
  /\ table \subseteq issued
  /\ minted \in [Jobs -> Nat]
  /\ run \in [Lanes -> {Idle, Claiming} \cup Held]
  /\ up \in [Procs -> {"up", "stopping", "down"}]
  /\ beats \subseteq [job : Jobs, lease : Leases]
  /\ superseding \subseteq Jobs
  /\ announced \subseteq [job : Jobs, lease : Leases]
  /\ faults \in 0 .. MaxFaults
  /\ stops \in 0 .. MaxStops
  /\ revivals \in 0 .. MaxRevivals

\* Two lanes never hold the same lease of a job: of the runs of one job that a
\* stale lock let overlap (claim), at most one can still write about it.
LeaseExclusive ==
  \A l1, l2 \in Lanes, j \in Jobs :
     HoldsLease(l1, j) /\ HoldsLease(l2, j) => l1 = l2

\* enqueue and retryJob never leave two open jobs with one dedupe key, however
\* deaths, revivals and enqueues of the same work interleave.
OneOpenJobPerKey ==
  \A i, j \in Jobs :
     /\ Open(i) /\ Open(j)
     /\ rows[i].key # NoKey /\ rows[i].key = rows[j].key
     /\ rows[i].queue = rows[j].queue
     => i = j

\* An open job that has used all its attempts and that no lane is going to
\* settle: claim will never take it, retryJob and the pruning do not see it.
Stranded(j) == /\ Open(j)
               /\ rows[j].attempts = MaxAttempts
               /\ \A l \in Lanes : ~HoldsLease(l, j)

\* As long as no process died and no reply was lost, claim and failJob together
\* leave no job stranded: the last attempt always ends in done or dead.
StrandedOnlyByFault == faults = 0 => \A j \in Jobs : ~Stranded(j)

\* What failJob (queue/index.ts:231) and migration 0079 say without reservation: a
\* job out of attempts is dead, so an open one is still going to run and the
\* key it holds will be released.
OutOfAttemptsIsDead == \A j \in Jobs : ~Stranded(j)

\* Fencing: while a job is open, it becomes done or dead only in a step of the
\* lane that holds its current lease.  A run whose lease was reclaimed settles
\* nothing, whatever it does and however late (complete, failJob).
SettledByHolder ==
  [][\A j \in Jobs :
       (Open(j) /\ (rows'[j].done \/ rows'[j].dead) /\ j \notin superseding)
         => \E l \in Lanes : HoldsLease(l, j) /\ run'[l] # run[l]]_vars

\* A done job is never claimed, revived, reopened or locked again, even by a run
\* that was told its completion failed or by a heartbeat that arrives late.
DoneIsFinal ==
  [][\A j \in Jobs :
       (j \in table /\ rows[j].done)
         => /\ rows'[j].done
            /\ rows'[j].attempts = rows[j].attempts
            /\ rows'[j].locked = "fresh" => rows[j].locked = "fresh"]_vars

\* As long as no reply was lost, a death is announced only for a job that was
\* not completed: failJob may mark a done row dead, but not by itself.
NoFalseObituary ==
  [][\A l \in Lanes :
       (run[l].phase = "failing" /\ run'[l].phase = "announcing" /\ faults = 0)
         => ~rows[run[l].job].done]_vars

\* Every open job is settled in the end, through stale leases, late heartbeats,
\* restarts and backoffs, unless a fault stranded it on its last attempt.
EveryJobSettles == \A j \in Jobs : Open(j) ~> (~Open(j) \/ Stranded(j))

\* A job that died of its attempts is announced under the lease it died with,
\* whatever is done to the row meanwhile, unless a process died or a reply was
\* lost on the way (failJob); the webhook queue's own deaths never are.
DeathsAreAnnounced ==
  \A j \in Jobs, n \in 1 .. MaxAttempts * (MaxRevivals + 1) :
     (/\ j \in table /\ rows[j].dead /\ ~rows[j].done
      /\ rows[j].lease = n /\ rows[j].queue # Webhook)
       ~> ([job |-> j, lease |-> n] \in announced \/ faults > 0)

----------------------------------------------------------------------------
\* The refinement mapping onto what the queue promises.
State(j) == IF j \notin issued THEN "none"
            ELSE IF j \notin table THEN "gone"
            ELSE IF rows[j].done THEN "done"
            ELSE IF rows[j].dead THEN "dead" ELSE "open"

Ledger == INSTANCE JobLedger
            WITH Jobs <- Jobs,
                 Work <- Queues \X (Keys \cup {NoKey}),
                 Unkeyed <- Queues \X {NoKey},
                 MaxAttempts <- MaxAttempts,
                 state <- [j \in Jobs |-> State(j)],
                 work <- [j \in Jobs |-> <<rows[j].queue, rows[j].key>>],
                 spent <- [j \in Jobs |-> rows[j].attempts]

\* The queue keeps the promises of JobLedger.
LedgerSpec == Ledger!Spec

\* What holds of the queue at every moment, whatever leases went stale and whatever
\* was lost: the shape of the state; one owner of a lease, one open job of a key, and
\* no job out of attempts and still open unless a process or a reply was lost.
QueueSafe ==
  /\ TypeOK
  /\ LeaseExclusive
  /\ OneOpenJobPerKey
  /\ StrandedOnlyByFault

\* What the queue owes to who enqueued: a job that is open is settled in the end, and
\* a death is told to whom it concerns.
JobsEnd ==
  /\ EveryJobSettles
  /\ DeathsAreAnnounced
=============================================================================
