-------------------------- MODULE JobQueueProofs --------------------------
(* Theorems about JobQueue, for every number of jobs, keys, worker processes
   and lanes, every budget of attempts and every bound on the faults. *)
EXTENDS JobQueue, FiniteSetTheorems, TLAPS

----------------------------------------------------------------------------
\* Each column the statements write keeps its type.
LEMMA RowUpdate ==
  ASSUME NEW r \in Row
  PROVE  /\ \A x \in BOOLEAN : [r EXCEPT !.due = x] \in Row
         /\ \A x \in BOOLEAN : [r EXCEPT !.done = x] \in Row
         /\ \A x \in {"no", "fresh", "stale"} : [r EXCEPT !.locked = x] \in Row
         /\ [r EXCEPT !.done = TRUE, !.locked = "no"] \in Row
         /\ \A x \in BOOLEAN :
              [r EXCEPT !.locked = "no", !.due = FALSE, !.dead = x] \in Row
  BY DEF Row

\* A new row and a claimed row are rows.
LEMMA RowMade ==
  /\ \A q \in Queues, k \in Keys \cup {NoKey}, due \in BOOLEAN :
       [queue |-> q, key |-> k, attempts |-> 0, locked |-> "no", lease |-> NoLease,
        due |-> due, done |-> FALSE, dead |-> FALSE] \in Row
  /\ \A r \in Row, n \in Nat :
       r.attempts < MaxAttempts
         => [r EXCEPT !.locked = "fresh", !.attempts = @ + 1, !.lease = n + 1] \in Row
  /\ \A r \in Row :
       [r EXCEPT !.attempts = 0, !.locked = "no", !.lease = NoLease,
                 !.dead = FALSE, !.due = TRUE] \in Row
<1> USE JobQueueAssumption
<1>1. \A q \in Queues, k \in Keys \cup {NoKey}, due \in BOOLEAN :
        [queue |-> q, key |-> k, attempts |-> 0, locked |-> "no", lease |-> NoLease,
         due |-> due, done |-> FALSE, dead |-> FALSE] \in Row
  BY DEF Row, NoLease
<1>2. ASSUME NEW r \in Row, NEW n \in Nat, r.attempts < MaxAttempts
      PROVE  [r EXCEPT !.locked = "fresh", !.attempts = @ + 1, !.lease = n + 1] \in Row
  <2>1. r.attempts + 1 \in 0 .. MaxAttempts /\ n + 1 \in Nat
    BY <1>2 DEF Row
  <2> QED
    BY <2>1 DEF Row
<1>3. ASSUME NEW r \in Row
      PROVE  [r EXCEPT !.attempts = 0, !.locked = "no", !.lease = NoLease,
                       !.dead = FALSE, !.due = TRUE] \in Row
  <2>1. 0 \in 0 .. MaxAttempts /\ NoLease \in Nat
    BY DEF NoLease
  <2> QED
    BY <2>1 DEF Row
<1> QED
  BY <1>1, <1>2, <1>3

\* The phases of a lane that has a job in its hands.
Active == {"running", "failing", "announcing"}

\* The three shapes of a lane's state, told apart by the phase.
LEMMA RunShape ==
  ASSUME NEW r \in {Idle, Claiming} \cup Held
  PROVE  /\ r.phase \in Active <=> r \in Held
         /\ r \in Held => /\ r.job \in Jobs /\ r.lease \in Leases
                          /\ \A x \in Active :
                               /\ [r EXCEPT !.phase = x] \in Held
                               /\ [r EXCEPT !.phase = x].phase = x
                               /\ [r EXCEPT !.phase = x].job = r.job
                               /\ [r EXCEPT !.phase = x].lease = r.lease
         /\ r.phase = "idle" <=> r = Idle
         /\ r.phase = "claiming" <=> r = Claiming
  BY DEF Idle, Claiming, Held, Active

\* Next preserves the shape of every variable, whatever bound is chosen.
LEMMA TypeStep == TypeOK /\ [Next]_vars => TypeOK'
<1> SUFFICES ASSUME TypeOK, [Next]_vars PROVE TypeOK'
  OBVIOUS
<1> USE JobQueueAssumption DEF TypeOK
<1>0. MaxFaults \in Nat /\ MaxStops \in Nat /\ MaxRevivals \in Nat
  OBVIOUS
<1>1. ASSUME NEW j \in Jobs, NEW q \in Queues, NEW k \in Keys \cup {NoKey},
             NEW due \in BOOLEAN, Enqueue(j, q, k, due)
      PROVE  TypeOK'
  BY <1>1, RowMade DEF Enqueue
<1>2. ASSUME NEW j \in Jobs, BecomesDue(j) PROVE TypeOK'
  BY <1>2, RowUpdate DEF BecomesDue
<1>3. ASSUME NEW j \in Jobs, LeaseGoesStale(j) PROVE TypeOK'
  BY <1>3, RowUpdate DEF LeaseGoesStale
<1>4. ASSUME NEW l \in Lanes, Poll(l) PROVE TypeOK'
  BY <1>4 DEF Poll
<1>5. ASSUME NEW j \in Jobs, Claimable(j)
      PROVE  /\ Leased(j) \in Row
             /\ minted[j] \in Nat
             /\ [phase |-> "running", job |-> j, lease |-> minted[j] + 1] \in Held
  <2>1. rows[j] \in Row /\ minted[j] \in Nat
    OBVIOUS
  <2>2. Leased(j) \in Row
    BY <1>5, <2>1, RowMade DEF Claimable, Leased
  <2>3. minted[j] + 1 \in Leases
    BY <2>1 DEF Leases
  <2> QED
    BY <2>1, <2>2, <2>3 DEF Held
<1>6. ASSUME NEW l \in Lanes, NEW j \in Jobs, Claim(l, j) PROVE TypeOK'
  BY <1>5, <1>6 DEF Claim
<1>7. ASSUME NEW l \in Lanes, NEW j \in Jobs, ClaimReplyLost(l, j) PROVE TypeOK'
  <2>1. faults + 1 \in 0 .. MaxFaults
    BY <1>0, <1>7 DEF ClaimReplyLost
  <2>2. rows' \in [Jobs -> Row]
    BY <1>5, <1>7 DEF ClaimReplyLost
  <2>3. minted' \in [Jobs -> Nat]
    BY <1>7 DEF ClaimReplyLost
  <2> QED
    BY <1>5, <1>7, <2>1, <2>2, <2>3 DEF ClaimReplyLost
<1>8. ASSUME NEW l \in Lanes, ClaimNothing(l) PROVE TypeOK'
  BY <1>8 DEF ClaimNothing
<1>9. ASSUME NEW l \in Lanes, run[l].phase \in {"running", "failing", "announcing"}
      PROVE  /\ run[l].job \in Jobs /\ run[l].lease \in Leases
             /\ [job |-> run[l].job, lease |-> run[l].lease] \in [job : Jobs, lease : Leases]
             /\ \A x \in Active : [run[l] EXCEPT !.phase = x] \in Held
  BY <1>9, RunShape DEF Active
<1>10. ASSUME NEW l \in Lanes, Beat(l) PROVE TypeOK'
  BY <1>9, <1>10 DEF Beat
<1>11. ASSUME NEW b \in beats, BeatLands(b) PROVE TypeOK'
  BY <1>11, RowUpdate DEF BeatLands
<1>12. ASSUME NEW b \in beats, BeatLost(b) PROVE TypeOK'
  BY <1>12 DEF BeatLost
<1>13. ASSUME NEW l \in Lanes, run[l].phase = "running"
       PROVE  Completed(l) \in [Jobs -> Row]
  BY <1>9, <1>13, RowUpdate DEF Completed
<1>14. ASSUME NEW l \in Lanes, Complete(l) PROVE TypeOK'
  BY <1>13, <1>14 DEF Complete
<1>15. ASSUME NEW l \in Lanes, CompleteReplyLost(l) PROVE TypeOK'
  <2>1. faults + 1 \in 0 .. MaxFaults
    BY <1>0, <1>15 DEF CompleteReplyLost
  <2> QED
    BY <1>9, <1>13, <1>15, <2>1 DEF CompleteReplyLost, Active
<1>16. ASSUME NEW l \in Lanes, HandlerFails(l) PROVE TypeOK'
  BY <1>9, <1>16 DEF HandlerFails, Active
<1>17. ASSUME NEW l \in Lanes, FailJob(l) PROVE TypeOK'
  <2> DEFINE j == run[l].job
             spent == rows[j].attempts >= MaxAttempts
             r == [rows[j] EXCEPT !.locked = "no", !.due = FALSE, !.dead = spent]
  <2>1. run[l].phase = "failing" /\ j \in Jobs
    BY <1>9, <1>17 DEF FailJob
  <2>2. r \in Row
    <3>1. rows[j] \in Row /\ spent \in BOOLEAN
      BY <2>1
    <3> HIDE DEF spent
    <3> QED
      BY <3>1, RowUpdate
  <2>3. rows' = rows \/ rows' = [rows EXCEPT ![j] = r]
    BY <1>17 DEF FailJob
  <2>4. run' \in {[run EXCEPT ![l] = Idle],
                  [run EXCEPT ![l] = [run[l] EXCEPT !.phase = "announcing"]]}
    BY <1>17 DEF FailJob
  <2>5. [run[l] EXCEPT !.phase = "announcing"] \in Held
    BY <1>9, <2>1 DEF Active
  <2> HIDE DEF r
  <2>6. rows' \in [Jobs -> Row]
    BY <2>1, <2>2, <2>3
  <2>7. run' \in [Lanes -> {Idle, Claiming} \cup Held]
    BY <2>4, <2>5
  <2> QED
    BY <1>17, <2>6, <2>7 DEF FailJob
<1>18. ASSUME NEW l \in Lanes, Announce(l) PROVE TypeOK'
  BY <1>9, <1>18 DEF Announce
<1>19. ASSUME NEW p \in Procs, Process(p) PROVE TypeOK'
  <2>1. CASE Abort(p) BY <2>1 DEF Abort
  <2>2. CASE Exit(p) BY <2>2 DEF Exit
  <2>3. CASE Crash(p) BY <2>3 DEF Crash
  <2>4. CASE Boot(p) BY <2>4 DEF Boot
  <2> QED BY <1>19, <2>1, <2>2, <2>3, <2>4 DEF Process
<1>20. ASSUME NEW j \in Jobs, RetryJob(j) PROVE TypeOK'
  <2>1. revivals + 1 \in 0 .. MaxRevivals
    BY <1>0, <1>20 DEF RetryJob
  <2>2. [rows[j] EXCEPT !.attempts = 0, !.locked = "no", !.lease = NoLease,
                        !.dead = FALSE, !.due = TRUE] \in Row
    BY RowMade
  <2>3. rows' \in [Jobs -> Row]
    BY <1>20, <2>2 DEF RetryJob
  <2> QED
    BY <1>20, <2>1, <2>3 DEF RetryJob
<1>21. ASSUME NEW j \in Jobs, RetryConflict(j) PROVE TypeOK'
  BY <1>21 DEF RetryConflict
<1>22. ASSUME NEW j \in Jobs, Supersede(j) PROVE TypeOK'
  BY <1>22, RowUpdate DEF Supersede
<1>23. ASSUME NEW j \in Jobs, SupersedeLost(j) PROVE TypeOK'
  BY <1>23 DEF SupersedeLost
<1>24. ASSUME NEW j \in Jobs, Prune(j) PROVE TypeOK'
  BY <1>24 DEF Prune
<1>25. CASE UNCHANGED vars
  BY <1>25 DEF vars
<1> QED
  BY <1>1, <1>2, <1>3, <1>4, <1>6, <1>7, <1>8, <1>10, <1>11, <1>12, <1>14, <1>15,
     <1>16, <1>17, <1>18, <1>19, <1>20, <1>21, <1>22, <1>23, <1>24, <1>25
     DEF Next, Lane, Table

LEMMA InitTypeOK == Init => TypeOK
<1> SUFFICES ASSUME Init PROVE TypeOK
  OBVIOUS
<1>1. (CHOOSE q \in Queues : TRUE) \in Queues
  BY JobQueueAssumption
<1> QED
  BY <1>1, JobQueueAssumption
     DEF Init, TypeOK, Row, NoLease, Idle, Claiming, Held, Leases

\* Every variable keeps its shape (the jobs table, the lanes, the processes).
THEOREM TypeCorrect == Spec => []TypeOK
  BY InitTypeOK, TypeStep, PTL DEF Spec

----------------------------------------------------------------------------
(* Leases.  A new lease id is larger than every lease id of its job, in the
   row or in a lane; every other step keeps or drops the ids it finds. *)
LeasesDistinct ==
  /\ \A j \in Jobs : rows[j].lease <= minted[j]
  /\ \A l \in Lanes : run[l].phase \in Active => run[l].lease <= minted[run[l].job]
  /\ \A l1, l2 \in Lanes :
       /\ run[l1].phase \in Active /\ run[l2].phase \in Active
       /\ run[l1].job = run[l2].job /\ run[l1].lease = run[l2].lease
       => l1 = l2

\* A step that makes no lease: lanes and rows keep theirs or lose them.
KeepsLeases ==
  /\ minted' = minted
  /\ \A j \in Jobs : rows'[j].lease \in {rows[j].lease, NoLease}
  /\ \A l \in Lanes :
       run'[l].phase \in Active
         => /\ run[l].phase \in Active
            /\ run'[l].job = run[l].job /\ run'[l].lease = run[l].lease

LEMMA LeasesKept ==
  ASSUME TypeOK, LeasesDistinct, KeepsLeases, TypeOK'
  PROVE  LeasesDistinct'
  BY DEF LeasesDistinct, KeepsLeases, TypeOK, Row, NoLease

\* Only Claim and ClaimReplyLost make a lease.
LEMMA OnlyClaimsLease ==
  ASSUME TypeOK, [Next]_vars
  PROVE  \/ KeepsLeases
         \/ \E l \in Lanes, j \in Jobs : Claim(l, j) \/ ClaimReplyLost(l, j)
<1> USE DEF TypeOK, KeepsLeases, Active
<1>1. ASSUME NEW j \in Jobs, Table(j) PROVE KeepsLeases
  <2>1. ASSUME NEW q \in Queues, NEW k \in Keys \cup {NoKey}, NEW due \in BOOLEAN,
               Enqueue(j, q, k, due)
        PROVE  KeepsLeases
    BY <2>1 DEF Enqueue, NoLease
  <2>2. CASE BecomesDue(j) \/ LeaseGoesStale(j)
    BY <2>2 DEF BecomesDue, LeaseGoesStale, Row
  <2>3. CASE RetryJob(j)
    <3> DEFINE r == [rows[j] EXCEPT !.attempts = 0, !.locked = "no", !.lease = NoLease,
                                    !.dead = FALSE, !.due = TRUE]
    <3>1. r.lease = NoLease
      BY DEF Row
    <3>2. rows' = [rows EXCEPT ![j] = r] /\ minted' = minted /\ run' = run
      BY <2>3 DEF RetryJob
    <3> QED
      BY <3>1, <3>2
  <2>4. CASE RetryConflict(j) \/ SupersedeLost(j) \/ Prune(j)
    BY <2>4 DEF RetryConflict, SupersedeLost, Prune
  <2>5. CASE Supersede(j)
    BY <2>5 DEF Supersede, Row
  <2> QED
    BY <1>1, <2>1, <2>2, <2>3, <2>4, <2>5 DEF Table
<1>2. ASSUME NEW p \in Procs, Process(p) PROVE KeepsLeases
  BY <1>2 DEF Process, Abort, Exit, Crash, Boot, Idle, NoLease
<1>3. ASSUME NEW b \in beats, BeatLands(b) \/ BeatLost(b) PROVE KeepsLeases
  BY <1>3 DEF BeatLands, BeatLost, Row, NoLease
<1>4. ASSUME NEW l \in Lanes, Poll(l) \/ ClaimNothing(l) \/ Beat(l) PROVE KeepsLeases
  BY <1>4 DEF Poll, ClaimNothing, Beat, Idle, Claiming
<1>5. ASSUME NEW l \in Lanes, run[l].phase \in Active, minted' = minted,
             \A j \in Jobs : rows'[j].lease = rows[j].lease,
             \/ run' = [run EXCEPT ![l] = Idle]
             \/ \E x \in Active : run' = [run EXCEPT ![l].phase = x]
      PROVE  KeepsLeases
  <2>1. run[l] \in Held
    <3>1. run[l] \in {Idle, Claiming} \cup Held
      OBVIOUS
    <3> HIDE DEF Active
    <3> QED
      BY <1>5, <3>1, RunShape
  <2>2. \A m \in Lanes \ {l} : run'[m] = run[m]
    BY <1>5
  <2>3. CASE run' = [run EXCEPT ![l] = Idle]
    BY <1>5, <2>2, <2>3 DEF Idle
  <2>4. ASSUME NEW x \in Active, run' = [run EXCEPT ![l].phase = x]
        PROVE  KeepsLeases
    <3>1. run'[l].job = run[l].job /\ run'[l].lease = run[l].lease
      BY <2>1, <2>4, RunShape
    <3> QED
      BY <1>5, <2>2, <3>1
  <2> QED
    BY <1>5, <2>3, <2>4
<1>6. ASSUME NEW l \in Lanes, Complete(l) \/ CompleteReplyLost(l) PROVE KeepsLeases
  <2>1. \A j \in Jobs : rows'[j].lease = rows[j].lease
    <3> DEFINE j == run[l].job
               r == [rows[j] EXCEPT !.done = TRUE, !.locked = "no"]
    <3>1. rows' = rows \/ rows' = [rows EXCEPT ![j] = r]
      BY <1>6 DEF Complete, CompleteReplyLost, Completed
    <3>2. ASSUME j \in Jobs PROVE r.lease = rows[j].lease
      BY <3>2 DEF Row
    <3> HIDE DEF r
    <3> QED
      BY <3>1, <3>2
  <2> QED
    BY <1>5, <1>6, <2>1 DEF Complete, CompleteReplyLost
<1>7. ASSUME NEW l \in Lanes, HandlerFails(l) \/ Announce(l) PROVE KeepsLeases
  BY <1>5, <1>7 DEF HandlerFails, Announce
<1>8. ASSUME NEW l \in Lanes, FailJob(l) PROVE KeepsLeases
  <2>1. \A j \in Jobs : rows'[j].lease = rows[j].lease
    BY <1>8 DEF FailJob, Row
  <2> QED
    BY <1>5, <1>8, <2>1 DEF FailJob
<1>9. CASE UNCHANGED vars
  BY <1>9 DEF vars
<1> QED
  BY <1>1, <1>2, <1>3, <1>4, <1>6, <1>7, <1>8, <1>9 DEF Next, Lane

LEMMA LeasesStep ==
  ASSUME TypeOK, LeasesDistinct, [Next]_vars
  PROVE  LeasesDistinct'
<1>1. TypeOK'
  BY TypeStep
<1>2. CASE KeepsLeases
  BY <1>1, <1>2, LeasesKept
<1>3. ASSUME NEW l \in Lanes, NEW j \in Jobs, Claim(l, j) \/ ClaimReplyLost(l, j)
      PROVE  LeasesDistinct'
  <2> USE DEF TypeOK
  <2>1. /\ minted' = [minted EXCEPT ![j] = @ + 1]
        /\ minted[j] \in Nat
        /\ rows'[j].lease = minted[j] + 1
        /\ \A i \in Jobs \ {j} : rows'[i] = rows[i]
    <3>1. rows' = [rows EXCEPT ![j] = Leased(j)] /\ minted' = [minted EXCEPT ![j] = @ + 1]
      BY <1>3 DEF Claim, ClaimReplyLost
    <3>2. rows[j] \in Row
      OBVIOUS
    <3>3. Leased(j).lease = minted[j] + 1
      BY <3>2 DEF Leased, Row
    <3> QED
      BY <3>1, <3>3
  <2>2. \A m \in Lanes \ {l} : run'[m] = run[m]
    BY <1>3 DEF Claim, ClaimReplyLost
  <2>3. run'[l].phase \in Active => run'[l].job = j /\ run'[l].lease = minted[j] + 1
    BY <1>3 DEF Claim, ClaimReplyLost, Idle, Active
  <2>4. ASSUME NEW m \in Lanes, run[m].phase \in Active
        PROVE  run[m].job \in Jobs /\ run[m].lease \in Nat
    BY <2>4, RunShape, ZenonT(40) DEF Active, Leases
  <2>5. (\A i \in Jobs : rows[i].lease <= minted[i])'
    BY <2>1 DEF LeasesDistinct, Row
  <2>6. ASSUME NEW m \in Lanes, run'[m].phase \in Active
        PROVE  run'[m].lease <= minted'[run'[m].job]
    BY <2>1, <2>2, <2>3, <2>4, <2>6 DEF LeasesDistinct
  <2>7. ASSUME NEW m \in Lanes, NEW n \in Lanes,
               run'[m].phase \in Active, run'[n].phase \in Active,
               run'[m].job = run'[n].job, run'[m].lease = run'[n].lease
        PROVE  m = n
    BY <2>1, <2>2, <2>3, <2>4, <2>7 DEF LeasesDistinct
  <2> QED
    BY <2>5, <2>6, <2>7 DEF LeasesDistinct
<1> QED
  BY <1>2, <1>3, OnlyClaimsLease

\* Two lanes never hold the same lease of a job (claim, complete, failJob).
THEOREM LeasesExclusive == Spec => []LeaseExclusive
<1>1. Init => TypeOK /\ LeasesDistinct
  <2>1. Init => LeasesDistinct
    BY DEF Init, LeasesDistinct, Idle, Active, NoLease
  <2>2. Init => TypeOK
    BY InitTypeOK
  <2> QED
    BY <2>1, <2>2
<1>2. TypeOK /\ LeasesDistinct /\ [Next]_vars => (TypeOK /\ LeasesDistinct)'
  BY TypeStep, LeasesStep
<1>3. TypeOK /\ LeasesDistinct => LeaseExclusive
  BY DEF LeasesDistinct, LeaseExclusive, HoldsLease, Active
<1> QED
  BY <1>1, <1>2, <1>3, PTL DEF Spec

----------------------------------------------------------------------------
(* The table.  Of all the steps only seven write a column that matters to the
   life of a job; the others are quiet. *)
Quiet ==
  /\ table' \subseteq table
  /\ \A j \in Jobs :
       /\ rows'[j].queue = rows[j].queue /\ rows'[j].key = rows[j].key
       /\ rows'[j].attempts = rows[j].attempts /\ rows'[j].lease = rows[j].lease
       /\ rows'[j].done = rows[j].done /\ rows'[j].dead = rows[j].dead
       /\ rows'[j].locked = "fresh" /\ rows[j].done => rows[j].locked = "fresh"
  /\ faults' = faults
       => \A l \in Lanes : run[l].phase \in {"running", "failing"}
            => /\ run'[l].phase \in {"running", "failing"}
               /\ run'[l].job = run[l].job /\ run'[l].lease = run[l].lease
  /\ \A l \in Lanes : run'[l].phase = "announcing" => run[l].phase = "announcing"
  /\ \A l \in Lanes : run'[l].phase \in {"running", "failing"}
       => /\ run[l].phase \in {"running", "failing"}
          /\ run'[l].job = run[l].job /\ run'[l].lease = run[l].lease

LEMMA Writers ==
  ASSUME TypeOK, [Next]_vars
  PROVE  \/ Quiet
         \/ \E j \in Jobs, q \in Queues, k \in Keys \cup {NoKey}, due \in BOOLEAN :
              Enqueue(j, q, k, due)
         \/ \E l \in Lanes, j \in Jobs : Claim(l, j) \/ ClaimReplyLost(l, j)
         \/ \E l \in Lanes : Complete(l) \/ CompleteReplyLost(l) \/ FailJob(l)
         \/ \E j \in Jobs : RetryJob(j) \/ Supersede(j)
<1> USE DEF TypeOK, Quiet
<1>1. ASSUME NEW j \in Jobs, BecomesDue(j) \/ LeaseGoesStale(j) PROVE Quiet
  BY <1>1 DEF BecomesDue, LeaseGoesStale, Row
<1>2. ASSUME NEW j \in Jobs, RetryConflict(j) \/ SupersedeLost(j) \/ Prune(j) PROVE Quiet
  BY <1>2 DEF RetryConflict, SupersedeLost, Prune
<1>3. ASSUME NEW p \in Procs, Abort(p) \/ Exit(p) \/ Boot(p) PROVE Quiet
  BY <1>3 DEF Abort, Exit, Boot
<1>4. ASSUME NEW p \in Procs, Crash(p) PROVE Quiet
  <2>1. faults' # faults
    BY <1>4, JobQueueAssumption DEF Crash
  <2> QED
    BY <1>4, <2>1 DEF Crash, Idle
<1>5. ASSUME NEW b \in beats, BeatLands(b) PROVE Quiet
  BY <1>5 DEF BeatLands, Row
<1>6. ASSUME NEW b \in beats, BeatLost(b) PROVE Quiet
  BY <1>6 DEF BeatLost
<1>7. ASSUME NEW l \in Lanes, Poll(l) \/ ClaimNothing(l) \/ Beat(l) PROVE Quiet
  BY <1>7 DEF Poll, ClaimNothing, Beat, Idle, Claiming
<1>8. ASSUME NEW l \in Lanes, HandlerFails(l) PROVE Quiet
  <2>1. run[l] \in {Idle, Claiming} \cup Held /\ run[l].phase \in Active
    BY <1>8 DEF HandlerFails, Active
  <2>2. /\ run'[l].phase = "failing"
        /\ run'[l].job = run[l].job /\ run'[l].lease = run[l].lease
    BY <1>8, <2>1, RunShape DEF HandlerFails, Active
  <2> QED
    BY <1>8, <2>2 DEF HandlerFails
<1>9. ASSUME NEW l \in Lanes, Announce(l) PROVE Quiet
  BY <1>9 DEF Announce, Idle
<1>10. CASE UNCHANGED vars
  BY <1>10 DEF vars
<1> QED
  BY <1>1, <1>2, <1>3, <1>4, <1>5, <1>6, <1>7, <1>8, <1>9, <1>10
     DEF Next, Lane, Table, Process

\* What the writers do to the rows, column by column.
LEMMA EnqueueWrites ==
  ASSUME TypeOK, NEW j \in Jobs, NEW q \in Queues, NEW k \in Keys \cup {NoKey},
         NEW due \in BOOLEAN, Enqueue(j, q, k, due)
  PROVE  /\ j \notin table /\ table' = table \cup {j} /\ ~KeyTaken(q, k)
         /\ rows'[j].queue = q /\ rows'[j].key = k /\ rows'[j].attempts = 0
         /\ ~rows'[j].done /\ ~rows'[j].dead
         /\ \A i \in Jobs \ {j} : rows'[i] = rows[i]
         /\ run' = run /\ faults' = faults /\ superseding' = superseding
  BY DEF Enqueue, TypeOK

LEMMA ClaimWrites ==
  ASSUME TypeOK, NEW l \in Lanes, NEW j \in Jobs, Claim(l, j) \/ ClaimReplyLost(l, j)
  PROVE  /\ Claimable(j) /\ table' = table
         /\ rows'[j].queue = rows[j].queue /\ rows'[j].key = rows[j].key
         /\ rows'[j].attempts = rows[j].attempts + 1
         /\ rows'[j].lease = minted[j] + 1
         /\ rows'[j].done = rows[j].done /\ rows'[j].dead = rows[j].dead
         /\ \A i \in Jobs \ {j} : rows'[i] = rows[i]
         /\ run[l] = Claiming
         /\ \A m \in Lanes \ {l} : run'[m] = run[m]
         /\ \/ /\ run'[l].phase = "running" /\ run'[l].job = j
               /\ run'[l].lease = minted[j] + 1
               /\ faults' = faults
            \/ run'[l] = Idle /\ faults' = faults + 1
<1>1. rows' = [rows EXCEPT ![j] = Leased(j)]
  BY DEF Claim, ClaimReplyLost
<1>2. rows[j] \in Row
  BY DEF TypeOK
<1>3. /\ Leased(j).queue = rows[j].queue /\ Leased(j).key = rows[j].key
      /\ Leased(j).attempts = rows[j].attempts + 1
      /\ Leased(j).lease = minted[j] + 1
      /\ Leased(j).done = rows[j].done /\ Leased(j).dead = rows[j].dead
  BY <1>2 DEF Leased, Row
<1>4. /\ rows'[j] = Leased(j)
      /\ \A i \in Jobs \ {j} : rows'[i] = rows[i]
  BY <1>1 DEF TypeOK
<1>5. /\ Claimable(j) /\ table' = table /\ run[l] = Claiming
      /\ \A m \in Lanes \ {l} : run'[m] = run[m]
      /\ \/ /\ run'[l].phase = "running" /\ run'[l].job = j
            /\ run'[l].lease = minted[j] + 1
            /\ faults' = faults
         \/ run'[l] = Idle /\ faults' = faults + 1
  BY DEF Claim, ClaimReplyLost, TypeOK
<1> QED
  BY <1>3, <1>4, <1>5

LEMMA SettleWrites ==
  ASSUME TypeOK, NEW l \in Lanes, Complete(l) \/ CompleteReplyLost(l) \/ FailJob(l)
  PROVE  LET j == run[l].job
         IN /\ j \in Jobs /\ table' = table /\ superseding' = superseding
            /\ run[l].phase \in {"running", "failing"}
            /\ run'[l].phase # run[l].phase
            /\ \A m \in Lanes \ {l} : run'[m] = run[m]
            /\ \A i \in Jobs \ {j} : rows'[i] = rows[i]
            /\ ~Carries(j, run[l].lease) => rows' = rows
            /\ rows'[j].queue = rows[j].queue /\ rows'[j].key = rows[j].key
            /\ rows'[j].attempts = rows[j].attempts
            /\ rows'[j].lease = rows[j].lease
            /\ rows[j].done => rows'[j].done
            /\ Carries(j, run[l].lease)
                 => \/ rows'[j].done /\ rows'[j].dead = rows[j].dead
                    \/ (rows'[j].dead <=> rows[j].attempts >= MaxAttempts)
            /\ rows'[j].locked = "fresh" => rows[j].locked = "fresh"
<1> DEFINE j == run[l].job
<1>1. run[l].phase \in {"running", "failing"}
  BY DEF Complete, CompleteReplyLost, FailJob
<1>2. run[l] \in {Idle, Claiming} \cup Held /\ rows \in [Jobs -> Row]
  BY DEF TypeOK
<1>3. j \in Jobs
  BY <1>1, <1>2, RunShape DEF Active
<1>4. CASE Complete(l) \/ CompleteReplyLost(l)
  <2>1. run[l].phase = "running" /\ rows' = Completed(l)
    BY <1>4 DEF Complete, CompleteReplyLost
  <2>2. run'[l].phase # "running" /\ \A m \in Lanes \ {l} : run'[m] = run[m]
    <3>1. run[l] \in Held
      BY <1>1, <1>2, RunShape DEF Active
    <3>2. [run[l] EXCEPT !.phase = "failing"].phase = "failing"
      BY <3>1 DEF Held
    <3>3. run' \in {[run EXCEPT ![l] = Idle],
                    [run EXCEPT ![l] = [run[l] EXCEPT !.phase = "failing"]]}
      BY <1>4 DEF Complete, CompleteReplyLost
    <3>4. Idle.phase = "idle"
      BY DEF Idle
    <3> QED
      BY <3>2, <3>3, <3>4 DEF TypeOK
  <2>3. table' = table /\ superseding' = superseding
    BY <1>4 DEF Complete, CompleteReplyLost
  <2> QED
    BY <1>2, <1>3, <2>1, <2>2, <2>3 DEF Completed, Row
<1>5. CASE FailJob(l)
  <2>1. run[l].phase = "failing"
    BY <1>5 DEF FailJob
  <2>2. run'[l].phase # "failing" /\ \A m \in Lanes \ {l} : run'[m] = run[m]
    BY <1>1, <1>2, <1>5, RunShape DEF FailJob, Idle, TypeOK, Active
  <2>3. table' = table /\ superseding' = superseding
    BY <1>5 DEF FailJob
  <2>4. CASE ~Carries(j, run[l].lease)
    <3>1. rows' = rows
      BY <1>5, <2>4 DEF FailJob
    <3> QED
      BY <1>1, <1>3, <2>1, <2>2, <2>3, <2>4, <3>1
  <2>5. CASE Carries(j, run[l].lease)
    <3> DEFINE spent == rows[j].attempts >= MaxAttempts
               r == [rows[j] EXCEPT !.locked = "no", !.due = FALSE, !.dead = spent]
    <3>1. rows' = [rows EXCEPT ![j] = r]
      BY <1>5, <2>5 DEF FailJob
    <3>2. /\ r.queue = rows[j].queue /\ r.key = rows[j].key
          /\ r.attempts = rows[j].attempts /\ r.lease = rows[j].lease
          /\ r.done = rows[j].done /\ r.locked = "no"
          /\ r.dead <=> rows[j].attempts >= MaxAttempts
      BY <1>2, <1>3, ZenonT(40) DEF Row
    <3>3. rows'[j] = r /\ \A i \in Jobs \ {j} : rows'[i] = rows[i]
      BY <1>2, <1>3, <3>1
    <3> HIDE DEF r
    <3> QED
      BY <1>1, <1>3, <2>1, <2>2, <2>3, <2>5, <3>2, <3>3
  <2> QED
    BY <2>4, <2>5
<1> QED
  BY <1>4, <1>5

LEMMA AdminWrites ==
  ASSUME TypeOK, NEW j \in Jobs, RetryJob(j) \/ Supersede(j)
  PROVE  /\ table' = table /\ run' = run /\ faults' = faults
         /\ \A i \in Jobs \ {j} : rows'[i] = rows[i]
         /\ rows'[j].queue = rows[j].queue /\ rows'[j].key = rows[j].key
         /\ rows[j].done => rows' = rows
         /\ RetryJob(j) => /\ rows'[j].attempts = 0 /\ ~rows[j].done /\ ~rows'[j].done
                           /\ ~rows'[j].dead /\ superseding' = superseding
                           /\ ~KeyTaken(rows[j].queue, rows[j].key)
         /\ Supersede(j) => /\ rows'[j].attempts = rows[j].attempts
                            /\ rows'[j].lease = rows[j].lease
                            /\ rows'[j].dead = rows[j].dead
                            /\ rows' # rows => rows'[j].done /\ ~rows[j].done
                            /\ j \in superseding /\ superseding' = superseding \ {j}
<1>3. ~(RetryJob(j) /\ Supersede(j))
  BY DEF RetryJob, Supersede
<1>1. CASE RetryJob(j)
  BY <1>1, <1>3 DEF RetryJob, Retriable, TypeOK, Row
<1>2. CASE Supersede(j)
  <2>1. /\ table' = table /\ run' = run /\ faults' = faults
        /\ j \in superseding /\ superseding' = superseding \ {j}
    BY <1>2 DEF Supersede
  <2>2. rows' = rows \/ (rows' = [rows EXCEPT ![j].done = TRUE] /\ ~rows[j].done)
    BY <1>2 DEF Supersede
  <2>3. rows[j] \in Row
    BY DEF TypeOK
  <2>4. /\ \A i \in Jobs \ {j} : rows'[i] = rows[i]
        /\ rows'[j].queue = rows[j].queue /\ rows'[j].key = rows[j].key
        /\ rows'[j].attempts = rows[j].attempts /\ rows'[j].lease = rows[j].lease
        /\ rows'[j].dead = rows[j].dead
        /\ rows' # rows => rows'[j].done /\ ~rows[j].done
    BY <2>2, <2>3 DEF TypeOK, Row
  <2>5. ~RetryJob(j)
    BY <1>2, <1>3
  <2>6. rows[j].done => rows' = rows
    BY <2>4
  <2> QED
    BY <2>1, <2>4, <2>5, <2>6
<1> QED
  BY <1>1, <1>2

----------------------------------------------------------------------------
\* Fencing: only the lane with the current lease settles an open job.
THEOREM Fencing == Spec => SettledByHolder
<1> DEFINE Fenced == \A j \in Jobs :
             (Open(j) /\ (rows'[j].done \/ rows'[j].dead) /\ j \notin superseding)
               => \E l \in Lanes : HoldsLease(l, j) /\ run'[l] # run[l]
<1>1. ASSUME TypeOK, [Next]_vars PROVE Fenced
  <2>0. SUFFICES ASSUME NEW j \in Jobs, Open(j), rows'[j].done \/ rows'[j].dead,
                      j \notin superseding
               PROVE  \E l \in Lanes : HoldsLease(l, j) /\ run'[l] # run[l]
    OBVIOUS
  <2> USE DEF Open
  <2>1. ~Quiet
    BY <2>0 DEF Quiet
  <2>2. ASSUME NEW i \in Jobs, NEW q \in Queues, NEW k \in Keys \cup {NoKey},
               NEW due \in BOOLEAN, Enqueue(i, q, k, due)
        PROVE  FALSE
    BY <1>1, <2>0, <2>2, EnqueueWrites
  <2>3. ASSUME NEW l \in Lanes, NEW i \in Jobs, Claim(l, i) \/ ClaimReplyLost(l, i)
        PROVE  FALSE
    BY <1>1, <2>0, <2>3, ClaimWrites DEF Claimable
  <2>4. ASSUME NEW i \in Jobs, RetryJob(i) \/ Supersede(i)
        PROVE  FALSE
    BY <1>1, <2>0, <2>4, AdminWrites DEF RetryJob, Retriable
  <2>5. ASSUME NEW l \in Lanes, Complete(l) \/ CompleteReplyLost(l) \/ FailJob(l)
        PROVE  HoldsLease(l, j) /\ run'[l] # run[l]
    BY <1>1, <2>0, <2>5, SettleWrites DEF HoldsLease, Carries
  <2> QED
    BY <1>1, <2>0, <2>1, <2>2, <2>3, <2>4, <2>5, Writers
<1> QED
  BY <1>1, TypeCorrect, PTL DEF Spec, SettledByHolder

\* A done job stays done, is never claimed again and never locked again.
THEOREM DoneStaysDone == Spec => DoneIsFinal
<1> DEFINE Final == \A j \in Jobs :
             (j \in table /\ rows[j].done)
               => /\ rows'[j].done
                  /\ rows'[j].attempts = rows[j].attempts
                  /\ rows'[j].locked = "fresh" => rows[j].locked = "fresh"
<1>1. ASSUME TypeOK, [Next]_vars PROVE Final
  <2>0. SUFFICES ASSUME NEW j \in Jobs, j \in table, rows[j].done
               PROVE  /\ rows'[j].done
                      /\ rows'[j].attempts = rows[j].attempts
                      /\ rows'[j].locked = "fresh" => rows[j].locked = "fresh"
    OBVIOUS
  <2>1. CASE Quiet
    BY <1>1, <2>0, <2>1 DEF Quiet
  <2>2. ASSUME NEW i \in Jobs, NEW q \in Queues, NEW k \in Keys \cup {NoKey},
               NEW due \in BOOLEAN, Enqueue(i, q, k, due)
        PROVE  rows'[j] = rows[j]
    BY <1>1, <2>0, <2>2, EnqueueWrites
  <2>3. ASSUME NEW l \in Lanes, NEW i \in Jobs, Claim(l, i) \/ ClaimReplyLost(l, i)
        PROVE  rows'[j] = rows[j]
    BY <1>1, <2>0, <2>3, ClaimWrites DEF Claimable, Open
  <2>4. ASSUME NEW i \in Jobs, RetryJob(i) \/ Supersede(i)
        PROVE  rows'[j] = rows[j]
    BY <1>1, <2>0, <2>4, AdminWrites
  <2>5. ASSUME NEW l \in Lanes, Complete(l) \/ CompleteReplyLost(l) \/ FailJob(l)
        PROVE  /\ rows'[j].done
               /\ rows'[j].attempts = rows[j].attempts
               /\ rows'[j].locked = "fresh" => rows[j].locked = "fresh"
    BY <1>1, <2>0, <2>5, SettleWrites
  <2> QED
    BY <1>1, <2>0, <2>1, <2>2, <2>3, <2>4, <2>5, Writers
<1> QED
  BY <1>1, TypeCorrect, PTL DEF Spec, DoneIsFinal

----------------------------------------------------------------------------
\* Only failJob kills, and only a job without attempts left: that is why a late
\* failJob, which may clear dead_at, never reopens a dead job.
DeadIsSpent == \A j \in Jobs : rows[j].dead => rows[j].attempts >= MaxAttempts

LEMMA DeadIsSpentStep ==
  ASSUME TypeOK, DeadIsSpent, [Next]_vars
  PROVE  DeadIsSpent'
<1> USE DEF DeadIsSpent
<1>1. CASE Quiet
  BY <1>1 DEF Quiet
<1>2. ASSUME NEW i \in Jobs, NEW q \in Queues, NEW k \in Keys \cup {NoKey},
             NEW due \in BOOLEAN, Enqueue(i, q, k, due)
      PROVE  DeadIsSpent'
  BY <1>2, EnqueueWrites
<1>3. ASSUME NEW l \in Lanes, NEW i \in Jobs, Claim(l, i) \/ ClaimReplyLost(l, i)
      PROVE  DeadIsSpent'
  BY <1>3, ClaimWrites DEF Claimable, Open
<1>4. ASSUME NEW i \in Jobs, RetryJob(i) \/ Supersede(i)
      PROVE  DeadIsSpent'
  BY <1>4, AdminWrites
<1>5. ASSUME NEW l \in Lanes, Complete(l) \/ CompleteReplyLost(l) \/ FailJob(l)
      PROVE  DeadIsSpent'
  BY <1>5, SettleWrites
<1> QED
  BY <1>1, <1>2, <1>3, <1>4, <1>5, Writers

\* Only enqueue and a revival open a job.
LEMMA OnlyTwoOpen ==
  ASSUME TypeOK, DeadIsSpent, [Next]_vars
  PROVE  \/ \A j \in Jobs : Open(j)' => /\ Open(j)
                                        /\ rows'[j].queue = rows[j].queue
                                        /\ rows'[j].key = rows[j].key
         \/ \E j \in Jobs, q \in Queues, k \in Keys \cup {NoKey}, due \in BOOLEAN :
              Enqueue(j, q, k, due)
         \/ \E j \in Jobs : RetryJob(j)
<1> DEFINE Goal == \A j \in Jobs : Open(j)' => /\ Open(j)
                                               /\ rows'[j].queue = rows[j].queue
                                               /\ rows'[j].key = rows[j].key
<1> USE DEF Open
<1>1. CASE Quiet
  BY <1>1 DEF Quiet
<1>2. ASSUME NEW l \in Lanes, NEW j \in Jobs, Claim(l, j) \/ ClaimReplyLost(l, j)
      PROVE  Goal
  BY <1>2, ClaimWrites
<1>3. ASSUME NEW j \in Jobs, Supersede(j) PROVE Goal
  BY <1>3, AdminWrites
<1>4. ASSUME NEW l \in Lanes, Complete(l) \/ CompleteReplyLost(l) \/ FailJob(l)
      PROVE  Goal
  BY <1>4, SettleWrites DEF DeadIsSpent
<1> QED
  BY <1>1, <1>2, <1>3, <1>4, Writers

\* No two open jobs of a queue carry the same dedupe key (enqueue, retryJob).
THEOREM OneJobPerKey == Spec => []OneOpenJobPerKey
<1>1. Init => OneOpenJobPerKey /\ DeadIsSpent
  BY DEF Init, OneOpenJobPerKey, DeadIsSpent, Open
<1>2. ASSUME TypeOK, DeadIsSpent, OneOpenJobPerKey, [Next]_vars
      PROVE  OneOpenJobPerKey'
  <2> USE DEF OneOpenJobPerKey, Open
  <2>1. CASE \A j \in Jobs : Open(j)' => /\ Open(j)
                                         /\ rows'[j].queue = rows[j].queue
                                         /\ rows'[j].key = rows[j].key
    BY <1>2, <2>1
  <2>2. ASSUME NEW j \in Jobs, NEW q \in Queues, NEW k \in Keys \cup {NoKey},
               NEW due \in BOOLEAN, Enqueue(j, q, k, due)
        PROVE  OneOpenJobPerKey'
    BY <1>2, <2>2, EnqueueWrites DEF KeyTaken
  <2>3. ASSUME NEW j \in Jobs, RetryJob(j)
        PROVE  OneOpenJobPerKey'
    BY <1>2, <2>3, AdminWrites DEF KeyTaken
  <2> QED
    BY <1>2, <2>1, <2>2, <2>3, OnlyTwoOpen
<1> QED
  BY <1>1, <1>2, DeadIsSpentStep, TypeCorrect, PTL DEF Spec

----------------------------------------------------------------------------
(* No job is stranded without a fault: the lane that made the last claim keeps
   the lease until complete or failJob settles the job. *)
HolderKept(j) == \E l \in Lanes : HoldsLease(l, j)

LEMMA StrandedStep ==
  ASSUME TypeOK, StrandedOnlyByFault, [Next]_vars, faults' = 0, faults = 0
  PROVE  StrandedOnlyByFault'
<1> SUFFICES ASSUME NEW j \in Jobs, Open(j)', rows'[j].attempts = MaxAttempts
             PROVE  HolderKept(j)'
  BY DEF StrandedOnlyByFault, Stranded, HolderKept
<1> USE DEF Open
<1>1. Open(j) /\ rows[j].attempts = MaxAttempts
        => \E l \in Lanes : HoldsLease(l, j)
  BY DEF StrandedOnlyByFault, Stranded
<1>2. CASE Quiet
  BY <1>1, <1>2 DEF Quiet, HolderKept, HoldsLease
<1>3. ASSUME NEW i \in Jobs, NEW q \in Queues, NEW k \in Keys \cup {NoKey},
             NEW due \in BOOLEAN, Enqueue(i, q, k, due)
      PROVE  HolderKept(j)'
  BY <1>1, <1>3, EnqueueWrites, JobQueueAssumption DEF HolderKept, HoldsLease
<1>4. ASSUME NEW l \in Lanes, NEW i \in Jobs, Claim(l, i) \/ ClaimReplyLost(l, i)
      PROVE  HolderKept(j)'
  <2>1. CASE i = j
    BY <1>4, <2>1, ClaimWrites DEF HolderKept, HoldsLease
  <2>2. CASE i # j
    BY <1>1, <1>4, <2>2, ClaimWrites DEF HolderKept, HoldsLease, Claiming
  <2> QED
    BY <2>1, <2>2
<1>5. ASSUME NEW i \in Jobs, RetryJob(i) \/ Supersede(i)
      PROVE  HolderKept(j)'
  BY <1>1, <1>5, AdminWrites, JobQueueAssumption DEF HolderKept, HoldsLease
<1>6. ASSUME NEW l \in Lanes, Complete(l) \/ CompleteReplyLost(l) \/ FailJob(l)
      PROVE  HolderKept(j)'
  <2>1. /\ run[l].job \in Jobs /\ table' = table
        /\ \A m \in Lanes \ {l} : run'[m] = run[m]
        /\ \A i \in Jobs \ {run[l].job} : rows'[i] = rows[i]
        /\ ~Carries(run[l].job, run[l].lease) => rows' = rows
    BY <1>6, SettleWrites
  <2>2. ~(run[l].job = j /\ Carries(j, run[l].lease))
    <3> SUFFICES ASSUME run[l].job = j, Carries(j, run[l].lease) PROVE FALSE
      OBVIOUS
    <3>1. /\ rows'[j].attempts = rows[j].attempts
          /\ rows'[j].done \/ (rows'[j].dead <=> rows[j].attempts >= MaxAttempts)
      BY <1>6, SettleWrites
    <3> QED
      BY <2>1, <3>1, JobQueueAssumption
  <2>3. rows'[j] = rows[j]
    BY <2>1, <2>2
  <2>4. PICK m \in Lanes : HoldsLease(m, j)
    BY <1>1, <2>1, <2>3
  <2>5. m # l
    BY <2>1, <2>2, <2>4 DEF HoldsLease, Carries
  <2> QED
    BY <2>1, <2>3, <2>4, <2>5 DEF HolderKept, HoldsLease
<1> QED
  BY <1>2, <1>3, <1>4, <1>5, <1>6, Writers

\* A fault is never forgotten.
LEMMA FaultsGrow == TypeOK /\ [Next]_vars => faults' >= faults
<1> SUFFICES ASSUME TypeOK, [Next]_vars PROVE faults' \in {faults, faults + 1}
  BY DEF TypeOK
<1>1. ASSUME NEW l \in Lanes, Lane(l) PROVE faults' \in {faults, faults + 1}
  BY <1>1 DEF Lane, Poll, Claim, ClaimReplyLost, ClaimNothing, Beat, Complete,
              CompleteReplyLost, HandlerFails, FailJob, Announce
<1>2. ASSUME NEW j \in Jobs, Table(j) PROVE faults' \in {faults, faults + 1}
  BY <1>2 DEF Table, Enqueue, BecomesDue, LeaseGoesStale, RetryJob, RetryConflict,
              Supersede, SupersedeLost, Prune
<1>3. ASSUME NEW p \in Procs, Process(p) PROVE faults' \in {faults, faults + 1}
  BY <1>3 DEF Process, Abort, Exit, Crash, Boot
<1>4. ASSUME NEW b \in beats, BeatLands(b) \/ BeatLost(b)
      PROVE  faults' \in {faults, faults + 1}
  BY <1>4 DEF BeatLands, BeatLost
<1>5. CASE UNCHANGED vars
  BY <1>5 DEF vars
<1> QED
  BY <1>1, <1>2, <1>3, <1>4, <1>5 DEF Next

\* While nothing failed, a job's last attempt ends in done or dead (claim,
\* failJob): a stranded job is always the trace of a crash or a lost reply.
THEOREM StrandedByFault == Spec => []StrandedOnlyByFault
<1>1. Init => StrandedOnlyByFault
  BY DEF Init, StrandedOnlyByFault, Stranded, Open
<1>2. ASSUME TypeOK, TypeOK', StrandedOnlyByFault, [Next]_vars
      PROVE  StrandedOnlyByFault'
  <2>1. CASE faults' # 0
    BY <2>1 DEF StrandedOnlyByFault
  <2>2. CASE faults' = 0
    <3>1. faults = 0
      BY <1>2, <2>2, FaultsGrow DEF TypeOK
    <3> QED
      BY <1>2, <2>2, <3>1, StrandedStep
  <2> QED
    BY <2>1, <2>2
<1> QED
  BY <1>1, <1>2, TypeCorrect, PTL DEF Spec

\* Everything the runs check of the queue at every moment, for any number of jobs, lanes
\* and faults: leases have one owner, keys one open job, nothing is stranded but by a
\* fault (QueueSafe of claim, fail, retry and enqueue in queue/index.ts).
THEOREM QueueIsSafe == Spec => []QueueSafe
<1>1. TypeOK /\ LeaseExclusive /\ OneOpenJobPerKey /\ StrandedOnlyByFault => QueueSafe
  BY DEF QueueSafe
<1> QED
  BY <1>1, TypeCorrect, LeasesExclusive, OneJobPerKey, StrandedByFault, PTL
----------------------------------------------------------------------------
(* One administrator at a time inside retryJob: between its two statements the job it
   met dead stays closed. *)
SupersedingClosed ==
  /\ IsFiniteSet(superseding)
  /\ \A j \in superseding : j \in issued /\ ~Open(j)

\* Who writes the ids of the table, and who waits to close a job.
LEMMA TableMoves ==
  ASSUME TypeOK, [Next]_vars
  PROVE  /\ \/ table' = table /\ issued' = issued
            \/ \E j \in Jobs, q \in Queues, k \in Keys \cup {NoKey}, due \in BOOLEAN :
                 Enqueue(j, q, k, due)
            \/ \E j \in Jobs : Prune(j)
         /\ \/ superseding' = superseding
            \/ \E j \in Jobs : RetryConflict(j)
            \/ \E j \in superseding : superseding' = superseding \ {j}
<1> DEFINE Same == table' = table /\ issued' = issued /\ superseding' = superseding
<1>1. ASSUME NEW l \in Lanes, Lane(l) PROVE Same
  BY <1>1 DEF Lane, Poll, Claim, ClaimReplyLost, ClaimNothing, Beat, Complete,
              CompleteReplyLost, HandlerFails, FailJob, Announce
<1>2. ASSUME NEW p \in Procs, Process(p) PROVE Same
  BY <1>2 DEF Process, Abort, Exit, Crash, Boot
<1>3. ASSUME NEW b \in beats, BeatLands(b) \/ BeatLost(b) PROVE Same
  BY <1>3 DEF BeatLands, BeatLost
<1>4. ASSUME NEW j \in Jobs, BecomesDue(j) \/ LeaseGoesStale(j) \/ RetryJob(j) PROVE Same
  BY <1>4 DEF BecomesDue, LeaseGoesStale, RetryJob
<1>5. ASSUME NEW j \in Jobs, Supersede(j) \/ SupersedeLost(j)
      PROVE  /\ table' = table /\ issued' = issued /\ j \in superseding
             /\ superseding' = superseding \ {j}
  BY <1>5 DEF Supersede, SupersedeLost
<1>6. ASSUME NEW j \in Jobs, RetryConflict(j) PROVE table' = table /\ issued' = issued
  BY <1>6 DEF RetryConflict
<1>7. ASSUME NEW j \in Jobs, NEW q \in Queues, NEW k \in Keys \cup {NoKey},
             NEW due \in BOOLEAN, Enqueue(j, q, k, due)
      PROVE  superseding' = superseding
  BY <1>7 DEF Enqueue
<1>8. ASSUME NEW j \in Jobs, Prune(j) PROVE superseding' = superseding
  BY <1>8 DEF Prune
<1>9. CASE UNCHANGED vars
  BY <1>9 DEF vars
<1> HIDE DEF Same
<1>10. Same => table' = table /\ issued' = issued /\ superseding' = superseding
  BY DEF Same
<1> QED
  BY <1>1, <1>2, <1>3, <1>4, <1>5, <1>6, <1>7, <1>8, <1>9, <1>10 DEF Next, Table, Same

LEMMA SupersedingStep ==
  ASSUME MaxRetriesInFlight \in {0, 1}, TypeOK, DeadIsSpent, SupersedingClosed, [Next]_vars
  PROVE  SupersedingClosed'
<1>1. IsFiniteSet(superseding)'
  <2>1. ASSUME NEW j \in Jobs, RetryConflict(j) PROVE IsFiniteSet(superseding)'
    BY <2>1, FS_AddElement DEF RetryConflict, SupersedingClosed
  <2>2. ASSUME NEW j \in superseding, superseding' = superseding \ {j}
        PROVE  IsFiniteSet(superseding)'
    BY <2>2, FS_RemoveElement DEF SupersedingClosed
  <2> QED
    BY <2>1, <2>2, TableMoves DEF SupersedingClosed
<1>2. issued \subseteq issued' /\ superseding \subseteq issued
  BY TableMoves DEF Enqueue, Prune, SupersedingClosed
<1>3. ASSUME NEW j \in superseding' PROVE j \in superseding \/ RetryConflict(j)
  BY <1>3, TableMoves DEF RetryConflict
<1>4. ASSUME NEW j \in Jobs, RetryJob(j) PROVE superseding = {} /\ superseding' = {}
  <2>1. Cardinality(superseding) < MaxRetriesInFlight
    BY <1>4 DEF RetryJob, Retriable
  <2>2. Cardinality(superseding) \in Nat
    BY FS_CardinalityType DEF SupersedingClosed
  <2>3. superseding = {}
    BY <2>1, <2>2, FS_EmptySet DEF SupersedingClosed
  <2> QED
    BY <1>4, <2>3 DEF RetryJob
<1>5. ASSUME NEW j \in superseding' PROVE j \in issued' /\ ~Open(j)'
  <2>1. CASE RetryConflict(j)
    BY <2>1 DEF RetryConflict, Retriable, Open, TypeOK
  <2>2. CASE j \in superseding
    <3>1. j \in issued' /\ ~Open(j) /\ j \in Jobs
      BY <1>2, <2>2 DEF SupersedingClosed, TypeOK
    <3>2. ASSUME NEW i \in Jobs, NEW q \in Queues, NEW k \in Keys \cup {NoKey},
                 NEW due \in BOOLEAN, Enqueue(i, q, k, due)
          PROVE  ~Open(j)'
      <4>1. i # j
        BY <1>2, <2>2, <3>2 DEF Enqueue
      <4> QED
        BY <3>1, <3>2, <4>1, EnqueueWrites DEF Open
    <3> QED
      BY <1>4, <1>5, <3>1, <3>2, OnlyTwoOpen
  <2> QED
    BY <1>3, <1>5, <2>1, <2>2
<1> QED
  BY <1>1, <1>5 DEF SupersedingClosed

----------------------------------------------------------------------------
(* JobQueue implements JobLedger. *)

\* A row that carries a lease was claimed in this life.
LeaseMeansAttempt == \A j \in Jobs : rows[j].lease # NoLease => rows[j].attempts > 0

LEMMA LeaseMeansAttemptStep ==
  ASSUME TypeOK, LeaseMeansAttempt, [Next]_vars
  PROVE  LeaseMeansAttempt'
<1> USE DEF LeaseMeansAttempt
<1>1. CASE Quiet
  BY <1>1 DEF Quiet
<1>2. ASSUME NEW i \in Jobs, NEW q \in Queues, NEW k \in Keys \cup {NoKey},
             NEW due \in BOOLEAN, Enqueue(i, q, k, due)
      PROVE  LeaseMeansAttempt'
  <2>1. rows'[i].lease = NoLease
    BY <1>2 DEF Enqueue, TypeOK
  <2> QED
    BY <1>2, <2>1, EnqueueWrites
<1>3. ASSUME NEW l \in Lanes, NEW i \in Jobs, Claim(l, i) \/ ClaimReplyLost(l, i)
      PROVE  LeaseMeansAttempt'
  BY <1>3, ClaimWrites DEF TypeOK, Row
<1>4. ASSUME NEW i \in Jobs, RetryJob(i) PROVE LeaseMeansAttempt'
  <2>1. rows'[i].lease = NoLease
    BY <1>4 DEF RetryJob, TypeOK, Row
  <2> QED
    BY <1>4, <2>1, AdminWrites
<1>5. ASSUME NEW i \in Jobs, Supersede(i) PROVE LeaseMeansAttempt'
  BY <1>5, AdminWrites
<1>6. ASSUME NEW l \in Lanes, Complete(l) \/ CompleteReplyLost(l) \/ FailJob(l)
      PROVE  LeaseMeansAttempt'
  BY <1>6, SettleWrites
<1> QED
  BY <1>1, <1>2, <1>3, <1>4, <1>5, <1>6, Writers

\* What the ledger sees of the queue when only job j moves.
OnlyMoves(j) ==
  \A i \in Jobs \ {j} : /\ State(i)' = State(i)
                        /\ rows'[i].queue = rows[i].queue /\ rows'[i].key = rows[i].key
                        /\ rows'[i].attempts = rows[i].attempts

LEMMA LedgerView ==
  ASSUME NEW j \in Jobs, OnlyMoves(j)
  PROVE  /\ [i \in Jobs |-> State(i)]' = [[i \in Jobs |-> State(i)] EXCEPT ![j] = State(j)']
         /\ [i \in Jobs |-> <<rows[i].queue, rows[i].key>>]'
              = [[i \in Jobs |-> <<rows[i].queue, rows[i].key>>]
                   EXCEPT ![j] = <<rows'[j].queue, rows'[j].key>>]
         /\ [i \in Jobs |-> rows[i].attempts]'
              = [[i \in Jobs |-> rows[i].attempts] EXCEPT ![j] = rows'[j].attempts]
<1>1. [i \in Jobs |-> State(i)]' = [[i \in Jobs |-> State(i)] EXCEPT ![j] = State(j)']
  BY DEF OnlyMoves
<1>2. [i \in Jobs |-> <<rows[i].queue, rows[i].key>>]'
        = [[i \in Jobs |-> <<rows[i].queue, rows[i].key>>]
             EXCEPT ![j] = <<rows'[j].queue, rows'[j].key>>]
  BY DEF OnlyMoves
<1>3. [i \in Jobs |-> rows[i].attempts]'
        = [[i \in Jobs |-> rows[i].attempts] EXCEPT ![j] = rows'[j].attempts]
  BY DEF OnlyMoves
<1> QED
  BY <1>1, <1>2, <1>3

\* A key that nothing open carries is free in the ledger.
LEMMA FreeKey ==
  ASSUME TypeOK, NEW q \in Queues, NEW k \in Keys \cup {NoKey}, ~KeyTaken(q, k)
  PROVE  Ledger!Free(<<q, k>>)
<1>1. CASE k = NoKey
  BY <1>1 DEF Ledger!Free
<1>2. CASE k # NoKey
  <2>1. ASSUME NEW j \in Jobs, State(j) = "open" PROVE Open(j)
    BY <2>1 DEF State, Open
  <2>2. ASSUME NEW j \in Jobs, Open(j) PROVE <<rows[j].queue, rows[j].key>> # <<q, k>>
    BY <1>2, <2>2 DEF KeyTaken
  <2> QED
    BY <2>1, <2>2 DEF Ledger!Free
<1> QED
  BY <1>1, <1>2

\* The moves of one job that the ledger knows, or no move at all.
LEMMA LedgerSteps ==
  ASSUME TypeOK, NEW j \in Jobs, OnlyMoves(j),
         rows'[j].queue = rows[j].queue, rows'[j].key = rows[j].key,
         \/ State(j)' = State(j) /\ rows'[j].attempts = rows[j].attempts
         \/ /\ State(j) = "open" /\ State(j)' = "open" /\ rows[j].attempts < MaxAttempts
            /\ rows'[j].attempts = rows[j].attempts + 1
         \/ /\ State(j) = "open" /\ State(j)' = "done" /\ rows[j].attempts > 0
            /\ rows'[j].attempts = rows[j].attempts
         \/ /\ State(j) = "open" /\ State(j)' = "dead" /\ rows[j].attempts = MaxAttempts
            /\ rows'[j].attempts = rows[j].attempts
         \/ /\ State(j) = "dead" /\ State(j)' = "open" /\ rows'[j].attempts = 0
            /\ ~KeyTaken(rows[j].queue, rows[j].key)
         \/ /\ State(j) = "dead" /\ State(j)' = "done"
            /\ rows'[j].attempts = rows[j].attempts
         \/ /\ State(j) \in {"dead", "done"} /\ State(j)' = "gone"
            /\ rows'[j].attempts = rows[j].attempts
  PROVE  [Ledger!Next]_(Ledger!ledger)
<1> DEFINE st == [i \in Jobs |-> State(i)]
           wk == [i \in Jobs |-> <<rows[i].queue, rows[i].key>>]
           sp == [i \in Jobs |-> rows[i].attempts]
<1>1. /\ st' = [st EXCEPT ![j] = State(j)']
      /\ wk' = wk
      /\ sp' = [sp EXCEPT ![j] = rows'[j].attempts]
      /\ st[j] = State(j) /\ sp[j] = rows[j].attempts
      /\ wk[j] = <<rows[j].queue, rows[j].key>>
  BY LedgerView
<1>2. rows'[j].attempts = rows[j].attempts => sp' = sp
  BY <1>1
<1>3. CASE State(j)' = State(j) /\ rows'[j].attempts = rows[j].attempts
  <2>1. st' = st /\ wk' = wk /\ sp' = sp
    BY <1>1, <1>2, <1>3
  <2> QED
    BY <2>1 DEF Ledger!ledger
<1>4. CASE /\ State(j) = "open" /\ State(j)' = "open" /\ rows[j].attempts < MaxAttempts
           /\ rows'[j].attempts = rows[j].attempts + 1
  <2>1. st' = st
    BY <1>1, <1>4
  <2>2. Ledger!Start(j)
    BY <1>1, <1>4, <2>1 DEF Ledger!Start
  <2> QED
    BY <2>2 DEF Ledger!Next
<1>5. CASE /\ State(j) = "open" /\ State(j)' = "done" /\ rows[j].attempts > 0
           /\ rows'[j].attempts = rows[j].attempts
  <2>1. Ledger!Finish(j)
    BY <1>1, <1>2, <1>5 DEF Ledger!Finish
  <2> QED
    BY <2>1 DEF Ledger!Next
<1>6. CASE /\ State(j) = "open" /\ State(j)' = "dead" /\ rows[j].attempts = MaxAttempts
           /\ rows'[j].attempts = rows[j].attempts
  <2>1. Ledger!GiveUp(j)
    BY <1>1, <1>2, <1>6 DEF Ledger!GiveUp
  <2> QED
    BY <2>1 DEF Ledger!Next
<1>7. CASE /\ State(j) = "dead" /\ State(j)' = "open" /\ rows'[j].attempts = 0
           /\ ~KeyTaken(rows[j].queue, rows[j].key)
  <2>1. Ledger!Free(wk[j])
    <3>1. rows[j].queue \in Queues /\ rows[j].key \in Keys \cup {NoKey}
      BY DEF TypeOK, Row
    <3>2. Ledger!Free(<<rows[j].queue, rows[j].key>>)
      BY <1>7, <3>1, FreeKey
    <3> QED
      BY <1>1, <3>2
  <2>2. Ledger!Revive(j)
    BY <1>1, <1>7, <2>1 DEF Ledger!Revive
  <2> QED
    BY <2>2 DEF Ledger!Next
<1>8. CASE /\ State(j) = "dead" /\ State(j)' = "done"
           /\ rows'[j].attempts = rows[j].attempts
  <2>1. Ledger!Close(j)
    BY <1>1, <1>2, <1>8 DEF Ledger!Close
  <2> QED
    BY <2>1 DEF Ledger!Next
<1>9. CASE /\ State(j) \in {"dead", "done"} /\ State(j)' = "gone"
           /\ rows'[j].attempts = rows[j].attempts
  <2>1. Ledger!Delete(j)
    BY <1>1, <1>2, <1>9 DEF Ledger!Delete
  <2> QED
    BY <2>1 DEF Ledger!Next
<1> QED
  BY <1>3, <1>4, <1>5, <1>6, <1>7, <1>8, <1>9

\* Every step of the queue is a step of the ledger or none.
LEMMA LedgerStep ==
  ASSUME MaxRetriesInFlight \in {0, 1}, TypeOK, DeadIsSpent, LeaseMeansAttempt,
         SupersedingClosed, [Next]_vars
  PROVE  [Ledger!Next]_(Ledger!ledger)
<1> USE DEF State
<1>1. ASSUME NEW j \in Jobs, NEW q \in Queues, NEW k \in Keys \cup {NoKey},
             NEW due \in BOOLEAN, Enqueue(j, q, k, due)
      PROVE  [Ledger!Next]_(Ledger!ledger)
  <2>1. /\ j \notin issued /\ issued' = issued \cup {j}
      BY <1>1 DEF Enqueue
  <2>2. /\ State(j) = "none" /\ State(j)' = "open" /\ OnlyMoves(j)
        /\ rows'[j].queue = q /\ rows'[j].key = k /\ rows'[j].attempts = 0
        /\ ~KeyTaken(q, k)
    BY <1>1, <2>1, EnqueueWrites DEF OnlyMoves, TypeOK
  <2>3. Ledger!Free(<<q, k>>)
    BY <2>2, FreeKey
  <2>4. <<q, k>> \in Queues \X (Keys \cup {NoKey})
    OBVIOUS
  <2>5. Ledger!Add(j, <<q, k>>)
    <3> HIDE DEF State
    <3> QED
      BY <2>2, <2>3, LedgerView DEF Ledger!Add
  <2> QED
    BY <2>4, <2>5 DEF Ledger!Next
<1>2. ASSUME NEW j \in Jobs, Prune(j) PROVE [Ledger!Next]_(Ledger!ledger)
  <2>1. /\ rows' = rows /\ issued' = issued /\ j \in table /\ table' = table \ {j}
        /\ rows[j].done \/ rows[j].dead
    BY <1>2 DEF Prune
  <2>2. /\ OnlyMoves(j) /\ State(j) \in {"dead", "done"} /\ State(j)' = "gone"
    BY <2>1 DEF OnlyMoves, TypeOK
  <2> QED
    BY <2>1, <2>2, LedgerSteps
<1>3. ASSUME table' = table, issued' = issued, NEW j \in Jobs,
             \A i \in Jobs \ {j} : /\ rows'[i].done = rows[i].done
                                   /\ rows'[i].dead = rows[i].dead
                                   /\ rows'[i].queue = rows[i].queue
                                   /\ rows'[i].key = rows[i].key
                                   /\ rows'[i].attempts = rows[i].attempts
      PROVE  OnlyMoves(j)
  BY <1>3 DEF OnlyMoves
<1>4. CASE Quiet /\ table' = table /\ issued' = issued
  <2>1. CASE Jobs = {}
    <3>1. /\ [i \in Jobs |-> State(i)]' = [i \in Jobs |-> State(i)]
          /\ [i \in Jobs |-> <<rows[i].queue, rows[i].key>>]'
               = [i \in Jobs |-> <<rows[i].queue, rows[i].key>>]
          /\ [i \in Jobs |-> rows[i].attempts]' = [i \in Jobs |-> rows[i].attempts]
      BY <2>1
    <3> QED
      BY <3>1 DEF Ledger!ledger
  <2>2. ASSUME NEW j \in Jobs PROVE [Ledger!Next]_(Ledger!ledger)
    <3>1. OnlyMoves(j)
      BY <1>3, <1>4 DEF Quiet
    <3>2. /\ State(j)' = State(j) /\ rows'[j].attempts = rows[j].attempts
          /\ rows'[j].queue = rows[j].queue /\ rows'[j].key = rows[j].key
      BY <1>4 DEF Quiet
    <3> QED
      BY <3>1, <3>2, LedgerSteps
  <2> QED
    BY <2>1, <2>2
<1>5. ASSUME NEW l \in Lanes, NEW j \in Jobs, Claim(l, j) \/ ClaimReplyLost(l, j)
      PROVE  [Ledger!Next]_(Ledger!ledger)
  <2>1. issued' = issued
    BY <1>5 DEF Claim, ClaimReplyLost
  <2>2. OnlyMoves(j)
    BY <1>3, <1>5, <2>1, ClaimWrites
  <2>3. /\ State(j) = "open" /\ State(j)' = "open" /\ rows[j].attempts < MaxAttempts
        /\ rows'[j].attempts = rows[j].attempts + 1
        /\ rows'[j].queue = rows[j].queue /\ rows'[j].key = rows[j].key
    BY <1>5, <2>1, ClaimWrites DEF Claimable, Open, TypeOK
  <2> QED
    BY <2>2, <2>3, LedgerSteps
<1>6. ASSUME NEW j \in Jobs, RetryJob(j) PROVE [Ledger!Next]_(Ledger!ledger)
  <2>1. issued' = issued /\ j \in table /\ rows[j].dead
    BY <1>6 DEF RetryJob, Retriable
  <2>2. OnlyMoves(j)
    BY <1>3, <1>6, <2>1, AdminWrites
  <2>3. /\ State(j) = "dead" /\ State(j)' = "open" /\ rows'[j].attempts = 0
        /\ ~KeyTaken(rows[j].queue, rows[j].key)
        /\ rows'[j].queue = rows[j].queue /\ rows'[j].key = rows[j].key
    BY <1>6, <2>1, AdminWrites DEF TypeOK
  <2> QED
    BY <2>2, <2>3, LedgerSteps
<1>7. ASSUME NEW j \in Jobs, Supersede(j) PROVE [Ledger!Next]_(Ledger!ledger)
  <2>1. issued' = issued /\ (j \notin table => rows' = rows)
    BY <1>7 DEF Supersede
  <2>2. OnlyMoves(j)
    BY <1>3, <1>7, <2>1, AdminWrites
  <2>3. /\ j \in issued /\ ~Open(j)
    BY <1>7, AdminWrites DEF SupersedingClosed
  <2>4. /\ rows'[j].queue = rows[j].queue /\ rows'[j].key = rows[j].key
        /\ rows'[j].attempts = rows[j].attempts
    BY <1>7, AdminWrites
  <2>5. /\ table' = table
        /\ rows'[j].dead = rows[j].dead
        /\ rows' = rows \/ (rows'[j].done /\ ~rows[j].done)
    BY <1>7, AdminWrites
  <2>6. State(j)' = State(j) \/ (State(j) = "dead" /\ State(j)' = "done")
    BY <2>1, <2>3, <2>5 DEF Open
  <2> QED
    BY <2>2, <2>4, <2>6, LedgerSteps
<1>8. ASSUME NEW l \in Lanes, Complete(l) \/ CompleteReplyLost(l) \/ FailJob(l)
      PROVE  [Ledger!Next]_(Ledger!ledger)
  <2>0. PICK j \in Jobs : j = run[l].job
    BY <1>8, SettleWrites
  <2>1. issued' = issued /\ table' = table
    BY <1>8, SettleWrites DEF Complete, CompleteReplyLost, FailJob
  <2>2. OnlyMoves(j)
    BY <1>3, <1>8, <2>0, <2>1, SettleWrites
  <2>3. /\ rows'[j].queue = rows[j].queue /\ rows'[j].key = rows[j].key
        /\ rows'[j].attempts = rows[j].attempts
        /\ rows[j].done => rows'[j].done
    BY <1>8, <2>0, SettleWrites
  <2>4. CASE ~Carries(j, run[l].lease)
    <3>1. rows' = rows
      BY <1>8, <2>0, <2>4, SettleWrites
    <3>2. State(j)' = State(j)
      BY <2>1, <3>1
    <3> QED
      BY <2>1, <2>2, <2>3, <3>2, LedgerSteps
  <2>5. CASE Carries(j, run[l].lease)
    <3>1. run[l].lease \in Leases
      <4>1. run[l] \in {Idle, Claiming} \cup Held /\ run[l].phase \in Active
        BY <1>8, SettleWrites DEF TypeOK, Active
      <4> QED
        BY <4>1, RunShape
    <3>2. rows[j].attempts > 0 /\ j \in table /\ j \in issued
      BY <2>1, <2>5, <3>1 DEF Carries, LeaseMeansAttempt, Leases, NoLease, TypeOK
    <3>3. \/ rows'[j].done /\ rows'[j].dead = rows[j].dead
          \/ (rows'[j].dead <=> rows[j].attempts >= MaxAttempts)
      BY <1>8, <2>0, <2>5, SettleWrites
    <3>4. rows[j].attempts \in 0 .. MaxAttempts /\ MaxAttempts \in Nat
      BY <2>1, JobQueueAssumption DEF TypeOK, Row
    <3>5. rows[j].dead => rows[j].attempts >= MaxAttempts
      BY <2>1 DEF DeadIsSpent
    <3>6. \/ State(j)' = State(j)
          \/ State(j) = "open" /\ State(j)' = "done"
          \/ State(j) = "open" /\ State(j)' = "dead" /\ rows[j].attempts = MaxAttempts
          \/ State(j) = "dead" /\ State(j)' = "done"
      BY <2>1, <2>3, <3>2, <3>3, <3>4, <3>5
    <3> QED
      BY <2>1, <2>2, <2>3, <3>2, <3>6, LedgerSteps
  <2> QED
    BY <2>4, <2>5
<1>9. \/ Quiet /\ table' = table /\ issued' = issued
      \/ \E j \in Jobs, q \in Queues, k \in Keys \cup {NoKey}, due \in BOOLEAN :
           Enqueue(j, q, k, due)
      \/ \E j \in Jobs : Prune(j)
      \/ \E l \in Lanes, j \in Jobs : Claim(l, j) \/ ClaimReplyLost(l, j)
      \/ \E l \in Lanes : Complete(l) \/ CompleteReplyLost(l) \/ FailJob(l)
      \/ \E j \in Jobs : RetryJob(j) \/ Supersede(j)
  BY Writers, TableMoves
<1> QED
  BY <1>1, <1>2, <1>4, <1>5, <1>6, <1>7, <1>8, <1>9

\* The queue keeps the promises of the ledger, with any number of workers, leases and
\* faults: whatever enqueue, claim, complete, failJob, retryJob and the prunings do is
\* an accepted, started, finished, abandoned, revived, closed or deleted piece of work.
\* One administrator at a time is inside retryJob (queue/index.ts:429).
THEOREM ImplementsLedger ==
  ASSUME MaxRetriesInFlight \in {0, 1}
  PROVE  Spec => LedgerSpec
<1>1. Init => DeadIsSpent /\ LeaseMeansAttempt /\ SupersedingClosed
  BY FS_EmptySet DEF Init, DeadIsSpent, LeaseMeansAttempt, SupersedingClosed
<1>2. Init => Ledger!Init
  <2> SUFFICES ASSUME Init PROVE Ledger!Init
    OBVIOUS
  <2>1. TypeOK
    BY InitTypeOK
  <2>2. [j \in Jobs |-> State(j)] = [j \in Jobs |-> "none"]
    BY DEF Init, State
  <2>3. [j \in Jobs |-> <<rows[j].queue, rows[j].key>>]
          \in [Jobs -> Queues \X (Keys \cup {NoKey})]
    BY <2>1 DEF TypeOK, Row
  <2>4. [j \in Jobs |-> rows[j].attempts] = [j \in Jobs |-> 0]
    BY DEF Init
  <2> QED
    BY <2>2, <2>3, <2>4 DEF Ledger!Init
<1>3. /\ TypeOK /\ DeadIsSpent /\ LeaseMeansAttempt /\ SupersedingClosed /\ [Next]_vars
      => /\ (DeadIsSpent /\ LeaseMeansAttempt /\ SupersedingClosed)'
         /\ [Ledger!Next]_(Ledger!ledger)
  BY DeadIsSpentStep, LeaseMeansAttemptStep, SupersedingStep, LedgerStep
<1> QED
  BY <1>1, <1>2, <1>3, TypeCorrect, PTL DEF Spec, LedgerSpec, Ledger!Spec

----------------------------------------------------------------------------
(* False deaths.  Who settles a job lets go of its lease in the same step, so nobody is
   left who could declare a done job dead, unless the reply of complete was lost. *)
SettledIsLeft ==
  \A j \in Jobs, l \in Lanes :
     HoldsLease(l, j) => ~rows[j].dead /\ (faults = 0 => ~rows[j].done)

LEMMA SettledIsLeftStep ==
  ASSUME MaxRetriesInFlight \in {0, 1}, TypeOK, TypeOK', LeasesDistinct, SupersedingClosed,
         SettledIsLeft, [Next]_vars
  PROVE  SettledIsLeft'
<1> USE DEF HoldsLease
<1>0. faults' = 0 => faults = 0
  BY FaultsGrow DEF TypeOK
<1>1. CASE Quiet
  BY <1>0, <1>1 DEF Quiet, SettledIsLeft
<1>2. ASSUME NEW i \in Jobs, NEW q \in Queues, NEW k \in Keys \cup {NoKey},
             NEW due \in BOOLEAN, Enqueue(i, q, k, due)
      PROVE  SettledIsLeft'
  BY <1>2, EnqueueWrites DEF SettledIsLeft
<1>3. ASSUME NEW l \in Lanes, NEW i \in Jobs, Claim(l, i) \/ ClaimReplyLost(l, i)
      PROVE  SettledIsLeft'
  <2>1. ~rows'[i].dead /\ ~rows'[i].done
    BY <1>3, ClaimWrites DEF Claimable, Open
  <2>2. ASSUME NEW j \in Jobs \ {i}, NEW m \in Lanes, HoldsLease(m, j)'
        PROVE  HoldsLease(m, j) /\ rows'[j] = rows[j]
    <3>1. m # l
      BY <1>3, <2>2, ClaimWrites DEF Idle
    <3> QED
      BY <1>3, <2>2, <3>1, ClaimWrites
  <2> QED
    BY <1>0, <2>1, <2>2 DEF SettledIsLeft
<1>4. ASSUME NEW i \in Jobs, RetryJob(i) PROVE SettledIsLeft'
  BY <1>4, AdminWrites DEF SettledIsLeft
<1>5. ASSUME NEW i \in Jobs, Supersede(i) PROVE SettledIsLeft'
  <2>1. CASE rows' = rows
    BY <1>5, <2>1, AdminWrites DEF SettledIsLeft
  <2>2. CASE rows' # rows
    <3>1. i \in table /\ ~rows[i].done /\ i \in superseding
      BY <1>5, <2>2 DEF Supersede
    <3>2. rows[i].dead
      BY <3>1 DEF SupersedingClosed, Open
    <3>3. ASSUME NEW m \in Lanes PROVE ~HoldsLease(m, i)
      BY <3>2 DEF SettledIsLeft
    <3>4. /\ run' = run /\ faults' = faults /\ rows'[i].lease = rows[i].lease
          /\ \A j \in Jobs \ {i} : rows'[j] = rows[j]
      BY <1>5, AdminWrites
    <3> QED
      BY <3>3, <3>4 DEF SettledIsLeft
  <2> QED
    BY <2>1, <2>2
<1>6. ASSUME NEW l \in Lanes, Complete(l) \/ CompleteReplyLost(l) \/ FailJob(l)
      PROVE  SettledIsLeft'
  <2>1. PICK i \in Jobs : i = run[l].job
    BY <1>6, SettleWrites
  <2>2. /\ run[l].phase \in {"running", "failing"}
        /\ \A m \in Lanes \ {l} : run'[m] = run[m]
        /\ \A j \in Jobs \ {i} : rows'[j] = rows[j]
        /\ ~Carries(i, run[l].lease) => rows' = rows
        /\ rows'[i].lease = rows[i].lease
    BY <1>6, <2>1, SettleWrites
  <2>3. ASSUME NEW j \in Jobs, NEW m \in Lanes \ {l}, HoldsLease(m, j)'
        PROVE  HoldsLease(m, j) /\ rows'[j] = rows[j]
    <3>1. HoldsLease(m, j)
      BY <2>2, <2>3
    <3>2. CASE i = j /\ Carries(i, run[l].lease)
      <4>1. /\ run[m].phase \in Active /\ run[l].phase \in Active
            /\ run[m].job = run[l].job /\ run[m].lease = run[l].lease
        BY <2>1, <2>2, <3>1, <3>2 DEF Carries, Active
      <4>2. m = l
        BY <4>1 DEF LeasesDistinct
      <4> QED
        BY <4>2
    <3> QED
      BY <2>2, <3>1, <3>2
  <2>4. CASE Complete(l) \/ FailJob(l)
    <3>1. run'[l].phase \notin {"running", "failing"}
      <4>1. CASE Complete(l)
        BY <4>1 DEF Complete, Idle, TypeOK
      <4>2. CASE FailJob(l)
        <5>1. [run[l] EXCEPT !.phase = "announcing"].phase = "announcing"
          <6>1. run[l] \in {Idle, Claiming} \cup Held /\ run[l].phase \in Active
            BY <2>2 DEF TypeOK, Active
          <6> QED
            BY <6>1, RunShape DEF Active
        <5>2. run'[l] = Idle \/ run'[l] = [run[l] EXCEPT !.phase = "announcing"]
          BY <4>2 DEF FailJob, TypeOK
        <5>3. Idle.phase = "idle"
          BY DEF Idle
        <5> QED
          BY <5>1, <5>2, <5>3
      <4> QED
        BY <2>4, <4>1, <4>2
    <3> QED
      BY <1>0, <2>3, <3>1 DEF SettledIsLeft
  <2>5. CASE CompleteReplyLost(l)
    <3>1. faults' # 0
      BY <2>5 DEF CompleteReplyLost, TypeOK
    <3>2. rows'[i].dead = rows[i].dead
      BY <2>1, <2>5 DEF CompleteReplyLost, Completed, TypeOK, Row
    <3>3. run[l].phase \in Active /\ run[l] \in {Idle, Claiming} \cup Held
      BY <2>2 DEF TypeOK, Active
    <3>4. run'[l].job = run[l].job /\ run'[l].lease = run[l].lease
      <4>1. run'[l] = [run[l] EXCEPT !.phase = "failing"]
        BY <2>5 DEF CompleteReplyLost, TypeOK
      <4> QED
        BY <3>3, <4>1, RunShape DEF Active
    <3>5. ASSUME NEW j \in Jobs, HoldsLease(l, j)' PROVE ~rows'[j].dead
      <4>1. HoldsLease(l, j) /\ j = i
        BY <2>1, <2>2, <3>4, <3>5
      <4> QED
        BY <3>2, <4>1 DEF SettledIsLeft
    <3> QED
      BY <2>3, <3>1, <3>5 DEF SettledIsLeft
  <2> QED
    BY <1>6, <2>4, <2>5
<1> QED
  BY <1>1, <1>2, <1>3, <1>4, <1>5, <1>6, Writers

\* No death of a done job is announced while no reply was lost (failJob decides by what
\* its UPDATE returned), with any number of runs of one job and one administrator at a
\* time inside retryJob.
THEOREM ObituariesAreTrue ==
  ASSUME MaxRetriesInFlight \in {0, 1}
  PROVE  Spec => NoFalseObituary
<1> DEFINE Inv == /\ TypeOK /\ LeasesDistinct /\ DeadIsSpent /\ SupersedingClosed
                  /\ SettledIsLeft
<1>1. Init => Inv
  <2> SUFFICES ASSUME Init PROVE Inv
    OBVIOUS
  <2>1. SupersedingClosed /\ DeadIsSpent
    BY FS_EmptySet DEF Init, SupersedingClosed, DeadIsSpent
  <2>2. LeasesDistinct /\ SettledIsLeft
    BY DEF Init, LeasesDistinct, SettledIsLeft, HoldsLease, Idle, Active, NoLease
  <2> QED
    BY <2>1, <2>2, InitTypeOK
<1>2. Inv /\ [Next]_vars => Inv'
  BY TypeStep, LeasesStep, DeadIsSpentStep, SupersedingStep, SettledIsLeftStep
<1>3. Inv /\ [Next]_vars
        => \A l \in Lanes :
             (run[l].phase = "failing" /\ run'[l].phase = "announcing" /\ faults = 0)
               => ~rows[run[l].job].done
  <2> SUFFICES ASSUME Inv, [Next]_vars, NEW l \in Lanes,
                      run[l].phase = "failing", run'[l].phase = "announcing", faults = 0
               PROVE  ~rows[run[l].job].done
    OBVIOUS
  <2>1. ~Quiet
    BY DEF Quiet
  <2>2. ASSUME NEW m \in Lanes, NEW i \in Jobs, Claim(m, i) \/ ClaimReplyLost(m, i)
        PROVE  FALSE
    BY <2>2, ClaimWrites DEF Idle, Claiming
  <2>3. ASSUME NEW i \in Jobs, NEW q \in Queues, NEW k \in Keys \cup {NoKey},
               NEW due \in BOOLEAN, Enqueue(i, q, k, due)
        PROVE  FALSE
    BY <2>3, EnqueueWrites
  <2>4. ASSUME NEW i \in Jobs, RetryJob(i) \/ Supersede(i) PROVE FALSE
    BY <2>4, AdminWrites
  <2>5. ASSUME NEW m \in Lanes, Complete(m) \/ CompleteReplyLost(m) PROVE FALSE
    BY <2>5 DEF Complete, CompleteReplyLost, TypeOK, Idle
  <2>6. ASSUME NEW m \in Lanes, FailJob(m) PROVE m = l /\ Carries(run[l].job, run[l].lease)
    BY <2>6 DEF FailJob, TypeOK, Idle
  <2>7. Carries(run[l].job, run[l].lease)
    BY <2>1, <2>2, <2>3, <2>4, <2>5, <2>6, Writers
  <2>8. run[l].job \in Jobs /\ HoldsLease(l, run[l].job)
    <3>1. run[l] \in {Idle, Claiming} \cup Held /\ run[l].phase \in Active
      BY DEF TypeOK, Active
    <3> QED
      BY <2>7, <3>1, RunShape DEF HoldsLease, Carries
  <2> QED
    BY <2>8 DEF SettledIsLeft
<1> QED
  BY <1>1, <1>2, <1>3, PTL DEF Spec, NoFalseObituary
=============================================================================
