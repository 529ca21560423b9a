----------------------------- MODULE JobLedger -----------------------------
(* What the job queue promises to the rest of the application, with no
   leases, workers, heartbeats or faults in sight: a piece of work is open
   until it is done or has used its budget of attempts; the budget is never
   exceeded; at most one job is open for a dedupe key.  JobQueue implements
   it. *)
EXTENDS Naturals

CONSTANTS Jobs,         \* job ids
          Work,         \* what a job is for: a queue and a dedupe key
          Unkeyed,      \* the members of Work that carry no dedupe key
          MaxAttempts   \* jobs.max_attempts

VARIABLES state,   \* "none", "open", "dead", "done", "gone"
          work,    \* what the job is for
          spent    \* attempts started since the job was created or revived

ledger == <<state, work, spent>>

Free(w) == w \in Unkeyed \/ \A j \in Jobs : state[j] = "open" => work[j] # w

Init == /\ state = [j \in Jobs |-> "none"]
        /\ work \in [Jobs -> Work]
        /\ spent = [j \in Jobs |-> 0]

\* Work is asked for and accepted, because nothing open is for the same key.
Add(j, w) == /\ state[j] = "none"
             /\ Free(w)
             /\ state' = [state EXCEPT ![j] = "open"]
             /\ work' = [work EXCEPT ![j] = w]
             /\ spent' = [spent EXCEPT ![j] = 0]

Start(j) == /\ state[j] = "open"
            /\ spent[j] < MaxAttempts
            /\ spent' = [spent EXCEPT ![j] = @ + 1]
            /\ UNCHANGED <<state, work>>

\* Only work that was started at least once can be reported done.
Finish(j) == /\ state[j] = "open"
             /\ spent[j] > 0
             /\ state' = [state EXCEPT ![j] = "done"]
             /\ UNCHANGED <<work, spent>>

GiveUp(j) == /\ state[j] = "open"
             /\ spent[j] = MaxAttempts
             /\ state' = [state EXCEPT ![j] = "dead"]
             /\ UNCHANGED <<work, spent>>

Revive(j) == /\ state[j] = "dead"
             /\ Free(work[j])
             /\ state' = [state EXCEPT ![j] = "open"]
             /\ spent' = [spent EXCEPT ![j] = 0]
             /\ UNCHANGED work

\* A dead job is closed: its work was accepted again in the meantime.
Close(j) == /\ state[j] = "dead"
            /\ state' = [state EXCEPT ![j] = "done"]
            /\ UNCHANGED <<work, spent>>

Delete(j) == /\ state[j] \in {"dead", "done"}
             /\ state' = [state EXCEPT ![j] = "gone"]
             /\ UNCHANGED <<work, spent>>

Next == \E j \in Jobs : \/ \E w \in Work : Add(j, w)
                        \/ Start(j) \/ Finish(j) \/ GiveUp(j)
                        \/ Revive(j) \/ Close(j) \/ Delete(j)

Spec == Init /\ [][Next]_ledger
=============================================================================
