-------------------------- MODULE PersistentMessage --------------------------
(* One record of persistent_messages and the Discord message it stands for:
   the periodic worker, the administrator's "refresh now" and "send again", and
   the database lock between them
   (src/apps/api/src/modules/discord/persistent-messages.ts).

   A caller reads the row, renders the content, and only then asks for the
   lock; from there on it works with the row it read.  Every database
   statement and every call to Discord is an action of its own. *)
EXTENDS Naturals, FiniteSets

CONSTANTS Workers, Admins,   \* callers that poll for due rows, callers that force
          OwnerOf,           \* locked_by of each caller: the process id, as text
          Contents,          \* what can be rendered
          MAX_FAILURES,
          None

\* Bounds of the model, not of the code.
CONSTANTS MaxFaults,     \* crashes, lost replies and refused deletions, together
          MaxExpiries,   \* locks that outlive LOCK_MS
          MaxMessages,   \* messages ever sent
          MaxChanges,    \* changes of the data the message shows
          MaxDeletions   \* messages deleted by hand in Discord

\* A caller in both sets does one thing at a time.
Callers == Workers \cup Admins
Owners == {OwnerOf[c] : c \in Callers}
Messages == 1 .. MaxMessages        \* Discord ids, in the order of sending

ASSUME PersistentMessageAssumption ==
  /\ DOMAIN OwnerOf = Callers
  /\ None \notin Nat \cup Contents \cup Owners
  /\ MAX_FAILURES \in Nat \ {0}
  /\ {MaxFaults, MaxExpiries, MaxMessages, MaxChanges, MaxDeletions} \subseteq Nat

VARIABLES rec,       \* the row: message_id, last_rendered_hash, failure_count
          lock,      \* locked_by, and whether locked_until is still ahead
          channel,   \* the messages in the channel and what they show
          truth,     \* the live data the message is rendered from
          call,      \* what each caller is doing, and the row it read
          orphans,   \* history: messages let go of for a named reason (see below)
          faults, expiries, changes, deletions

vars == <<rec, lock, channel, truth, call, faults, expiries, changes, deletions, orphans>>

NoMessage == [state |-> "unused", shows |-> None]
Free == [by |-> None, live |-> FALSE]

\* The steps of syncMessage between acquireLock and releaseLock.
Section == {"skip", "check", "send", "edit", "record", "fail", "release"}

\* sent is the id Discord answered with; fatal, that the error is not retryable.
Idle == [pc |-> "idle", force |-> FALSE, msg |-> None, hash |-> None,
         payload |-> None, sent |-> None, fatal |-> FALSE]

Init == /\ rec = [msg |-> None, hash |-> None, failures |-> 0]
        /\ lock = Free
        /\ channel = [m \in Messages |-> NoMessage]
        /\ truth \in Contents
        /\ call = [c \in Callers |-> Idle]
        /\ orphans = {}
        /\ faults = 0 /\ expiries = 0 /\ changes = 0 /\ deletions = 0

\* The caller goes on: to a step, with the id Discord answered, to failRecord.
Go(c, pc) == call' = [call EXCEPT ![c] = [@ EXCEPT !.pc = pc]]
Sent(c, m) == call' = [call EXCEPT ![c] = [@ EXCEPT !.pc = "record", !.sent = m]]
Give(c, fatal) == call' = [call EXCEPT ![c] = [@ EXCEPT !.pc = "fail", !.fatal = fatal]]

Live(m) == m # None /\ channel[m].state = "live"
Fault == faults < MaxFaults /\ faults' = faults + 1

\* A message without a record: its caller was not answered, or died, or failed to write or
\* to remove it.  Or its id was written over by a caller that had read another one.
Leaves(m) == orphans' = orphans \cup {m}
WritesOver(c) == orphans' = IF rec.msg # call[c].msg THEN orphans \cup {rec.msg} ELSE orphans

----------------------------------------------------------------------------
\* The row is read and rendered; pc is where the caller goes with it.
Read(c, force, pc) ==
  call' = [call EXCEPT ![c] = [Idle EXCEPT !.pc = pc, !.force = force,
                                          !.msg = rec.msg, !.hash = rec.hash,
                                          !.payload = truth]]

\* due and isDue: the worker takes the row unless it failed too often or a lock
\* is on it.  The intervals of isDue only delay it.
ReadDue(c) ==
  /\ c \in Workers /\ call[c].pc = "idle"
  /\ rec.failures < MAX_FAILURES
  /\ ~lock.live
  /\ Read(c, FALSE, "locking")
  /\ UNCHANGED <<rec, lock, channel, truth, faults, expiries, changes, deletions, orphans>>

\* "Refresh now": findById, renderMessage, syncMessage with force.
ReadForced(c) ==
  /\ c \in Admins /\ call[c].pc = "idle"
  /\ Read(c, TRUE, "locking")
  /\ UNCHANGED <<rec, lock, channel, truth, faults, expiries, changes, deletions, orphans>>

\* Mutant of ReadRecreate: the old message is forgotten and not removed.
ReadRecreateForgets(c) ==
  /\ c \in Admins /\ call[c].pc = "idle"
  /\ Read(c, TRUE, "forget")
  /\ UNCHANGED <<rec, lock, channel, truth, faults, expiries, changes, deletions, orphans>>

\* "Send again": recreateMessage removes the old message first, if there is one.
ReadRecreate(c) ==
  /\ c \in Admins /\ call[c].pc = "idle"
  /\ Read(c, TRUE, IF rec.msg = None THEN "forget" ELSE "remove")
  /\ UNCHANGED <<rec, lock, channel, truth, faults, expiries, changes, deletions, orphans>>

\* acquireLock found the lock held: "locked_out".
TurnedAway(c) ==
  /\ call[c].pc = "locking"
  /\ lock.live
  /\ call' = [call EXCEPT ![c] = Idle]
  /\ UNCHANGED <<rec, lock, channel, truth, faults, expiries, changes, deletions, orphans>>

\* Mutant of Acquire: the lock is taken from whoever holds it.
AcquireAlways(c) ==
  /\ call[c].pc = "locking"
  /\ lock' = [by |-> OwnerOf[c], live |-> TRUE]
  /\ Go(c, IF call[c].msg = None THEN "check"
           ELSE IF ~call[c].force /\ call[c].hash = call[c].payload THEN "skip"
           ELSE "edit")
  /\ UNCHANGED <<rec, channel, truth, faults, expiries, changes, deletions, orphans>>

\* acquireLock, and the branch that the row READ BEFORE it leads to.
Acquire(c) ==
  /\ call[c].pc = "locking"
  /\ ~lock.live
  /\ lock' = [by |-> OwnerOf[c], live |-> TRUE]
  /\ Go(c, IF call[c].msg = None THEN "check"
           ELSE IF ~call[c].force /\ call[c].hash = call[c].payload THEN "skip"
           ELSE "edit")
  /\ UNCHANGED <<rec, channel, truth, faults, expiries, changes, deletions, orphans>>

\* The content did not change: only last_updated_at is written.
Skip(c) ==
  /\ call[c].pc = "skip"
  /\ \/ Go(c, "release") /\ UNCHANGED faults
     \/ Go(c, "fail") /\ Fault
  /\ UNCHANGED <<rec, lock, channel, truth, expiries, changes, deletions, orphans>>

----------------------------------------------------------------------------
\* sameGuild and canPost, before any send.
MaySend(c) ==
  /\ call[c].pc = "check"
  /\ \/ Go(c, "send")
     \/ Give(c, TRUE)         \* the channel is another guild's
     \/ Give(c, FALSE)        \* the bot may not post there
  /\ UNCHANGED <<rec, lock, channel, truth, faults, expiries, changes, deletions, orphans>>

\* client.send: a new message appears; its answer may be lost.
Send(c) ==
  /\ call[c].pc = "send"
  /\ \E m \in Messages :
       /\ channel[m].state = "unused"
       /\ \A n \in 1 .. m - 1 : channel[n].state # "unused"
       /\ channel' = [channel EXCEPT ![m] = [state |-> "live", shows |-> call[c].payload]]
       /\ \/ /\ Sent(c, m)
             /\ UNCHANGED <<faults, orphans>>
          \/ Fault /\ Go(c, "fail") /\ Leaves(m)
  /\ UNCHANGED <<rec, lock, truth, expiries, changes, deletions>>

\* client.edit of the message the caller read about; its answer may be lost.
Edit(c) ==
  /\ call[c].pc = "edit"
  /\ \/ /\ Live(call[c].msg)
        /\ channel' = [channel EXCEPT ![call[c].msg].shows = call[c].payload]
        /\ \/ /\ Sent(c, call[c].msg)
              /\ UNCHANGED faults
           \/ Fault /\ Go(c, "fail")
     \/ /\ ~Live(call[c].msg)            \* 10008, message_not_found
        /\ Go(c, "check")
        /\ UNCHANGED <<channel, faults>>
  /\ UNCHANGED <<rec, lock, truth, expiries, changes, deletions, orphans>>

\* Discord refuses a send or an edit, for a while or for good (isRetryable).
Refused(c) ==
  /\ call[c].pc \in {"send", "edit"}
  /\ \E fatal \in BOOLEAN : Give(c, fatal)
  /\ UNCHANGED <<rec, lock, channel, truth, faults, expiries, changes, deletions, orphans>>

\* succeedRecord, which asks only for the id of the record.
Record(c) ==
  /\ call[c].pc = "record"
  /\ rec' = [msg |-> call[c].sent, hash |-> call[c].payload, failures |-> 0]
  /\ Go(c, "release") /\ WritesOver(c)
  /\ UNCHANGED <<lock, channel, truth, faults, expiries, changes, deletions>>

\* It failed, or it was applied and its reply (or the logEvent after it) was
\* lost: the catch of syncMessage records a failure.
RecordLost(c) ==
  /\ call[c].pc = "record"
  /\ \/ UNCHANGED rec /\ Leaves(call[c].sent)
     \/ /\ rec' = [rec EXCEPT !.msg = call[c].sent, !.hash = call[c].payload,
                              !.failures = 0]
        /\ WritesOver(c)
  /\ Fault /\ Go(c, "fail")
  /\ UNCHANGED <<lock, channel, truth, expiries, changes, deletions>>

\* Mutant of Fail: only a fatal error counts.
FailUncounted(c) ==
  /\ call[c].pc = "fail"
  /\ rec' = [rec EXCEPT !.failures = IF call[c].fatal THEN MAX_FAILURES ELSE @]
  /\ Go(c, "release")
  /\ UNCHANGED <<lock, channel, truth, faults, expiries, changes, deletions, orphans>>

\* failRecord: a fatal error uses up all the attempts at once.  The counter is
\* not followed beyond MAX_FAILURES: only forced calls get there, and nothing
\* tells the values apart.
Fail(c) ==
  /\ call[c].pc = "fail"
  /\ rec' = [rec EXCEPT !.failures =
               IF call[c].fatal \/ @ = MAX_FAILURES THEN MAX_FAILURES ELSE @ + 1]
  /\ Go(c, "release")
  /\ UNCHANGED <<lock, channel, truth, faults, expiries, changes, deletions, orphans>>

\* failRecord itself failed: the finally still releases the lock.
FailLost(c) ==
  /\ call[c].pc = "fail"
  /\ Fault /\ Go(c, "release")
  /\ UNCHANGED <<rec, lock, channel, truth, expiries, changes, deletions, orphans>>

\* releaseLock: whoever holds it under this owner's name.
Release(c) ==
  /\ call[c].pc = "release"
  /\ lock' = IF lock.by = OwnerOf[c] THEN Free ELSE lock
  /\ call' = [call EXCEPT ![c] = Idle]
  /\ UNCHANGED <<rec, channel, truth, faults, expiries, changes, deletions, orphans>>

----------------------------------------------------------------------------
\* recreateMessage, before it calls syncMessage: without the lock.
Remove(c) ==
  /\ call[c].pc = "remove"
  /\ \/ /\ channel' = [channel EXCEPT ![call[c].msg] =
                         [state |-> "gone", shows |-> None]]
        /\ UNCHANGED <<faults, orphans>>
     \/ \* removedOld = false: it goes on
        Fault /\ Leaves(call[c].msg) /\ UNCHANGED channel
  /\ Go(c, "forget")
  /\ UNCHANGED <<rec, lock, truth, expiries, changes, deletions>>

Forget(c) ==
  /\ call[c].pc = "forget"
  /\ rec' = [msg |-> None, hash |-> None, failures |-> 0]
  /\ Go(c, "reread") /\ WritesOver(c)
  /\ UNCHANGED <<lock, channel, truth, faults, expiries, changes, deletions>>

Reread(c) ==
  /\ call[c].pc = "reread"
  /\ call' = [call EXCEPT ![c] = [@ EXCEPT !.pc = "locking", !.msg = rec.msg,
                                           !.hash = rec.hash]]
  /\ UNCHANGED <<rec, lock, channel, truth, faults, expiries, changes, deletions, orphans>>

----------------------------------------------------------------------------
\* The caller's process dies, or a statement outside the try fails: a lock it
\* holds stays until it expires.
Crash(c) ==
  /\ call[c].pc # "idle"
  /\ Fault
  /\ IF call[c].pc = "record" THEN Leaves(call[c].sent) ELSE UNCHANGED orphans
  /\ call' = [call EXCEPT ![c] = Idle]
  /\ UNCHANGED <<rec, lock, channel, truth, expiries, changes, deletions>>

\* locked_until passes.  While its owner is still at work this is a slow call,
\* a rate limit that was waited out, or a batch whose `now` was read long ago.
Expire ==
  /\ lock.live
  /\ LET working == \E c \in Callers : /\ call[c].pc \in Section
                                       /\ OwnerOf[c] = lock.by
     IN IF working THEN expiries < MaxExpiries /\ expiries' = expiries + 1
                   ELSE UNCHANGED expiries
  /\ lock' = [lock EXCEPT !.live = FALSE]
  /\ UNCHANGED <<rec, channel, truth, call, faults, changes, deletions, orphans>>

DataChanges ==
  /\ changes < MaxChanges
  /\ changes' = changes + 1
  /\ truth' \in Contents \ {truth}
  /\ UNCHANGED <<rec, lock, channel, call, faults, expiries, deletions, orphans>>

DeletedByHand(m) ==
  /\ Live(m)
  /\ deletions < MaxDeletions
  /\ deletions' = deletions + 1
  /\ channel' = [channel EXCEPT ![m] = [state |-> "gone", shows |-> None]]
  /\ UNCHANGED <<rec, lock, truth, call, faults, expiries, changes, orphans>>

----------------------------------------------------------------------------
Advance(c) == \/ TurnedAway(c) \/ Acquire(c) \/ Skip(c)
              \/ MaySend(c) \/ Send(c) \/ Edit(c) \/ Refused(c)
              \/ Record(c) \/ RecordLost(c) \/ Fail(c) \/ FailLost(c) \/ Release(c)
              \/ Remove(c) \/ Forget(c) \/ Reread(c)

Next == \/ \E c \in Callers : \/ ReadDue(c) \/ ReadForced(c) \/ ReadRecreate(c)
                              \/ Advance(c) \/ Crash(c)
        \/ Expire \/ DataChanges
        \/ \E m \in Messages : DeletedByHand(m)

Spec == Init /\ [][Next]_vars

\* The job queue enqueues the worker's round every minute, every call to
\* Discord or the database ends, and an abandoned lock expires.
Fairness == /\ \A c \in Callers : WF_vars(Advance(c))
            /\ \A c \in Workers : WF_vars(ReadDue(c))
            /\ WF_vars(Expire)

FairSpec == Spec /\ Fairness

----------------------------------------------------------------------------
Call == [pc : {"idle", "locking", "remove", "forget", "reread"} \cup Section,
         force : BOOLEAN, msg : Messages \cup {None}, hash : Contents \cup {None},
         payload : Contents \cup {None}, sent : Messages \cup {None},
         fatal : BOOLEAN]

\* The row, the lock, the channel and the calls keep their shape.
TypeOK ==
  /\ rec \in [msg : Messages \cup {None}, hash : Contents \cup {None},
              failures : 0 .. MAX_FAILURES]
  /\ lock \in [by : Owners \cup {None}, live : BOOLEAN]
  /\ channel \in [Messages -> [state : {"unused", "live", "gone"},
                               shows : Contents \cup {None}]]
  /\ truth \in Contents
  /\ call \in [Callers -> Call]
  /\ faults \in 0 .. MaxFaults
  /\ expiries \in 0 .. MaxExpiries
  /\ changes \in 0 .. MaxChanges
  /\ deletions \in 0 .. MaxDeletions
  /\ orphans \subseteq Messages \cup {None}

InSection(c) == call[c].pc \in Section

\* While no process died and no lock outlived its time, at most one caller is
\* between acquireLock and releaseLock, and the lock says so: in particular a
\* release never frees the lock of a caller that shares the owner's name.
OneInSection ==
  (faults = 0 /\ expiries = 0) =>
    /\ \A c, d \in Callers : InSection(c) /\ InSection(d) => c = d
    /\ \A c \in Callers : InSection(c) => lock = [by |-> OwnerOf[c], live |-> TRUE]

\* While nothing failed, last_rendered_hash tells what the recorded message
\* shows as soon as nobody works on it: that is what makes "skipped" sound,
\* although each caller compares with a row it read before it had the lock.
HashTellsContent ==
  (faults = 0 /\ expiries = 0 /\ \A c \in Callers : ~InSection(c)) =>
    (Live(rec.msg) => channel[rec.msg].shows = rec.hash)

Shown == {m \in Messages : channel[m].state = "live"}

\* "One message that is refreshed and does not multiply": what
\* persistent-messages.ts:11 and docs/persistent-messages.md:3 promise.
OneMessage == Cardinality(Shown) <= 1

\* No message is left in the channel without a record, or the hand of the caller that is
\* about to write it, but for these: its sending, its record or its removal was not
\* answered or its caller died there; or a caller put another id in its place that had
\* read the row before the message was in it, which takes two calls that overlap.
\* Refreshes, resends, rounds, deletions by hand and locks that expire leave nothing by
\* themselves, in whatever order.
NothingOrphaned ==
  \A m \in Shown :
    \/ m = rec.msg
    \/ \E c \in Callers : call[c].pc = "record" /\ call[c].sent = m
    \/ m \in orphans

\* When the data settles, so does the message: in the end it shows the data,
\* unless the record gave up (MAX_FAILURES), or somebody deleted the message
\* and the data did not change since, which "skipped" cannot notice.  A lost
\* reply or an expired lock is excused: an edit that took effect unrecorded, or
\* was overtaken by an older one, stays on display while the hash says otherwise.
ShowsTheData ==
  <>[](\/ rec.failures = MAX_FAILURES
       \/ Live(rec.msg) /\ channel[rec.msg].shows = truth
       \/ ~Live(rec.msg) /\ rec.hash = truth
       \/ faults > 0 \/ expiries > 0)

\* A failing record does not make the workers call Discord for ever: either some
\* update succeeds or is skipped again and again, or the calls stop (failRecord,
\* isDue).
NoEndlessRetry ==
  \/ []<>(\E c \in Callers : call[c].pc \in {"record", "skip"})
  \/ <>[](\A c \in Callers : call[c].pc \notin {"check", "send", "edit"})

\* What holds of the message at every moment: the shape of the state, and one caller
\* between acquireLock and releaseLock while nothing failed.
MessageSafe ==
  /\ TypeOK
  /\ OneInSection

\* What the row says of the message: its hash is that of what Discord shows, and no message
\* is out of its sight without a named reason.
MessageKept ==
  /\ HashTellsContent
  /\ NothingOrphaned
=============================================================================
