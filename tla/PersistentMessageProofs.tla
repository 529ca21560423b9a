---------------------- MODULE PersistentMessageProofs ----------------------
(* Theorems about PersistentMessage, for any number of callers, messages,
   contents and failures, and for any assignment of owner names. *)
EXTENDS PersistentMessage, TLAPS

LEMMA InitType == Init => TypeOK
<1> SUFFICES ASSUME Init PROVE TypeOK
  OBVIOUS
<1> QED
  BY PersistentMessageAssumption
     DEF Init, TypeOK, Call, Idle, NoMessage, Free, Messages, Section

----------------------------------------------------------------------------
\* Every step keeps the shape of the row, the lock, the channel and the calls.
LEMMA TypeStep == TypeOK /\ [Next]_vars => TypeOK'
<1> SUFFICES ASSUME TypeOK, [Next]_vars PROVE TypeOK'
  OBVIOUS
<1> USE PersistentMessageAssumption DEF TypeOK
<1>1. /\ MaxFaults \in Nat /\ MaxExpiries \in Nat /\ MaxChanges \in Nat
      /\ MaxDeletions \in Nat /\ MAX_FAILURES \in Nat /\ MAX_FAILURES # 0
  OBVIOUS
<1>2. ASSUME Fault PROVE faults' \in 0 .. MaxFaults
  BY <1>1, <1>2 DEF Fault
<1>3. ASSUME NEW c \in Callers
      PROVE  /\ \A pc \in {"idle", "locking", "remove", "forget", "reread"} \cup Section :
                  Go(c, pc) => call' \in [Callers -> Call]
             /\ \A fatal \in BOOLEAN : Give(c, fatal) => call' \in [Callers -> Call]
             /\ \A m \in Messages : Sent(c, m) => call' \in [Callers -> Call]
  <2>1. call[c] \in Call
    OBVIOUS
  <2>2. \A pc \in {"idle", "locking", "remove", "forget", "reread"} \cup Section :
          [call[c] EXCEPT !.pc = pc] \in Call
    BY <2>1 DEF Call
  <2>3. \A fatal \in BOOLEAN : [call[c] EXCEPT !.pc = "fail", !.fatal = fatal] \in Call
    BY <2>1 DEF Call, Section
  <2>4. \A m \in Messages : [call[c] EXCEPT !.pc = "record", !.sent = m] \in Call
    BY <2>1 DEF Call, Section
  <2>5. \A r \in Call : call' = [call EXCEPT ![c] = r] => call' \in [Callers -> Call]
    OBVIOUS
  <2>6. ASSUME NEW pc \in {"idle", "locking", "remove", "forget", "reread"} \cup Section,
               Go(c, pc)
        PROVE  call' \in [Callers -> Call]
    BY <2>2, <2>5, <2>6 DEF Go
  <2>7. ASSUME NEW fatal \in BOOLEAN, Give(c, fatal) PROVE call' \in [Callers -> Call]
    BY <2>3, <2>5, <2>7 DEF Give
  <2>8. ASSUME NEW m \in Messages, Sent(c, m) PROVE call' \in [Callers -> Call]
    BY <2>4, <2>5, <2>8 DEF Sent
  <2> QED
    BY <2>6, <2>7, <2>8
<1>5. Idle \in Call
  BY DEF Idle, Call
<1>6. ASSUME NEW c \in Callers, NEW force \in BOOLEAN,
             NEW pc \in {"locking", "remove", "forget"}, Read(c, force, pc)
      PROVE  call' \in [Callers -> Call]
  BY <1>6 DEF Read, Call, Idle
<1>4. /\ \A m \in Messages \cup {None} : Leaves(m) => orphans' \subseteq Messages \cup {None}
      /\ \A c \in Callers : /\ WritesOver(c) => orphans' \subseteq Messages \cup {None}
                           /\ call[c].sent \in Messages \cup {None}
                           /\ call[c].msg \in Messages \cup {None}
  BY DEF Leaves, WritesOver, Call
<1>7. ASSUME NEW c \in Callers, ReadDue(c) \/ ReadForced(c) \/ ReadRecreate(c)
      PROVE  TypeOK'
  BY <1>6, <1>7 DEF ReadDue, ReadForced, ReadRecreate
<1>8. ASSUME NEW c \in Callers, TurnedAway(c) PROVE TypeOK'
  BY <1>5, <1>8 DEF TurnedAway
<1>9. ASSUME NEW c \in Callers, Acquire(c) PROVE TypeOK'
  <2>1. call' \in [Callers -> Call]
    BY <1>3, <1>9 DEF Acquire, Section
  <2>2. lock' \in [by : Owners \cup {None}, live : BOOLEAN]
    BY <1>9 DEF Acquire, Owners
  <2> QED
    BY <1>9, <2>1, <2>2 DEF Acquire
<1>10. ASSUME NEW c \in Callers, Skip(c) PROVE TypeOK'
  BY <1>2, <1>3, <1>10 DEF Skip, Section
<1>11. ASSUME NEW c \in Callers, MaySend(c) \/ Refused(c) PROVE TypeOK'
  BY <1>3, <1>11 DEF MaySend, Refused, Section
<1>12. ASSUME NEW c \in Callers PROVE call[c].payload \in Contents \cup {None}
  BY DEF Call
<1>13. ASSUME NEW c \in Callers, Send(c) PROVE TypeOK'
  <2>1. channel' \in [Messages -> [state : {"unused", "live", "gone"},
                                   shows : Contents \cup {None}]]
    BY <1>12, <1>13 DEF Send
  <2>2. /\ call' \in [Callers -> Call] /\ faults' \in 0 .. MaxFaults
        /\ orphans' \subseteq Messages \cup {None}
    BY <1>2, <1>3, <1>4, <1>13 DEF Send, Section
  <2> QED
    BY <1>13, <2>1, <2>2 DEF Send
<1>14. ASSUME NEW c \in Callers, Edit(c) PROVE TypeOK'
  <2>1. Live(call[c].msg) => call[c].msg \in Messages
    BY DEF Live, Call
  <2>2. channel' \in [Messages -> [state : {"unused", "live", "gone"},
                                   shows : Contents \cup {None}]]
    BY <1>12, <1>14 DEF Edit
  <2>3. call' \in [Callers -> Call] /\ faults' \in 0 .. MaxFaults
    BY <1>2, <1>3, <1>14, <2>1 DEF Edit, Section
  <2> QED
    BY <1>14, <2>2, <2>3 DEF Edit
<1>15. ASSUME NEW c \in Callers
       PROVE  [rec EXCEPT !.msg = call[c].sent, !.hash = call[c].payload, !.failures = 0]
                \in [msg : Messages \cup {None}, hash : Contents \cup {None},
                     failures : 0 .. MAX_FAILURES]
  <2>1. call[c] \in Call
    OBVIOUS
  <2>2. call[c].sent \in Messages \cup {None} /\ call[c].payload \in Contents \cup {None}
    BY <2>1 DEF Call
  <2>3. 0 \in 0 .. MAX_FAILURES
    BY <1>1
  <2> QED
    BY <2>2, <2>3
<1>16. ASSUME NEW c \in Callers, Record(c) PROVE TypeOK'
  <2>1. rec' \in [msg : Messages \cup {None}, hash : Contents \cup {None},
                  failures : 0 .. MAX_FAILURES]
    BY <1>1, <1>16 DEF Record, Call
  <2> QED
    BY <1>3, <1>4, <1>16, <2>1 DEF Record, Section
<1>17. ASSUME NEW c \in Callers, RecordLost(c) PROVE TypeOK'
  <2>1. rec' \in [msg : Messages \cup {None}, hash : Contents \cup {None},
                  failures : 0 .. MAX_FAILURES]
    BY <1>15, <1>17 DEF RecordLost
  <2>2. orphans' \subseteq Messages \cup {None}
    BY <1>4, <1>17 DEF RecordLost
  <2> QED
    BY <1>2, <1>3, <1>17, <2>1, <2>2 DEF RecordLost, Section
<1>18. ASSUME NEW c \in Callers, Fail(c) PROVE TypeOK'
  <2>1. rec' \in [msg : Messages \cup {None}, hash : Contents \cup {None},
                  failures : 0 .. MAX_FAILURES]
    BY <1>1, <1>18 DEF Fail
  <2> QED
    BY <1>3, <1>18, <2>1 DEF Fail, Section
<1>19. ASSUME NEW c \in Callers, FailLost(c) PROVE TypeOK'
  BY <1>2, <1>3, <1>19 DEF FailLost, Section
<1>20. ASSUME NEW c \in Callers, Release(c) PROVE TypeOK'
  BY <1>5, <1>20 DEF Release, Free
<1>21. ASSUME NEW c \in Callers, Remove(c) PROVE TypeOK'
  BY <1>2, <1>3, <1>4, <1>21 DEF Remove
<1>22. ASSUME NEW c \in Callers, Forget(c) PROVE TypeOK'
  BY <1>1, <1>3, <1>4, <1>22 DEF Forget
<1>23. ASSUME NEW c \in Callers, Reread(c) PROVE TypeOK'
  <2>1. call[c] \in Call /\ rec.msg \in Messages \cup {None}
                         /\ rec.hash \in Contents \cup {None}
    OBVIOUS
  <2>2. [call[c] EXCEPT !.pc = "locking", !.msg = rec.msg, !.hash = rec.hash] \in Call
    BY <2>1 DEF Call
  <2>3. call' \in [Callers -> Call]
    BY <1>23, <2>2 DEF Reread
  <2> QED
    BY <1>23, <2>3 DEF Reread
<1>24. ASSUME NEW c \in Callers, Crash(c) PROVE TypeOK'
  BY <1>2, <1>4, <1>5, <1>24 DEF Crash
<1>25. CASE Expire
  <2>1. expiries' \in 0 .. MaxExpiries
    BY <1>1, <1>25 DEF Expire
  <2> QED
    BY <1>25, <2>1 DEF Expire
<1>26. CASE DataChanges
  <2>1. changes' \in 0 .. MaxChanges
    BY <1>1, <1>26 DEF DataChanges
  <2> QED
    BY <1>26, <2>1 DEF DataChanges
<1>27. ASSUME NEW m \in Messages, DeletedByHand(m) PROVE TypeOK'
  <2>1. deletions' \in 0 .. MaxDeletions
    BY <1>1, <1>27 DEF DeletedByHand
  <2> QED
    BY <1>27, <2>1 DEF DeletedByHand
<1>28. CASE UNCHANGED vars
  BY <1>28 DEF vars
<1> QED
  BY <1>7, <1>8, <1>9, <1>10, <1>11, <1>13, <1>14, <1>16, <1>17, <1>18, <1>19, <1>20,
     <1>21, <1>22, <1>23, <1>24, <1>25, <1>26, <1>27, <1>28 DEF Next, Advance

\* The row, the lock, the channel and the calls keep their shape.
THEOREM TypeCorrect == Spec => []TypeOK
  BY InitType, TypeStep, PTL DEF Spec

----------------------------------------------------------------------------
(* Mutual exclusion.  While nothing failed and no lock outlived its time, the
   lock is held in the name of the one caller in the section; that is why it
   does not matter that a release goes by the owner's name only. *)
LEMMA Steps ==
  ASSUME TypeOK, NEW c \in Callers,
         \/ ReadDue(c) \/ ReadForced(c) \/ ReadRecreate(c) \/ Advance(c) \/ Crash(c)
  PROVE  /\ \A d \in Callers \ {c} : call'[d] = call[d]
         /\ \/ lock' = lock /\ (call'[c].pc \in Section => call[c].pc \in Section)
            \/ ~lock.live /\ lock' = [by |-> OwnerOf[c], live |-> TRUE]
            \/ call[c].pc \in Section /\ call'[c].pc \notin Section
<1> USE DEF TypeOK, Section
<1>1. call[c] \in Call
  OBVIOUS
<1>2. \A pc : Go(c, pc) => /\ \A d \in Callers \ {c} : call'[d] = call[d]
                           /\ call'[c].pc = pc
  BY <1>1 DEF Go, Call
<1>3. \A fatal : Give(c, fatal) => /\ \A d \in Callers \ {c} : call'[d] = call[d]
                                   /\ call'[c].pc = "fail"
  BY <1>1 DEF Give, Call
<1>4. \A m : Sent(c, m) => /\ \A d \in Callers \ {c} : call'[d] = call[d]
                           /\ call'[c].pc = "record"
  BY <1>1 DEF Sent, Call
<1>5. \A force, pc : Read(c, force, pc) => /\ \A d \in Callers \ {c} : call'[d] = call[d]
                                           /\ call'[c].pc = pc
  BY DEF Read, Idle
<1>6. CASE ReadDue(c) \/ ReadForced(c) \/ ReadRecreate(c)
  <2>1. /\ \E force \in BOOLEAN, pc \in {"locking", "remove", "forget"} : Read(c, force, pc)
        /\ lock' = lock
    BY <1>6 DEF ReadDue, ReadForced, ReadRecreate
  <2> QED
    BY <1>5, <2>1
<1>7. CASE TurnedAway(c) \/ Crash(c)
  BY <1>7 DEF TurnedAway, Crash, Idle
<1>8. CASE Acquire(c)
  BY <1>2, <1>8 DEF Acquire
<1>9. CASE Skip(c) \/ MaySend(c) \/ Send(c) \/ Edit(c) \/ Refused(c)
  BY <1>2, <1>3, <1>4, <1>9 DEF Skip, MaySend, Send, Edit, Refused
<1>10. CASE Record(c) \/ RecordLost(c) \/ Fail(c) \/ FailLost(c)
  BY <1>2, <1>10 DEF Record, RecordLost, Fail, FailLost
<1>11. CASE Release(c)
  BY <1>11 DEF Release, Idle
<1>12. CASE Remove(c) \/ Forget(c)
  BY <1>2, <1>12 DEF Remove, Forget
<1>13. CASE Reread(c)
  BY <1>1, <1>13 DEF Reread, Call
<1> QED
  BY <1>6, <1>7, <1>8, <1>9, <1>10, <1>11, <1>12, <1>13 DEF Advance

\* Faults and expiries are only counted up.
LEMMA Counted == TypeOK /\ [Next]_vars => faults' >= faults /\ expiries' >= expiries
<1> SUFFICES ASSUME TypeOK, [Next]_vars
             PROVE  faults' \in {faults, faults + 1} /\ expiries' \in {expiries, expiries + 1}
  BY DEF TypeOK
<1>1. ASSUME NEW c \in Callers,
             ReadDue(c) \/ ReadForced(c) \/ ReadRecreate(c) \/ Advance(c) \/ Crash(c)
      PROVE  faults' \in {faults, faults + 1} /\ expiries' = expiries
  BY <1>1 DEF ReadDue, ReadForced, ReadRecreate, Advance, TurnedAway, Acquire, Skip,
              MaySend, Send, Edit, Refused, Record, RecordLost, Fail, FailLost, Release,
              Remove, Forget, Reread, Crash, Fault
<1>2. CASE Expire
  BY <1>2 DEF Expire
<1>3. CASE DataChanges \/ \E m \in Messages : DeletedByHand(m)
  BY <1>3 DEF DataChanges, DeletedByHand
<1>4. CASE UNCHANGED vars
  BY <1>4 DEF vars
<1> QED
  BY <1>1, <1>2, <1>3, <1>4 DEF Next

\* While no process died and no lock outlived its time, at most one caller is
\* between acquireLock and releaseLock, and the lock is in its name.
THEOREM MutualExclusion == Spec => []OneInSection
<1>1. Init => OneInSection
  BY DEF Init, OneInSection, InSection, Idle, Section
<1>2. ASSUME TypeOK, OneInSection, [Next]_vars PROVE OneInSection'
  <2> SUFFICES ASSUME faults' = 0, expiries' = 0
               PROVE  /\ \A c, d \in Callers :
                           InSection(c)' /\ InSection(d)' => c = d
                      /\ \A c \in Callers :
                           InSection(c)' => lock' = [by |-> OwnerOf[c], live |-> TRUE]
    BY DEF OneInSection
  <2>1. faults = 0 /\ expiries = 0
    BY <1>2, Counted DEF TypeOK
  <2>2. /\ \A c, d \in Callers : InSection(c) /\ InSection(d) => c = d
        /\ \A c \in Callers : InSection(c) => lock = [by |-> OwnerOf[c], live |-> TRUE]
    BY <1>2, <2>1 DEF OneInSection
  <2>3. ASSUME NEW c \in Callers,
               ReadDue(c) \/ ReadForced(c) \/ ReadRecreate(c) \/ Advance(c) \/ Crash(c)
        PROVE  /\ \A d, e \in Callers : InSection(d)' /\ InSection(e)' => d = e
               /\ \A d \in Callers :
                    InSection(d)' => lock' = [by |-> OwnerOf[d], live |-> TRUE]
    BY <1>2, <2>2, <2>3, Steps DEF InSection
  <2>4. CASE Expire
    <3>1. \A c \in Callers : ~InSection(c)
      BY <2>1, <2>2, <2>4 DEF Expire, InSection
    <3>2. call' = call
      BY <2>4 DEF Expire
    <3> QED
      BY <3>1, <3>2 DEF InSection
  <2>5. CASE DataChanges \/ (\E m \in Messages : DeletedByHand(m)) \/ UNCHANGED vars
    <3>1. call' = call /\ lock' = lock
      BY <2>5 DEF DataChanges, DeletedByHand, vars
    <3> QED
      BY <2>2, <3>1 DEF InSection
  <2> QED
    BY <1>2, <2>3, <2>4, <2>5 DEF Next
<1> QED
  BY <1>1, <1>2, TypeCorrect, PTL DEF Spec

\* What the runs check of the message at every moment, for any callers, owner names and
\* messages: its shape, and one caller in the section the row's lock guards.
THEOREM MessageIsSafe == Spec => []MessageSafe
<1>1. TypeOK /\ OneInSection => MessageSafe
  BY DEF MessageSafe
<1> QED
  BY <1>1, TypeCorrect, MutualExclusion, PTL

----------------------------------------------------------------------------
(* The hash.  While nothing failed and no lock outlived its time, the one caller in the
   section is the only one who changes what a message shows; between that and its record
   the row may say something else, before and after it may not. *)
HashInv ==
  (faults = 0 /\ expiries = 0) =>
    /\ \A c \in Callers :
         call[c].pc = "record" /\ Live(call[c].sent)
           => channel[call[c].sent].shows = call[c].payload
    /\ (\A c \in Callers : call[c].pc # "record")
         => (Live(rec.msg) => channel[rec.msg].shows = rec.hash)

\* Where a call goes, and that it keeps what it rendered and what it was answered.
LEMMA Moves ==
  ASSUME TypeOK, NEW c \in Callers
  PROVE  /\ \A pc : Go(c, pc) => /\ \A d \in Callers \ {c} : call'[d] = call[d]
                                 /\ call'[c].pc = pc /\ call'[c].msg = call[c].msg
                                 /\ call'[c].hash = call[c].hash
                                 /\ call'[c].payload = call[c].payload
                                 /\ call'[c].sent = call[c].sent
         /\ \A fatal : Give(c, fatal) => /\ \A d \in Callers \ {c} : call'[d] = call[d]
                                         /\ call'[c].pc = "fail"
                                         /\ call'[c].msg = call[c].msg
         /\ \A m : Sent(c, m) => /\ \A d \in Callers \ {c} : call'[d] = call[d]
                                 /\ call'[c].pc = "record" /\ call'[c].sent = m
                                 /\ call'[c].payload = call[c].payload
         /\ \A force, pc : Read(c, force, pc)
              => /\ \A d \in Callers \ {c} : call'[d] = call[d]
                 /\ call'[c].pc = pc /\ call'[c].msg = rec.msg
         /\ call' = [call EXCEPT ![c] = Idle]
              => /\ \A d \in Callers \ {c} : call'[d] = call[d]
                 /\ call'[c].pc = "idle"
<1>1. call[c] \in Call /\ call \in [Callers -> Call]
  BY DEF TypeOK
<1>2. \A pc : Go(c, pc) => /\ \A d \in Callers \ {c} : call'[d] = call[d]
                           /\ call'[c].pc = pc /\ call'[c].msg = call[c].msg
                           /\ call'[c].hash = call[c].hash
                           /\ call'[c].payload = call[c].payload
                           /\ call'[c].sent = call[c].sent
  BY <1>1 DEF Go, Call
<1>3. \A fatal : Give(c, fatal) => /\ \A d \in Callers \ {c} : call'[d] = call[d]
                                   /\ call'[c].pc = "fail"
                                   /\ call'[c].msg = call[c].msg
  BY <1>1 DEF Give, Call
<1>4. \A m : Sent(c, m) => /\ \A d \in Callers \ {c} : call'[d] = call[d]
                           /\ call'[c].pc = "record" /\ call'[c].sent = m
                           /\ call'[c].payload = call[c].payload
  BY <1>1 DEF Sent, Call
<1>5. \A force, pc : Read(c, force, pc)
        => /\ \A d \in Callers \ {c} : call'[d] = call[d]
           /\ call'[c].pc = pc /\ call'[c].msg = rec.msg
  BY <1>1 DEF Read, Idle
<1>6. call' = [call EXCEPT ![c] = Idle]
        => /\ \A d \in Callers \ {c} : call'[d] = call[d]
           /\ call'[c].pc = "idle"
  BY <1>1 DEF Idle
<1> QED
  BY <1>2, <1>3, <1>4, <1>5, <1>6

\* A message that is taken away shows nothing any more, and no other changes.
Fades == \A m \in Messages : channel'[m] = channel[m] \/ channel'[m].state = "gone"

LEMMA HashStep ==
  ASSUME TypeOK, OneInSection, HashInv, [Next]_vars
  PROVE  HashInv'
<1> SUFFICES ASSUME faults' = 0, expiries' = 0
             PROVE  /\ \A c \in Callers :
                         call'[c].pc = "record" /\ Live(call[c].sent)'
                           => channel'[call'[c].sent].shows = call'[c].payload
                    /\ (\A c \in Callers : call'[c].pc # "record")
                         => (Live(rec.msg)' => channel'[rec'.msg].shows = rec'.hash)
  BY DEF HashInv
<1>0. faults = 0 /\ expiries = 0
  BY Counted DEF TypeOK
<1>1. /\ \A c \in Callers : call[c].pc = "record" /\ Live(call[c].sent)
            => channel[call[c].sent].shows = call[c].payload
      /\ (\A c \in Callers : call[c].pc # "record")
            => (Live(rec.msg) => channel[rec.msg].shows = rec.hash)
  BY <1>0 DEF HashInv
<1>2. \A c, d \in Callers : call[c].pc \in Section /\ call[d].pc \in Section => c = d
  BY <1>0 DEF OneInSection, InSection
<1>3. /\ rec.msg \in Messages \cup {None}
      /\ \A c \in Callers : call[c].msg \in Messages \cup {None}
                            /\ call[c].sent \in Messages \cup {None}
      /\ channel \in [Messages -> [state : {"unused", "live", "gone"},
                                   shows : Contents \cup {None}]]
      /\ None \notin Messages
  BY PersistentMessageAssumption DEF TypeOK, Call, Messages
<1> USE DEF Live
<1>4. ASSUME call' = call \/ (\E c \in Callers : /\ \A d \in Callers \ {c} : call'[d] = call[d]
                                                 /\ call[c].pc # "record"
                                                 /\ call'[c].pc # "record"),
             rec' = rec \/ rec'.msg = None, Fades
      PROVE  /\ \A c \in Callers :
                  call'[c].pc = "record" /\ Live(call[c].sent)'
                    => channel'[call'[c].sent].shows = call'[c].payload
             /\ (\A c \in Callers : call'[c].pc # "record")
                  => (Live(rec.msg)' => channel'[rec'.msg].shows = rec'.hash)
  <2>1. \A m \in Messages : channel'[m].state = "live" => channel'[m] = channel[m]
    BY <1>4 DEF Fades
  <2>2. ASSUME NEW c \in Callers, call'[c].pc = "record"
        PROVE  call[c].pc = "record" /\ call'[c] = call[c]
    BY <1>4, <2>2
  <2>3. (\A c \in Callers : call'[c].pc # "record") => \A c \in Callers : call[c].pc # "record"
    BY <1>4
  <2> QED
    BY <1>1, <1>3, <1>4, <2>1, <2>2, <2>3
<1>5. channel' = channel => Fades
  BY DEF Fades
<1>6. ASSUME NEW c \in Callers, ReadDue(c) \/ ReadForced(c) \/ ReadRecreate(c)
      PROVE  /\ \A d \in Callers \ {c} : call'[d] = call[d]
             /\ call[c].pc # "record" /\ call'[c].pc # "record"
             /\ rec' = rec /\ channel' = channel
  <2>1. /\ \E force \in BOOLEAN, pc \in {"locking", "remove", "forget"} : Read(c, force, pc)
        /\ call[c].pc = "idle" /\ rec' = rec /\ channel' = channel
    BY <1>6 DEF ReadDue, ReadForced, ReadRecreate
  <2>2. PICK force \in BOOLEAN, pc \in {"locking", "remove", "forget"} : Read(c, force, pc)
    BY <2>1
  <2>3. (\A d \in Callers \ {c} : call'[d] = call[d]) /\ call'[c].pc = pc
    BY <2>2, Moves
  <2> QED
    BY <2>1, <2>3
<1>7. ASSUME NEW c \in Callers,
             \/ TurnedAway(c) \/ Acquire(c) \/ Skip(c) \/ MaySend(c) \/ Refused(c)
             \/ Fail(c) \/ FailLost(c) \/ Release(c) \/ Reread(c)
      PROVE  /\ \A d \in Callers \ {c} : call'[d] = call[d]
             /\ call[c].pc # "record" /\ call'[c].pc # "record"
             /\ channel' = channel
  <2>1. CASE TurnedAway(c) \/ Release(c)
    BY <2>1, Moves DEF TurnedAway, Release
  <2>2. CASE Acquire(c) \/ Skip(c) \/ MaySend(c) \/ Refused(c) \/ Fail(c) \/ FailLost(c)
    <3>1. /\ \/ \E pc \in Section \ {"record"} : Go(c, pc)
             \/ \E fatal \in BOOLEAN : Give(c, fatal)
          /\ call[c].pc # "record" /\ channel' = channel
      BY <2>2 DEF Acquire, Skip, MaySend, Refused, Fail, FailLost, Section
    <3>2. (\A d \in Callers \ {c} : call'[d] = call[d]) /\ call'[c].pc # "record"
      BY <3>1, Moves
    <3> QED
      BY <3>1, <3>2
  <2>3. CASE Reread(c)
    BY <2>3 DEF Reread, TypeOK, Call
  <2> QED
    BY <1>7, <2>1, <2>2, <2>3
<1>8. ASSUME NEW c \in Callers,
             \/ TurnedAway(c) \/ Acquire(c) \/ Skip(c) \/ MaySend(c) \/ Refused(c)
             \/ FailLost(c) \/ Release(c) \/ Reread(c)
      PROVE  rec' = rec
  BY <1>8 DEF TurnedAway, Acquire, Skip, MaySend, Refused, FailLost, Release, Reread
<1>9. ASSUME NEW c \in Callers, Fail(c)
      PROVE  (\A d \in Callers : call[d].pc # "record") /\ channel' = channel
             /\ (\A d \in Callers : call'[d].pc # "record")
             /\ rec'.msg = rec.msg /\ rec'.hash = rec.hash
  <2>1. \A d \in Callers : call[d].pc # "record"
    BY <1>2, <1>9 DEF Fail, Section
  <2>2. rec'.msg = rec.msg /\ rec'.hash = rec.hash
    BY <1>9 DEF Fail, TypeOK
  <2> QED
    BY <1>7, <1>9, <2>1, <2>2
<1>10. ASSUME NEW c \in Callers, Send(c) \/ Edit(c), call'[c].pc = "record"
       PROVE  /\ \A d \in Callers : call'[d].pc = "record" => d = c
              /\ Live(call[c].sent)' => channel'[call'[c].sent].shows = call'[c].payload
  <2>1. \A d \in Callers \ {c} : call'[d] = call[d] /\ call[d].pc # "record"
    BY <1>2, <1>10, Moves DEF Send, Edit, Section
  <2>2. CASE Send(c)
    <3>1. PICK m \in Messages :
            channel' = [channel EXCEPT ![m] = [state |-> "live", shows |-> call[c].payload]]
            /\ (Sent(c, m) \/ Go(c, "fail"))
      BY <2>2 DEF Send
    <3>2. call'[c].sent = m /\ call'[c].payload = call[c].payload
      BY <1>10, <3>1, Moves
    <3> QED
      BY <1>3, <2>1, <3>1, <3>2
  <2>3. CASE Edit(c)
    <3>1. /\ Live(call[c].msg)
          /\ channel' = [channel EXCEPT ![call[c].msg].shows = call[c].payload]
          /\ Sent(c, call[c].msg)
      BY <1>10, <2>3, Moves DEF Edit
    <3>2. call'[c].sent = call[c].msg /\ call'[c].payload = call[c].payload
      BY <3>1, Moves
    <3> QED
      BY <1>3, <2>1, <3>1, <3>2
  <2> QED
    BY <1>10, <2>2, <2>3
<1>11. ASSUME NEW c \in Callers, Send(c) \/ Edit(c), call'[c].pc # "record"
       PROVE  /\ \A d \in Callers \ {c} : call'[d] = call[d]
              /\ call[c].pc # "record" /\ rec' = rec /\ channel' = channel
  <2>1. ~Fault
    BY <1>0 DEF Fault
  <2>2. \A m : ~Sent(c, m)
    BY <1>11, Moves
  <2>3. Edit(c) /\ Go(c, "check") /\ channel' = channel
    BY <1>11, <2>1, <2>2 DEF Send, Edit
  <2> QED
    BY <2>3, Moves DEF Edit
<1>12. ASSUME NEW c \in Callers, Record(c)
       PROVE  /\ \A d \in Callers : call'[d].pc # "record"
              /\ Live(rec.msg)' => channel'[rec'.msg].shows = rec'.hash
  <2>1. \A d \in Callers \ {c} : call'[d] = call[d] /\ call[d].pc # "record"
    BY <1>2, <1>12, Moves DEF Record, Section
  <2>2. /\ call'[c].pc = "release" /\ channel' = channel
        /\ rec'.msg = call[c].sent /\ rec'.hash = call[c].payload
        /\ call[c].pc = "record"
    BY <1>12, Moves DEF Record
  <2> QED
    BY <1>1, <2>1, <2>2
<1>13. ASSUME NEW c \in Callers, Remove(c) \/ Forget(c)
       PROVE  /\ \A d \in Callers \ {c} : call'[d] = call[d]
              /\ call[c].pc # "record" /\ call'[c].pc # "record"
              /\ rec' = rec \/ rec'.msg = None
              /\ Fades
  BY <1>3, <1>13, Moves DEF Remove, Forget, Fades
<1>14. ASSUME NEW c \in Callers, RecordLost(c) \/ Crash(c) PROVE FALSE
  BY <1>0, <1>14 DEF RecordLost, Crash, Fault
<1>15. ASSUME Expire \/ DataChanges \/ (\E m \in Messages : DeletedByHand(m)) \/ UNCHANGED vars
       PROVE  call' = call /\ rec' = rec /\ Fades
  BY <1>3, <1>15 DEF Expire, DataChanges, DeletedByHand, vars, Fades
<1>16. ASSUME NEW c \in Callers, Advance(c)
       PROVE  /\ \A d \in Callers :
                   call'[d].pc = "record" /\ Live(call[d].sent)'
                     => channel'[call'[d].sent].shows = call'[d].payload
              /\ (\A d \in Callers : call'[d].pc # "record")
                   => (Live(rec.msg)' => channel'[rec'.msg].shows = rec'.hash)
  <2>1. CASE \/ TurnedAway(c) \/ Acquire(c) \/ Skip(c) \/ MaySend(c) \/ Refused(c)
             \/ FailLost(c) \/ Release(c) \/ Reread(c) \/ Remove(c) \/ Forget(c)
    BY <1>4, <1>5, <1>7, <1>8, <1>13, <2>1
  <2>2. CASE Fail(c)
    BY <1>1, <1>9, <2>2
  <2>3. CASE Send(c) \/ Edit(c)
    <3>1. CASE call'[c].pc = "record"
      BY <1>10, <2>3, <3>1
    <3>2. CASE call'[c].pc # "record"
      BY <1>4, <1>5, <1>11, <2>3, <3>2
    <3> QED
      BY <3>1, <3>2
  <2>4. CASE Record(c)
    BY <1>12, <2>4
  <2> QED
    BY <1>14, <1>16, <2>1, <2>2, <2>3, <2>4 DEF Advance
<1> QED
  BY <1>4, <1>5, <1>6, <1>14, <1>15, <1>16 DEF Next

\* While nothing failed and no lock outlived its time, last_rendered_hash tells what the
\* message on record shows whenever nobody works on it, for any callers that compare with
\* rows they read before they had the lock.
THEOREM HashIsRight == Spec => []HashTellsContent
<1>1. Init => HashInv
  BY PersistentMessageAssumption DEF Init, HashInv, Idle, Live
<1>2. TypeOK /\ OneInSection /\ HashInv /\ [Next]_vars => HashInv'
  BY HashStep
<1>3. HashInv => HashTellsContent
  BY DEF HashInv, HashTellsContent, InSection, Section
<1> QED
  BY <1>1, <1>2, <1>3, TypeCorrect, MutualExclusion, PTL DEF Spec

----------------------------------------------------------------------------
(* Orphans.  A caller that is about to send knows that the message it read about is gone;
   one that is about to write an id knows it of the one it replaces.  What is gone stays
   gone, because Discord never gives an id again. *)
Used(m) == m # None => channel[m].state # "unused"

Knows(c) ==
  /\ Used(call[c].msg) /\ Used(call[c].sent)
  /\ call[c].pc \in {"check", "send"} => ~Live(call[c].msg)
  /\ call[c].pc = "record" => call[c].sent = call[c].msg \/ ~Live(call[c].msg)
  /\ call[c].pc = "forget" => ~Live(call[c].msg) \/ call[c].msg \in orphans

OrphanInv == NothingOrphaned /\ Used(rec.msg) /\ \A c \in Callers : Knows(c)

\* A step of caller c, taken apart: a new message or none, an old one gone or none, the
\* others' calls untouched, and no orphan forgotten.
Gentle(c) ==
  /\ \A d \in Callers \ {c} : call'[d] = call[d]
  /\ orphans \subseteq orphans'
  /\ \A m \in Messages : /\ Live(m)' /\ ~Live(m) => channel[m].state = "unused"
                         /\ channel[m].state # "unused" => channel'[m].state # "unused"

\* Nobody loses what he knows by a step of another caller.
LEMMA OthersKnow ==
  ASSUME TypeOK, NEW c \in Callers, Gentle(c),
         NEW d \in Callers \ {c}, Knows(d)
  PROVE  Knows(d)'
<1>1. /\ call[d].msg \in Messages \cup {None} /\ call[d].sent \in Messages \cup {None}
      /\ None \notin Messages
  BY PersistentMessageAssumption DEF TypeOK, Call, Messages
<1>2. call'[d] = call[d]
  BY DEF Gentle
<1>3. \A m \in Messages \cup {None} : Used(m) => /\ Used(m)'
                                                 /\ ~Live(m) => ~Live(m)'
  BY DEF Gentle, Used, Live
<1> QED
  BY <1>1, <1>2, <1>3 DEF Knows, Gentle, Used

\* Every step of a caller is gentle.
LEMMA GentleSteps ==
  ASSUME TypeOK, NEW c \in Callers,
         \/ ReadDue(c) \/ ReadForced(c) \/ ReadRecreate(c) \/ Advance(c) \/ Crash(c),
         Used(call[c].msg)
  PROVE  Gentle(c)
<1>1. \A d \in Callers \ {c} : call'[d] = call[d]
  BY Steps
<1>2. /\ channel \in [Messages -> [state : {"unused", "live", "gone"},
                                   shows : Contents \cup {None}]]
      /\ call[c].msg \in Messages \cup {None} /\ None \notin Messages
  BY PersistentMessageAssumption DEF TypeOK, Call, Messages
<1>3. CASE Send(c)
  BY <1>1, <1>2, <1>3 DEF Send, Gentle, Live, Leaves
<1>4. CASE Edit(c)
  BY <1>1, <1>2, <1>4 DEF Edit, Gentle, Live
<1>5. CASE Remove(c)
  BY <1>1, <1>2, <1>5 DEF Remove, Gentle, Live, Leaves, Used
<1>6. CASE \/ ReadDue(c) \/ ReadForced(c) \/ ReadRecreate(c) \/ TurnedAway(c) \/ Acquire(c)
           \/ Skip(c) \/ MaySend(c) \/ Refused(c) \/ Record(c) \/ RecordLost(c) \/ Fail(c)
           \/ FailLost(c) \/ Release(c) \/ Forget(c) \/ Reread(c) \/ Crash(c)
  <2>1. channel' = channel
    BY <1>6 DEF ReadDue, ReadForced, ReadRecreate, TurnedAway, Acquire, Skip, MaySend,
                Refused, Record, RecordLost, Fail, FailLost, Release, Forget, Reread, Crash
  <2>2. orphans \subseteq orphans'
    BY <1>6 DEF ReadDue, ReadForced, ReadRecreate, TurnedAway, Acquire, Skip, MaySend,
                Refused, Record, RecordLost, Fail, FailLost, Release, Forget, Reread, Crash,
                Leaves, WritesOver
  <2> QED
    BY <1>1, <2>1, <2>2 DEF Gentle, Live
<1> QED
  BY <1>3, <1>4, <1>5, <1>6 DEF Advance

\* The caller that takes the step knows what its next step needs: it read the row, was
\* told that the message is gone, sent or edited one, or named the one it leaves.
LEMMA StepperKnows ==
  ASSUME TypeOK, NEW c \in Callers, Knows(c), Used(rec.msg),
         \/ ReadDue(c) \/ ReadForced(c) \/ ReadRecreate(c) \/ Advance(c) \/ Crash(c)
  PROVE  Knows(c)'
<1>0. Gentle(c)
  BY GentleSteps DEF Knows
<1>1. /\ channel \in [Messages -> [state : {"unused", "live", "gone"},
                                   shows : Contents \cup {None}]]
      /\ call[c].msg \in Messages \cup {None} /\ call[c].sent \in Messages \cup {None}
      /\ rec.msg \in Messages \cup {None} /\ None \notin Messages
      /\ call[c] \in Call /\ call \in [Callers -> Call]
  BY PersistentMessageAssumption DEF TypeOK, Call, Messages
<1>2. \A m \in Messages :
        channel[m].state # "unused"
          => /\ channel'[m].state # "unused"
             /\ channel[m].state # "live" => channel'[m].state # "live"
  BY <1>0, <1>1 DEF Gentle, Live
<1>k. Knows(c)' <=>
        /\ call'[c].msg # None => channel'[call'[c].msg].state # "unused"
        /\ call'[c].sent # None => channel'[call'[c].sent].state # "unused"
        /\ call'[c].pc \in {"check", "send"}
             => call'[c].msg = None \/ channel'[call'[c].msg].state # "live"
        /\ call'[c].pc = "record"
             => \/ call'[c].sent = call'[c].msg
                \/ call'[c].msg = None \/ channel'[call'[c].msg].state # "live"
        /\ call'[c].pc = "forget"
             => \/ call'[c].msg = None \/ channel'[call'[c].msg].state # "live"
                \/ call'[c].msg \in orphans'
  BY DEF Knows, Used, Live
<1>3. orphans \subseteq orphans'
  BY <1>0 DEF Gentle
<1>4. ASSUME call'[c].msg = call[c].msg, call'[c].sent = call[c].sent,
             call'[c].pc \notin {"check", "send", "record", "forget"}
      PROVE  Knows(c)'
  BY <1>k, <1>1, <1>2, <1>4 DEF Knows, Used, Live
<1>5. ASSUME NEW pc, pc \notin {"check", "send", "record", "forget"}, Go(c, pc)
      PROVE  Knows(c)'
  BY <1>4, <1>5, Moves
<1>6. ASSUME NEW fatal, Give(c, fatal) PROVE Knows(c)'
  <2>1. call'[c].msg = call[c].msg /\ call'[c].sent = call[c].sent /\ call'[c].pc = "fail"
    BY <1>1, <1>6 DEF Give, Call
  <2> QED
    BY <1>4, <2>1
<1>7. ASSUME call' = [call EXCEPT ![c] = Idle] PROVE Knows(c)'
  <2>1. call'[c] = Idle
    BY <1>1, <1>7
  <2> QED
    BY <2>1 DEF Knows, Idle, Used
<1>8. CASE ReadDue(c) \/ ReadForced(c) \/ ReadRecreate(c)
  <2>1. PICK force \in BOOLEAN, pc \in {"locking", "remove", "forget"} :
          Read(c, force, pc) /\ (pc = "forget" => rec.msg = None)
    BY <1>8 DEF ReadDue, ReadForced, ReadRecreate
  <2>2. call'[c].pc = pc /\ call'[c].msg = rec.msg /\ call'[c].sent = None
    BY <1>1, <2>1 DEF Read, Idle
  <2> QED
    BY <1>k, <1>1, <1>2, <2>1, <2>2 DEF Knows, Used, Live
<1>9. CASE TurnedAway(c) \/ Release(c) \/ Crash(c)
  BY <1>7, <1>9 DEF TurnedAway, Release, Crash
<1>10. CASE Acquire(c)
  <2>1. PICK pc \in {"check", "skip", "edit"} : Go(c, pc) /\ (pc = "check" => call[c].msg = None)
    BY <1>10 DEF Acquire
  <2>2. call'[c].pc = pc /\ call'[c].msg = call[c].msg /\ call'[c].sent = call[c].sent
    BY <2>1, Moves
  <2> QED
    BY <1>k, <1>1, <1>2, <2>1, <2>2 DEF Knows, Used, Live
<1>11. CASE Skip(c) \/ Refused(c) \/ Record(c) \/ RecordLost(c) \/ Fail(c) \/ FailLost(c)
  BY <1>5, <1>6, <1>11 DEF Skip, Refused, Record, RecordLost, Fail, FailLost
<1>12. CASE MaySend(c)
  <2>1. CASE Go(c, "send")
    <3>1. call'[c].pc = "send" /\ call'[c].msg = call[c].msg /\ call'[c].sent = call[c].sent
      BY <2>1, Moves
    <3> QED
      BY <1>k, <1>1, <1>2, <1>12, <3>1 DEF MaySend, Knows, Used, Live
  <2> QED
    BY <1>6, <1>12, <2>1 DEF MaySend
<1>13. ASSUME NEW m \in Messages, Sent(c, m), channel'[m].state # "unused",
              m = call[c].msg \/ ~Live(call[c].msg)
       PROVE  Knows(c)'
  <2>1. call'[c].pc = "record" /\ call'[c].msg = call[c].msg /\ call'[c].sent = m
    BY <1>1, <1>13 DEF Sent, Call
  <2> QED
    BY <1>k, <1>1, <1>2, <1>13, <2>1 DEF Knows, Used, Live
<1>14. CASE Send(c)
  <2>1. PICK m \in Messages :
          /\ channel' = [channel EXCEPT ![m] = [state |-> "live", shows |-> call[c].payload]]
          /\ Sent(c, m) \/ Go(c, "fail")
    BY <1>14 DEF Send
  <2>2. channel'[m].state # "unused" /\ ~Live(call[c].msg)
    BY <1>1, <1>14, <2>1 DEF Send, Knows
  <2> QED
    BY <1>5, <1>13, <2>1, <2>2
<1>15. CASE Edit(c)
  <2>1. CASE Live(call[c].msg)
    <3>1. call[c].msg \in Messages /\ channel'[call[c].msg].state # "unused"
      BY <1>k, <1>1, <1>2, <2>1 DEF Knows, Used, Live
    <3>2. Sent(c, call[c].msg) \/ Go(c, "fail")
      BY <1>15, <2>1 DEF Edit
    <3> QED
      BY <1>5, <1>13, <3>1, <3>2
  <2>2. CASE ~Live(call[c].msg)
    <3>1. Go(c, "check")
      BY <1>15, <2>2 DEF Edit
    <3>2. call'[c].pc = "check" /\ call'[c].msg = call[c].msg /\ call'[c].sent = call[c].sent
      BY <3>1, Moves
    <3> QED
      BY <1>k, <1>1, <1>2, <2>2, <3>2 DEF Knows, Used, Live
  <2> QED
    BY <2>1, <2>2
<1>16. CASE Remove(c)
  <2>1. call'[c].pc = "forget" /\ call'[c].msg = call[c].msg /\ call'[c].sent = call[c].sent
    BY <1>16, Moves DEF Remove
  <2>2. \/ call[c].msg = None \/ channel'[call[c].msg].state # "live"
        \/ call[c].msg \in orphans'
    BY <1>1, <1>16 DEF Remove, Leaves
  <2> QED
    BY <1>k, <1>1, <1>2, <2>1, <2>2 DEF Knows, Used
<1>17. CASE Forget(c)
  BY <1>5, <1>17 DEF Forget
<1>18. CASE Reread(c)
  <2>1. call'[c].pc = "locking" /\ call'[c].msg = rec.msg /\ call'[c].sent = call[c].sent
    BY <1>1, <1>18 DEF Reread, Call
  <2> QED
    BY <1>k, <1>1, <1>2, <2>1 DEF Knows, Used, Live
<1> QED
  BY <1>8, <1>9, <1>10, <1>11, <1>12, <1>14, <1>15, <1>16, <1>17, <1>18 DEF Advance

\* A message that is on record, in a hand or among the orphans.
Tracked(m) == \/ m = rec.msg
              \/ \E c \in Callers : call[c].pc = "record" /\ call[c].sent = m
              \/ m \in orphans

\* No step of a caller loses sight of a message that was tracked, or that it sends.
LEMMA CallerTracks ==
  ASSUME TypeOK, NEW c \in Callers, Knows(c),
         \/ ReadDue(c) \/ ReadForced(c) \/ ReadRecreate(c) \/ Advance(c) \/ Crash(c),
         NEW m \in Messages, Live(m)', Live(m) => Tracked(m)
  PROVE  Tracked(m)'
<1>0. Gentle(c)
  BY GentleSteps DEF Knows
<1>1. /\ channel \in [Messages -> [state : {"unused", "live", "gone"},
                                   shows : Contents \cup {None}]]
      /\ call[c].msg \in Messages \cup {None} /\ call[c].sent \in Messages \cup {None}
      /\ rec.msg \in Messages \cup {None} /\ None \notin Messages
      /\ call[c] \in Call /\ call \in [Callers -> Call]
      /\ rec = [msg |-> rec.msg, hash |-> rec.hash, failures |-> rec.failures]
  BY PersistentMessageAssumption DEF TypeOK, Call, Messages
<1>2. \A d \in Callers \ {c} : call'[d] = call[d]
  BY <1>0 DEF Gentle
<1>3. orphans \subseteq orphans'
  BY <1>0 DEF Gentle
<1>4. ASSUME rec'.msg = rec.msg, call[c].pc # "record", Live(m) PROVE Tracked(m)'
  BY <1>2, <1>3, <1>4 DEF Tracked
<1>5. CASE Send(c)
  <2>1. PICK n \in Messages :
          /\ channel' = [channel EXCEPT ![n] = [state |-> "live", shows |-> call[c].payload]]
          /\ Sent(c, n) \/ Leaves(n)
    BY <1>5 DEF Send
  <2>2. CASE m = n
    <3>1. CASE Sent(c, n)
      <4>1. call'[c].pc = "record" /\ call'[c].sent = n
        BY <3>1, Moves
      <4> QED
        BY <2>2, <4>1 DEF Tracked
    <3>2. CASE Leaves(n)
      BY <2>2, <3>2 DEF Leaves, Tracked
    <3> QED
      BY <2>1, <3>1, <3>2
  <2>3. CASE m # n
    <3>1. Live(m)
      BY <1>1, <2>1, <2>3 DEF Live
    <3> QED
      BY <1>4, <1>5, <3>1 DEF Send
  <2> QED
    BY <2>2, <2>3
<1>6. ASSUME ~Send(c) PROVE Live(m)
  <2>1. CASE Edit(c) \/ Remove(c)
    BY <1>1, <2>1 DEF Edit, Remove, Live
  <2>2. CASE ~Edit(c) /\ ~Remove(c)
    <3>1. channel' = channel
      BY <1>6, <2>2 DEF ReadDue, ReadForced, ReadRecreate, Advance, TurnedAway, Acquire, Skip,
                MaySend, Refused, Record, RecordLost, Fail, FailLost, Release, Forget, Reread,
                Crash
    <3> QED
      BY <3>1 DEF Live
  <2> QED
    BY <2>1, <2>2
<1>7. CASE \/ ReadDue(c) \/ ReadForced(c) \/ ReadRecreate(c) \/ TurnedAway(c) \/ Acquire(c)
           \/ Skip(c) \/ MaySend(c) \/ Edit(c) \/ Refused(c) \/ Fail(c) \/ FailLost(c)
           \/ Release(c) \/ Remove(c) \/ Reread(c)
  <2>1. rec'.msg = rec.msg
    BY <1>1, <1>7 DEF ReadDue, ReadForced, ReadRecreate, TurnedAway, Acquire, Skip, MaySend, Edit,
                Refused, Fail, FailLost, Release, Remove, Reread
  <2>2. call[c].pc # "record" /\ (Send(c) \/ ~Send(c))
    BY <1>7 DEF ReadDue, ReadForced, ReadRecreate, TurnedAway, Acquire, Skip, MaySend, Edit,
                Refused, Fail, FailLost, Release, Remove, Reread
  <2> QED
    BY <1>4, <1>5, <1>6, <2>1, <2>2
<1>8. ASSUME WritesOver(c), Live(m), m = rec.msg, m # call[c].msg PROVE m \in orphans'
  BY <1>8 DEF WritesOver
<1>9. CASE Forget(c)
  <2>1. /\ Live(m) /\ WritesOver(c) /\ call[c].pc = "forget"
        /\ ~Live(call[c].msg) \/ call[c].msg \in orphans
    BY <1>5, <1>6, <1>9 DEF Forget, Knows, Send
  <2>2. CASE m = rec.msg
    BY <1>3, <1>8, <2>1, <2>2 DEF Tracked
  <2>3. CASE m # rec.msg
    BY <1>2, <1>3, <2>1, <2>3 DEF Tracked
  <2> QED
    BY <2>2, <2>3
<1>10. ASSUME call[c].pc = "record", WritesOver(c), rec'.msg = call[c].sent, Live(m)
       PROVE  Tracked(m)'
  <2>1. CASE m = call[c].sent
    BY <1>10, <2>1 DEF Tracked
  <2>2. CASE m # call[c].sent
    <3>1. CASE m = rec.msg
      <4>1. m # call[c].msg
        BY <1>10, <2>2 DEF Knows
      <4> QED
        BY <1>8, <1>10, <3>1, <4>1 DEF Tracked
    <3>2. CASE m # rec.msg
      BY <1>2, <1>3, <1>10, <2>2, <3>2 DEF Tracked
    <3> QED
      BY <3>1, <3>2
  <2> QED
    BY <2>1, <2>2
<1>11. CASE Record(c)
  <2>1. call[c].pc = "record" /\ WritesOver(c) /\ rec'.msg = call[c].sent /\ ~Send(c)
    BY <1>11 DEF Record, Send
  <2> QED
    BY <1>6, <1>10, <2>1
<1>12. ASSUME call[c].pc = "record" => Leaves(call[c].sent), rec'.msg = rec.msg, Live(m)
       PROVE  Tracked(m)'
  BY <1>2, <1>3, <1>12 DEF Tracked, Leaves
<1>13. CASE RecordLost(c)
  <2>1. call[c].pc = "record" /\ ~Send(c)
    BY <1>13 DEF RecordLost, Send
  <2>2. CASE Leaves(call[c].sent) /\ rec' = rec
    BY <1>6, <1>12, <2>1, <2>2
  <2>3. CASE WritesOver(c) /\ rec' = [rec EXCEPT !.msg = call[c].sent,
                                                 !.hash = call[c].payload, !.failures = 0]
    <3>1. rec'.msg = call[c].sent
      BY <1>1, <2>3
    <3> QED
      BY <1>6, <1>10, <2>1, <2>3, <3>1
  <2> QED
    BY <1>13, <2>2, <2>3 DEF RecordLost
<1>14. CASE Crash(c)
  <2>1. (call[c].pc = "record" => Leaves(call[c].sent)) /\ rec' = rec
    BY <1>14 DEF Crash
  <2> QED
    BY <1>5, <1>6, <1>12, <2>1
<1> QED
  BY <1>5, <1>7, <1>9, <1>11, <1>13, <1>14 DEF Advance

LEMMA OrphanStep ==
  ASSUME TypeOK, OrphanInv, [Next]_vars
  PROVE  OrphanInv'
<1>1. /\ channel \in [Messages -> [state : {"unused", "live", "gone"},
                                   shows : Contents \cup {None}]]
      /\ rec.msg \in Messages \cup {None} /\ None \notin Messages
      /\ \A c \in Callers : /\ call[c].msg \in Messages \cup {None}
                           /\ call[c].sent \in Messages \cup {None}
  BY PersistentMessageAssumption DEF TypeOK, Call, Messages
<1>2. Used(rec.msg) /\ \A c \in Callers : Knows(c)
  BY DEF OrphanInv
<1>3. NothingOrphaned <=> \A m \in Messages : Live(m) => Tracked(m)
  BY <1>1 DEF NothingOrphaned, Shown, Live, Tracked
<1>4. (\A m \in Messages : Live(m)' => Tracked(m)') => NothingOrphaned'
  BY <1>1 DEF NothingOrphaned, Shown, Live, Tracked
<1>5. \A m \in Messages : Live(m) => Tracked(m)
  BY <1>3 DEF OrphanInv
<1>6. ASSUME NEW c \in Callers,
             ReadDue(c) \/ ReadForced(c) \/ ReadRecreate(c) \/ Advance(c) \/ Crash(c)
      PROVE  OrphanInv'
  <2>1. Gentle(c)
    BY <1>2, <1>6, GentleSteps DEF Knows
  <2>2. \A d \in Callers \ {c} : Knows(d)'
    BY <1>2, <2>1, OthersKnow
  <2>3. Knows(c)'
    BY <1>2, <1>6, StepperKnows
  <2>4. \A m \in Messages : Live(m)' => Tracked(m)'
    BY <1>2, <1>5, <1>6, CallerTracks
  <2>5. rec'.msg \in {rec.msg, None, call[c].sent}
    <3>1. rec = [msg |-> rec.msg, hash |-> rec.hash, failures |-> rec.failures]
      BY DEF TypeOK
    <3>2. CASE Record(c) \/ Forget(c)
      BY <3>2 DEF Record, Forget
    <3>3. CASE RecordLost(c)
      BY <3>1, <3>3 DEF RecordLost
    <3>4. CASE Fail(c)
      BY <3>1, <3>4 DEF Fail
    <3>5. CASE ~(Record(c) \/ Forget(c) \/ RecordLost(c) \/ Fail(c))
      BY <1>6, <3>5 DEF ReadDue, ReadForced, ReadRecreate, Advance, TurnedAway, Acquire, Skip,
                MaySend, Send, Edit, Refused, FailLost, Release, Remove, Reread, Crash
    <3> QED
      BY <3>2, <3>3, <3>4, <3>5
  <2>6. Used(rec.msg)'
    BY <1>1, <1>2, <2>1, <2>5 DEF Knows, Used, Gentle
  <2> QED
    BY <1>4, <2>2, <2>3, <2>4, <2>6 DEF OrphanInv
<1>7. ASSUME Expire \/ DataChanges \/ (\E m \in Messages : DeletedByHand(m)) \/ UNCHANGED vars
      PROVE  OrphanInv'
  <2>1. call' = call /\ rec' = rec /\ orphans' = orphans
    BY <1>7 DEF Expire, DataChanges, DeletedByHand, vars
  <2>2. \A m \in Messages : channel'[m] = channel[m] \/ channel'[m].state = "gone"
    BY <1>1, <1>7 DEF Expire, DataChanges, DeletedByHand, vars
  <2>3. \A m \in Messages : Live(m)' => Live(m)
    BY <1>1, <2>2 DEF Live
  <2>4. \A m \in Messages : Live(m)' => Tracked(m)'
    BY <1>5, <2>1, <2>3 DEF Tracked
  <2>5. \A m \in Messages \cup {None} : Used(m) => Used(m)'
    BY <2>2 DEF Used
  <2>6. \A m \in Messages \cup {None} : ~Live(m) => ~Live(m)'
    BY <2>3 DEF Live
  <2>7. ASSUME NEW c \in Callers PROVE Knows(c)'
    BY <1>1, <1>2, <2>1, <2>5, <2>6 DEF Knows, Used, Live
  <2> QED
    BY <1>1, <1>2, <1>4, <2>1, <2>4, <2>5, <2>7 DEF OrphanInv, Used
<1> QED
  BY <1>6, <1>7 DEF Next

\* Every message the channel shows is on record, or in the hand of the caller about to
\* write it, or let go of for a named reason (its sending, its record or its removal was
\* not answered, or another id was put in its place by a caller that had read the row
\* before): whatever overlaps, dies, is lost or outlives its lock.
THEOREM NothingIsOrphaned == Spec => []NothingOrphaned
<1>1. Init => OrphanInv
  BY DEF Init, OrphanInv, NothingOrphaned, Shown, Knows, Used, Live, Idle, NoMessage
<1>2. TypeOK /\ OrphanInv /\ [Next]_vars => OrphanInv'
  BY OrphanStep
<1>3. OrphanInv => NothingOrphaned
  BY DEF OrphanInv
<1> QED
  BY <1>1, <1>2, <1>3, TypeCorrect, PTL DEF Spec

\* What the runs check of the row against the channel, for any callers and messages: while
\* nothing failed its hash tells what is shown, and always every message shown is on
\* record, about to be, or an orphan with a name.
THEOREM MessageIsKept == Spec => []MessageKept
<1>1. HashTellsContent /\ NothingOrphaned => MessageKept
  BY DEF MessageKept
<1> QED
  BY <1>1, HashIsRight, NothingIsOrphaned, PTL
=============================================================================
