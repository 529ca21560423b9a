-------------------------- MODULE SessionsProofs --------------------------
(* Theorems about Sessions, for every number of sessions, of requests at a
   time, of sign-outs and of faults. *)
EXTENDS MCSessions, TLAPS

----------------------------------------------------------------------------
\* What a request may be.
Sound(c) == /\ c \in Call
            /\ c.pc \in Naming => c.sid \in Sessions
            /\ c.hit # NoSet => c.pc \in {"asking", "answered"}

LEMMA IdleSound == Sound(Idle)
BY DEF Sound, Idle, Call, Naming

\* A request that becomes what a request may be, and gives up no live set.
LEMMA BecomeSound ==
  ASSUME TypeOK, NEW r \in Requests, NEW c, Sound(c), Become(r, c)
  PROVE  /\ call' \in [Requests -> Call]
         /\ \A q \in Requests : Sound(call'[q])
         /\ (c.hit = call[r].hit /\ cache' = cache) => Referenced' = Referenced
<1>1. call' \in [Requests -> Call]
  BY DEF TypeOK, Become, Sound
<1>2. \A q \in Requests : call'[q] = IF q = r THEN c ELSE call[q]
  BY DEF TypeOK, Become
<1>3. \A q \in Requests : Sound(call'[q])
  BY <1>2 DEF TypeOK, Sound
<1>4. ASSUME c.hit = call[r].hit, cache' = cache
      PROVE  Referenced' = Referenced
  <2>1. \A q \in Requests : call'[q].hit = call[q].hit
    BY <1>2, <1>4
  <2> QED
    BY <2>1, <1>4 DEF Referenced
<1> QED
  BY <1>1, <1>3, <1>4

\* The statement that ends every session.
LEMMA AllEndedSound ==
  ASSUME TypeOK
  PROVE  /\ AllEnded \in [Sessions -> Session]
         /\ \A s \in Sessions :
              /\ AllEnded[s].state # "live"
              /\ (AllEnded[s].state = "none") <=> (sess[s].state = "none")
              /\ Live(s) \/ AllEnded[s].state = sess[s].state
              /\ AllEnded[s].rotation = sess[s].rotation
              /\ AllEnded[s].from = sess[s].from
              /\ AllEnded[s].tv = sess[s].tv
              /\ AllEnded[s].known = sess[s].known
BY DEF TypeOK, AllEnded, Session, Live

\* A request that ends every session and has no cache entry in hand.
LEMMA EndAllSound ==
  ASSUME TypeOK, NEW r \in Requests, NEW next \in {"bump", "forget"},
         EndAll(r, next), call[r].hit = NoSet
  PROVE  /\ sess' \in [Sessions -> Session]
         /\ epoch' \in Nat
         /\ cache' \in [version : Nat, set : Sets \cup {NoSet}]
         /\ liveSets' \in [Referenced' -> SUBSET Sessions]
         /\ call' \in [Requests -> Call]
         /\ \A q \in Requests : Sound(call'[q])
         /\ loggedOut' \subseteq Sessions
         /\ faults' \in 0 .. MaxFaults
<1> DEFINE c == [Idle EXCEPT !.pc = next]
<1>1. Sound(c) /\ c.hit = NoSet
  BY DEF Sound, Idle, Call, Naming
<1>2. Become(r, c) /\ cache' = cache
  BY DEF EndAll
<1> HIDE DEF c
<1>3. /\ call' \in [Requests -> Call]
      /\ \A q \in Requests : Sound(call'[q])
      /\ Referenced' = Referenced
  BY <1>1, <1>2, BecomeSound
<1>4. sess' \in [Sessions -> Session] /\ epoch' \in Nat
  BY AllEndedSound DEF EndAll, TypeOK
<1> QED
  BY <1>3, <1>4 DEF EndAll, TypeOK

----------------------------------------------------------------------------
LEMMA TypeStep == TypeOK /\ [Next]_vars => TypeOK'
<1> SUFFICES ASSUME TypeOK, [Next]_vars PROVE TypeOK'
  OBVIOUS
<1> USE SessionsAssumption
<1>1. ASSUME NEW r \in Requests, Login(r) PROVE TypeOK'
  <2> DEFINE c == [Idle EXCEPT !.pc = "opening", !.epoch = epoch,
                               !.hasVersion = TRUE, !.sawVersion = version]
  <2>1. Sound(c) /\ c.hit = call[r].hit
    <3>1. Sound(call[r])
      BY DEF TypeOK, Sound
    <3> QED
      BY <1>1, <3>1 DEF Login, At, TypeOK, Sound, Idle, Call, Naming
  <2>2. Become(r, c) /\ cache' = cache
    BY <1>1 DEF Login, Go
  <2> HIDE DEF c
  <2>3. /\ call' \in [Requests -> Call]
        /\ \A q \in Requests : Sound(call'[q])
        /\ Referenced' = Referenced
    BY <2>1, <2>2, BecomeSound
  <2> QED
    BY <1>1, <2>3 DEF Login, TypeOK, Sound
<1>2. ASSUME NEW r \in Requests, Lookup(r) PROVE TypeOK'
  <2> DEFINE c == IF sess[call[r].sid].rotation = "old"
                    THEN [call[r] EXCEPT !.pc = "replayed"] ELSE Idle
  <2>1. Sound(c) /\ c.hit = call[r].hit
    <3>1. Sound(call[r])
      BY DEF TypeOK, Sound
    <3> QED
      BY <1>2, <3>1 DEF Lookup, At, TypeOK, Sound, Idle, Call, Naming
  <2>2. Become(r, c) /\ cache' = cache
    BY <1>2 DEF Lookup, Go
  <2> HIDE DEF c
  <2>3. /\ call' \in [Requests -> Call]
        /\ \A q \in Requests : Sound(call'[q])
        /\ Referenced' = Referenced
    BY <2>1, <2>2, BecomeSound
  <2> QED
    BY <1>2, <2>3 DEF Lookup, TypeOK, Sound
<1>3. ASSUME NEW r \in Requests, Sign(r) PROVE TypeOK'
  <2> DEFINE c == Idle
  <2>1. Sound(c) /\ c.hit = call[r].hit
    <3>1. Sound(call[r])
      BY DEF TypeOK, Sound
    <3> QED
      BY <1>3, <3>1 DEF Sign, At, TypeOK, Sound, Idle, Call, Naming
  <2>2. Become(r, c) /\ cache' = cache
    BY <1>3 DEF Sign, Go
  <2> HIDE DEF c
  <2>3. /\ call' \in [Requests -> Call]
        /\ \A q \in Requests : Sound(call'[q])
        /\ Referenced' = Referenced
    BY <2>1, <2>2, BecomeSound
  <2>4. sess' \in [Sessions -> Session]
    <3> DEFINE v == IF call[r].hasVersion THEN call[r].sawVersion ELSE version
               issued == [sess[call[r].sid] EXCEPT !.known = TRUE, !.tv = v]
    <3>1. call[r].sid \in Sessions /\ v \in Nat
      BY <1>3 DEF Sign, At, TypeOK, Naming, Call
    <3>2. issued \in Session
      <4>1. \A x \in Session, n \in Nat :
              [x EXCEPT !.known = TRUE, !.tv = n] \in Session
        BY DEF Session
      <4> HIDE DEF v
      <4> QED
        BY <3>1, <4>1 DEF TypeOK
    <3>3. sess' = sess \/ sess' = [sess EXCEPT ![call[r].sid] = issued]
      BY <1>3 DEF Sign
    <3> HIDE DEF issued
    <3> QED
      BY <3>1, <3>2, <3>3 DEF TypeOK
  <2>5. faults' \in 0 .. MaxFaults
    BY <1>3 DEF Sign, TypeOK
  <2> QED
    BY <1>3, <2>3, <2>4, <2>5 DEF Sign, TypeOK, Sound
<1>4. ASSUME NEW r \in Requests, Answer(r) PROVE TypeOK'
  <2> DEFINE c == [call[r] EXCEPT !.pc = "answered",
                                  !.sawLive = active /\ Live(call[r].sid),
                                  !.sawVersion = version]
  <2>1. Sound(c) /\ c.hit = call[r].hit
    <3>1. Sound(call[r])
      BY DEF TypeOK, Sound
    <3>2. (active /\ Live(call[r].sid)) \in BOOLEAN /\ version \in Nat
      BY DEF TypeOK, Live
    <3> QED
      BY <1>4, <3>1, <3>2 DEF Answer, At, TypeOK, Sound, Idle, Call, Naming
  <2>2. Become(r, c) /\ cache' = cache
    BY <1>4 DEF Answer, Go
  <2> HIDE DEF c
  <2>3. /\ call' \in [Requests -> Call]
        /\ \A q \in Requests : Sound(call'[q])
        /\ Referenced' = Referenced
    BY <2>1, <2>2, BecomeSound
  <2> QED
    BY <1>4, <2>3 DEF Answer, TypeOK, Sound
<1>5. ASSUME NEW r \in Requests, Resume(r) PROVE TypeOK'
  <2> DEFINE c == [Idle EXCEPT !.sid = call[r].sid,
                               !.pc = IF /\ call[r].sawLive
                                         /\ call[r].sawVersion = sess[call[r].sid].tv
                                        THEN "in" ELSE "refused"]
  <2>1. Sound(c)
    BY <1>5 DEF Resume, At, TypeOK, Sound, Idle, Call, Naming
  <2>2. Become(r, c)
    BY <1>5 DEF Resume
  <2>3. c.hit = NoSet
    BY DEF Idle
  <2> HIDE DEF c
  <2>4. /\ call' \in [Requests -> Call]
        /\ \A q \in Requests : Sound(call'[q])
    BY <2>1, <2>2, BecomeSound
  <2>5. \A q \in Requests : call'[q].hit \in {call[q].hit, NoSet}
    BY <2>2, <2>3 DEF TypeOK, Become
  <2>6. /\ cache' \in [version : Nat, set : Sets \cup {NoSet}]
        /\ liveSets' \in [Referenced' -> SUBSET Sessions]
    <3>1. CASE call[r].sawLive
      <4> DEFINE known == call[r].hit # NoSet
      <4>1. \E at \in IF known THEN {call[r].hit} ELSE Sets \ Referenced :
              /\ cache' = [version |-> call[r].sawVersion, set |-> at]
              /\ Keep([i \in Sets |-> IF i # at THEN liveSets[i]
                                      ELSE IF known THEN liveSets[i] \cup {call[r].sid}
                                      ELSE {call[r].sid}])
        BY <1>5, <3>1 DEF Resume
      <4>2. call[r].hit \in Sets \cup {NoSet}
        BY DEF TypeOK, Call
      <4>3. PICK at \in Sets :
              /\ known => at = call[r].hit
              /\ cache' = [version |-> call[r].sawVersion, set |-> at]
              /\ Keep([i \in Sets |-> IF i # at THEN liveSets[i]
                                      ELSE IF known THEN liveSets[i] \cup {call[r].sid}
                                      ELSE {call[r].sid}])
        BY <4>1, <4>2, Zenon
      <4>4. Referenced' \subseteq Referenced \cup {at}
        BY <2>5, <4>3 DEF Referenced
      <4>5. Referenced' \subseteq Sets
        BY <2>4, <4>3 DEF Referenced, Call
      <4>6. call[r].sid \in Sessions /\ call[r].sawVersion \in Nat
        BY <1>5 DEF Resume, At, TypeOK, Naming, Call
      <4>7. call[r].hit # NoSet => call[r].hit \in Referenced
        BY DEF Referenced
      <4> QED
        BY <4>3, <4>4, <4>5, <4>6, <4>7 DEF Keep, TypeOK
    <3>2. CASE ~call[r].sawLive
      <4>1. cache' = cache /\ Keep(liveSets)
        BY <1>5, <3>2 DEF Resume
      <4>2. Referenced' \subseteq Referenced
        BY <2>5, <4>1 DEF Referenced
      <4> QED
        BY <4>1, <4>2 DEF Keep, TypeOK
    <3> QED
      BY <3>1, <3>2
  <2> QED
    BY <1>5, <2>4, <2>6 DEF Resume, TypeOK, Sound
<1>6. ASSUME NEW r \in Requests, Leave(r) PROVE TypeOK'
  BY <1>6 DEF Leave, TypeOK, Become, Go, At, Idle, Call, Naming, Referenced, Keep,
    NoEntry, Session, Live, NoSession
<1>7. ASSUME NEW r \in Requests, Logout(r) PROVE TypeOK'
  BY <1>7, SMTT(20) DEF Logout, TypeOK, Become, Go, At, Idle, Call, Naming, Referenced,
    Keep, NoEntry, Session, Live, NoSession
<1>8. ASSUME NEW r \in Requests, InvalidateSession(r) PROVE TypeOK'
  BY <1>8 DEF InvalidateSession, TypeOK, Become, Go, At, Idle, Call, Naming,
    Referenced, Keep, NoEntry, Session, Live, NoSession
<1>9. ASSUME NEW r \in Requests, AlsoRevoke(r) PROVE TypeOK'
  BY <1>9, SMTT(20) DEF AlsoRevoke, TypeOK, Become, Go, At, Idle, Call, Naming, Referenced,
    Keep, NoEntry, Session, Live, NoSession
<1>10. ASSUME NEW r \in Requests, LogoutAll(r) PROVE TypeOK'
  <2>1. EndAll(r, "bump") /\ call[r].hit = NoSet
    BY <1>10 DEF LogoutAll, At, TypeOK
  <2>2. /\ sess' \in [Sessions -> Session]
        /\ epoch' \in Nat
        /\ cache' \in [version : Nat, set : Sets \cup {NoSet}]
        /\ liveSets' \in [Referenced' -> SUBSET Sessions]
        /\ call' \in [Requests -> Call]
        /\ \A q \in Requests : Sound(call'[q])
        /\ loggedOut' \subseteq Sessions
        /\ faults' \in 0 .. MaxFaults
    BY <2>1, EndAllSound
  <2>3. {version', password', epoch'} \subseteq Nat /\ active' \in BOOLEAN
    BY <1>10, <2>2 DEF LogoutAll, TypeOK
  <2> QED
    BY <2>2, <2>3 DEF TypeOK, Sound
<1>11. ASSUME NEW r \in Requests, AdminEndsAll(r) PROVE TypeOK'
  <2>1. EndAll(r, "forget") /\ call[r].hit = NoSet
    BY <1>11 DEF AdminEndsAll, At, TypeOK
  <2>2. /\ sess' \in [Sessions -> Session]
        /\ epoch' \in Nat
        /\ cache' \in [version : Nat, set : Sets \cup {NoSet}]
        /\ liveSets' \in [Referenced' -> SUBSET Sessions]
        /\ call' \in [Requests -> Call]
        /\ \A q \in Requests : Sound(call'[q])
        /\ loggedOut' \subseteq Sessions
        /\ faults' \in 0 .. MaxFaults
    BY <2>1, EndAllSound
  <2>3. {version', password', epoch'} \subseteq Nat /\ active' \in BOOLEAN
    BY <1>11, <2>2 DEF AdminEndsAll, TypeOK
  <2> QED
    BY <2>2, <2>3 DEF TypeOK, Sound
<1>12. ASSUME NEW r \in Requests, DeleteAccount(r) PROVE TypeOK'
  <2>1. EndAll(r, "bump") /\ call[r].hit = NoSet
    BY <1>12 DEF DeleteAccount, At, TypeOK
  <2>2. /\ sess' \in [Sessions -> Session]
        /\ epoch' \in Nat
        /\ cache' \in [version : Nat, set : Sets \cup {NoSet}]
        /\ liveSets' \in [Referenced' -> SUBSET Sessions]
        /\ call' \in [Requests -> Call]
        /\ \A q \in Requests : Sound(call'[q])
        /\ loggedOut' \subseteq Sessions
        /\ faults' \in 0 .. MaxFaults
    BY <2>1, EndAllSound
  <2>3. password' = password + 1 /\ version' = version /\ active' \in BOOLEAN
    BY <1>12 DEF DeleteAccount
  <2>4. {version', password', epoch'} \subseteq Nat
    BY <2>2, <2>3, SMT DEF TypeOK
  <2> QED
    BY <2>2, <2>3, <2>4 DEF TypeOK, Sound
<1>13. ASSUME NEW r \in Requests, ReadHash(r) PROVE TypeOK'
  <2>0. PICK again \in BOOLEAN :
          Become(r, [Idle EXCEPT !.pc = "hashing", !.hash = password, !.reopen = again])
    BY <1>13 DEF ReadHash
  <2> DEFINE c == [Idle EXCEPT !.pc = "hashing", !.hash = password, !.reopen = again]
  <2>1. Sound(c) /\ c.hit = call[r].hit
    BY <1>13 DEF ReadHash, At, TypeOK, Sound, Idle, Call, Naming
  <2>2. Become(r, c) /\ cache' = cache
    BY <1>13, <2>0 DEF ReadHash
  <2> HIDE DEF c
  <2>3. /\ call' \in [Requests -> Call]
        /\ \A q \in Requests : Sound(call'[q])
        /\ Referenced' = Referenced
    BY <2>1, <2>2, BecomeSound
  <2> QED
    BY <1>13, <2>3 DEF ReadHash, TypeOK, Sound
<1>14. ASSUME NEW r \in Requests, ChangePassword(r) PROVE TypeOK'
  <2> DEFINE c == IF call[r].hash = password
                    THEN [Idle EXCEPT !.pc = "bump", !.reopen = TRUE, !.epoch = epoch + 1]
                    ELSE Idle
  <2>1. Sound(c) /\ c.hit = call[r].hit
    <3>1. epoch + 1 \in Nat /\ call[r].hit = NoSet
      BY <1>14 DEF ChangePassword, At, TypeOK
    <3> QED
      BY <3>1 DEF Sound, Idle, Call, Naming
  <2>2. Become(r, c) /\ cache' = cache
    BY <1>14 DEF ChangePassword
  <2> HIDE DEF c
  <2>3. /\ call' \in [Requests -> Call]
        /\ \A q \in Requests : Sound(call'[q])
        /\ Referenced' = Referenced
    BY <2>1, <2>2, BecomeSound
  <2>4. sess' \in [Sessions -> Session] /\ {version', password', epoch'} \subseteq Nat
    BY <1>14, AllEndedSound DEF ChangePassword, TypeOK
  <2> QED
    BY <1>14, <2>3, <2>4 DEF ChangePassword, TypeOK, Sound
<1>15. ASSUME NEW r \in Requests, ResetPassword(r) PROVE TypeOK'
  <2>1. EndAll(r, "bump") /\ call[r].hit = NoSet
    BY <1>15 DEF ResetPassword, At, TypeOK
  <2>2. /\ sess' \in [Sessions -> Session]
        /\ epoch' \in Nat
        /\ cache' \in [version : Nat, set : Sets \cup {NoSet}]
        /\ liveSets' \in [Referenced' -> SUBSET Sessions]
        /\ call' \in [Requests -> Call]
        /\ \A q \in Requests : Sound(call'[q])
        /\ loggedOut' \subseteq Sessions
        /\ faults' \in 0 .. MaxFaults
    BY <2>1, EndAllSound
  <2>3. {version', password', epoch'} \subseteq Nat /\ active' \in BOOLEAN
    BY <1>15, <2>2 DEF ResetPassword, TypeOK
  <2> QED
    BY <2>2, <2>3 DEF TypeOK, Sound
<1>16. ASSUME NEW r \in Requests, BumpVersion(r) PROVE TypeOK'
  BY <1>16, SMTT(20) DEF BumpVersion, TypeOK, Become, Go, At, Idle, Call, Naming,
    Referenced, Keep, NoEntry, Session, Live, NoSession
<1>17. ASSUME NEW r \in Requests, ForgetTokens(r) PROVE TypeOK'
  <2> DEFINE c == IF call[r].reopen THEN [Idle EXCEPT !.pc = "opening", !.epoch = call[r].epoch]
                                    ELSE Idle
  <2>1. Sound(c) /\ c.hit = call[r].hit
    <3>1. call[r].epoch \in Nat /\ call[r].hit = NoSet
      BY <1>17 DEF ForgetTokens, At, TypeOK, Call
    <3> QED
      BY <3>1 DEF Sound, Idle, Call, Naming
  <2>2. Become(r, c)
    BY <1>17 DEF ForgetTokens
  <2> HIDE DEF c
  <2>3. /\ call' \in [Requests -> Call]
        /\ \A q \in Requests : Sound(call'[q]) /\ call'[q].hit = call[q].hit
    BY <2>1, <2>2, BecomeSound DEF TypeOK, Become
  <2>4. Referenced' \subseteq Referenced
    BY <1>17, <2>3 DEF ForgetTokens, NoEntry, Referenced
  <2>5. liveSets' \in [Referenced' -> SUBSET Sessions]
    BY <1>17, <2>4 DEF ForgetTokens, Keep, TypeOK
  <2> QED
    BY <1>17, <2>3, <2>5 DEF ForgetTokens, NoEntry, TypeOK, Sound
<1>18. ASSUME NEW r \in Requests, HitExpires(r) PROVE TypeOK'
  BY <1>18 DEF HitExpires, TypeOK, Become, Go, At, Idle, Call, Naming, Referenced,
    Keep, NoEntry, Session, Live, NoSession
<1>19. ASSUME NEW r \in Requests, Fail(r) PROVE TypeOK'
  BY <1>19 DEF Fail, TypeOK, Become, Go, At, Idle, Call, Naming, Referenced, Keep,
    NoEntry, Session, Live, NoSession
<1>20. ASSUME NEW r \in Requests, NEW s \in Sessions, Rotate(r, s) PROVE TypeOK'
  <2> DEFINE c == [Idle EXCEPT !.pc = "opening", !.from = s, !.epoch = epoch]
  <2>1. Sound(c) /\ c.hit = call[r].hit
    BY <1>20 DEF Rotate, At, TypeOK, Sound, Idle, Call, Naming
  <2>2. Become(r, c) /\ cache' = cache
    BY <1>20 DEF Rotate
  <2> HIDE DEF c
  <2>3. /\ call' \in [Requests -> Call]
        /\ \A q \in Requests : Sound(call'[q])
        /\ Referenced' = Referenced
    BY <2>1, <2>2, BecomeSound
  <2>4. sess' \in [Sessions -> Session]
    <3>1. \A x \in Session :
            [x EXCEPT !.state = "ended", !.rotation = "recent"] \in Session
      BY DEF Session
    <3> QED
      BY <1>20, <3>1 DEF Rotate, TypeOK
  <2> QED
    BY <1>20, <2>3, <2>4 DEF Rotate, TypeOK, Sound
<1>21. ASSUME NEW r \in Requests, NEW s \in Sessions, RotateNothing(r, s) PROVE TypeOK'
  <2> DEFINE c == [Idle EXCEPT !.pc = "lookup", !.sid = s]
  <2>1. Sound(c) /\ c.hit = call[r].hit
    BY <1>21 DEF RotateNothing, At, TypeOK, Sound, Idle, Call, Naming
  <2>2. Become(r, c) /\ cache' = cache
    BY <1>21 DEF RotateNothing
  <2> HIDE DEF c
  <2>3. /\ call' \in [Requests -> Call]
        /\ \A q \in Requests : Sound(call'[q])
        /\ Referenced' = Referenced
    BY <2>1, <2>2, BecomeSound
  <2> QED
    BY <1>21, <2>3 DEF RotateNothing, TypeOK, Sound
<1>22. ASSUME NEW r \in Requests, NEW s \in Sessions, Open(r, s) PROVE TypeOK'
  <2> DEFINE c == [call[r] EXCEPT !.pc = "signing", !.sid = s]
  <2>1. Sound(c) /\ c.hit = call[r].hit
    <3>1. Sound(call[r]) /\ call[r].hit = NoSet
      BY <1>22 DEF Open, At, TypeOK, Sound
    <3> QED
      BY <3>1 DEF Sound, Call, Naming
  <2>2. Become(r, c) /\ cache' = cache
    BY <1>22 DEF Open
  <2> HIDE DEF c
  <2>3. /\ call' \in [Requests -> Call]
        /\ \A q \in Requests : Sound(call'[q])
        /\ Referenced' = Referenced
    BY <2>1, <2>2, BecomeSound
  <2>4. sess' \in [Sessions -> Session]
    <3>1. [NoSession EXCEPT !.state = "live", !.from = call[r].from,
                            !.epoch = call[r].epoch] \in Session
      <4>1. call[r].from \in Sessions \cup {None} /\ call[r].epoch \in Nat
        BY DEF TypeOK, Call
      <4> QED
        BY <4>1 DEF NoSession, Session
    <3> QED
      BY <1>22, <3>1 DEF Open, TypeOK
  <2> QED
    BY <1>22, <2>3, <2>4 DEF Open, TypeOK, Sound
<1>23. ASSUME NEW r \in Requests, NEW s \in Sessions, Arrive(r, s) PROVE TypeOK'
  <2> DEFINE c == [Idle EXCEPT !.pc = IF Hit(s) THEN "in" ELSE "asking",
                               !.sid = s,
                               !.hit = IF Hit(s) THEN NoSet ELSE cache.set]
  <2>1. Sound(c)
    <3>1. cache.set \in Sets \cup {NoSet}
      BY DEF TypeOK
    <3> QED
      BY <3>1 DEF Sound, Idle, Call, Naming
  <2>2. c.hit \in {NoSet, cache.set} /\ call[r].hit = NoSet
    BY <1>23 DEF Arrive, At, TypeOK, Idle
  <2>3. Become(r, c) /\ cache' = cache
    BY <1>23 DEF Arrive
  <2> HIDE DEF c
  <2>4. /\ call' \in [Requests -> Call]
        /\ \A q \in Requests : Sound(call'[q])
    BY <2>1, <2>3, BecomeSound
  <2>5. Referenced' = Referenced
    <3>1. \A q \in Requests : call'[q] = IF q = r THEN c ELSE call[q]
      BY <2>3 DEF TypeOK, Become
    <3>2. {call'[q].hit : q \in Requests} \ {NoSet, cache.set}
            = {call[q].hit : q \in Requests} \ {NoSet, cache.set}
      BY <3>1, <2>2
    <3> QED
      BY <3>2, <2>3 DEF Referenced
  <2> QED
    BY <1>23, <2>4, <2>5 DEF Arrive, TypeOK, Sound
<1>24. ASSUME NEW s \in Sessions, GraceEnds(s) PROVE TypeOK'
  BY <1>24 DEF GraceEnds, TypeOK, Become, Go, At, Idle, Call, Naming, Referenced,
    Keep, NoEntry, Session, Live, NoSession
<1>25. ASSUME NEW s \in Sessions, SessionExpires(s) PROVE TypeOK'
  BY <1>25 DEF SessionExpires, TypeOK, Become, Go, At, Idle, Call, Naming,
    Referenced, Keep, NoEntry, Session, Live, NoSession
<1>26. ASSUME CacheExpires PROVE TypeOK'
  <2>1. \A r \in Requests : /\ call'[r] \in Call /\ call'[r].hit = NoSet
                            /\ call'[r].pc = call[r].pc /\ call'[r].sid = call[r].sid
    BY <1>26 DEF CacheExpires, TypeOK, Call
  <2>2. call' \in [Requests -> Call]
    BY <1>26, <2>1 DEF CacheExpires
  <2>3. Referenced' = {}
    BY <1>26, <2>1 DEF CacheExpires, NoEntry, Referenced
  <2>4. liveSets' \in [Referenced' -> SUBSET Sessions]
    BY <1>26, <2>3 DEF CacheExpires, Keep
  <2> QED
    BY <1>26, <2>1, <2>2, <2>4 DEF CacheExpires, NoEntry, TypeOK
<1>27. ASSUME RolesChange PROVE TypeOK'
  BY <1>27 DEF RolesChange, TypeOK, Become, Go, At, Idle, Call, Naming,
    Referenced, Keep, NoEntry, Session, Live, NoSession
<1>28. ASSUME Restart PROVE TypeOK'
  BY <1>28 DEF Restart, TypeOK, Become, Go, At, Idle, Call, Naming, Referenced,
    Keep, NoEntry, Session, Live, NoSession
<1>29. CASE UNCHANGED vars
  BY <1>29 DEF vars, TypeOK, Referenced
<1> QED
  BY <1>1, <1>2, <1>3, <1>4, <1>5, <1>6, <1>7, <1>8, <1>9, <1>10, <1>11, <1>12,
     <1>13, <1>14, <1>15, <1>16, <1>17, <1>18, <1>19, <1>20, <1>21, <1>22,
     <1>23, <1>24, <1>25, <1>26, <1>27, <1>28, <1>29 DEF Next, Request

\* The table, the cache and the requests keep their shape.
THEOREM TypeCorrect == Spec => []TypeOK
<1>1. Init => TypeOK
  <2> SUFFICES ASSUME Init PROVE TypeOK
    OBVIOUS
  <2>1. NoSession \in Session
    BY DEF NoSession, Session
  <2>2. \A r \in Requests : Sound(call[r]) /\ call[r].hit = NoSet
    BY IdleSound DEF Init, Idle
  <2>3. call \in [Requests -> Call]
    BY <2>2 DEF Init, Sound
  <2>4. Referenced = {}
    BY <2>2 DEF Init, Referenced, NoEntry
  <2>5. liveSets \in [Referenced -> SUBSET Sessions]
    BY <2>4 DEF Init
  <2>6. faults \in 0 .. MaxFaults
    BY SessionsAssumption DEF Init
  <2> QED
    BY <2>1, <2>2, <2>3, <2>5, <2>6 DEF Init, TypeOK, Sound, NoEntry
<1> QED
  BY <1>1, TypeStep, PTL DEF Spec

----------------------------------------------------------------------------
\* Nothing of session s is in a live set or in an answer that was not read.
Clean(s) ==
  /\ \A i \in Referenced : s \notin liveSets[i]
  /\ \A q \in Requests : ~(call[q].pc = "answered" /\ call[q].sid = s /\ call[q].sawLive)

LEMMA CleanLeavesNothing ==
  ASSUME NEW s \in Sessions
  PROVE  Clean(s) <=> ~Lingers(s)
BY DEF Clean, Lingers, Referenced, At

\* A step that only drops live sets, or takes members from them, and asks the
\* database nothing, leaves a clean session clean.
LEMMA StaysClean ==
  ASSUME NEW s \in Sessions, Clean(s),
         Referenced' \subseteq Referenced,
         \A i \in Referenced' : liveSets'[i] \subseteq liveSets[i],
         \A q \in Requests :
           call'[q].pc = "answered" => /\ call[q].pc = "answered"
                                       /\ call'[q].sid = call[q].sid
                                       /\ call'[q].sawLive = call[q].sawLive
  PROVE  Clean(s)'
BY DEF Clean

LEMMA NothingReturns ==
  ASSUME TypeOK, TypeOK', NEW s \in Sessions, sess[s].state = "ended", Clean(s), Next
  PROVE  Clean(s)'
<1>1. liveSets' = liveSets => Referenced' = Referenced
  BY DEF TypeOK
<1>2. \A q \in Requests : \A c : call' = [call EXCEPT ![q] = c]
        => \A p \in Requests : call'[p] = IF p = q THEN c ELSE call[p]
  BY DEF TypeOK
<1>3. ASSUME NEW r \in Requests, Login(r) PROVE Clean(s)'
  <2>1. \A q \in Requests : IF q = r THEN call'[q].pc # "answered"
                                      ELSE call'[q] = call[q]
    BY <1>3, <1>2 DEF Login, Become, Go, Idle, TypeOK, Call
  <2>2. liveSets' = liveSets
    BY <1>3 DEF Login
  <2> QED
    BY <2>1, <2>2, <1>1, StaysClean
<1>4. ASSUME NEW r \in Requests, Lookup(r) PROVE Clean(s)'
  <2>1. \A q \in Requests : IF q = r THEN call'[q].pc # "answered"
                                      ELSE call'[q] = call[q]
    BY <1>4, <1>2 DEF Lookup, Become, Go, Idle, TypeOK, Call
  <2>2. liveSets' = liveSets
    BY <1>4 DEF Lookup
  <2> QED
    BY <2>1, <2>2, <1>1, StaysClean
<1>5. ASSUME NEW r \in Requests, Sign(r) PROVE Clean(s)'
  <2>1. \A q \in Requests : IF q = r THEN call'[q].pc # "answered"
                                      ELSE call'[q] = call[q]
    BY <1>5, <1>2 DEF Sign, Become, Go, Idle, TypeOK, Call
  <2>2. liveSets' = liveSets
    BY <1>5 DEF Sign
  <2> QED
    BY <2>1, <2>2, <1>1, StaysClean
<1>6. ASSUME NEW r \in Requests, Leave(r) PROVE Clean(s)'
  <2>1. \A q \in Requests : IF q = r THEN call'[q].pc # "answered"
                                      ELSE call'[q] = call[q]
    BY <1>6, <1>2 DEF Leave, Become, Go, Idle, TypeOK, Call
  <2>2. liveSets' = liveSets
    BY <1>6 DEF Leave
  <2> QED
    BY <2>1, <2>2, <1>1, StaysClean
<1>7. ASSUME NEW r \in Requests, Logout(r) PROVE Clean(s)'
  <2>1. \A q \in Requests : IF q = r THEN call'[q].pc # "answered"
                                      ELSE call'[q] = call[q]
    BY <1>7, <1>2 DEF Logout, Become, Go, Idle, TypeOK, Call
  <2>2. liveSets' = liveSets
    BY <1>7 DEF Logout
  <2> QED
    BY <2>1, <2>2, <1>1, StaysClean
<1>8. ASSUME NEW r \in Requests, AlsoRevoke(r) PROVE Clean(s)'
  <2>1. \A q \in Requests : IF q = r THEN call'[q].pc # "answered"
                                      ELSE call'[q] = call[q]
    BY <1>8, <1>2 DEF AlsoRevoke, Become, Go, Idle, TypeOK, Call
  <2>2. liveSets' = liveSets
    BY <1>8 DEF AlsoRevoke
  <2> QED
    BY <2>1, <2>2, <1>1, StaysClean
<1>9. ASSUME NEW r \in Requests, ReadHash(r) PROVE Clean(s)'
  <2>1. \A q \in Requests : IF q = r THEN call'[q].pc # "answered"
                                      ELSE call'[q] = call[q]
    BY <1>9, <1>2 DEF ReadHash, Become, Go, Idle, TypeOK, Call
  <2>2. liveSets' = liveSets
    BY <1>9 DEF ReadHash
  <2> QED
    BY <2>1, <2>2, <1>1, StaysClean
<1>10. ASSUME NEW r \in Requests, ChangePassword(r) PROVE Clean(s)'
  <2>1. \A q \in Requests : IF q = r THEN call'[q].pc # "answered"
                                      ELSE call'[q] = call[q]
    <3> DEFINE c == IF call[r].hash = password
                      THEN [Idle EXCEPT !.pc = "bump", !.reopen = TRUE, !.epoch = epoch + 1]
                      ELSE Idle
    <3>1. call' = [call EXCEPT ![r] = c]
      BY <1>10 DEF ChangePassword, Become
    <3>2. c.pc # "answered"
      BY DEF Idle
    <3> HIDE DEF c
    <3> QED
      BY <3>1, <3>2 DEF TypeOK
  <2>2. liveSets' = liveSets
    BY <1>10 DEF ChangePassword
  <2> QED
    BY <2>1, <2>2, <1>1, StaysClean
<1>11. ASSUME NEW r \in Requests, BumpVersion(r) PROVE Clean(s)'
  <2>1. \A q \in Requests : IF q = r THEN call'[q].pc # "answered"
                                      ELSE call'[q] = call[q]
    BY <1>11, <1>2 DEF BumpVersion, Become, Go, Idle, TypeOK, Call
  <2>2. liveSets' = liveSets
    BY <1>11 DEF BumpVersion
  <2> QED
    BY <2>1, <2>2, <1>1, StaysClean
<1>12. ASSUME NEW r \in Requests, LogoutAll(r) PROVE Clean(s)'
  <2>1. \A q \in Requests : IF q = r THEN call'[q].pc # "answered"
                                      ELSE call'[q] = call[q]
    BY <1>12, <1>2 DEF LogoutAll, EndAll, Become, Go, Idle, TypeOK, Call
  <2>2. liveSets' = liveSets
    BY <1>12 DEF LogoutAll, EndAll
  <2> QED
    BY <2>1, <2>2, <1>1, StaysClean
<1>13. ASSUME NEW r \in Requests, AdminEndsAll(r) PROVE Clean(s)'
  <2>1. \A q \in Requests : IF q = r THEN call'[q].pc # "answered"
                                      ELSE call'[q] = call[q]
    BY <1>13, <1>2 DEF AdminEndsAll, EndAll, Become, Go, Idle, TypeOK, Call
  <2>2. liveSets' = liveSets
    BY <1>13 DEF AdminEndsAll, EndAll
  <2> QED
    BY <2>1, <2>2, <1>1, StaysClean
<1>14. ASSUME NEW r \in Requests, DeleteAccount(r) PROVE Clean(s)'
  <2>1. \A q \in Requests : IF q = r THEN call'[q].pc # "answered"
                                      ELSE call'[q] = call[q]
    BY <1>14, <1>2 DEF DeleteAccount, EndAll, Become, Go, Idle, TypeOK, Call
  <2>2. liveSets' = liveSets
    BY <1>14 DEF DeleteAccount, EndAll
  <2> QED
    BY <2>1, <2>2, <1>1, StaysClean
<1>15. ASSUME NEW r \in Requests, ResetPassword(r) PROVE Clean(s)'
  <2>1. \A q \in Requests : IF q = r THEN call'[q].pc # "answered"
                                      ELSE call'[q] = call[q]
    BY <1>15, <1>2 DEF ResetPassword, EndAll, Become, Go, Idle, TypeOK, Call
  <2>2. liveSets' = liveSets
    BY <1>15 DEF ResetPassword, EndAll
  <2> QED
    BY <2>1, <2>2, <1>1, StaysClean
<1>16. ASSUME NEW r \in Requests, NEW x \in Sessions, Rotate(r, x) PROVE Clean(s)'
  <2>1. \A q \in Requests : IF q = r THEN call'[q].pc # "answered"
                                      ELSE call'[q] = call[q]
    BY <1>16, <1>2 DEF Rotate, Become, Go, Idle, TypeOK, Call
  <2>2. liveSets' = liveSets
    BY <1>16 DEF Rotate
  <2> QED
    BY <2>1, <2>2, <1>1, StaysClean
<1>17. ASSUME NEW r \in Requests, NEW x \in Sessions, RotateNothing(r, x) PROVE Clean(s)'
  <2>1. \A q \in Requests : IF q = r THEN call'[q].pc # "answered"
                                      ELSE call'[q] = call[q]
    BY <1>17, <1>2 DEF RotateNothing, Become, Go, Idle, TypeOK, Call
  <2>2. liveSets' = liveSets
    BY <1>17 DEF RotateNothing
  <2> QED
    BY <2>1, <2>2, <1>1, StaysClean
<1>18. ASSUME NEW r \in Requests, NEW x \in Sessions, Open(r, x) PROVE Clean(s)'
  <2>1. \A q \in Requests : IF q = r THEN call'[q].pc # "answered"
                                      ELSE call'[q] = call[q]
    BY <1>18, <1>2 DEF Open, Become, Go, Idle, TypeOK, Call
  <2>2. liveSets' = liveSets
    BY <1>18 DEF Open
  <2> QED
    BY <2>1, <2>2, <1>1, StaysClean
<1>19. ASSUME NEW r \in Requests, NEW x \in Sessions, Arrive(r, x) PROVE Clean(s)'
  <2>1. \A q \in Requests : IF q = r THEN call'[q].pc # "answered"
                                      ELSE call'[q] = call[q]
    BY <1>19, <1>2 DEF Arrive, Become, Go, Idle, TypeOK, Call
  <2>2. liveSets' = liveSets
    BY <1>19 DEF Arrive
  <2> QED
    BY <2>1, <2>2, <1>1, StaysClean
<1>20. ASSUME NEW r \in Requests, Answer(r) PROVE Clean(s)'
  <2>1. Referenced' = Referenced /\ liveSets' = liveSets
    BY <1>20, <1>1 DEF Answer
  <2>2. \A q \in Requests : q # r => call'[q] = call[q]
    BY <1>20, <1>2 DEF Answer, Become
  <2>3. call'[r].sid = call[r].sid /\ (call'[r].sawLive <=> active /\ Live(call[r].sid))
    <3> DEFINE found == active /\ Live(call[r].sid)
               c == [call[r] EXCEPT !.pc = "answered", !.sawLive = found,
                                    !.sawVersion = version]
    <3>1. call' = [call EXCEPT ![r] = c]
      BY <1>20 DEF Answer, Become
    <3>2. c.sid = call[r].sid /\ (c.sawLive <=> found)
      <4> HIDE DEF found
      <4>1. call[r] \in Call
        BY DEF TypeOK
      <4> QED
        BY <4>1 DEF Call
    <3> HIDE DEF c
    <3> QED
      BY <3>1, <3>2 DEF TypeOK
  <2> QED
    BY <2>1, <2>2, <2>3 DEF Clean, Live
<1>21. ASSUME NEW r \in Requests, InvalidateSession(r) PROVE Clean(s)'
  <2>1. Referenced' = Referenced
    BY <1>21 DEF InvalidateSession, TypeOK
  <2>2. \A i \in Referenced' : liveSets'[i] \subseteq liveSets[i]
    BY <1>21, <2>1 DEF InvalidateSession
  <2> QED
    BY <1>21, <1>2, <2>1, <2>2, StaysClean DEF InvalidateSession, Go, Become
<1>22. ASSUME NEW r \in Requests, Resume(r) PROVE Clean(s)'
  <2>1. \A q \in Requests : /\ q # r => call'[q] = call[q]
                            /\ call'[r].pc # "answered"
                            /\ call'[r].hit = NoSet
    <3> DEFINE c == [Idle EXCEPT !.sid = call[r].sid,
                                 !.pc = IF /\ call[r].sawLive
                                           /\ call[r].sawVersion = sess[call[r].sid].tv
                                          THEN "in" ELSE "refused"]
    <3>1. call' = [call EXCEPT ![r] = c]
      BY <1>22 DEF Resume, Become
    <3>2. c.pc # "answered" /\ c.hit = NoSet
      BY DEF Idle
    <3> HIDE DEF c
    <3> QED
      BY <3>1, <3>2 DEF TypeOK
  <2>2. \A i \in Referenced' : s \notin liveSets'[i]
    <3>1. CASE call[r].sawLive
      <4>1. call[r].sid # s
        BY <1>22, <3>1 DEF Resume, At, Clean
      <4> DEFINE known == call[r].hit # NoSet
      <4>2. \E at \in IF known THEN {call[r].hit} ELSE Sets \ Referenced :
              /\ cache' = [version |-> call[r].sawVersion, set |-> at]
              /\ Keep([i \in Sets |-> IF i # at THEN liveSets[i]
                                      ELSE IF known THEN liveSets[i] \cup {call[r].sid}
                                      ELSE {call[r].sid}])
        BY <1>22, <3>1 DEF Resume
      <4>3. PICK at : /\ known => at = call[r].hit
                      /\ cache' = [version |-> call[r].sawVersion, set |-> at]
                      /\ Keep([i \in Sets |-> IF i # at THEN liveSets[i]
                                              ELSE IF known THEN liveSets[i] \cup {call[r].sid}
                                              ELSE {call[r].sid}])
        BY <4>2, Zenon
      <4>4. Referenced' \subseteq Referenced \cup {at}
        BY <4>3, <2>1 DEF Referenced
      <4>5. Referenced' \subseteq Sets
        BY DEF TypeOK, Call, Referenced
      <4>6. known => call[r].hit \in Referenced
        BY DEF Referenced
      <4> QED
        BY <4>1, <4>3, <4>4, <4>5, <4>6 DEF Keep, Clean
    <3>2. CASE ~call[r].sawLive
      <4>1. cache' = cache /\ Keep(liveSets)
        BY <1>22, <3>2 DEF Resume
      <4>2. Referenced' \subseteq Referenced
        BY <2>1, <4>1 DEF Referenced
      <4> QED
        BY <4>1, <4>2 DEF Keep, Clean
    <3> QED
      BY <3>1, <3>2
  <2> QED
    BY <2>1, <2>2 DEF Clean
<1>23. ASSUME NEW r \in Requests, ForgetTokens(r) PROVE Clean(s)'
  <2>1. \A q \in Requests : /\ call'[q].hit \in {call[q].hit, NoSet}
                            /\ call'[q].pc = "answered" =>
                                 /\ call[q].pc = "answered"
                                 /\ call'[q].sid = call[q].sid
                                 /\ call'[q].sawLive = call[q].sawLive
    <3> DEFINE c == IF call[r].reopen
                      THEN [Idle EXCEPT !.pc = "opening", !.epoch = call[r].epoch]
                      ELSE Idle
    <3>1. call' = [call EXCEPT ![r] = c]
      BY <1>23 DEF ForgetTokens, Become
    <3>2. c.pc # "answered" /\ c.hit = NoSet
      BY DEF Idle
    <3> HIDE DEF c
    <3> QED
      BY <3>1, <3>2 DEF TypeOK
  <2>2. cache'.set \in {cache.set, NoSet} /\ Keep(liveSets)
    BY <1>23 DEF ForgetTokens, NoEntry
  <2>3. Referenced' \subseteq Referenced
    BY <2>1, <2>2 DEF Referenced
  <2> QED
    BY <2>1, <2>2, <2>3, StaysClean DEF Keep
<1>24. ASSUME NEW r \in Requests, HitExpires(r) PROVE Clean(s)'
  <2>1. \A q \in Requests : /\ call'[q].hit \in {call[q].hit, NoSet}
                            /\ call'[q].pc = "answered" =>
                                 /\ call[q].pc = "answered"
                                 /\ call'[q].sid = call[q].sid
                                 /\ call'[q].sawLive = call[q].sawLive
    BY <1>24, <1>2 DEF HitExpires, Become, Idle, At, TypeOK, Call
  <2>2. cache'.set \in {cache.set, NoSet} /\ Keep(liveSets)
    BY <1>24 DEF HitExpires, NoEntry
  <2>3. Referenced' \subseteq Referenced
    BY <2>1, <2>2 DEF Referenced
  <2> QED
    BY <2>1, <2>2, <2>3, StaysClean DEF Keep
<1>25. ASSUME NEW r \in Requests, Fail(r) PROVE Clean(s)'
  <2>1. \A q \in Requests : /\ call'[q].hit \in {call[q].hit, NoSet}
                            /\ call'[q].pc = "answered" =>
                                 /\ call[q].pc = "answered"
                                 /\ call'[q].sid = call[q].sid
                                 /\ call'[q].sawLive = call[q].sawLive
    BY <1>25, <1>2 DEF Fail, Become, Idle, At, TypeOK, Call
  <2>2. cache'.set \in {cache.set, NoSet} /\ Keep(liveSets)
    BY <1>25 DEF Fail, NoEntry
  <2>3. Referenced' \subseteq Referenced
    BY <2>1, <2>2 DEF Referenced
  <2> QED
    BY <2>1, <2>2, <2>3, StaysClean DEF Keep
<1>26. ASSUME NEW x \in Sessions, GraceEnds(x) PROVE Clean(s)'
  BY <1>26, <1>1, StaysClean DEF GraceEnds
<1>27. ASSUME NEW x \in Sessions, SessionExpires(x) PROVE Clean(s)'
  BY <1>27, <1>1, StaysClean DEF SessionExpires
<1>28. ASSUME CacheExpires PROVE Clean(s)'
  <2>1. \A q \in Requests : /\ call'[q].hit \in {call[q].hit, NoSet}
                            /\ call'[q].pc = "answered" =>
                                 /\ call[q].pc = "answered"
                                 /\ call'[q].sid = call[q].sid
                                 /\ call'[q].sawLive = call[q].sawLive
    BY <1>28 DEF CacheExpires, Idle, TypeOK, Call
  <2>2. cache'.set = NoSet /\ Keep(liveSets)
    BY <1>28 DEF CacheExpires, NoEntry
  <2>3. Referenced' \subseteq Referenced
    BY <2>1, <2>2 DEF Referenced
  <2> QED
    BY <2>1, <2>2, <2>3, StaysClean DEF Keep
<1>29. ASSUME RolesChange PROVE Clean(s)'
  <2>1. \A q \in Requests : /\ call'[q].hit \in {call[q].hit, NoSet}
                            /\ call'[q].pc = "answered" =>
                                 /\ call[q].pc = "answered"
                                 /\ call'[q].sid = call[q].sid
                                 /\ call'[q].sawLive = call[q].sawLive
    BY <1>29 DEF RolesChange, Idle, TypeOK, Call
  <2>2. cache'.set = NoSet /\ Keep(liveSets)
    BY <1>29 DEF RolesChange, NoEntry
  <2>3. Referenced' \subseteq Referenced
    BY <2>1, <2>2 DEF Referenced
  <2> QED
    BY <2>1, <2>2, <2>3, StaysClean DEF Keep
<1>30. ASSUME Restart PROVE Clean(s)'
  <2>1. \A q \in Requests : /\ call'[q].hit \in {call[q].hit, NoSet}
                            /\ call'[q].pc = "answered" =>
                                 /\ call[q].pc = "answered"
                                 /\ call'[q].sid = call[q].sid
                                 /\ call'[q].sawLive = call[q].sawLive
    BY <1>30 DEF Restart, Idle, TypeOK, Call
  <2>2. cache'.set = NoSet /\ Keep(liveSets)
    BY <1>30 DEF Restart, NoEntry
  <2>3. Referenced' \subseteq Referenced
    BY <2>1, <2>2 DEF Referenced
  <2> QED
    BY <2>1, <2>2, <2>3, StaysClean DEF Keep
<1> QED
  BY <1>3, <1>4, <1>5, <1>6, <1>7, <1>8, <1>9, <1>10, <1>11, <1>12, <1>13,
     <1>14, <1>15, <1>16, <1>17, <1>18, <1>19, <1>20, <1>21, <1>22, <1>23,
     <1>24, <1>25, <1>26, <1>27, <1>28, <1>29, <1>30 DEF Next, Request

\* Nothing brings back a session that has ended and is out of the cache and of
\* every check under way, not even the checks of other sessions that were
\* started with an older entry in hand and renew it.
THEOREM EndedStaysOut == Spec => GoneForGood
<1>1. TypeOK /\ TypeOK' /\ [Next]_vars
        => [\A s \in Sessions : sess[s].state = "ended" /\ ~Lingers(s) => ~Lingers(s)']_vars
  <2> SUFFICES ASSUME TypeOK, TypeOK', Next, NEW s \in Sessions,
                      sess[s].state = "ended", ~Lingers(s)
               PROVE  ~Lingers(s)'
    BY DEF vars, Lingers, At
  <2>1. Clean(s)'
    BY CleanLeavesNothing, NothingReturns
  <2> QED
    BY <2>1 DEF Clean, Lingers, Referenced, At
<1> QED
  BY <1>1, TypeCorrect, PTL DEF Spec, GoneForGood

----------------------------------------------------------------------------
(* One successor per refresh token.  Who is about to open a session in place
   of another has retired that one, and an ended session is never live again:
   so nobody else can be about to replace it, and nobody has. *)
Replacing(r, p) == At(r, "opening") /\ call[r].from = p
Replaced(p) == \E s \in Sessions : sess[s].from = p

Lineage ==
  \A p \in Sessions :
     /\ Replaced(p) \/ (\E r \in Requests : Replacing(r, p)) => sess[p].state = "ended"
     /\ \A r, q \in Requests : Replacing(r, p) /\ Replacing(q, p) => r = q
     /\ \A r \in Requests : Replacing(r, p) => ~Replaced(p)
     /\ \A s, t \in Sessions : sess[s].from = p /\ sess[t].from = p => s = t

\* A step that only ends sessions and starts to replace none.
Quiet == /\ \A s \in Sessions : /\ sess'[s].from = sess[s].from
                                /\ sess[s].state = "ended" => sess'[s].state = "ended"
         /\ \A r \in Requests, p \in Sessions : Replacing(r, p)' => Replacing(r, p)

LEMMA QuietKeepsLineage == Lineage /\ Quiet => Lineage'
  BY DEF Lineage, Quiet, Replaced

LEMMA RotateKeepsLineage ==
  ASSUME TypeOK, Lineage, NEW r \in Requests, NEW s \in Sessions, Rotate(r, s)
  PROVE  Lineage'
<1>1. /\ sess[s].state = "live"
      /\ \A t \in Sessions : /\ sess'[t].from = sess[t].from
                             /\ sess'[t].state = IF t = s THEN "ended" ELSE sess[t].state
  BY DEF Rotate, Live, TypeOK, Session
<1>2. \A q \in Requests, p \in Sessions :
        Replacing(q, p)' <=> IF q = r THEN p = s ELSE Replacing(q, p)
  BY DEF Rotate, Become, Idle, Replacing, At, TypeOK
<1>3. ~Replaced(s) /\ \A q \in Requests : ~Replacing(q, s)
  BY <1>1 DEF Lineage
<1>4. ~Replaced(s)' /\ \A p \in Sessions : Replaced(p)' <=> Replaced(p)
  BY <1>1, <1>3 DEF Replaced
<1> QED
  BY <1>1, <1>2, <1>3, <1>4 DEF Lineage

LEMMA OpenKeepsLineage ==
  ASSUME TypeOK, Lineage, NEW r \in Requests, NEW s \in Sessions, Open(r, s)
  PROVE  Lineage'
<1>1. /\ sess[s].state = "none"
      /\ \A t \in Sessions : sess'[t] = IF t = s
                                         THEN [NoSession EXCEPT !.state = "live",
                                                 !.from = call[r].from, !.epoch = call[r].epoch]
                                         ELSE sess[t]
  BY DEF Open, TypeOK
<1>2. \A t \in Sessions : /\ sess'[t].from = IF t = s THEN call[r].from ELSE sess[t].from
                          /\ sess[t].state = "ended" => sess'[t].state = "ended"
  BY <1>1 DEF NoSession
<1>3. \A q \in Requests, p \in Sessions :
        Replacing(q, p)' <=> (q # r /\ Replacing(q, p))
  BY DEF Open, Become, Replacing, At, TypeOK, Call
<1>4. call[r].from \in Sessions => Replacing(r, call[r].from)
  BY DEF Open, Replacing
<1>5. ASSUME NEW p \in Sessions, p # call[r].from
      PROVE  /\ Replaced(p)' => Replaced(p)
             /\ \A t \in Sessions : sess'[t].from = p => sess[t].from = p
  BY <1>2, <1>5 DEF Replaced
<1>6. ASSUME NEW p \in Sessions, p = call[r].from
      PROVE  \A t \in Sessions : sess'[t].from = p <=> t = s
  BY <1>2, <1>4, <1>6 DEF Lineage, Replaced
<1> QED
  BY <1>2, <1>3, <1>4, <1>5, <1>6 DEF Lineage

LEMMA OthersAreQuiet ==
  ASSUME TypeOK, [Next]_vars,
         \A r \in Requests, s \in Sessions : ~Rotate(r, s) /\ ~Open(r, s)
  PROVE  Quiet
<1> USE DEF Replacing, At
<1>1. \A s \in Sessions : sess[s] \in Session
  BY DEF TypeOK
<1>2. ASSUME sess' = sess \/ sess' = AllEnded
             \/ \E s \in Sessions : sess' = [sess EXCEPT ![s].state = "ended"]
      PROVE  \A s \in Sessions : /\ sess'[s].from = sess[s].from
                                 /\ sess[s].state = "ended" => sess'[s].state = "ended"
  BY <1>1, <1>2 DEF AllEnded, Live, Session, TypeOK
<1>3. ASSUME NEW r \in Requests, NEW c, call' = [call EXCEPT ![r] = c],
             c.pc = "opening" => c.from = None
      PROVE  \A q \in Requests, p \in Sessions : Replacing(q, p)' => Replacing(q, p)
  BY <1>3, SessionsAssumption DEF TypeOK
<1>4. ASSUME NEW r \in Requests, Login(r) PROVE Quiet
  <2>1. \A q \in Requests, p \in Sessions : Replacing(q, p)' => Replacing(q, p)
    BY <1>4, SessionsAssumption DEF Login, Become, Go, Idle, TypeOK, Call
  <2> QED
    BY <1>4, <2>1 DEF Login, Quiet
<1>5. ASSUME NEW r \in Requests, Lookup(r) PROVE Quiet
  <2>1. \A q \in Requests, p \in Sessions : Replacing(q, p)' => Replacing(q, p)
    BY <1>5, SessionsAssumption DEF Lookup, Become, Go, Idle, TypeOK, Call
  <2> QED
    BY <1>5, <2>1 DEF Lookup, Quiet
<1>6. ASSUME NEW r \in Requests, NEW x \in Sessions, RotateNothing(r, x) PROVE Quiet
  <2>1. \A q \in Requests, p \in Sessions : Replacing(q, p)' => Replacing(q, p)
    BY <1>6, SessionsAssumption DEF RotateNothing, Become, Go, Idle, TypeOK, Call
  <2> QED
    BY <1>6, <2>1 DEF RotateNothing, Quiet
<1>7. ASSUME NEW r \in Requests, NEW x \in Sessions, Arrive(r, x) PROVE Quiet
  <2>1. \A q \in Requests, p \in Sessions : Replacing(q, p)' => Replacing(q, p)
    BY <1>7, SessionsAssumption DEF Arrive, Become, Go, Idle, TypeOK, Call
  <2> QED
    BY <1>7, <2>1 DEF Arrive, Quiet
<1>8. ASSUME NEW r \in Requests, Answer(r) PROVE Quiet
  <2>1. \A q \in Requests, p \in Sessions : Replacing(q, p)' => Replacing(q, p)
    BY <1>8, SessionsAssumption DEF Answer, Become, Go, Idle, TypeOK, Call
  <2> QED
    BY <1>8, <2>1 DEF Answer, Quiet
<1>9. ASSUME NEW r \in Requests, Resume(r) PROVE Quiet
  <2>1. \A q \in Requests, p \in Sessions : Replacing(q, p)' => Replacing(q, p)
    BY <1>9, SessionsAssumption DEF Resume, Become, Go, Idle, TypeOK, Call
  <2> QED
    BY <1>9, <2>1 DEF Resume, Quiet
<1>10. ASSUME NEW r \in Requests, Leave(r) PROVE Quiet
  <2>1. \A q \in Requests, p \in Sessions : Replacing(q, p)' => Replacing(q, p)
    BY <1>10, SessionsAssumption DEF Leave, Become, Go, Idle, TypeOK, Call
  <2> QED
    BY <1>10, <2>1 DEF Leave, Quiet
<1>11. ASSUME NEW r \in Requests, ReadHash(r) PROVE Quiet
  <2>1. \A q \in Requests, p \in Sessions : Replacing(q, p)' => Replacing(q, p)
    BY <1>11, SessionsAssumption DEF ReadHash, Become, Go, Idle, TypeOK, Call
  <2> QED
    BY <1>11, <2>1 DEF ReadHash, Quiet
<1>12. ASSUME NEW r \in Requests, BumpVersion(r) PROVE Quiet
  <2>1. \A q \in Requests, p \in Sessions : Replacing(q, p)' => Replacing(q, p)
    BY <1>12, SessionsAssumption DEF BumpVersion, Become, Go, Idle, TypeOK, Call
  <2> QED
    BY <1>12, <2>1 DEF BumpVersion, Quiet
<1>13. ASSUME NEW r \in Requests, InvalidateSession(r) PROVE Quiet
  <2>1. \A q \in Requests, p \in Sessions : Replacing(q, p)' => Replacing(q, p)
    BY <1>13, SessionsAssumption DEF InvalidateSession, Become, Go, Idle, TypeOK, Call
  <2> QED
    BY <1>13, <2>1 DEF InvalidateSession, Quiet
<1>14. ASSUME NEW r \in Requests, ForgetTokens(r) PROVE Quiet
  <2>1. \A q \in Requests, p \in Sessions : Replacing(q, p)' => Replacing(q, p)
    <3> DEFINE c == IF call[r].reopen
                      THEN [Idle EXCEPT !.pc = "opening", !.epoch = call[r].epoch]
                      ELSE Idle
    <3>1. call' = [call EXCEPT ![r] = c]
      BY <1>14 DEF ForgetTokens, Become
    <3>2. c.from = None
      BY DEF Idle
    <3> HIDE DEF c
    <3> QED
      BY <1>3, <3>1, <3>2
  <2> QED
    BY <1>14, <2>1 DEF ForgetTokens, Quiet
<1>15. ASSUME NEW r \in Requests, HitExpires(r) PROVE Quiet
  <2>1. \A q \in Requests, p \in Sessions : Replacing(q, p)' => Replacing(q, p)
    BY <1>15, SessionsAssumption DEF HitExpires, Become, Go, Idle, TypeOK, Call
  <2> QED
    BY <1>15, <2>1 DEF HitExpires, Quiet
<1>16. ASSUME NEW r \in Requests, Fail(r) PROVE Quiet
  <2>1. \A q \in Requests, p \in Sessions : Replacing(q, p)' => Replacing(q, p)
    BY <1>16, SessionsAssumption DEF Fail, Become, Go, Idle, TypeOK, Call
  <2> QED
    BY <1>16, <2>1 DEF Fail, Quiet
<1>17. ASSUME NEW r \in Requests, Logout(r) PROVE Quiet
  <2>1. \A q \in Requests, p \in Sessions : Replacing(q, p)' => Replacing(q, p)
    BY <1>17, SessionsAssumption DEF Logout, Become, Go, Idle, TypeOK, Call
  <2>2. \E s \in Sessions : sess' = [sess EXCEPT ![s].state = "ended"]
    BY <1>17 DEF Logout, TypeOK, Naming
  <2> QED
    BY <1>2, <2>1, <2>2 DEF Quiet
<1>18. ASSUME NEW r \in Requests, AlsoRevoke(r) PROVE Quiet
  <2>1. \A q \in Requests, p \in Sessions : Replacing(q, p)' => Replacing(q, p)
    BY <1>18, SessionsAssumption DEF AlsoRevoke, Become, Go, Idle, TypeOK, Call
  <2>2. sess' = sess \/ \E s \in Sessions : sess' = [sess EXCEPT ![s].state = "ended"]
    BY <1>18 DEF AlsoRevoke, TypeOK, Naming
  <2> QED
    BY <1>2, <2>1, <2>2 DEF Quiet
<1>19. ASSUME NEW r \in Requests, LogoutAll(r) PROVE Quiet
  <2>1. \A q \in Requests, p \in Sessions : Replacing(q, p)' => Replacing(q, p)
    BY <1>19, SessionsAssumption DEF LogoutAll, EndAll, Become, Go, Idle, TypeOK, Call
  <2>2. sess' = AllEnded
    BY <1>19 DEF LogoutAll, EndAll, TypeOK, Naming
  <2> QED
    BY <1>2, <2>1, <2>2 DEF Quiet
<1>20. ASSUME NEW r \in Requests, AdminEndsAll(r) PROVE Quiet
  <2>1. \A q \in Requests, p \in Sessions : Replacing(q, p)' => Replacing(q, p)
    BY <1>20, SessionsAssumption DEF AdminEndsAll, EndAll, Become, Go, Idle, TypeOK, Call
  <2>2. sess' = AllEnded
    BY <1>20 DEF AdminEndsAll, EndAll, TypeOK, Naming
  <2> QED
    BY <1>2, <2>1, <2>2 DEF Quiet
<1>21. ASSUME NEW r \in Requests, DeleteAccount(r) PROVE Quiet
  <2>1. \A q \in Requests, p \in Sessions : Replacing(q, p)' => Replacing(q, p)
    BY <1>21, SessionsAssumption DEF DeleteAccount, EndAll, Become, Go, Idle, TypeOK, Call
  <2>2. sess' = AllEnded
    BY <1>21 DEF DeleteAccount, EndAll, TypeOK, Naming
  <2> QED
    BY <1>2, <2>1, <2>2 DEF Quiet
<1>22. ASSUME NEW r \in Requests, ResetPassword(r) PROVE Quiet
  <2>1. \A q \in Requests, p \in Sessions : Replacing(q, p)' => Replacing(q, p)
    BY <1>22, SessionsAssumption DEF ResetPassword, EndAll, Become, Go, Idle, TypeOK, Call
  <2>2. sess' = AllEnded
    BY <1>22 DEF ResetPassword, EndAll, TypeOK, Naming
  <2> QED
    BY <1>2, <2>1, <2>2 DEF Quiet
<1>23. ASSUME NEW r \in Requests, ChangePassword(r) PROVE Quiet
  <2>1. \A q \in Requests, p \in Sessions : Replacing(q, p)' => Replacing(q, p)
    <3> DEFINE c == IF call[r].hash = password
                      THEN [Idle EXCEPT !.pc = "bump", !.reopen = TRUE, !.epoch = epoch + 1]
                      ELSE Idle
    <3>1. call' = [call EXCEPT ![r] = c]
      BY <1>23 DEF ChangePassword, Become
    <3>2. c.pc # "opening"
      BY DEF Idle
    <3> HIDE DEF c
    <3> QED
      BY <1>3, <3>1, <3>2
  <2>2. sess' = sess \/ sess' = AllEnded
    BY <1>23 DEF ChangePassword, TypeOK, Naming
  <2> QED
    BY <1>2, <2>1, <2>2 DEF Quiet
<1>24. ASSUME NEW r \in Requests, Sign(r) PROVE Quiet
  <2>1. \A q \in Requests, p \in Sessions : Replacing(q, p)' => Replacing(q, p)
    BY <1>24, SessionsAssumption DEF Sign, Become, Go, Idle, TypeOK, Call
  <2>2. \A s \in Sessions : sess'[s].from = sess[s].from /\ sess'[s].state = sess[s].state
    <3> DEFINE tv == IF call[r].hasVersion THEN call[r].sawVersion ELSE version
               old == sess[call[r].sid]
               new == [old EXCEPT !.known = TRUE, !.tv = tv]
    <3>1. sess' = sess \/ sess' = [sess EXCEPT ![call[r].sid] = new]
      BY <1>24 DEF Sign
    <3>2. call[r].sid \in Sessions
      BY <1>24 DEF Sign, TypeOK, Naming
    <3>3. old \in Session
      BY <3>2, <1>1
    <3>4. new.from = old.from /\ new.state = old.state
      <4> HIDE DEF tv, old
      <4> QED
        BY <3>3 DEF Session
    <3> HIDE DEF new
    <3> QED
      BY <3>1, <3>2, <3>4 DEF TypeOK
  <2> QED
    BY <2>1, <2>2 DEF Quiet
<1>25. ASSUME NEW x \in Sessions, GraceEnds(x) PROVE Quiet
  <2>1. \A s \in Sessions : sess'[s].from = sess[s].from /\ sess'[s].state = sess[s].state
    BY <1>25, <1>1 DEF GraceEnds, Session, TypeOK
  <2> QED
    BY <1>25, <2>1 DEF GraceEnds, Quiet
<1>26. ASSUME NEW x \in Sessions, SessionExpires(x) PROVE Quiet
  <2>1. \E s \in Sessions : sess' = [sess EXCEPT ![s].state = "ended"] /\ call' = call
    BY <1>26 DEF SessionExpires
  <2> QED
    BY <1>2, <2>1 DEF Quiet
<1>27. ASSUME CacheExpires PROVE Quiet
  <2>1. \A q \in Requests, p \in Sessions : Replacing(q, p)' => Replacing(q, p)
    BY <1>27 DEF CacheExpires, Idle, TypeOK, Call
  <2> QED
    BY <1>27, <2>1 DEF CacheExpires, Quiet
<1>28. ASSUME RolesChange PROVE Quiet
  <2>1. \A q \in Requests, p \in Sessions : Replacing(q, p)' => Replacing(q, p)
    BY <1>28 DEF RolesChange, Idle, TypeOK, Call
  <2> QED
    BY <1>28, <2>1 DEF RolesChange, Quiet
<1>29. ASSUME Restart PROVE Quiet
  <2>1. \A q \in Requests, p \in Sessions : Replacing(q, p)' => Replacing(q, p)
    BY <1>29 DEF Restart, Idle, TypeOK, Call
  <2> QED
    BY <1>29, <2>1 DEF Restart, Quiet
<1>30. CASE UNCHANGED vars
  BY <1>30 DEF vars, Quiet
<1> QED
  BY <1>4, <1>5, <1>6, <1>7, <1>8, <1>9, <1>10, <1>11, <1>12, <1>13, <1>14, <1>15,
     <1>16, <1>17, <1>18, <1>19, <1>20, <1>21, <1>22, <1>23, <1>24, <1>25, <1>26,
     <1>27, <1>28, <1>29, <1>30 DEF Next, Request

\* A refresh token is traded for its successor once: two sessions never replace
\* the same one, however many requests present its token at whatever moments.
THEOREM OneSuccessorEach == Spec => []OneSuccessor
<1>1. Init => Lineage
  BY SessionsAssumption DEF Init, Lineage, Replaced, Replacing, At, Idle, NoSession
<1>2. ASSUME TypeOK, Lineage, [Next]_vars PROVE Lineage'
  <2>1. CASE \E r \in Requests, s \in Sessions : Rotate(r, s) \/ Open(r, s)
    BY <1>2, <2>1, RotateKeepsLineage, OpenKeepsLineage
  <2>2. CASE \A r \in Requests, s \in Sessions : ~Rotate(r, s) /\ ~Open(r, s)
    BY <1>2, <2>2, OthersAreQuiet, QuietKeepsLineage
  <2> QED
    BY <2>1, <2>2
<1>3. TypeOK /\ Lineage => OneSuccessor
  BY DEF Lineage, OneSuccessor, TypeOK, Session
<1> QED
  BY <1>1, <1>2, <1>3, TypeCorrect, PTL DEF Spec

\* What the runs check of sessions at every moment, for any number of sessions and
\* requests: their shape, and one successor of a refresh token.
THEOREM SessionsAreSafe == Spec => []SessionsSafe
<1>1. TypeOK /\ OneSuccessor => SessionsSafe
  BY DEF SessionsSafe
<1> QED
  BY <1>1, TypeCorrect, OneSuccessorEach, PTL

----------------------------------------------------------------------------
(* How tokens are judged.  Versions only grow, an account that was deleted stays so, an
   ended session never lives again and a token is issued once: what a check found against
   a token is still true when it acts on it, however late. *)
Issued ==
  \A s \in Sessions : sess[s].known => sess[s].state # "none" /\ sess[s].tv <= version

\* What a request in step c may rely on.
Fits(c) ==
  /\ c.pc = "signing" => sess[c.sid].state # "none" /\ ~sess[c.sid].known
  /\ c.pc \in {"opening", "signing"} /\ c.hasVersion => c.sawVersion <= version
  /\ c.pc \in {"asking", "answered", "refused"} => sess[c.sid].known
  /\ c.pc = "answered" => /\ c.sawVersion <= version /\ sess[c.sid].tv <= c.sawVersion
                          /\ c.sawLive \/ ~(active /\ Live(c.sid))
  /\ c.pc = "refused" => ~Current(c.sid)

Judging ==
  /\ Issued
  /\ \A r \in Requests : Fits(call[r])
  /\ \A q, r \in Requests :
       At(q, "signing") /\ At(r, "signing") /\ call[q].sid = call[r].sid => q = r

\* The account only moves on; x is the session whose tokens are issued in this step.
MovesOn(x) ==
  /\ version' >= version
  /\ active' => active
  /\ \A s \in Sessions :
       /\ sess[s].state # "none" => sess'[s].state # "none"
       /\ sess[s].state = "ended" => sess'[s].state # "live"
       /\ sess[s].known => sess'[s].known /\ sess'[s].tv = sess[s].tv
       /\ s # x /\ ~sess[s].known => ~sess'[s].known

LEMMA FitsKept ==
  ASSUME TypeOK, TypeOK', Issued, NEW CONSTANT x, MovesOn(x),
         NEW CONSTANT c \in Call, c.pc \in Naming => c.sid \in Sessions, Fits(c),
         ~(c.pc = "signing" /\ c.sid = x)
  PROVE  Fits(c)'
<1>1. version \in Nat /\ version' \in Nat /\ c.sawVersion \in Nat
  BY DEF TypeOK, Call
<1>2. \A s \in Sessions : sess[s].tv \in Nat /\ sess[s].state \in {"none", "live", "ended"}
  BY DEF TypeOK, Session
<1>3. c.pc = "signing" => sess'[c.sid].state # "none" /\ ~sess'[c.sid].known
  BY DEF Fits, MovesOn, Naming
<1>4. c.pc \in {"opening", "signing"} /\ c.hasVersion => c.sawVersion <= version'
  BY <1>1 DEF Fits, MovesOn
<1>5. c.pc \in {"asking", "answered", "refused"}
        => /\ c.sid \in Sessions /\ sess'[c.sid].known /\ sess'[c.sid].tv = sess[c.sid].tv
           /\ sess[c.sid].tv <= version
           /\ ~(active /\ Live(c.sid)) => ~(active' /\ sess'[c.sid].state = "live")
  BY <1>2 DEF Fits, MovesOn, Naming, Issued, Live
<1>6. c.pc = "answered" => /\ c.sawVersion <= version' /\ sess'[c.sid].tv <= c.sawVersion
                           /\ c.sawLive \/ ~(active' /\ sess'[c.sid].state = "live")
  BY <1>1, <1>5 DEF Fits, MovesOn
<1>7. c.pc = "refused" => ~(active' /\ sess'[c.sid].state = "live" /\ sess'[c.sid].tv = version')
  BY <1>1, <1>2, <1>5 DEF Fits, MovesOn, Current
<1> QED
  BY <1>3, <1>4, <1>5, <1>6, <1>7 DEF Fits, Current, Live

\* One request moves, and at most one token is issued.
LEMMA JudgingKept ==
  ASSUME TypeOK, TypeOK', Judging, NEW CONSTANT r, NEW CONSTANT x, MovesOn(x),
         x \in Sessions => sess'[x].state # "none" /\ sess'[x].tv <= version',
         \A q \in Requests \ {r} : /\ call'[q] = call[q]
                                   /\ ~(call[q].pc = "signing" /\ call[q].sid = x),
         r \in Requests =>
           /\ Fits(call[r])'
           /\ call'[r].pc = "signing" =>
                \A q \in Requests \ {r} :
                  ~(call[q].pc = "signing" /\ call[q].sid = call'[r].sid)
  PROVE  Judging'
<1>1. Issued'
  <2>1. version \in Nat /\ version' \in Nat /\ \A s \in Sessions : sess[s].tv \in Nat
    BY DEF TypeOK, Session
  <2>2. ASSUME NEW s \in Sessions, sess'[s].known
        PROVE  sess'[s].state # "none" /\ sess'[s].tv <= version'
    <3>1. CASE s = x
      BY <3>1
    <3>2. CASE s # x
      BY <2>1, <2>2, <3>2 DEF MovesOn, Judging, Issued
    <3> QED
      BY <3>1, <3>2
  <2> QED
    BY <2>2 DEF Issued
<1>2. ASSUME NEW q \in Requests, q # r PROVE Fits(call[q])'
  <2>1. PICK c \in Call : c = call[q]
    BY DEF TypeOK
  <2>2. (c.pc \in Naming => c.sid \in Sessions) /\ Fits(c) /\ ~(c.pc = "signing" /\ c.sid = x)
    BY <1>2, <2>1 DEF TypeOK, Judging
  <2>3. Fits(c)'
    BY <2>2, FitsKept DEF Judging
  <2>4. c = call'[q]
    BY <1>2, <2>1
  <2> QED
    BY <2>3, <2>4 DEF Fits, Current, Live
<1>3. \A q \in Requests : Fits(call[q])'
  BY <1>2
<1>4. \A p, q \in Requests :
        call'[p].pc = "signing" /\ call'[q].pc = "signing" /\ call'[p].sid = call'[q].sid
          => p = q
  BY DEF Judging, At
<1> QED
  BY <1>1, <1>3, <1>4 DEF Judging, At

\* Steps that end sessions, or touch none.
LEMMA EndingsMoveOn ==
  ASSUME TypeOK, TypeOK', version' \in {version, version + 1}, active' => active,
         \/ sess' = sess \/ sess' = AllEnded
         \/ \E s \in Sessions : sess' = [sess EXCEPT ![s].state = "ended"]
  PROVE  MovesOn(None)
<1>1. version \in Nat /\ sess \in [Sessions -> Session]
  BY DEF TypeOK
<1>2. version' >= version
  BY <1>1
<1>3. CASE sess' = sess
  BY <1>2, <1>3 DEF MovesOn
<1>4. CASE sess' = AllEnded
  BY <1>2, <1>4, AllEndedSound DEF MovesOn, Live
<1>5. ASSUME NEW s \in Sessions, sess' = [sess EXCEPT ![s].state = "ended"]
      PROVE  MovesOn(None)
  BY <1>1, <1>2, <1>5 DEF MovesOn, Session
<1> QED
  BY <1>3, <1>4, <1>5

LEMMA JudgingStep ==
  ASSUME TypeOK, Judging, [Next]_vars
  PROVE  Judging'
<1>1. TypeOK'
  BY TypeStep
<1>2. \A r \in Requests : /\ call[r] \in Call
                          /\ call[r].pc \in Naming => call[r].sid \in Sessions
                          /\ Fits(call[r])
  BY DEF TypeOK, Judging
<1>3. DOMAIN call = Requests
  BY DEF TypeOK
<1>4. ASSUME NEW r \in Requests, MovesOn(None),
             \A q \in Requests \ {r} : call'[q] = call[q],
             Fits(call[r])', call'[r].pc # "signing"
      PROVE  Judging'
  <2>1. \A q \in Requests : ~(call[q].pc = "signing" /\ call[q].sid = None)
    BY <1>2, SessionsAssumption DEF Naming
  <2> HIDE DEF MovesOn, Judging
  <2> QED
    BY <1>1, <1>4, <2>1, JudgingKept, SessionsAssumption
<1>5. ASSUME NEW r \in Requests,
             call'[r].pc \notin {"opening", "signing", "asking", "answered", "refused"}
      PROVE  Fits(call[r])'
  BY <1>5 DEF Fits
<1>6. ASSUME NEW r \in Requests, call'[r].pc = "opening", ~call'[r].hasVersion
      PROVE  Fits(call[r])'
  BY <1>6 DEF Fits
<1>7. ASSUME NEW r \in Requests, Login(r) PROVE Judging'
  <2>1. /\ call'[r].pc = "opening" /\ call'[r].sawVersion = version
        /\ \A q \in Requests \ {r} : call'[q] = call[q]
    BY <1>3, <1>7 DEF Become, Login, Idle
  <2>2. version' = version /\ sess' = sess /\ active' = active
    BY <1>7 DEF Login
  <2>3. Fits(call[r])' /\ call'[r].pc # "signing"
    BY <2>1, <2>2 DEF Fits, TypeOK
  <2> QED
    BY <1>1, <1>4, <2>1, <2>2, <2>3, EndingsMoveOn
<1>8. ASSUME NEW r \in Requests, NEW x \in Sessions, Rotate(r, x) PROVE Judging'
  <2>1. /\ call'[r].pc = "opening" /\ ~call'[r].hasVersion
        /\ \A q \in Requests \ {r} : call'[q] = call[q]
    BY <1>3, <1>8 DEF Become, Rotate, Idle
  <2>2. MovesOn(None)
    BY <1>8 DEF Rotate, MovesOn, TypeOK, Session
  <2> QED
    BY <1>4, <1>6, <2>1, <2>2
<1>9. ASSUME NEW r \in Requests,
             \/ Lookup(r) \/ Leave(r) \/ Logout(r) \/ InvalidateSession(r) \/ AlsoRevoke(r)
             \/ LogoutAll(r) \/ AdminEndsAll(r) \/ DeleteAccount(r) \/ ReadHash(r)
             \/ ChangePassword(r) \/ ResetPassword(r) \/ BumpVersion(r) \/ Fail(r)
             \/ \E x \in Sessions : RotateNothing(r, x)
      PROVE  Judging'
  <2>1. /\ call'[r].pc \notin {"opening", "signing", "asking", "answered", "refused"}
        /\ \A q \in Requests \ {r} : call'[q] = call[q]
    <3>1. CASE Lookup(r)
      BY <1>2, <1>3, <3>1 DEF Become, Lookup, Go, Idle, Call
    <3>6. CASE Leave(r) \/ Fail(r)
      BY <1>3, <3>6 DEF Become, Leave, Fail, Idle
    <3>7. ASSUME NEW x \in Sessions, RotateNothing(r, x)
          PROVE  /\ call'[r].pc = "lookup"
                 /\ \A q \in Requests \ {r} : call'[q] = call[q]
      BY <1>3, <3>7 DEF Become, RotateNothing, Idle
    <3>2. CASE Logout(r) \/ InvalidateSession(r) \/ AlsoRevoke(r) \/ BumpVersion(r)
      BY <1>2, <1>3, <3>2 DEF Become, Logout, InvalidateSession, AlsoRevoke, BumpVersion, Go, Idle, Call
    <3>3. CASE LogoutAll(r) \/ AdminEndsAll(r) \/ DeleteAccount(r) \/ ResetPassword(r)
      BY <1>3, <3>3 DEF Become, LogoutAll, AdminEndsAll, DeleteAccount, ResetPassword, EndAll, Idle
    <3>4. CASE ReadHash(r)
      BY <1>3, <3>4 DEF Become, ReadHash, Idle
    <3>5. CASE ChangePassword(r)
      <4> DEFINE c == IF call[r].hash = password
                        THEN [Idle EXCEPT !.pc = "bump", !.reopen = TRUE, !.epoch = epoch + 1]
                        ELSE Idle
      <4>1. call' = [call EXCEPT ![r] = c]
        BY <3>5 DEF ChangePassword, Become
      <4>2. c.pc \in {"bump", "idle"}
        BY DEF Idle
      <4> HIDE DEF c
      <4> QED
        BY <1>3, <4>1, <4>2
    <3> QED
      BY <1>9, <3>1, <3>2, <3>3, <3>4, <3>5, <3>6, <3>7
  <2>2. MovesOn(None)
    <3>1. CASE \/ Lookup(r) \/ Leave(r) \/ InvalidateSession(r) \/ ReadHash(r)
               \/ BumpVersion(r) \/ Fail(r) \/ (\E x \in Sessions : RotateNothing(r, x))
      <4>1. sess' = sess /\ active' = active /\ version' \in {version, version + 1}
        BY <3>1 DEF Lookup, Leave, InvalidateSession, ReadHash, BumpVersion, Fail, RotateNothing
      <4> QED
        BY <1>1, <4>1, EndingsMoveOn
    <3>2. CASE Logout(r) \/ AlsoRevoke(r)
      <4>1. /\ active' = active /\ version' = version
            /\ \/ sess' = sess
               \/ \E s \in Sessions : sess' = [sess EXCEPT ![s].state = "ended"]
        BY <1>2, <3>2 DEF Logout, AlsoRevoke, At, Naming
      <4> QED
        BY <1>1, <4>1, EndingsMoveOn
    <3>3. CASE LogoutAll(r) \/ AdminEndsAll(r) \/ DeleteAccount(r) \/ ResetPassword(r)
      <4>1. /\ active' => active
            /\ version' \in {version, version + 1} /\ sess' = AllEnded
        BY <3>3 DEF LogoutAll, AdminEndsAll, DeleteAccount, ResetPassword, EndAll
      <4> QED
        BY <1>1, <4>1, EndingsMoveOn
    <3>4. CASE ChangePassword(r)
      <4>1. active' = active /\ version' = version /\ (sess' = sess \/ sess' = AllEnded)
        BY <3>4 DEF ChangePassword
      <4> QED
        BY <1>1, <4>1, EndingsMoveOn
    <3> QED
      BY <1>9, <3>1, <3>2, <3>3, <3>4
  <2> QED
    BY <1>4, <1>5, <2>1, <2>2
<1>10. ASSUME NEW r \in Requests, ForgetTokens(r) PROVE Judging'
  <2>1. /\ \/ call'[r].pc = "opening" /\ ~call'[r].hasVersion
           \/ call'[r].pc = "idle"
        /\ \A q \in Requests \ {r} : call'[q] = call[q]
    <3>1. CASE call[r].reopen
      <4>1. call' = [call EXCEPT ![r] =
                      [Idle EXCEPT !.pc = "opening", !.epoch = call[r].epoch]]
        BY <1>10, <3>1 DEF ForgetTokens, Become
      <4> QED
        BY <1>3, <4>1 DEF Idle
    <3>2. CASE ~call[r].reopen
      BY <1>3, <1>10, <3>2 DEF Become, ForgetTokens, Idle
    <3> QED
      BY <3>1, <3>2
  <2>2. sess' = sess /\ active' = active /\ version' = version
    BY <1>10 DEF ForgetTokens
  <2> QED
    BY <1>1, <1>4, <1>5, <1>6, <2>1, <2>2, EndingsMoveOn
<1>11. ASSUME NEW r \in Requests, NEW x \in Sessions, Arrive(r, x) PROVE Judging'
  <2>1. /\ call'[r].pc \in {"in", "asking"} /\ call'[r].sid = x
        /\ \A q \in Requests \ {r} : call'[q] = call[q]
    BY <1>3, <1>11 DEF Become, Arrive, Idle
  <2>2. sess' = sess /\ active' = active /\ version' = version /\ sess[x].known
    BY <1>11 DEF Arrive
  <2>3. Fits(call[r])'
    BY <2>1, <2>2 DEF Fits
  <2> QED
    BY <1>1, <1>4, <2>1, <2>2, <2>3, EndingsMoveOn
<1>12. ASSUME NEW r \in Requests, Answer(r) PROVE Judging'
  <2>1. /\ call'[r].pc = "answered" /\ call'[r].sid = call[r].sid
        /\ call'[r].sawVersion = version
        /\ call'[r].sawLive <=> active /\ Live(call[r].sid)
        /\ \A q \in Requests \ {r} : call'[q] = call[q]
    BY <1>2, <1>3, <1>12 DEF Become, Answer, Call
  <2>2. sess' = sess /\ active' = active /\ version' = version /\ call[r].pc = "asking"
    BY <1>12 DEF Answer, At
  <2>3. sess[call[r].sid].known /\ sess[call[r].sid].tv <= version /\ version \in Nat
    BY <1>2, <2>2 DEF Fits, Judging, Issued, Naming, TypeOK
  <2>4. Fits(call[r])'
    BY <2>1, <2>2, <2>3 DEF Fits, Live
  <2> QED
    BY <1>1, <1>4, <2>1, <2>2, <2>4, EndingsMoveOn
<1>13. ASSUME NEW r \in Requests, Resume(r) PROVE Judging'
  <2>1. /\ call[r].pc = "answered" /\ call'[r].sid = call[r].sid
        /\ call'[r].pc \in {"in", "refused"}
        /\ call'[r].pc = "refused" => ~call[r].sawLive
                                      \/ call[r].sawVersion # sess[call[r].sid].tv
        /\ \A q \in Requests \ {r} : call'[q] = call[q]
    BY <1>3, <1>13 DEF Become, Resume, Idle, At
  <2>2. sess' = sess /\ active' = active /\ version' = version
    BY <1>13 DEF Resume
  <2>3. /\ call[r].sid \in Sessions /\ sess[call[r].sid].known
        /\ call[r].sawVersion <= version /\ sess[call[r].sid].tv <= call[r].sawVersion
        /\ call[r].sawLive \/ ~(active /\ Live(call[r].sid))
        /\ version \in Nat /\ call[r].sawVersion \in Nat /\ sess[call[r].sid].tv \in Nat
    BY <1>2, <2>1 DEF Fits, Naming, TypeOK, Call, Session
  <2>4. Fits(call[r])'
    BY <2>1, <2>2, <2>3 DEF Fits, Current, Live
  <2> QED
    BY <1>1, <1>4, <2>1, <2>2, <2>4, EndingsMoveOn
<1>14. ASSUME NEW r \in Requests, NEW x \in Sessions, Open(r, x) PROVE Judging'
  <2>1. /\ call'[r].pc = "signing" /\ call'[r].sid = x /\ call[r].pc = "opening"
        /\ call'[r].hasVersion = call[r].hasVersion
        /\ call'[r].sawVersion = call[r].sawVersion
        /\ \A q \in Requests \ {r} : call'[q] = call[q]
    BY <1>2, <1>3, <1>14 DEF Become, Open, Call, At
  <2>2. /\ sess[x].state = "none" /\ active' = active /\ version' = version
        /\ sess'[x].state = "live" /\ ~sess'[x].known
        /\ \A s \in Sessions \ {x} : sess'[s] = sess[s]
    BY <1>14 DEF Open, NoSession, TypeOK
  <2>3. ~sess[x].known
    BY <2>2 DEF Judging, Issued
  <2>4. MovesOn(None)
    BY <2>2, <2>3 DEF MovesOn, TypeOK
  <2>5. Fits(call[r])'
    BY <1>2, <2>1, <2>2 DEF Fits
  <2>6. \A q \in Requests : ~(call[q].pc = "signing" /\ call[q].sid = x)
    BY <1>2, <2>2 DEF Fits
  <2>7. \A q \in Requests : ~(call[q].pc = "signing" /\ call[q].sid = None)
    BY <1>2, SessionsAssumption DEF Naming
  <2> HIDE DEF MovesOn, Judging
  <2> QED
    BY <1>1, <2>1, <2>4, <2>5, <2>6, <2>7, JudgingKept, SessionsAssumption
<1>15. ASSUME NEW r \in Requests, Sign(r) PROVE Judging'
  <2>1. /\ call'[r].pc = "idle" /\ call[r].pc = "signing"
        /\ \A q \in Requests \ {r} : call'[q] = call[q]
    BY <1>3, <1>15 DEF Become, Sign, Idle, At
  <2>2. PICK x \in Sessions : x = call[r].sid
    BY <1>2, <2>1 DEF Naming
  <2>3. Fits(call[r])' /\ call'[r].pc # "signing"
    BY <1>5, <2>1
  <2>4. CASE sess' = sess
    <3>1. active' = active /\ version' = version
      BY <1>15 DEF Sign
    <3> QED
      BY <1>1, <1>4, <2>1, <2>3, <2>4, <3>1, EndingsMoveOn
  <2>5. CASE sess' # sess
    <3> DEFINE v == IF call[r].hasVersion THEN call[r].sawVersion ELSE version
               issued == [sess[x] EXCEPT !.known = TRUE, !.tv = v]
    <3>1. sess' = [sess EXCEPT ![x] = issued] /\ active' = active /\ version' = version
      BY <1>15, <2>2, <2>5 DEF Sign
    <3>2. v \in Nat /\ v <= version /\ version \in Nat
      BY <1>2, <2>1 DEF Fits, TypeOK, Call
    <3>3. sess[x] \in Session /\ sess[x].state # "none" /\ ~sess[x].known
      BY <1>2, <2>1, <2>2 DEF Fits, TypeOK
    <3> HIDE DEF v
    <3>4. issued.known /\ issued.tv = v /\ issued.state = sess[x].state
      BY <3>3 DEF Session
    <3> HIDE DEF issued
    <3>5. sess'[x] = issued /\ \A s \in Sessions \ {x} : sess'[s] = sess[s]
      BY <3>1 DEF TypeOK
    <3>6. MovesOn(x) /\ sess'[x].state # "none" /\ sess'[x].tv <= version'
      BY <3>1, <3>2, <3>3, <3>4, <3>5 DEF MovesOn
    <3>7. \A q \in Requests \ {r} : ~(call[q].pc = "signing" /\ call[q].sid = x)
      BY <2>1, <2>2 DEF Judging, At
    <3> HIDE DEF MovesOn, Judging
    <3> QED
      BY <1>1, <2>1, <2>3, <3>6, <3>7, JudgingKept
  <2> QED
    BY <2>4, <2>5
<1>16. ASSUME sess' = sess, active' = active, version' = version,
              \A q \in Requests :
                /\ call'[q].pc = call[q].pc /\ call'[q].sid = call[q].sid
                /\ call'[q].hasVersion = call[q].hasVersion
                /\ call'[q].sawVersion = call[q].sawVersion
                /\ call'[q].sawLive = call[q].sawLive
       PROVE  Judging'
  BY <1>16 DEF Judging, Issued, Fits, Current, Live, At
<1>17. ASSUME NEW r \in Requests, HitExpires(r) PROVE Judging'
  <2>1. \A q \in Requests :
           /\ call'[q].pc = call[q].pc /\ call'[q].sid = call[q].sid
           /\ call'[q].hasVersion = call[q].hasVersion
           /\ call'[q].sawVersion = call[q].sawVersion
           /\ call'[q].sawLive = call[q].sawLive
    BY <1>2, <1>3, <1>17 DEF Become, HitExpires, Call
  <2> QED
    BY <1>16, <1>17, <2>1 DEF HitExpires
<1>18. ASSUME CacheExpires PROVE Judging'
  <2>1. \A q \in Requests :
           /\ call'[q].pc = call[q].pc /\ call'[q].sid = call[q].sid
           /\ call'[q].hasVersion = call[q].hasVersion
           /\ call'[q].sawVersion = call[q].sawVersion
           /\ call'[q].sawLive = call[q].sawLive
    BY <1>2, <1>18 DEF CacheExpires, Call
  <2> QED
    BY <1>16, <1>18, <2>1 DEF CacheExpires
<1>19. ASSUME RolesChange \/ UNCHANGED vars PROVE Judging'
  BY <1>16, <1>19 DEF RolesChange, vars
<1>20. ASSUME Restart PROVE Judging'
  <2>1. /\ \A q \in Requests : call'[q].pc = "idle"
        /\ sess' = sess /\ active' = active /\ version' = version
    BY <1>20 DEF Restart, Idle
  <2> QED
    BY <2>1 DEF Judging, Issued, Fits, At
<1>21. ASSUME NEW x \in Sessions, GraceEnds(x) \/ SessionExpires(x) PROVE Judging'
  <2>1. call' = call /\ active' = active /\ version' = version
    BY <1>21 DEF GraceEnds, SessionExpires
  <2>2. MovesOn(None)
    <3>1. CASE GraceEnds(x)
      BY <3>1 DEF GraceEnds, MovesOn, TypeOK, Session
    <3>2. CASE SessionExpires(x)
      <4>1. /\ \E s \in Sessions : sess' = [sess EXCEPT ![s].state = "ended"]
            /\ version' \in {version, version + 1} /\ (active' => active)
        <5>1. sess' = [sess EXCEPT ![x].state = "ended"]
          BY <3>2 DEF SessionExpires
        <5> QED
          BY <2>1, <5>1
      <4> QED
        BY <1>1, <4>1, EndingsMoveOn
    <3> QED
      BY <1>21, <3>1, <3>2
  <2>3. \A q \in Requests : ~(call[q].pc = "signing" /\ call[q].sid = None)
    BY <1>2, SessionsAssumption DEF Naming
  <2>4. \A q \in Requests : call'[q] = call[q]
    BY <2>1
  <2>5. PICK r : r \notin Requests
    <3>1. (CHOOSE z : z \notin Requests) \notin Requests
      BY NoSetContainsEverything
    <3> QED
      BY <3>1
  <2> HIDE DEF MovesOn, Judging
  <2> QED
    BY <1>1, <2>2, <2>3, <2>4, <2>5, JudgingKept, SessionsAssumption
<1> QED
  BY <1>7, <1>8, <1>9, <1>10, <1>11, <1>12, <1>13, <1>14, <1>15, <1>17, <1>18, <1>19,
     <1>20, <1>21 DEF Next, Request

\* A token that is refused is not current, however stale the cache entry and however
\* late the answer that tokenIsCurrent acted on, for any number of requests.
THEOREM RefusalsAreRight == Spec => []NeverRefusesCurrent
<1>1. Init => Judging
  BY DEF Init, Judging, Issued, Fits, At, Idle, NoSession
<1>2. TypeOK /\ Judging /\ [Next]_vars => Judging'
  BY JudgingStep
<1>3. Judging => NeverRefusesCurrent
  BY DEF Judging, NeverRefusesCurrent, Fits, At
<1> QED
  BY <1>1, <1>2, <1>3, TypeCorrect, PTL DEF Spec

----------------------------------------------------------------------------
(* Requests that come in turn.  Then nobody is between the check of a credential and
   the session it is opened for when every session is ended, so what is opened later
   carries the epoch of a later check; and no check is under way when invalidateSession
   empties the live set of the cache, which is the only place left. *)
Alone == \A q, r \in Requests : q = r \/ At(q, "idle") \/ At(r, "idle")

\* Who is going to open a session for the credential it checked has checked it since
\* the sessions were last ended.
Fresh(c) == c.pc = "opening" \/ (c.pc \in {"bump", "forget"} /\ c.reopen) => c.epoch = epoch

SignedOut ==
  /\ \A r \in Requests : At(r, "invalidate") => sess[call[r].sid].state = "ended"
  /\ \A s \in loggedOut : sess[s].state = "ended" /\ Clean(s)

InOrder ==
  /\ NothingSurvives
  /\ \A r \in Requests : Fresh(call[r])
  /\ SignedOut

LEMMA EndingsAreFinal ==
  ASSUME TypeOK, [Next]_vars, NEW s \in Sessions, sess[s].state = "ended"
  PROVE  sess'[s].state = "ended"
<1>1. ASSUME NEW r \in Requests, NEW x \in Sessions, Rotate(r, x)
      PROVE  sess'[s].state = "ended"
  BY <1>1 DEF Rotate, TypeOK, Session
<1>2. ASSUME NEW r \in Requests, NEW x \in Sessions, Open(r, x)
      PROVE  sess'[s].state = "ended"
  BY <1>2 DEF Open, TypeOK
<1> QED
  BY <1>1, <1>2, OthersAreQuiet DEF Quiet

\* Nobody but the request that moves may be under way.
LEMMA FreshKept ==
  ASSUME Alone, Alone', NEW r \in Requests,
         \A q \in Requests : Fresh(call[q]),
         \A q \in Requests \ {r} : call'[q] = call[q],
         Fresh(call[r])',
         call[r].pc # "idle" \/ call'[r].pc # "idle" \/ epoch' = epoch
  PROVE  \A q \in Requests : Fresh(call[q])'
<1>1. ASSUME NEW q \in Requests \ {r} PROVE Fresh(call[q])'
  <2>1. call'[q] = call[q] /\ Fresh(call[q]) /\ (epoch' = epoch \/ call[q].pc = "idle")
    BY <1>1 DEF Alone, At
  <2> QED
    BY <2>1 DEF Fresh
<1> QED
  BY <1>1

LEMMA FreshStep ==
  ASSUME TypeOK, Alone, Alone', \A q \in Requests : Fresh(call[q]), [Next]_vars
  PROVE  \A q \in Requests : Fresh(call[q])'
<1>1. DOMAIN call = Requests /\ \A r \in Requests : call[r] \in Call
  BY DEF TypeOK
<1>2. ASSUME NEW r \in Requests, \A q \in Requests \ {r} : call'[q] = call[q],
             call[r].pc # "idle" \/ call'[r].pc # "idle" \/ epoch' = epoch,
             call'[r].pc \notin {"opening", "bump", "forget"}
               \/ (call'[r].pc \in {"bump", "forget"} /\ ~call'[r].reopen)
               \/ call'[r].epoch = epoch'
      PROVE  \A q \in Requests : Fresh(call[q])'
  BY <1>2, FreshKept DEF Fresh
<1>3. ASSUME NEW r \in Requests, Login(r) PROVE \A q \in Requests : Fresh(call[q])'
  BY <1>1, <1>2, <1>3 DEF Login, Become, Idle
<1>4. ASSUME NEW r \in Requests, NEW x \in Sessions, Rotate(r, x)
      PROVE  \A q \in Requests : Fresh(call[q])'
  BY <1>1, <1>2, <1>4 DEF Rotate, Become, Idle
<1>5. ASSUME NEW r \in Requests, NEW x \in Sessions, RotateNothing(r, x) \/ Arrive(r, x)
      PROVE  \A q \in Requests : Fresh(call[q])'
  <2>1. /\ call'[r].pc \in {"lookup", "in", "asking"}
        /\ \A q \in Requests \ {r} : call'[q] = call[q]
    <3>1. CASE RotateNothing(r, x)
      BY <1>1, <3>1 DEF RotateNothing, Become, Idle
    <3>2. CASE Arrive(r, x)
      BY <1>1, <3>2 DEF Arrive, Become, Idle
    <3> QED
      BY <1>5, <3>1, <3>2
  <2> QED
    BY <1>2, <2>1
<1>6. ASSUME NEW r \in Requests, NEW x \in Sessions, Open(r, x)
      PROVE  \A q \in Requests : Fresh(call[q])'
  <2>1. call'[r].pc = "signing" /\ \A q \in Requests \ {r} : call'[q] = call[q]
    BY <1>1, <1>6 DEF Open, Become, Call
  <2> QED
    BY <1>2, <2>1
<1>7. ASSUME NEW r \in Requests,
             \/ Lookup(r) \/ Sign(r) \/ Answer(r) \/ Resume(r) \/ Leave(r) \/ Logout(r)
             \/ InvalidateSession(r) \/ AlsoRevoke(r) \/ ReadHash(r) \/ Fail(r)
      PROVE  \A q \in Requests : Fresh(call[q])'
  <2>1. /\ call'[r].pc \notin {"opening", "bump", "forget"}
        /\ \A q \in Requests \ {r} : call'[q] = call[q]
    <3>1. CASE Lookup(r)
      BY <1>1, <3>1 DEF Lookup, Become, Go, Idle, Call
    <3>2. CASE Answer(r)
      BY <1>1, <3>2 DEF Answer, Become, Call
    <3>3. CASE Resume(r)
      BY <1>1, <3>3 DEF Resume, Become, Idle
    <3>4. CASE Logout(r) \/ InvalidateSession(r)
      BY <1>1, <3>4 DEF Logout, InvalidateSession, Become, Go, Call
    <3>5. CASE Sign(r) \/ Leave(r) \/ AlsoRevoke(r) \/ Fail(r)
      BY <1>1, <3>5 DEF Sign, Leave, AlsoRevoke, Fail, Become, Idle
    <3>6. CASE ReadHash(r)
      BY <1>1, <3>6 DEF ReadHash, Become, Idle
    <3> QED
      BY <1>7, <3>1, <3>2, <3>3, <3>4, <3>5, <3>6
  <2>2. epoch' = epoch
    BY <1>7 DEF Lookup, Sign, Answer, Resume, Leave, Logout, InvalidateSession, AlsoRevoke,
                ReadHash, Fail
  <2> QED
    BY <1>2, <2>1, <2>2
<1>8. ASSUME NEW r \in Requests,
             LogoutAll(r) \/ AdminEndsAll(r) \/ DeleteAccount(r) \/ ResetPassword(r)
      PROVE  \A q \in Requests : Fresh(call[q])'
  <2>1. /\ call'[r].pc \in {"bump", "forget"} /\ call'[r].reopen = FALSE
        /\ \A q \in Requests \ {r} : call'[q] = call[q]
    BY <1>1, <1>8 DEF LogoutAll, AdminEndsAll, DeleteAccount, ResetPassword, EndAll, Become, Idle
  <2> QED
    BY <1>2, <2>1
<1>9. ASSUME NEW r \in Requests, ChangePassword(r) PROVE \A q \in Requests : Fresh(call[q])'
  <2>1. CASE call[r].hash = password
    <3>1. /\ epoch' = epoch + 1
          /\ call' = [call EXCEPT ![r] =
                        [Idle EXCEPT !.pc = "bump", !.reopen = TRUE, !.epoch = epoch + 1]]
      BY <1>9, <2>1 DEF ChangePassword, Become
    <3>2. /\ call'[r].pc = "bump" /\ call'[r].epoch = epoch'
          /\ \A q \in Requests \ {r} : call'[q] = call[q]
      BY <1>1, <3>1 DEF Idle
    <3> QED
      BY <1>2, <3>2
  <2>2. CASE call[r].hash # password
    <3>1. call'[r].pc = "idle" /\ (\A q \in Requests \ {r} : call'[q] = call[q]) /\ epoch' = epoch
      BY <1>1, <1>9, <2>2 DEF ChangePassword, Become, Idle
    <3> QED
      BY <1>2, <3>1
  <2> QED
    BY <2>1, <2>2
<1>10. ASSUME NEW r \in Requests, BumpVersion(r) \/ HitExpires(r)
       PROVE  \A q \in Requests : Fresh(call[q])'
  <2>1. /\ call'[r].pc \in {"opening", "bump", "forget"} =>
             \/ call'[r].pc = call[r].pc
             \/ call'[r].pc = "forget" /\ call[r].pc = "bump"
        /\ call'[r].epoch = call[r].epoch /\ call'[r].reopen = call[r].reopen
        /\ \A q \in Requests \ {r} : call'[q] = call[q]
    BY <1>1, <1>10 DEF BumpVersion, HitExpires, Become, Go, At, Call
  <2>2. epoch' = epoch
    BY <1>10 DEF BumpVersion, HitExpires
  <2>3. Fresh(call[r])'
    BY <2>1, <2>2 DEF Fresh
  <2> QED
    BY <2>1, <2>2, <2>3, FreshKept
<1>11. ASSUME NEW r \in Requests, ForgetTokens(r) PROVE \A q \in Requests : Fresh(call[q])'
  <2>1. epoch' = epoch /\ call[r].pc = "forget"
    BY <1>11 DEF ForgetTokens, At
  <2>2. CASE call[r].reopen
    <3>1. call' = [call EXCEPT ![r] = [Idle EXCEPT !.pc = "opening", !.epoch = call[r].epoch]]
      BY <1>11, <2>2 DEF ForgetTokens, Become
    <3>2. call'[r].epoch = call[r].epoch /\ \A q \in Requests \ {r} : call'[q] = call[q]
      BY <1>1, <3>1 DEF Idle
    <3>3. call[r].epoch = epoch
      BY <2>1, <2>2 DEF Fresh
    <3> QED
      BY <1>2, <2>1, <3>2, <3>3
  <2>3. CASE ~call[r].reopen
    <3>1. call'[r].pc = "idle" /\ \A q \in Requests \ {r} : call'[q] = call[q]
      BY <1>1, <1>11, <2>3 DEF ForgetTokens, Become, Idle
    <3> QED
      BY <1>2, <2>1, <3>1
  <2> QED
    BY <2>2, <2>3
<1>12. ASSUME \/ \E s \in Sessions : GraceEnds(s) \/ SessionExpires(s)
              \/ RolesChange \/ UNCHANGED vars
       PROVE  \A q \in Requests : Fresh(call[q])'
  <2>1. call' = call /\ epoch' = epoch
    BY <1>12 DEF GraceEnds, SessionExpires, RolesChange, vars
  <2> QED
    BY <2>1 DEF Fresh
<1>13. ASSUME CacheExpires PROVE \A q \in Requests : Fresh(call[q])'
  <2>1. /\ epoch' = epoch
        /\ \A q \in Requests : /\ call'[q].pc = call[q].pc /\ call'[q].epoch = call[q].epoch
                               /\ call'[q].reopen = call[q].reopen
    BY <1>1, <1>13 DEF CacheExpires, Call
  <2> QED
    BY <2>1 DEF Fresh
<1>14. ASSUME Restart PROVE \A q \in Requests : Fresh(call[q])'
  <2>1. \A q \in Requests : call'[q].pc = "idle"
    BY <1>14 DEF Restart, Idle
  <2> QED
    BY <2>1 DEF Fresh
<1> QED
  BY <1>3, <1>4, <1>5, <1>6, <1>7, <1>8, <1>9, <1>10, <1>11, <1>12, <1>13, <1>14
     DEF Next, Request

\* The sessions: those that are still live were live before, or the one that was opened
\* is fresh.
LEMMA SurvivorsStep ==
  ASSUME TypeOK, NothingSurvives, \A q \in Requests : Fresh(call[q]), [Next]_vars
  PROVE  NothingSurvives'
<1>1. \A s \in Sessions : sess[s] \in Session
  BY DEF TypeOK
<1>2. ASSUME epoch' = epoch,
             \A s \in Sessions : sess'[s].state = "live" =>
                                   sess[s].state = "live" /\ sess'[s].epoch = sess[s].epoch
      PROVE  NothingSurvives'
  BY <1>2 DEF NothingSurvives, Live
<1>3. ASSUME epoch' = epoch,
             sess' = sess \/ \E s \in Sessions : sess' = [sess EXCEPT ![s].state = "ended"]
      PROVE  NothingSurvives'
  BY <1>1, <1>2, <1>3 DEF TypeOK, Session
<1>4. ASSUME sess' = AllEnded PROVE NothingSurvives'
  BY <1>4, AllEndedSound DEF NothingSurvives, Live
<1>5. ASSUME NEW r \in Requests,
             \/ Login(r) \/ Lookup(r) \/ Answer(r) \/ Resume(r) \/ Leave(r)
             \/ InvalidateSession(r) \/ ReadHash(r) \/ BumpVersion(r) \/ ForgetTokens(r)
             \/ HitExpires(r) \/ Fail(r)
             \/ \E x \in Sessions : RotateNothing(r, x) \/ Arrive(r, x)
      PROVE  NothingSurvives'
  <2>1. sess' = sess /\ epoch' = epoch
    BY <1>5 DEF Login, Lookup, Answer, Resume, Leave, InvalidateSession, ReadHash, BumpVersion,
                ForgetTokens, HitExpires, Fail, RotateNothing, Arrive
  <2> QED
    BY <1>3, <2>1
<1>6. ASSUME NEW r \in Requests, NEW x \in Sessions, Rotate(r, x) PROVE NothingSurvives'
  BY <1>1, <1>2, <1>6 DEF Rotate, TypeOK, Session
<1>7. ASSUME NEW r \in Requests, NEW x \in Sessions, Open(r, x) PROVE NothingSurvives'
  <2>1. /\ epoch' = epoch /\ call[r].epoch = epoch
        /\ sess'[x].epoch = call[r].epoch
        /\ \A s \in Sessions \ {x} : sess'[s] = sess[s]
    BY <1>7 DEF Open, At, Fresh, NoSession, TypeOK
  <2> QED
    BY <2>1 DEF NothingSurvives, Live
<1>8. ASSUME NEW r \in Requests, Sign(r) PROVE NothingSurvives'
  <2> DEFINE v == IF call[r].hasVersion THEN call[r].sawVersion ELSE version
  <2>1. /\ epoch' = epoch
        /\ sess' = sess \/ sess' = [sess EXCEPT ![call[r].sid] =
                                      [@ EXCEPT !.known = TRUE, !.tv = v]]
    BY <1>8 DEF Sign
  <2> HIDE DEF v
  <2>2. \A s \in Sessions : sess'[s].state = sess[s].state /\ sess'[s].epoch = sess[s].epoch
    <3>1. CASE sess' = sess
      BY <3>1
    <3>2. CASE sess' # sess
      <4>1. PICK x \in Sessions : x = call[r].sid
        BY <1>8 DEF Sign, At, TypeOK, Naming
      <4> DEFINE issued == [sess[x] EXCEPT !.known = TRUE, !.tv = v]
      <4>2. sess' = [sess EXCEPT ![x] = issued]
        BY <2>1, <3>2, <4>1
      <4>3. issued.state = sess[x].state /\ issued.epoch = sess[x].epoch
        BY <1>1 DEF Session
      <4> HIDE DEF issued
      <4> QED
        BY <4>2, <4>3 DEF TypeOK
    <3> QED
      BY <3>1, <3>2
  <2> QED
    BY <1>2, <2>1, <2>2
<1>9. ASSUME NEW r \in Requests, Logout(r) \/ AlsoRevoke(r) PROVE NothingSurvives'
  <2>1. epoch' = epoch
    BY <1>9 DEF Logout, AlsoRevoke
  <2>2. sess' = sess \/ \E s \in Sessions : sess' = [sess EXCEPT ![s].state = "ended"]
    BY <1>9 DEF Logout, AlsoRevoke, At, TypeOK, Naming
  <2> QED
    BY <1>3, <2>1, <2>2
<1>10. ASSUME NEW r \in Requests,
              LogoutAll(r) \/ AdminEndsAll(r) \/ DeleteAccount(r) \/ ResetPassword(r)
       PROVE  NothingSurvives'
  BY <1>4, <1>10 DEF LogoutAll, AdminEndsAll, DeleteAccount, ResetPassword, EndAll
<1>11. ASSUME NEW r \in Requests, ChangePassword(r) PROVE NothingSurvives'
  <2>1. sess' = AllEnded \/ (sess' = sess /\ epoch' = epoch)
    BY <1>11 DEF ChangePassword
  <2> QED
    BY <1>3, <1>4, <2>1
<1>12. ASSUME NEW x \in Sessions, GraceEnds(x) PROVE NothingSurvives'
  BY <1>1, <1>2, <1>12 DEF GraceEnds, TypeOK, Session
<1>13. ASSUME NEW x \in Sessions, SessionExpires(x) PROVE NothingSurvives'
  <2>1. sess' = [sess EXCEPT ![x].state = "ended"] /\ epoch' = epoch
    BY <1>13 DEF SessionExpires
  <2> QED
    BY <1>3, <2>1
<1>14. ASSUME CacheExpires \/ RolesChange \/ Restart \/ UNCHANGED vars PROVE NothingSurvives'
  <2>1. sess' = sess /\ epoch' = epoch
    BY <1>14 DEF CacheExpires, RolesChange, Restart, vars
  <2> QED
    BY <1>3, <2>1
<1> QED
  BY <1>5, <1>6, <1>7, <1>8, <1>9, <1>10, <1>11, <1>12, <1>13, <1>14 DEF Next, Request

\* Signing out: the session is ended first, and what is left of it goes with the live set
\* of the entry, because no check is under way.
LEMMA SignedOutStep ==
  ASSUME TypeOK, TypeOK', Alone, SignedOut, [Next]_vars
  PROVE  SignedOut'
<1>1. DOMAIN call = Requests /\ \A r \in Requests : call[r] \in Call
  BY DEF TypeOK
<1>2. ASSUME NEW s \in Sessions, sess[s].state = "ended"
      PROVE  sess'[s].state = "ended"
  BY <1>2, EndingsAreFinal
<1>3. ASSUME NEW s \in Sessions, sess[s].state = "ended", Clean(s)
      PROVE  Clean(s)'
  <2>1. CASE Next
    BY <1>3, <2>1, NothingReturns
  <2>2. CASE UNCHANGED vars
    BY <1>3, <2>2 DEF vars, Clean, Referenced
  <2> QED
    BY <2>1, <2>2
<1>4. ASSUME NEW r \in Requests, \A q \in Requests \ {r} : call'[q] = call[q],
             call'[r].pc = "invalidate" =>
               \/ sess'[call'[r].sid].state = "ended"
               \/ call[r].pc = "invalidate" /\ call'[r].sid = call[r].sid,
             loggedOut' = loggedOut
      PROVE  SignedOut'
  <2>1. ASSUME NEW q \in Requests, call'[q].pc = "invalidate"
        PROVE  sess'[call'[q].sid].state = "ended"
    <3>1. CASE call[q].pc = "invalidate" /\ call'[q].sid = call[q].sid
      BY <1>2, <3>1 DEF SignedOut, At, TypeOK, Naming
    <3>2. CASE ~(call[q].pc = "invalidate" /\ call'[q].sid = call[q].sid)
      BY <1>4, <2>1, <3>2
    <3> QED
      BY <3>1, <3>2
  <2>2. \A s \in loggedOut' : sess'[s].state = "ended" /\ Clean(s)'
    BY <1>2, <1>3, <1>4 DEF SignedOut, TypeOK
  <2> QED
    BY <2>1, <2>2 DEF SignedOut, At
<1>5. ASSUME NEW r \in Requests,
             \/ Login(r) \/ Lookup(r) \/ Sign(r) \/ Answer(r) \/ Resume(r) \/ Leave(r)
             \/ AlsoRevoke(r) \/ LogoutAll(r) \/ AdminEndsAll(r) \/ DeleteAccount(r)
             \/ ReadHash(r) \/ ChangePassword(r) \/ ResetPassword(r) \/ BumpVersion(r)
             \/ ForgetTokens(r) \/ Fail(r)
             \/ \E x \in Sessions : \/ Rotate(r, x) \/ RotateNothing(r, x) \/ Open(r, x)
                                    \/ Arrive(r, x)
      PROVE  SignedOut'
  <2>1. call'[r].pc # "invalidate" /\ \A q \in Requests \ {r} : call'[q] = call[q]
    <3>1. CASE Lookup(r)
      BY <1>1, <3>1 DEF Lookup, Become, Go, Idle, Call
    <3>2. CASE Answer(r) \/ BumpVersion(r)
      BY <1>1, <3>2 DEF Answer, BumpVersion, Become, Go, Call
    <3>3. CASE Resume(r)
      BY <1>1, <3>3 DEF Resume, Become, Idle
    <3>4. CASE Sign(r) \/ Leave(r) \/ AlsoRevoke(r) \/ Fail(r)
      BY <1>1, <3>4 DEF Sign, Leave, AlsoRevoke, Fail, Become, Idle
    <3>5. CASE ReadHash(r) \/ Login(r)
      BY <1>1, <3>5 DEF ReadHash, Login, Become, Idle
    <3>6. CASE LogoutAll(r) \/ AdminEndsAll(r) \/ DeleteAccount(r) \/ ResetPassword(r)
      BY <1>1, <3>6 DEF LogoutAll, AdminEndsAll, DeleteAccount, ResetPassword, EndAll, Become,
                        Idle
    <3>7. CASE ChangePassword(r)
      <4> DEFINE c == IF call[r].hash = password
                        THEN [Idle EXCEPT !.pc = "bump", !.reopen = TRUE, !.epoch = epoch + 1]
                        ELSE Idle
      <4>1. call' = [call EXCEPT ![r] = c]
        BY <3>7 DEF ChangePassword, Become
      <4>2. c.pc # "invalidate"
        BY DEF Idle
      <4> HIDE DEF c
      <4> QED
        BY <1>1, <4>1, <4>2
    <3>8. CASE ForgetTokens(r)
      <4> DEFINE c == IF call[r].reopen
                        THEN [Idle EXCEPT !.pc = "opening", !.epoch = call[r].epoch]
                        ELSE Idle
      <4>1. call' = [call EXCEPT ![r] = c]
        BY <3>8 DEF ForgetTokens, Become
      <4>2. c.pc # "invalidate"
        BY DEF Idle
      <4> HIDE DEF c
      <4> QED
        BY <1>1, <4>1, <4>2
    <3>9. ASSUME NEW x \in Sessions, Rotate(r, x) \/ RotateNothing(r, x)
          PROVE  call'[r].pc # "invalidate" /\ \A q \in Requests \ {r} : call'[q] = call[q]
      <4>1. CASE Rotate(r, x)
        BY <1>1, <4>1 DEF Rotate, Become, Idle
      <4>2. CASE RotateNothing(r, x)
        BY <1>1, <4>2 DEF RotateNothing, Become, Idle
      <4> QED
        BY <3>9, <4>1, <4>2
    <3>10. ASSUME NEW x \in Sessions, Open(r, x)
           PROVE  call'[r].pc # "invalidate" /\ \A q \in Requests \ {r} : call'[q] = call[q]
      BY <1>1, <3>10 DEF Open, Become, Call
    <3>11. ASSUME NEW x \in Sessions, Arrive(r, x)
           PROVE  call'[r].pc # "invalidate" /\ \A q \in Requests \ {r} : call'[q] = call[q]
      BY <1>1, <3>11 DEF Arrive, Become, Idle
    <3> QED
      BY <1>5, <3>1, <3>2, <3>3, <3>4, <3>5, <3>6, <3>7, <3>8, <3>9, <3>10, <3>11
  <2>2. loggedOut' = loggedOut
    BY <1>5 DEF Login, Lookup, Sign, Answer, Resume, Leave, AlsoRevoke, LogoutAll, AdminEndsAll,
       DeleteAccount, ReadHash, ChangePassword, ResetPassword, BumpVersion, ForgetTokens, Fail,
       Rotate, RotateNothing, Open, Arrive, EndAll
  <2> QED
    BY <1>4, <2>1, <2>2
<1>6. ASSUME NEW r \in Requests, Logout(r) PROVE SignedOut'
  <2>1. PICK x \in Sessions : x = call[r].sid
    BY <1>6 DEF Logout, At, TypeOK, Naming
  <2>2. sess'[x].state = "ended" /\ loggedOut' = loggedOut
    BY <1>6, <2>1 DEF Logout, TypeOK, Session
  <2>3. call'[r].sid = x /\ \A q \in Requests \ {r} : call'[q] = call[q]
    BY <1>1, <1>6, <2>1 DEF Logout, Become, Go, Call
  <2> QED
    BY <1>4, <2>2, <2>3
<1>7. ASSUME NEW r \in Requests, HitExpires(r) PROVE SignedOut'
  <2>1. /\ loggedOut' = loggedOut
        /\ call'[r].pc = call[r].pc /\ call'[r].sid = call[r].sid
        /\ \A q \in Requests \ {r} : call'[q] = call[q]
    BY <1>1, <1>7 DEF HitExpires, Become, Call
  <2> QED
    BY <1>4, <2>1
<1>8. ASSUME NEW r \in Requests, InvalidateSession(r) PROVE SignedOut'
  <2>1. PICK x \in Sessions : x = call[r].sid
    BY <1>8 DEF InvalidateSession, At, TypeOK, Naming
  <2>2. /\ call[r].pc = "invalidate" /\ sess[x].state = "ended"
        /\ loggedOut' = loggedOut \cup {x}
        /\ cache' = cache
        /\ \A i \in Referenced : liveSets'[i] \subseteq liveSets[i]
        /\ cache.set \in Referenced => x \notin liveSets'[cache.set]
    BY <1>8, <2>1 DEF InvalidateSession, At, SignedOut
  <2>3. /\ call'[r].pc = "alsoRevoke" /\ call'[r].hit = call[r].hit
        /\ \A q \in Requests \ {r} : call'[q] = call[q]
    BY <1>1, <1>8 DEF InvalidateSession, Become, Go, Call
  <2>4. \A q \in Requests : call'[q].pc \notin {"invalidate", "answered"} /\ call'[q].hit = NoSet
    BY <2>2, <2>3 DEF Alone, At, TypeOK
  <2>5. Referenced' \subseteq {cache.set} \ {NoSet}
    BY <2>2, <2>4 DEF Referenced
  <2>6. Clean(x)'
    BY <2>2, <2>4, <2>5 DEF Clean, Referenced
  <2>7. \A s \in loggedOut' : sess'[s].state = "ended" /\ Clean(s)'
    BY <1>2, <1>3, <2>2, <2>6 DEF SignedOut, TypeOK
  <2> QED
    BY <2>4, <2>7 DEF SignedOut, At
<1>9. ASSUME loggedOut' = loggedOut,
             \A q \in Requests : call'[q].pc = "invalidate" =>
               call[q].pc = "invalidate" /\ call'[q].sid = call[q].sid
      PROVE  SignedOut'
  <2>1. \A q \in Requests : call'[q].pc = "invalidate" => sess'[call'[q].sid].state = "ended"
    BY <1>2, <1>9 DEF SignedOut, At, TypeOK, Naming
  <2>2. \A s \in loggedOut' : sess'[s].state = "ended" /\ Clean(s)'
    BY <1>2, <1>3, <1>9 DEF SignedOut, TypeOK
  <2> QED
    BY <2>1, <2>2 DEF SignedOut, At
<1>10. ASSUME \/ \E s \in Sessions : GraceEnds(s) \/ SessionExpires(s)
              \/ RolesChange \/ UNCHANGED vars
       PROVE  SignedOut'
  <2>1. call' = call /\ loggedOut' = loggedOut
    BY <1>10 DEF GraceEnds, SessionExpires, RolesChange, vars
  <2> QED
    BY <1>9, <2>1
<1>11. ASSUME CacheExpires PROVE SignedOut'
  <2>1. /\ loggedOut' = loggedOut
        /\ \A q \in Requests : call'[q].pc = call[q].pc /\ call'[q].sid = call[q].sid
    BY <1>1, <1>11 DEF CacheExpires, Call
  <2> QED
    BY <1>9, <2>1
<1>12. ASSUME Restart PROVE SignedOut'
  <2>1. loggedOut' = loggedOut /\ \A q \in Requests : call'[q].pc = "idle"
    BY <1>12 DEF Restart, Idle
  <2> QED
    BY <1>9, <2>1
<1> QED
  BY <1>5, <1>6, <1>7, <1>8, <1>10, <1>11, <1>12 DEF Next, Request

\* How tokens are judged, for any number of sessions and requests: a current token is
\* never refused; and where requests come in turn, ending every session leaves none behind
\* and the cache accepts no session that was logged out.
THEOREM TokensAreJudged == MCSpec => []TokensJudged
<1> DEFINE InTurn == inTurn => Alone /\ InOrder
<1>1. MCInit => InTurn
  <2> SUFFICES ASSUME Init PROVE Alone /\ InOrder
    BY DEF MCInit
  <2>1. \A r \in Requests : call[r].pc = "idle"
    BY DEF Init, Idle
  <2>2. NothingSurvives /\ loggedOut = {}
    BY DEF Init, NothingSurvives, Live, NoSession
  <2> QED
    BY <2>1, <2>2 DEF Alone, InOrder, SignedOut, Fresh, At
<1>2. TypeOK /\ TypeOK' /\ InTurn /\ [MCNext]_<<vars, mode>> => InTurn'
  <2> SUFFICES ASSUME TypeOK, TypeOK', Alone, InOrder, [Next]_vars,
                      UNCHANGED vars \/ Alone'
               PROVE  Alone' /\ InOrder'
    BY DEF MCNext, Alone, At, inTurn, vars
  <2>1. Alone'
    BY DEF vars, Alone, At
  <2> QED
    BY <2>1, FreshStep, SurvivorsStep, SignedOutStep DEF InOrder
<1>3. TypeOK /\ InTurn /\ NeverRefusesCurrent => TokensJudged
  <2>1. ASSUME TypeOK, InOrder PROVE LoggedOutIsRefused
    <3>1. ASSUME NEW s \in loggedOut, Hit(s) PROVE FALSE
      BY <2>1, <3>1 DEF InOrder, SignedOut, Clean, Hit, Referenced
    <3> QED
      BY <3>1 DEF LoggedOutIsRefused
  <2> QED
    BY <2>1 DEF TokensJudged, NothingSurvivesInTurn, LoggedOutInTurn, InOrder
<1>4. MCInit => Init
  BY DEF MCInit
<1>5. [MCNext]_<<vars, mode>> => [Next]_vars
  BY DEF MCNext, vars
<1>6. MCSpec => Spec
  BY <1>4, <1>5, PTL DEF MCSpec, Spec
<1> QED
  BY <1>1, <1>2, <1>3, <1>6, TypeCorrect, RefusalsAreRight, PTL DEF MCSpec
=============================================================================
