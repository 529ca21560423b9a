------------------------------ MODULE Sessions ------------------------------
(* The sessions of one account: signing in, trading a refresh token for the
   next one, signing out here or everywhere, changing the password, and the
   check of every access token with its cache
   (src/apps/api/src/modules/auth and src/apps/api/src/middleware/auth.ts).

   A session and its refresh token are one thing here, and so are a session
   and its access token: each session is issued once.  Requests interleave at
   every statement: the database answers in one step, and the process that
   asked reads the answer in another. *)
EXTENDS Naturals, FiniteSets

CONSTANTS Sessions,     \* rows of the sessions table, in no order
          Requests,     \* requests the API process serves at a time
          Sets,         \* the JavaScript Set objects it has room for
          None, NoSet   \* no session, no Set object

\* Bounds of the model, not of the code.
CONSTANTS MaxSignOuts,  \* statements that end every session: none starts after so many
          MaxFaults     \* failed statements, lost answers and restarts, together

ASSUME SessionsAssumption ==
  /\ None \notin Sessions /\ NoSet \notin Sets
  /\ {MaxSignOuts, MaxFaults} \subseteq Nat

VARIABLES sess,         \* the sessions table, with the token issued for each row
          version,      \* users.token_version
          password,     \* which password hash is stored
          active,       \* users.status = 'active'
          cache,        \* versionCache: a version, and where its live set is
          liveSets,     \* what the Set objects hold: the cache and the checks
                        \* that read the same entry share one
          call,         \* what each request is doing
          epoch,        \* how often every session of the account was ended
          loggedOut,    \* sessions whose own logout passed invalidateSession
          faults

vars == <<sess, version, password, active, cache, liveSets, call, epoch,
          loggedOut, faults>>

NoEntry == [version |-> 0, set |-> NoSet]

\* rotation tells how long ago rotateSession retired the row; from, the session
\* it replaces; tv, the version in its access token; known, that a client got
\* the tokens; epoch, when the credential it was opened for was verified.
NoSession == [state |-> "none", rotation |-> "no", from |-> None, tv |-> 0,
              known |-> FALSE, epoch |-> 0]

\* hasVersion tells that login read token_version already; reopen, that the
\* caller of a password change is going to be signed in again.
Idle == [pc |-> "idle", sid |-> None, hit |-> NoSet, sawLive |-> FALSE,
         sawVersion |-> 0, from |-> None, epoch |-> 0, hash |-> 0,
         hasVersion |-> FALSE, reopen |-> FALSE]

Init == /\ sess = [s \in Sessions |-> NoSession]
        /\ version = 0 /\ password = 0 /\ active = TRUE
        /\ cache = NoEntry
        /\ liveSets = [i \in {} |-> {}]
        /\ call = [r \in Requests |-> Idle]
        /\ epoch = 0 /\ loggedOut = {} /\ faults = 0

----------------------------------------------------------------------------
Live(s) == sess[s].state = "live"

\* The UPDATE that ends every session of the account.
AllEnded == [s \in Sessions |-> IF Live(s) THEN [sess[s] EXCEPT !.state = "ended"]
                                           ELSE sess[s]]

\* There is a row left for everybody who is about to open one.
Room == Cardinality({s \in Sessions : sess[s].state = "none"}) >
          Cardinality({r \in Requests : call[r].pc = "opening" \/ call[r].reopen})

At(r, pc) == call[r].pc = pc
Become(r, what) == call' = [call EXCEPT ![r] = what]
Go(r, pc) == Become(r, [call[r] EXCEPT !.pc = pc])
MayEndAll == epoch < MaxSignOuts

\* The Set objects something refers to, and what they hold after a step: one
\* that nothing refers to any more is gone.
Referenced == ({cache.set} \cup {call[r].hit : r \in Requests}) \ {NoSet}
Keep(sets) == liveSets' = [i \in Referenced' |-> sets[i]]

----------------------------------------------------------------------------
\* login: one row is read, and the password in it verified.
Login(r) ==
  /\ At(r, "idle")
  /\ active /\ Room
  /\ Become(r, [Idle EXCEPT !.pc = "opening", !.epoch = epoch,
                            !.hasVersion = TRUE, !.sawVersion = version])
  /\ UNCHANGED <<sess, version, password, active, cache, liveSets, epoch,
                 loggedOut, faults>>

\* Mutant of Rotate: the session is looked up, and revoked without a condition.
RotateAgain(r, s) ==
  /\ At(r, "idle")
  /\ sess[s].known /\ active /\ Room
  /\ sess' = [sess EXCEPT ![s] = [@ EXCEPT !.state = "ended", !.rotation = "recent"]]
  /\ Become(r, [Idle EXCEPT !.pc = "opening", !.from = s, !.epoch = epoch])
  /\ UNCHANGED <<version, password, active, cache, liveSets, epoch, loggedOut, faults>>

\* refresh: rotateSession claims and retires the session in one statement.
Rotate(r, s) ==
  /\ At(r, "idle")
  /\ sess[s].known /\ Live(s) /\ active /\ Room
  /\ sess' = [sess EXCEPT ![s] = [@ EXCEPT !.state = "ended", !.rotation = "recent"]]
  /\ Become(r, [Idle EXCEPT !.pc = "opening", !.from = s, !.epoch = epoch])
  /\ UNCHANGED <<version, password, active, cache, liveSets, epoch, loggedOut, faults>>

\* It claimed nothing, so rotatedSession is going to be asked.
RotateNothing(r, s) ==
  /\ At(r, "idle")
  /\ sess[s].known
  /\ ~(Live(s) /\ active)
  /\ sess[s].rotation # "no" => MayEndAll
  /\ Become(r, [Idle EXCEPT !.pc = "lookup", !.sid = s])
  /\ UNCHANGED <<sess, version, password, active, cache, liveSets, epoch,
                 loggedOut, faults>>

\* A token rotated longer than REFRESH_REUSE_GRACE_MS ago is a replay.
Lookup(r) ==
  /\ At(r, "lookup")
  /\ IF sess[call[r].sid].rotation = "old"
       THEN Go(r, "replayed")
       ELSE Become(r, Idle)
  /\ UNCHANGED <<sess, version, password, active, cache, liveSets, epoch,
                 loggedOut, faults>>

\* issueTokens: openSession.
Open(r, s) ==
  /\ At(r, "opening")
  /\ sess[s].state = "none"
  /\ sess' = [sess EXCEPT ![s] = [NoSession EXCEPT !.state = "live",
                                                   !.from = call[r].from,
                                                   !.epoch = call[r].epoch]]
  /\ Become(r, [call[r] EXCEPT !.pc = "signing", !.sid = s])
  /\ UNCHANGED <<version, password, active, cache, liveSets, epoch, loggedOut, faults>>

\* issueTokens: the version is read unless login brought it, and the tokens
\* are signed and sent; or the read fails, or the answer is lost.
Sign(r) ==
  /\ At(r, "signing")
  /\ \/ /\ sess' = [sess EXCEPT ![call[r].sid] =
                      [@ EXCEPT !.known = TRUE,
                                !.tv = IF call[r].hasVersion THEN call[r].sawVersion
                                                             ELSE version]]
        /\ UNCHANGED faults
     \/ /\ faults < MaxFaults /\ faults' = faults + 1
        /\ UNCHANGED sess
  /\ Become(r, Idle)
  /\ UNCHANGED <<version, password, active, cache, liveSets, epoch, loggedOut>>

----------------------------------------------------------------------------
\* tokenIsCurrent: an entry of the same version with this session in its set
\* accepts at once; anything else asks the database and keeps the entry in hand.
Hit(s) == /\ cache.set # NoSet
          /\ cache.version = sess[s].tv
          /\ s \in liveSets[cache.set]

Arrive(r, s) ==
  /\ At(r, "idle")
  /\ sess[s].known
  /\ Become(r, [Idle EXCEPT !.pc = IF Hit(s) THEN "in" ELSE "asking",
                            !.sid = s,
                            !.hit = IF Hit(s) THEN NoSet ELSE cache.set])
  /\ UNCHANGED <<sess, version, password, active, cache, liveSets, epoch,
                 loggedOut, faults>>

\* The SELECT runs.
Answer(r) ==
  /\ At(r, "asking")
  /\ Become(r, [call[r] EXCEPT !.pc = "answered",
                               !.sawLive = active /\ Live(call[r].sid),
                               !.sawVersion = version])
  /\ UNCHANGED <<sess, version, password, active, cache, liveSets, epoch,
                 loggedOut, faults>>

\* Mutant of Resume: what was found of the session is not looked at.
ResumeAnyway(r) ==
  LET sid == call[r].sid
      known == call[r].hit # NoSet
  IN /\ At(r, "answered")
     /\ Become(r, [Idle EXCEPT !.sid = sid,
                               !.pc = IF call[r].sawVersion = sess[sid].tv
                                        THEN "in" ELSE "refused"])
     /\ \E at \in IF known THEN {call[r].hit} ELSE Sets \ Referenced :
          /\ cache' = [version |-> call[r].sawVersion, set |-> at]
          /\ Keep([i \in Sets |-> IF i # at THEN liveSets[i]
                                  ELSE IF known THEN liveSets[i] \cup {sid}
                                  ELSE {sid}])
     /\ UNCHANGED <<sess, version, password, active, epoch, loggedOut, faults>>

\* Its rows are read: a live session joins the live set of the entry that was
\* found before the query, or a new set if there was none, and a new entry with
\* the version that was read replaces whatever is cached by now.
Resume(r) ==
  LET sid == call[r].sid
      known == call[r].hit # NoSet
  IN /\ At(r, "answered")
     /\ Become(r, [Idle EXCEPT !.sid = sid,
                               !.pc = IF /\ call[r].sawLive
                                         /\ call[r].sawVersion = sess[sid].tv
                                        THEN "in" ELSE "refused"])
     /\ IF call[r].sawLive
          THEN \E at \in IF known THEN {call[r].hit} ELSE Sets \ Referenced :
                 /\ cache' = [version |-> call[r].sawVersion, set |-> at]
                 /\ Keep([i \in Sets |-> IF i # at THEN liveSets[i]
                                         ELSE IF known THEN liveSets[i] \cup {sid}
                                         ELSE {sid}])
          ELSE UNCHANGED cache /\ Keep(liveSets)
     /\ UNCHANGED <<sess, version, password, active, epoch, loggedOut, faults>>

\* The request was answered: 401, or something that touches no session.
Leave(r) ==
  /\ At(r, "in") \/ At(r, "refused")
  /\ Become(r, Idle)
  /\ UNCHANGED <<sess, version, password, active, cache, liveSets, epoch,
                 loggedOut, faults>>

----------------------------------------------------------------------------
\* logout: revokeOwnSession,
Logout(r) ==
  /\ At(r, "in")
  /\ sess' = [sess EXCEPT ![call[r].sid].state = "ended"]
  /\ Go(r, "invalidate")
  /\ UNCHANGED <<version, password, active, cache, liveSets, epoch, loggedOut, faults>>

\* then invalidateSession,
InvalidateSession(r) ==
  /\ At(r, "invalidate")
  /\ liveSets' = [i \in Referenced |-> IF i = cache.set THEN liveSets[i] \ {call[r].sid}
                                                         ELSE liveSets[i]]
  /\ loggedOut' = loggedOut \cup {call[r].sid}
  /\ Go(r, "alsoRevoke")
  /\ UNCHANGED <<sess, version, password, active, cache, epoch, faults>>

\* then, if the client sent a refresh token too, revokeSessionByRefreshHash.
AlsoRevoke(r) ==
  /\ At(r, "alsoRevoke")
  /\ \/ UNCHANGED sess
     \/ \E s \in Sessions : /\ sess[s].known
                            /\ sess' = [sess EXCEPT ![s].state = "ended"]
  /\ Become(r, Idle)
  /\ UNCHANGED <<version, password, active, cache, liveSets, epoch, loggedOut, faults>>

----------------------------------------------------------------------------
\* Everything that ends all sessions does it in one statement or transaction,
\* and then tells the access tokens (revokeTokens), with pc = next.
EndAll(r, next) ==
  /\ sess' = AllEnded
  /\ epoch' = epoch + 1
  /\ Become(r, [Idle EXCEPT !.pc = next])
  /\ UNCHANGED <<cache, liveSets, loggedOut, faults>>

\* logout-all, and the replay of a rotated token: revokeAllSessions.
LogoutAll(r) ==
  /\ \/ At(r, "in") /\ MayEndAll
     \/ At(r, "replayed")
  /\ EndAll(r, "bump")
  /\ UNCHANGED <<version, password, active>>

\* An administrator: sessions and token_version in one transaction.
AdminEndsAll(r) ==
  /\ At(r, "idle") /\ MayEndAll
  /\ EndAll(r, "forget")
  /\ version' = version + 1
  /\ UNCHANGED <<password, active>>

\* password and delete /me: the stored hash is read and the password verified;
\* only a changed password is followed by new tokens.
ReadHash(r) ==
  /\ At(r, "in") /\ active /\ MayEndAll
  /\ \E reopen \in BOOLEAN :
       /\ reopen => Room
       /\ Become(r, [Idle EXCEPT !.pc = "hashing", !.hash = password, !.reopen = reopen])
  /\ UNCHANGED <<sess, version, password, active, cache, liveSets, epoch,
                 loggedOut, faults>>

\* delete /me: softDelete, which also clears the stored hash.
DeleteAccount(r) ==
  /\ At(r, "hashing") /\ ~call[r].reopen
  /\ EndAll(r, "bump")
  /\ active' = FALSE
  /\ password' = password + 1
  /\ UNCHANGED version

\* Mutant of ChangePassword: the new password leaves the sessions alone.
ChangePasswordOnly(r) ==
  /\ At(r, "hashing") /\ call[r].reopen
  /\ IF call[r].hash = password
       THEN /\ password' = password + 1
            /\ epoch' = epoch + 1
            /\ Become(r, [Idle EXCEPT !.pc = "bump", !.reopen = TRUE, !.epoch = epoch + 1])
       ELSE /\ Become(r, Idle)
            /\ UNCHANGED <<password, epoch>>
  /\ UNCHANGED <<version, active, sess, cache, liveSets, loggedOut, faults>>

\* password: setPassword compares and swaps; the loser gets a 409.
ChangePassword(r) ==
  /\ At(r, "hashing") /\ call[r].reopen
  /\ IF call[r].hash = password
       THEN /\ password' = password + 1
            /\ sess' = AllEnded
            /\ epoch' = epoch + 1
            /\ Become(r, [Idle EXCEPT !.pc = "bump", !.reopen = TRUE, !.epoch = epoch + 1])
       ELSE /\ Become(r, Idle)
            /\ UNCHANGED <<password, sess, epoch>>
  /\ UNCHANGED <<version, active, cache, liveSets, loggedOut, faults>>

\* reset: a link that was claimed stands for the current password, and
\* setPassword does not ask whether the account is still active.
ResetPassword(r) ==
  /\ At(r, "idle") /\ MayEndAll
  /\ EndAll(r, "bump")
  /\ password' = password + 1
  /\ UNCHANGED <<version, active>>

\* revokeTokens: the UPDATE,
BumpVersion(r) ==
  /\ At(r, "bump")
  /\ version' = version + 1
  /\ Go(r, "forget")
  /\ UNCHANGED <<sess, password, active, cache, liveSets, epoch, loggedOut, faults>>

\* and, when it is answered, the cache; a changed password signs in again.
ForgetTokens(r) ==
  /\ At(r, "forget")
  /\ cache' = NoEntry
  /\ IF call[r].reopen
       THEN Become(r, [Idle EXCEPT !.pc = "opening", !.epoch = call[r].epoch])
       ELSE Become(r, Idle)
  /\ UNCHANGED <<sess, version, password, active, epoch, loggedOut, faults>>
  /\ Keep(liveSets)

----------------------------------------------------------------------------
\* REFRESH_REUSE_GRACE_MS passes.
GraceEnds(s) ==
  /\ sess[s].rotation = "recent"
  /\ sess' = [sess EXCEPT ![s].rotation = "old"]
  /\ UNCHANGED <<version, password, active, cache, liveSets, call, epoch,
                 loggedOut, faults>>

\* expires_at passes.
SessionExpires(s) ==
  /\ Live(s)
  /\ sess' = [sess EXCEPT ![s].state = "ended"]
  /\ UNCHANGED <<version, password, active, cache, liveSets, call, epoch,
                 loggedOut, faults>>

\* PERMISSION_TTL_MS passes: the entry in the map expires, and with it every
\* older one that a check still has in hand;
CacheExpires ==
  /\ cache # NoEntry
  /\ cache' = NoEntry
  /\ call' = [r \in Requests |-> [call[r] EXCEPT !.hit = NoSet]]
  /\ UNCHANGED <<sess, version, password, active, epoch, loggedOut, faults>>
  /\ Keep(liveSets)

\* or only the one in hand.
HitExpires(r) ==
  /\ call[r].hit # NoSet
  /\ Become(r, [call[r] EXCEPT !.hit = NoSet])
  /\ UNCHANGED <<sess, version, password, active, cache, epoch,
                 loggedOut, faults>>
  /\ Keep(liveSets)

\* invalidatePermissions, after a change of roles.
RolesChange ==
  /\ cache # NoEntry
  /\ cache' = NoEntry
  /\ UNCHANGED <<sess, version, password, active, call, epoch,
                 loggedOut, faults>>
  /\ Keep(liveSets)

\* A statement of the request fails, and the rest of it does not happen.
Fail(r) ==
  /\ ~At(r, "idle")
  /\ faults < MaxFaults /\ faults' = faults + 1
  /\ Become(r, Idle)
  /\ UNCHANGED <<sess, version, password, active, cache, epoch, loggedOut>>
  /\ Keep(liveSets)

\* The API process restarts: requests and cache are gone.
Restart ==
  /\ faults < MaxFaults /\ faults' = faults + 1
  /\ cache' = NoEntry
  /\ call' = [r \in Requests |-> Idle]
  /\ UNCHANGED <<sess, version, password, active, epoch, loggedOut>>
  /\ Keep(liveSets)

----------------------------------------------------------------------------
Request(r) ==
  \/ Login(r) \/ Lookup(r) \/ Sign(r)
  \/ \E s \in Sessions : Rotate(r, s) \/ RotateNothing(r, s) \/ Open(r, s) \/ Arrive(r, s)
  \/ Answer(r) \/ Resume(r) \/ Leave(r)
  \/ Logout(r) \/ InvalidateSession(r) \/ AlsoRevoke(r)
  \/ LogoutAll(r) \/ AdminEndsAll(r) \/ DeleteAccount(r)
  \/ ReadHash(r) \/ ChangePassword(r) \/ ResetPassword(r)
  \/ BumpVersion(r) \/ ForgetTokens(r)
  \/ HitExpires(r) \/ Fail(r)

Next == \/ \E r \in Requests : Request(r)
        \/ \E s \in Sessions : GraceEnds(s) \/ SessionExpires(s)
        \/ CacheExpires \/ RolesChange \/ Restart

Spec == Init /\ [][Next]_vars

----------------------------------------------------------------------------
Session == [state : {"none", "live", "ended"}, rotation : {"no", "recent", "old"},
            from : Sessions \cup {None}, tv : Nat, known : BOOLEAN, epoch : Nat]

\* The steps that say something about a session.
Naming == {"lookup", "signing", "asking", "answered", "in", "refused",
           "invalidate", "alsoRevoke"}

Call == [pc : {"idle", "opening", "replayed", "hashing", "bump", "forget"} \cup Naming,
         sid : Sessions \cup {None}, hit : Sets \cup {NoSet}, sawLive : BOOLEAN,
         sawVersion : Nat, from : Sessions \cup {None}, epoch : Nat, hash : Nat,
         hasVersion : BOOLEAN, reopen : BOOLEAN]

\* The table, the cache and the requests keep their shape.
TypeOK ==
  /\ sess \in [Sessions -> Session]
  /\ {version, password, epoch} \subseteq Nat
  /\ active \in BOOLEAN
  /\ cache \in [version : Nat, set : Sets \cup {NoSet}]
  /\ liveSets \in [Referenced -> SUBSET Sessions]
  /\ call \in [Requests -> Call]
  /\ \A r \in Requests :
       /\ call[r].pc \in Naming => call[r].sid \in Sessions
       /\ call[r].hit # NoSet => call[r].pc \in {"asking", "answered"}
  /\ loggedOut \subseteq Sessions
  /\ faults \in 0 .. MaxFaults

\* A refresh token is traded for its successor once, whatever tabs and replays
\* present it together: two sessions never replace the same one (rotateSession).
OneSuccessor ==
  \A s, t \in Sessions :
     sess[s].from # None /\ sess[s].from = sess[t].from => s = t

\* What tokenIsCurrent is to find out of the token issued with session s.
Current(s) == active /\ Live(s) /\ sess[s].tv = version

\* "A cache hit may only ever ACCEPT": a token that is refused is not current,
\* however stale the entry and however late the answer that the check acted on.
NeverRefusesCurrent ==
  \A r \in Requests : At(r, "refused") => ~Current(call[r].sid)

\* Something that may still make the cache accept session s.
Lingers(s) ==
  \/ cache.set # NoSet /\ s \in liveSets[cache.set]
  \/ \E r \in Requests :
        \/ call[r].hit # NoSet /\ s \in liveSets[call[r].hit]
        \/ At(r, "answered") /\ call[r].sid = s /\ call[r].sawLive

\* Once a session has ended and nothing of it lingers in the cache or in a check
\* under way, nothing brings it back: the other sessions that keep renewing the
\* entry never carry it along again.
GoneForGood ==
  [][\A s \in Sessions :
       (sess[s].state = "ended" /\ ~Lingers(s)) => ~Lingers(s)']_vars

\* Signing out everywhere, a new password and a replayed token end EVERY session:
\* the live ones were opened for a credential verified since the last time
\* (routes.ts:712 "Every other session dies with the change", routes.ts:620).
NothingSurvives == \A s \in Sessions : Live(s) => sess[s].epoch = epoch

\* "A logged-out token must stop working immediately" (auth.ts:75), and not at
\* the end of the cache TTL: the cache accepts no session that was logged out.
LoggedOutIsRefused == \A s \in loggedOut : ~Hit(s)

\* What holds of sessions at every moment: the shape of the state, and one successor
\* of a refresh token at most.
SessionsSafe ==
  /\ TypeOK
  /\ OneSuccessor
=============================================================================
