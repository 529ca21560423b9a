----------------------------- MODULE BrowserTabs -----------------------------
(***************************************************************************)
(* The tabs of one browser that share a session (apps/web, shared/api/     *)
(* yume.js): the access token in localStorage, the refresh cookie that     *)
(* rotates, and the refresh each tab runs at most once at a time, under a  *)
(* Web Lock where the browser has them.  The server is the refresh and     *)
(* logout routes of modules/auth/routes.ts, whose own interleavings are    *)
(* the module Sessions; here each answer is decided in one step.           *)
(*                                                                         *)
(* A session, its cookie and its access token carry one number: 1 is the   *)
(* one the browser starts with, each refresh makes the next, 0 is none.    *)
(***************************************************************************)
EXTENDS Naturals, FiniteSets

CONSTANTS
  Tabs,
  Reads, Logouts, Resumes,   \* requests, each made once; resumeSession calls
  HomeOf,                    \* the tab each of them belongs to
  MaxLost                    \* bound: answers lost, tabs closed

Calls == Reads \cup Logouts \cup Resumes

ASSUME TabsAssumption ==
  /\ IsFiniteSet(Calls) /\ HomeOf \in [Calls -> Tabs] /\ MaxLost \in Nat
  /\ Logouts \cap Resumes = {}
  /\ IsFiniteSet(Tabs) /\ "nobody" \notin Tabs

VARIABLES
  webLocks,     \* whether the browser has navigator.locks
  stored,       \* the access token in localStorage
  cookie,       \* the refresh cookie
  sessions,     \* the server's rows
  expired,      \* access tokens older than fifteen minutes
  request,      \* per call: its step, the token it carries, its second try
  refresh,      \* per tab: the refresh under way
  holder,       \* the tab that holds yume-auth-refresh
  replacements, \* history: how often each token was traded for a new one
  fate,         \* history: what ended the session, what crossed a logout
  lost

tabVars == <<webLocks, stored, cookie, sessions, expired, request, refresh, holder,
             replacements, fate, lost>>

Numbers == 0 .. Cardinality(Calls) + 1
NoRefresh == [step |-> "none", stale |-> 0, cookie |-> 0, again |-> FALSE]
Fate == [alarm : BOOLEAN, elsewhere : BOOLEAN, wished : BOOLEAN, out : BOOLEAN,
         crossed : BOOLEAN]

\* The shape of the state; the lock is held by a tab that is exchanging.
TabsTypeOK ==
  /\ webLocks \in BOOLEAN /\ stored \in Numbers /\ cookie \in Numbers
  /\ sessions \in [Numbers \ {0} -> {"none", "live", "rotated", "replayable", "ended"}]
  /\ expired \subseteq Numbers
  /\ request \in [Calls -> [step : {"idle", "sent", "revoking", "ok", "unauthorized",
                                    "waiting", "done"},
                            token : Numbers, again : BOOLEAN]]
  /\ refresh \in [Tabs -> [step : {"none", "queued", "sent", "fresh", "reading",
                                   "pausing", "cleared", "failed"},
                           stale : Numbers, cookie : Numbers, again : BOOLEAN]]
  /\ holder \in Tabs \cup {"nobody"}
  /\ holder # "nobody" => webLocks /\ refresh[holder].step \notin {"none", "queued"}
  /\ replacements \in [Numbers -> Nat] /\ fate \in Fate /\ lost \in 0 .. MaxLost

TabsInit ==
  /\ webLocks \in BOOLEAN /\ stored = 1 /\ cookie = 1
  /\ sessions = [n \in Numbers \ {0} |-> IF n = 1 THEN "live" ELSE "none"]
  /\ expired = {}
  /\ request = [c \in Calls |-> [step |-> "idle", token |-> 0, again |-> FALSE]]
  /\ refresh = [t \in Tabs |-> NoRefresh] /\ holder = "nobody"
  /\ replacements = [n \in Numbers |-> 0]
  /\ fate = [alarm |-> FALSE, elsewhere |-> FALSE, wished |-> FALSE, out |-> FALSE,
             crossed |-> FALSE]
  /\ lost = 0

Is(c, step) == request[c].step = step
At(t, step) == refresh[t].step = step
LiveSession(n) == n # 0 /\ sessions[n] = "live"
Accepted(n) == LiveSession(n) /\ n \notin expired

-----------------------------------------------------------------------------
\* _refresh, up to its first await.  Who finds one under way in the tab waits for
\* it.  With locks it queues for the lock; without them it exchanges at once.
Joins(t) ==
  IF ~At(t, "none") THEN UNCHANGED refresh
  ELSE refresh' = [refresh EXCEPT ![t] =
         [NoRefresh EXCEPT !.step = IF webLocks THEN "queued" ELSE "sent",
                           !.stale = stored, !.cookie = IF webLocks THEN 0 ELSE cookie]]

\* _request: the token there is goes with it.
Sends(c) ==
  /\ c \notin Resumes /\ Is(c, "idle") /\ stored # 0
  /\ request' = [request EXCEPT ![c] = [step |-> "sent", token |-> stored, again |-> FALSE]]
  /\ fate' = [fate EXCEPT !.wished = @ \/ c \in Logouts]
  /\ UNCHANGED <<webLocks, stored, cookie, sessions, expired, refresh, holder,
                 replacements, lost>>

\* resumeSession, after the redirect of a Discord sign-in.
ResumesSession(c) ==
  /\ c \in Resumes /\ Is(c, "idle")
  /\ request' = [request EXCEPT ![c].step = "waiting", ![c].again = TRUE]
  /\ Joins(HomeOf[c])
  /\ UNCHANGED <<webLocks, stored, cookie, sessions, expired, holder, replacements,
                 fate, lost>>

Finished == [step |-> "done", token |-> 0, again |-> FALSE]
Ends(c) == request' = [request EXCEPT ![c] = Finished]

\* The server accepts the token, or answers 401.  The answer to a read, and a second
\* 401, are the end of it.
Judges(c) ==
  /\ Is(c, "sent")
  /\ IF Accepted(request[c].token)
     THEN IF c \in Logouts THEN request' = [request EXCEPT ![c].step = "revoking"] ELSE Ends(c)
     ELSE IF c \in Logouts \/ ~request[c].again
          THEN request' = [request EXCEPT ![c].step = "unauthorized"] ELSE Ends(c)
  /\ UNCHANGED <<webLocks, stored, cookie, sessions, expired, refresh, holder,
                 replacements, fate, lost>>

\* Mutant of Revokes: taking the cookie away is enough.
RevokesNothing(c) ==
  /\ Is(c, "revoking")
  /\ request' = [request EXCEPT ![c].step = "ok"]
  /\ UNCHANGED <<webLocks, stored, cookie, sessions, expired, refresh, holder,
                 replacements, fate, lost>>

\* POST /logout: the session of the token is ended, and that of the cookie it was sent
\* with.  That is the browser's; or one replaced since, whose session is not live; or none,
\* as the second try does not ask for cookies and another origin gets them only then.
Revokes(c) ==
  /\ Is(c, "revoking")
  /\ \E sent \in {cookie, 0} :
       sessions' = [n \in Numbers \ {0} |->
         IF n \in {request[c].token, sent} /\ sessions[n] = "live" THEN "ended"
         ELSE sessions[n]]
  /\ fate' = [fate EXCEPT !.crossed = @ \/ sessions[request[c].token] # "live"]
  /\ request' = [request EXCEPT ![c].step = "ok"]
  /\ UNCHANGED <<webLocks, stored, cookie, expired, refresh, holder, replacements, lost>>

\* ... which is answered: the cookie goes, unless the second try asked another origin, and
\* the token.
LoggedOut(c) ==
  /\ Is(c, "ok") /\ Ends(c)
  /\ stored' = 0 /\ (cookie' = 0 \/ (request[c].again /\ cookie' = cookie))
  /\ fate' = [fate EXCEPT !.out = TRUE]
  /\ UNCHANGED <<webLocks, sessions, expired, refresh, holder, replacements, lost>>

\* How an anonymous read ends is of no interest here.
Again(c) ==
  IF stored = 0 /\ c \in Reads THEN Ends(c)
  ELSE request' = [request EXCEPT ![c] = [step |-> "sent", token |-> stored, again |-> TRUE]]

\* 401: with the token it was sent with still stored the tab refreshes; with another
\* one stored it is tried again at once.
Unauthorized(c) ==
  /\ Is(c, "unauthorized") /\ ~request[c].again
  /\ IF stored = request[c].token
     THEN /\ request' = [request EXCEPT ![c].step = "waiting"] /\ Joins(HomeOf[c])
     ELSE Again(c) /\ UNCHANGED refresh
  /\ UNCHANGED <<webLocks, stored, cookie, sessions, expired, holder, replacements,
                 fate, lost>>

\* After the refresh, whatever became of it, the request is tried once more.
TriesAgain(c) ==
  /\ Is(c, "waiting") /\ At(HomeOf[c], "none")
  /\ IF c \in Resumes THEN Ends(c) ELSE Again(c)
  /\ UNCHANGED <<webLocks, stored, cookie, sessions, expired, refresh, holder,
                 replacements, fate, lost>>

\* A second 401, or no answer: a logout forgets the token all the same.
LogoutFails(c) ==
  /\ c \in Logouts
  /\ \/ Is(c, "unauthorized") /\ request[c].again
     \/ \E step \in {"sent", "ok"} : Is(c, step)
  /\ Ends(c) /\ stored' = 0
  /\ UNCHANGED <<webLocks, cookie, sessions, expired, refresh, holder, replacements,
                 fate, lost>>

-----------------------------------------------------------------------------
Goes(t, step) == refresh' = [refresh EXCEPT ![t].step = step]
Presents(t) == refresh' = [refresh EXCEPT ![t].step = "sent", ![t].cookie = cookie]

\* Mutant of Over: the lock is not given back.
OverHolding(t) ==
  /\ refresh' = [refresh EXCEPT ![t] = NoRefresh]
  /\ UNCHANGED holder

\* The refresh is over: the lock goes to the next tab, the waiting calls go on.
Over(t) ==
  /\ refresh' = [refresh EXCEPT ![t] = NoRefresh]
  /\ holder' = IF holder = t THEN "nobody" ELSE holder

\* Another tab has replaced the token this refresh was to replace.
Replaced(t) == refresh[t].stale # 0 /\ stored # 0 /\ stored # refresh[t].stale

\* The lock is granted.
Granted(t) ==
  /\ At(t, "queued") /\ holder = "nobody"
  /\ IF Replaced(t) THEN Over(t) ELSE holder' = t /\ Presents(t)
  /\ UNCHANGED <<webLocks, stored, cookie, sessions, expired, request, replacements,
                 fate, lost>>

Rotates(t) ==
  LET old == refresh[t].cookie
      new == CHOOSE n \in Numbers \ {0} :
               sessions[n] = "none" /\ \A m \in Numbers \ {0} : sessions[m] = "none" => n <= m
  IN /\ LiveSession(old)
     /\ sessions' = [sessions EXCEPT ![old] = "rotated", ![new] = "live"]
     /\ refresh' = [refresh EXCEPT ![t].step = "fresh", ![t].cookie = new]
     /\ replacements' = [replacements EXCEPT ![refresh[t].stale] = @ + 1]
     /\ UNCHANGED fate

\* A token rotated within the grace period is told so, and the tab tries once more
\* after a pause; one rotated before that looks stolen: every session is ended.
Replays(t) ==
  LET old == refresh[t].cookie IN
  /\ old # 0 /\ UNCHANGED replacements
  /\ \/ /\ sessions[old] = "rotated" /\ UNCHANGED <<sessions, fate>>
        /\ Goes(t, IF refresh[t].again THEN "failed" ELSE "pausing")
     \/ /\ sessions[old] = "replayable"
        /\ sessions' = [n \in Numbers \ {0} |-> IF sessions[n] = "live" THEN "ended"
                                                ELSE sessions[n]]
        /\ fate' = [fate EXCEPT !.alarm = TRUE]
        /\ Goes(t, "cleared")

\* An ended session: the cookie is cleared.  No cookie at all: nothing to clear.
Refuses(t) ==
  LET old == refresh[t].cookie IN
  /\ old # 0 => sessions[old] = "ended"
  /\ Goes(t, IF old = 0 THEN "failed" ELSE "cleared")
  /\ UNCHANGED <<sessions, fate, replacements>>

\* POST /refresh.
Exchanges(t) ==
  /\ At(t, "sent")
  /\ Rotates(t) \/ Replays(t) \/ Refuses(t)
  /\ UNCHANGED <<webLocks, stored, cookie, expired, request, holder, lost>>

\* An answer that sets or clears the cookie reaches the browser.
Arrives(t) ==
  /\ \/ At(t, "fresh") /\ cookie' = refresh[t].cookie /\ Goes(t, "reading")
     \/ At(t, "cleared") /\ cookie' = 0 /\ Goes(t, "failed")
  /\ UNCHANGED <<webLocks, stored, sessions, expired, request, holder, replacements,
                 fate, lost>>

\* The pause is over: again, with the cookie the browser holds now.
PresentsAgain(t) ==
  /\ At(t, "pausing")
  /\ refresh' = [refresh EXCEPT ![t].step = "sent", ![t].cookie = cookie, ![t].again = TRUE]
  /\ UNCHANGED <<webLocks, stored, cookie, sessions, expired, request, holder,
                 replacements, fate, lost>>

\* _saveTokens(fresh).
Saves(t) ==
  /\ At(t, "reading") /\ stored' = refresh[t].cookie /\ Over(t)
  /\ UNCHANGED <<webLocks, cookie, sessions, expired, request, replacements, fate, lost>>

\* The refresh failed: only the token it was to replace is forgotten.
SignsOut(t) ==
  /\ At(t, "failed") /\ Over(t)
  /\ stored' = IF stored = refresh[t].stale THEN 0 ELSE stored
  /\ UNCHANGED <<webLocks, cookie, sessions, expired, request, replacements, fate, lost>>

-----------------------------------------------------------------------------
Losing == ~fate.elsewhere /\ lost < MaxLost /\ lost' = lost + 1

\* The answer of an exchange, or the exchange itself, is lost, or takes longer than
\* the grace period.
Loses(t) ==
  /\ Losing /\ \E step \in {"sent", "fresh", "cleared"} : At(t, step)
  /\ Goes(t, "failed")
  /\ UNCHANGED <<webLocks, stored, cookie, sessions, expired, request, holder,
                 replacements, fate>>

\* A tab is closed; the browser releases its lock.
Closes(t) ==
  /\ Losing /\ Over(t)
  /\ request' = [c \in Calls |-> IF HomeOf[c] = t THEN Finished ELSE request[c]]
  /\ UNCHANGED <<webLocks, stored, cookie, sessions, expired, replacements, fate>>

\* Fifteen minutes; thirty seconds after a rotation, in which what carries the
\* cookie arrives.  Only a cookie somebody may still present is followed.
TokenExpires(n) ==
  /\ LiveSession(n) /\ n \notin expired /\ expired' = expired \cup {n}
  /\ UNCHANGED <<webLocks, stored, cookie, sessions, request, refresh, holder,
                 replacements, fate, lost>>

GraceEnds(n) ==
  /\ sessions[n] = "rotated"
  /\ cookie = n
  /\ \A t \in Tabs : ~At(t, "fresh") /\ (refresh[t].cookie = n => ~At(t, "sent"))
  /\ sessions' = [sessions EXCEPT ![n] = "replayable"]
  /\ UNCHANGED <<webLocks, stored, cookie, expired, request, refresh, holder,
                 replacements, fate, lost>>

\* All sessions of the account are ended from another device (where nothing is
\* lost, to bound the model).
EndedElsewhere ==
  /\ lost = 0 /\ ~fate.elsewhere /\ fate' = [fate EXCEPT !.elsewhere = TRUE]
  /\ sessions' = [n \in Numbers \ {0} |-> IF sessions[n] = "live" THEN "ended" ELSE sessions[n]]
  /\ UNCHANGED <<webLocks, stored, cookie, expired, request, refresh, holder,
                 replacements, lost>>

-----------------------------------------------------------------------------
CallSteps(c) == \/ Judges(c) \/ Revokes(c) \/ LoggedOut(c) \/ Unauthorized(c)
                \/ TriesAgain(c) \/ LogoutFails(c)
RefreshSteps(t) == \/ Granted(t) \/ Exchanges(t) \/ Arrives(t) \/ PresentsAgain(t)
                   \/ Saves(t) \/ SignsOut(t)

TabsNext ==
  \/ \E c \in Calls : Sends(c) \/ ResumesSession(c) \/ CallSteps(c)
  \/ \E t \in Tabs : RefreshSteps(t) \/ Loses(t) \/ Closes(t)
  \/ \E n \in Numbers \ {0} : TokenExpires(n) \/ GraceEnds(n)
  \/ EndedElsewhere

TabsSpec == TabsInit /\ [][TabsNext]_tabVars

-----------------------------------------------------------------------------
Resting == \A t \in Tabs : At(t, "none")

\* Tabs that refresh together never sign anybody out: when no refresh is under
\* way the browser has a token and a live cookie, unless an answer was lost or
\* somebody ended the session.  Also in a browser without locks, where a tab
\* that comes late fails while another one succeeds.
SignedInAtRest ==
  Resting /\ lost = 0 /\ ~fate.elsewhere /\ ~fate.wished => stored # 0 /\ LiveSession(cookie)

\* Under the lock a token is traded for a new one once, however many requests of
\* however many tabs were refused with it.  (Apart from a logout that failed: it forgets
\* the token, and a tab that waited for the lock meanwhile refreshes and brings the
\* session back.)
RefreshedOnce ==
  webLocks /\ lost = 0 /\ ~fate.wished => \A n \in Numbers \ {0} : replacements[n] <= 1

\* The server's theft alarm, which ends every session, is never a false one of the
\* tabs alone: an answer was lost before.
AlarmNeedsLoss == fate.alarm => lost > 0

\* A logout that was answered leaves no live session and no token behind, although
\* refreshes of other tabs were under way.  A rotation between the check of the
\* access token and its revocation escapes it; without locks a late tab can write
\* back a token, which is dead.
LoggedOutStaysOut ==
  fate.out /\ ~fate.crossed =>
    (\A n \in Numbers : ~LiveSession(n)) /\ (webLocks => stored = 0)

\* Every request comes to an end, the ones that wait for the refresh of their own
\* tab, or for the lock of another one, included.  (Each is made once, so this is:
\* in the end none is under way.)
EveryRequestEnds == <>[](\A c \in Calls : Is(c, "idle") \/ Is(c, "done"))

\* Tabs that share one refresh token at every moment: nobody is signed out by a race, a
\* token is traded once, the alarm rings for a loss, and out is out.
TabsSafe ==
  /\ TabsTypeOK
  /\ SignedInAtRest
  /\ RefreshedOnce
  /\ AlarmNeedsLoss
  /\ LoggedOutStaysOut
=============================================================================
