---------------------------- MODULE MCDiscordLive ---------------------------
(***************************************************************************)
(* What the Discord side of the worker and of the dashboard keeps in the   *)
(* database and in a guild, checked in one run: the first state chooses    *)
(* which component moves, the others stay in their initial state.          *)
(***************************************************************************)
EXTENDS PersistentMessage, GuildNews, DmNotices, RoleSync

CONSTANT p2

\* Every process has an id of its own.
OwnPid == [c \in Callers |-> c]

VARIABLE active
allVars == <<active, vars, newsVars, dmVars, roleVars>>

Components == {"message", "news", "dm", "roles", "replicas"}
RoleRun == {"roles", "replicas"}

LastMember == CHOOSE m \in Members : \A n \in Members : n <= m

\* A component with several initial states keeps to one while it rests.
MCInit ==
  /\ active \in Components
  /\ Init /\ NewsInit /\ DmInit /\ RoleInit
  /\ active = "message" \/ truth = CHOOSE c \in Contents : TRUE
  /\ active = "roles" \/ unknown = {}
  /\ linked = CASE active = "roles" -> Members
                [] active = "replicas" -> Members \ {LastMember}
                [] OTHER -> {}
  /\ active = "roles" \/ has = {}

\* One worker's passes over more members than a batch, whoever is silent, and one change;
\* or those of two replicas over a batch of members who all answer, and two changes.
RoleScene ==
  \/ active = "roles" /\ pass'[p2].pc = "idle" /\ swaps' <= 1
  \/ active = "replicas" /\ linked' \subseteq linked /\ syncFaults' = 0

MCNext ==
  /\ UNCHANGED active
  /\ \/ /\ active = "message" /\ Next
        /\ UNCHANGED <<newsVars, dmVars, roleVars>>
     \/ /\ active = "news" /\ NewsNext
        /\ UNCHANGED <<vars, dmVars, roleVars>>
     \/ /\ active = "dm" /\ DmNext
        /\ UNCHANGED <<vars, newsVars, roleVars>>
     \/ /\ active \in RoleRun /\ RoleNext /\ RoleScene
        /\ UNCHANGED <<vars, newsVars, dmVars>>

\* The job queue starts the worker's round every minute, every call to Discord or the
\* database ends, an abandoned lock expires.  People and crashes are not fair.
MCFairness ==
  /\ \A c \in Callers : WF_vars(active = "message" /\ Advance(c))
  /\ \A c \in Workers : WF_vars(active = "message" /\ ReadDue(c))
  /\ WF_vars(active = "message" /\ Expire)
  /\ \A r \in NewsRounds : /\ WF_newsVars(active = "news" /\ RoundStarts(r))
                           /\ WF_newsVars(active = "news" /\ RoundSteps(r))
  /\ \A m \in Moderators : WF_newsVars(active = "news" /\ PressSteps(m))
  /\ \A n \in DmRounds : WF_dmVars(active = "dm" /\ DmSteps(n))
  /\ \A p \in Passes : WF_roleVars(active = "replicas" /\ PassSteps(p))
  /\ \A p \in Passes \ {p2} : WF_roleVars(active = "roles" /\ PassSteps(p))

\* ShowsTheData of the behaviours in which the message's callers move.
MessageShowsTheData == active = "message" => ShowsTheData

LiveSpec == MCInit /\ [][MCNext]_allVars /\ MCFairness

\* What becomes of the message: it shows the data in the end, and no message is
\* retried for ever.
MessageBehaves ==
  /\ MessageShowsTheData
  /\ NoEndlessRetry
=============================================================================
