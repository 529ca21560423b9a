------------------------------ MODULE MCAccess ------------------------------
(***************************************************************************)
(* Who is let in: the tabs of a browser, the dashboard of a server, the    *)
(* bans of the edge and the maintenance mode, checked in one run: the      *)
(* first state chooses which of them moves, the others stay in their       *)
(* initial state.  The tabs, the dashboard and the bans are run twice,     *)
(* with different calls made and the others idle.                          *)
(***************************************************************************)
EXTENDS BrowserTabs, GuildAccess, EdgeBans, MaintenanceCache

CONSTANTS r1, r2, o1, n1, b, u1, u2, c1, c2, c3, k1, k2, k3, s1, s2, q2, b2

HomeOfCall == [c \in Calls |-> IF c = r1 THEN CHOOSE t \in Tabs : t # b ELSE b]
StarterOfCallback == [c \in Callbacks |-> IF c = c3 THEN u2 ELSE u1]
StateOfCallback == [c \in Callbacks |-> IF c = c3 THEN s2 ELSE s1]
AskerOfCheck == [k \in Checks |-> IF k = k3 THEN u2 ELSE u1]

VARIABLE active
allVars == <<active, tabVars, accessVars, banVars, maintenanceVars>>

Components == {"logout", "resume", "redirects", "renewals", "bans", "copies", "maintenance"}
TabsRun == {"logout", "resume"}
AccessRun == {"redirects", "renewals"}
BansRun == {"bans", "copies"}

MCInit ==
  /\ active \in Components
  /\ TabsInit /\ AccessInit /\ BanInit /\ MaintenanceInit
  /\ active \notin TabsRun => webLocks
  /\ active \notin AccessRun => \A d \in Accounts : truth[d] = "manager"

\* The second tab logs out while the first one reads, with nothing lost, or it reads and
\* resumes the session, with losses.
TabsScene ==
  \/ /\ active = "logout" /\ lost' = 0
     /\ request'[r2].step = "idle" /\ request'[n1].step \in {"idle", "done"}
  \/ active = "resume" /\ request'[o1].step \in {"idle", "done"}

\* Three redirects, two of them with one state, and one request; or one redirect and
\* two requests that can wait for one renewal, and a request of an operator.
AccessScene ==
  \/ active = "redirects" /\ check'[k2].step = "idle" /\ check'[k3].step = "idle" /\ changes' <= 1
  \/ active = "renewals" /\ callback'[c2].step = "idle" /\ callback'[c3].step = "idle"

\* Two calls, and a process whose requests query one at a time; or one call, and two
\* requests that query together.
BanScene ==
  \/ active = "bans" /\ \A p \in Apis : ~reading'[p, q2].held
  \/ active = "copies" /\ call'[b2].step = "idle"

MCNext ==
  /\ UNCHANGED active
  /\ \/ /\ active \in TabsRun /\ TabsNext /\ TabsScene
        /\ UNCHANGED <<accessVars, banVars, maintenanceVars>>
     \/ /\ active \in AccessRun /\ AccessNext /\ AccessScene
        /\ UNCHANGED <<tabVars, banVars, maintenanceVars>>
     \/ /\ active \in BansRun /\ BanNext /\ BanScene
        /\ UNCHANGED <<tabVars, accessVars, maintenanceVars>>
     \/ /\ active = "maintenance" /\ MaintenanceNext
        /\ UNCHANGED <<tabVars, accessVars, banVars>>

\* Requests time out, statements are answered, timers fire; nothing that people, or
\* Discord, do is fair.
MCFairness ==
  /\ \A c \in Calls : WF_tabVars(active \in TabsRun /\ CallSteps(c))
  /\ \A t \in Tabs : WF_tabVars(active \in TabsRun /\ RefreshSteps(t))
  /\ \A d \in Accounts : WF_accessVars(active \in AccessRun /\ RenewalSteps(d))
  /\ \A p \in Apis :
       /\ \A q \in Lookups : WF_banVars(active = "copies" /\ CopySteps(p, q))
       /\ \A q \in Lookups \ {q2} : WF_banVars(active = "bans" /\ CopySteps(p, q))
       /\ WF_banVars(active \in BansRun /\ SnapshotAges(p))
  /\ \A i \in Instances : /\ WF_maintenanceVars(active = "maintenance" /\ Request(i))
                          /\ WF_maintenanceVars(active = "maintenance" /\ Expires(i))
                          /\ WF_maintenanceVars(/\ active = "maintenance"
                                                /\ LoadReads(i) \/ LoadReturns(i))

LiveSpec == MCInit /\ [][MCNext]_allVars /\ MCFairness
=============================================================================
