-------------------------- MODULE MaintenanceCache --------------------------
(* The maintenance setting in the memory of each instance, and the three things
   that keep it fresh: the announcement over LISTEN/NOTIFY, the expiry, the first
   read (src/apps/api/src/modules/maintenance/cache.ts, routes.ts, repository.ts).

   The setting is its version: every change is a new row, the valid one has the
   greatest version.  A load reads at one moment and is installed at a later one.
   The LISTEN connection is the one of infrastructure/queue/wake.ts, here only up
   or down: what is announced while it is down is never heard. *)
EXTENDS Naturals, FiniteSets

CONSTANT Instances

\* Bounds of the model, not of the code.
CONSTANTS MaxSaves,    \* settings saved
          MaxBreaks    \* restarts, lost connections, loads the database does not answer

ASSUME MaintenanceAssumption == MaxSaves \in Nat /\ MaxBreaks \in Nat

Versions == 0 .. MaxSaves         \* 0: no setting known, the site is open

VARIABLES latest,      \* the version in maintenance_configs
          current,     \* the setting each instance holds
          fresh,       \* whether readAt is within TTL_MS
          loads,       \* inFlight: loads under way, with what they have read
          link,        \* whether the instance hears announcements
          onTheWay,    \* announcements on their way to an instance
          announcing,  \* versions saved through an instance, not yet announced
          told,        \* history: the newest version announced to an instance
          raced,       \* history: an announcement met a load that had already read
          breaks

maintenanceVars == <<latest, current, fresh, loads, link, onTheWay, announcing, told,
                     raced, breaks>>

\* A load that has not been answered yet carries no version.
Unread == [read |-> FALSE, version |-> 0]
HasRead(v) == [read |-> TRUE, version |-> v]

MaintenanceInit ==
  /\ latest = 0
  /\ current = [i \in Instances |-> 0] /\ fresh = [i \in Instances |-> FALSE]
  /\ loads = [i \in Instances |-> {}]
  /\ link = [i \in Instances |-> TRUE]
  /\ onTheWay = [i \in Instances |-> {}] /\ announcing = [i \in Instances |-> {}]
  /\ told = [i \in Instances |-> 0] /\ raced = [i \in Instances |-> FALSE]
  /\ breaks = 0

Breaks == breaks < MaxBreaks /\ breaks' = breaks + 1
Newer(v, w) == IF v > w THEN v ELSE w

----------------------------------------------------------------------------
\* Mutant of MayLoad: every caller starts a load of its own.
MayLoadTwice(i) == Cardinality(loads[i]) < 2

\* refresh: one load at a time.
MayLoad(i) == loads[i] = {}

\* A request finds the setting expired: it is answered from what there is, and
\* starts a load.
Request(i) ==
  /\ ~fresh[i] /\ MayLoad(i)
  /\ loads' = [loads EXCEPT ![i] = @ \cup {Unread}]
  /\ UNCHANGED <<latest, current, fresh, link, onTheWay, announcing, told, raced, breaks>>

\* The database answers a load.
LoadReads(i) ==
  /\ Unread \in loads[i]
  /\ loads' = [loads EXCEPT ![i] = (@ \ {Unread}) \cup {HasRead(latest)}]
  /\ UNCHANGED <<latest, current, fresh, link, onTheWay, announcing, told, raced, breaks>>

\* The answer is installed and counts as fresh from now.  An empty table installs
\* nothing.
LoadReturns(i) ==
  \E load \in loads[i] :
    /\ load.read
    /\ loads' = [loads EXCEPT ![i] = @ \ {load}]
    /\ IF load.version = 0 THEN UNCHANGED <<current, fresh>>
       ELSE /\ current' = [current EXCEPT ![i] = load.version]
            /\ fresh' = [fresh EXCEPT ![i] = TRUE]
    /\ UNCHANGED <<latest, link, onTheWay, announcing, told, raced, breaks>>

\* The load fails: the last known setting is kept, and is not fresh.
LoadFails(i) ==
  /\ Breaks
  /\ \E load \in loads[i] :
       /\ loads' = [loads EXCEPT ![i] = @ \ {load}]
       /\ UNCHANGED <<latest, current, fresh, link, onTheWay, announcing, told, raced>>

\* TTL_MS have passed since the load returned.
Expires(i) ==
  /\ fresh[i]
  /\ fresh' = [fresh EXCEPT ![i] = FALSE]
  /\ raced' = [raced EXCEPT ![i] = FALSE]
  /\ UNCHANGED <<latest, current, loads, link, onTheWay, announcing, told, breaks>>

----------------------------------------------------------------------------
\* PUT /v1/admin/maintenance: the row.
SaveSetting(i) ==
  /\ latest < MaxSaves
  /\ latest' = latest + 1
  /\ announcing' = [announcing EXCEPT ![i] = @ \cup {latest + 1}]
  /\ UNCHANGED <<current, fresh, loads, link, onTheWay, told, raced, breaks>>

\* invalidate, as the history sees it: instance i was told of version v.
Invalidate(i, v) ==
  /\ fresh' = [fresh EXCEPT ![i] = FALSE]
  /\ told' = [told EXCEPT ![i] = Newer(v, @)]
  /\ raced' = [raced EXCEPT ![i] = \E load \in loads[i] : load.read]

\* Mutant of Publishes: the instance that saved waits for its own announcement.
PublishesToOthers(i) ==
  \E v \in announcing[i], out \in BOOLEAN :
    /\ announcing' = [announcing EXCEPT ![i] = @ \ {v}]
    /\ told' = [told EXCEPT ![i] = Newer(v, @)]
    /\ onTheWay' = IF out THEN [j \in Instances |-> IF link[j] THEN onTheWay[j] \cup {v}
                                                    ELSE onTheWay[j]]
                   ELSE onTheWay
    /\ UNCHANGED <<latest, current, fresh, loads, link, raced, breaks>>

\* announce: the own cache at once, the others by NOTIFY, which may fail.
Publishes(i) ==
  \E v \in announcing[i], out \in BOOLEAN :
    /\ announcing' = [announcing EXCEPT ![i] = @ \ {v}]
    /\ Invalidate(i, v)
    /\ onTheWay' = IF out THEN [j \in Instances |-> IF link[j] THEN onTheWay[j] \cup {v}
                                                    ELSE onTheWay[j]]
                   ELSE onTheWay
    /\ UNCHANGED <<latest, current, loads, link, breaks>>

\* watch: the announcement is heard, and a load started unless one is under way.
Hears(i) ==
  \E v \in onTheWay[i] :
    /\ onTheWay' = [onTheWay EXCEPT ![i] = @ \ {v}]
    /\ Invalidate(i, v)
    /\ loads' = IF MayLoad(i) THEN [loads EXCEPT ![i] = @ \cup {Unread}] ELSE loads
    /\ UNCHANGED <<latest, current, link, announcing, breaks>>

----------------------------------------------------------------------------
LinkLost(i) ==
  /\ Breaks /\ link[i]
  /\ link' = [link EXCEPT ![i] = FALSE]
  /\ onTheWay' = [onTheWay EXCEPT ![i] = {}]
  /\ UNCHANGED <<latest, current, fresh, loads, announcing, told, raced>>

LinkBack(i) ==
  /\ ~link[i]
  /\ link' = [link EXCEPT ![i] = TRUE]
  /\ UNCHANGED <<latest, current, fresh, loads, onTheWay, announcing, told, raced, breaks>>

\* The process is replaced by one that knows nothing; what it saved and had not
\* announced is never announced.
Restart(i) ==
  /\ Breaks
  /\ current' = [current EXCEPT ![i] = 0] /\ fresh' = [fresh EXCEPT ![i] = FALSE]
  /\ loads' = [loads EXCEPT ![i] = {}] /\ onTheWay' = [onTheWay EXCEPT ![i] = {}]
  /\ announcing' = [announcing EXCEPT ![i] = {}]
  /\ told' = [told EXCEPT ![i] = 0] /\ raced' = [raced EXCEPT ![i] = FALSE]
  /\ UNCHANGED <<latest, link>>

----------------------------------------------------------------------------
Caching(i) == Request(i) \/ LoadReads(i) \/ LoadReturns(i) \/ LoadFails(i) \/ Expires(i)

MaintenanceNext == \E i \in Instances :
  \/ Caching(i) \/ SaveSetting(i) \/ Publishes(i) \/ Hears(i)
  \/ LinkLost(i) \/ LinkBack(i) \/ Restart(i)

MaintenanceSpec == MaintenanceInit /\ [][MaintenanceNext]_maintenanceVars

----------------------------------------------------------------------------
\* The shape of the state; an instance has one load under way at most.
MaintenanceTypeOK ==
  /\ latest \in Versions
  /\ current \in [Instances -> Versions] /\ fresh \in [Instances -> BOOLEAN]
  /\ loads \in [Instances -> SUBSET [read : BOOLEAN, version : Versions]]
  /\ \A i \in Instances : \A a, b \in loads[i] : a = b
  /\ link \in [Instances -> BOOLEAN]
  /\ onTheWay \in [Instances -> SUBSET Versions]
  /\ announcing \in [Instances -> SUBSET Versions]
  /\ told \in [Instances -> Versions] /\ raced \in [Instances -> BOOLEAN]
  /\ breaks \in 0 .. MaxBreaks

\* A running instance never goes back: neither to an older setting by a load that
\* was overtaken, nor to "no maintenance" because the database cannot be read.  An
\* emergency stays in force until somebody ends it.
NeverGoesBack ==
  [][\A i \in Instances : current'[i] >= current[i] \/ Restart(i)]_maintenanceVars

\* What an instance serves as fresh is at least what it has been told of, by its
\* own save or by an announcement, unless the announcement fell between a load's
\* reading and its return: then the old setting counts as fresh for TTL_MS more.
ToldIsServed ==
  \A i \in Instances : fresh[i] /\ ~raced[i] => current[i] >= told[i]

\* However many announcements are lost, an instance that is asked serves the last
\* setting in the end, and from then on.
LastSettingIsServed ==
  \A i \in Instances : <>[](latest > 0 => current[i] = latest)

\* Cached copies of the policy at every moment: their shape, and an instance that was
\* told of a setting serves it.
MaintenanceSafe ==
  /\ MaintenanceTypeOK
  /\ ToldIsServed

\* What becomes of the copies: none goes back, and the last setting is served.
MaintenanceBehaves ==
  /\ NeverGoesBack
  /\ LastSettingIsServed
=============================================================================
