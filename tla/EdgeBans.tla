------------------------------ MODULE EdgeBans ------------------------------
(***************************************************************************)
(* The bans of one subject (modules/edge/bans.ts): the rows of edge_bans,  *)
(* the calls that issue, extend and lift them under an advisory lock, and  *)
(* the copy of the live bans every API process answers its requests from.  *)
(* The length of a ban is a rank: time lowers it, 0 is over, FOREVER stays.*)
(***************************************************************************)
EXTENDS Naturals

CONSTANTS
  Apis,          \* the API processes whose copies are followed
  Lookups,       \* requests of a process that may query the bans at one time
  BanCalls,      \* ban, autoBan and lift calls under way
  BanIds,        \* rows edge_bans may keep for the subject
  MaxBanFaults   \* bound: transactions that fail

ASSUME BanAssumption == MaxBanFaults \in Nat /\ "free" \notin BanCalls

VARIABLES
  bans,          \* the rows
  call,          \* per call: its step, process, rank and the row it extends
  banLock,       \* the holder of pg_advisory_xact_lock(kind:subject)
  snapshot,      \* per process: the copy the hot path reads
  reading,       \* per process and request: the answer of a query under way
  own,           \* history: processes whose own ban is still the last word
  promised,      \* history: a permanent ban was given and not lifted
  banFaults

banVars == <<bans, call, banLock, snapshot, reading, own, promised, banFaults>>

TIMED == 1
FOREVER == 2
NoBan == [rank |-> 0, kept |-> FALSE]
Elsewhere == "elsewhere"    \* a process whose copy is not followed
Places == Apis \cup {Elsewhere}
Idling == [step |-> "idle", at |-> Elsewhere, rank |-> TIMED, id |-> "none"]
NoCopy == [banned |-> FALSE, raced |-> FALSE, held |-> FALSE]

\* The shape of the state; the calls inside their transaction are the lock's holder.
BanTypeOK ==
  /\ bans \in [BanIds -> [rank : 0..FOREVER, kept : BOOLEAN]]
  /\ call \in [BanCalls -> [step : {"idle", "asked", "locked", "extending",
                                    "inserting", "committed"},
                            at : Places, rank : TIMED..FOREVER, id : BanIds \cup {"none"}]]
  /\ banLock \in BanCalls \cup {"free"}
  /\ \A b \in BanCalls : call[b].step \in {"locked", "extending", "inserting"} <=> b = banLock
  /\ snapshot \in [Apis -> [banned : BOOLEAN, raced : BOOLEAN, held : BOOLEAN]]
  /\ reading \in [Apis \X Lookups -> [banned : BOOLEAN, raced : BOOLEAN, held : BOOLEAN]]
  /\ own \subseteq Apis /\ promised \in BOOLEAN /\ banFaults \in 0..MaxBanFaults

InForce(i) == bans[i].rank > 0
Banned == \E i \in BanIds : InForce(i)

BanInit ==
  /\ bans = [i \in BanIds |-> NoBan] /\ call = [b \in BanCalls |-> Idling]
  /\ banLock = "free"
  /\ snapshot = [p \in Apis |-> NoCopy] /\ reading = [pq \in Apis \X Lookups |-> NoCopy]
  /\ own = {} /\ promised = FALSE /\ banFaults = 0

-----------------------------------------------------------------------------
\* live() and blocked(): every request that finds the copy gone or too old reads it
\* again, also while another one is reading.
ReadsBans(p, q) ==
  /\ ~snapshot[p].held /\ ~reading[p, q].held
  /\ reading' = [reading EXCEPT ![<<p, q>>] = [banned |-> Banned, raced |-> FALSE, held |-> TRUE]]
  /\ UNCHANGED <<bans, call, banLock, snapshot, own, promised, banFaults>>

\* The rows become the copy, whatever invalidate() did since they were read, and whichever
\* request has read later.
KeepsBans(p, q) ==
  /\ reading[p, q].held
  /\ snapshot' = [snapshot EXCEPT ![p] = reading[p, q]]
  /\ reading' = [reading EXCEPT ![<<p, q>>] = NoCopy]
  /\ UNCHANGED <<bans, call, banLock, own, promised, banFaults>>

\* Mutant of SnapshotAges: a copy is as good as new for ever.
SnapshotStays(p) == snapshot[p].held /\ UNCHANGED banVars

\* EDGE_BAN_CACHE_MS.
SnapshotAges(p) ==
  /\ snapshot[p].held
  /\ snapshot' = [snapshot EXCEPT ![p] = NoCopy]
  /\ UNCHANGED <<bans, call, banLock, reading, own, promised, banFaults>>

-----------------------------------------------------------------------------
Moves(b, step) == call' = [call EXCEPT ![b].step = step]

\* guard(): a request that is blocked although its subject is not banned.  How
\* long an automatic ban lasts (autoBan counts the earlier ones) is left out.
AutoBan(b, p) ==
  /\ call[b].step = "idle" /\ (p \in Apis => snapshot[p].held /\ ~snapshot[p].banned)
  /\ call' = [call EXCEPT ![b] = [Idling EXCEPT !.step = "asked", !.at = p]]
  /\ UNCHANGED <<bans, banLock, snapshot, reading, own, promised, banFaults>>

\* An operator bans for good.
ManualBan(b, p) ==
  /\ call[b].step = "idle"
  /\ call' = [call EXCEPT ![b] = [Idling EXCEPT !.step = "asked", !.at = p, !.rank = FOREVER]]
  /\ UNCHANGED <<bans, banLock, snapshot, reading, own, promised, banFaults>>

\* Mutant of TakesLock: the advisory lock is not taken.
TakesLockAnyway(b) ==
  /\ call[b].step = "asked"
  /\ Moves(b, "locked") /\ banLock' = b
  /\ UNCHANGED <<bans, snapshot, reading, own, promised, banFaults>>

TakesLock(b) ==
  /\ call[b].step = "asked" /\ banLock = "free"
  /\ Moves(b, "locked") /\ banLock' = b
  /\ UNCHANGED <<bans, snapshot, reading, own, promised, banFaults>>

\* The UPDATE that extends finds the live row, or none.
LooksForLive(b) ==
  /\ call[b].step = "locked"
  /\ \/ \E i \in BanIds : InForce(i) /\ call' = [call EXCEPT ![b].step = "extending", ![b].id = i]
     \/ ~Banned /\ Moves(b, "inserting")
  /\ UNCHANGED <<bans, banLock, snapshot, reading, own, promised, banFaults>>

\* greatest(expires_at, $3), and NULL above all.
Longer(old, new) == IF new > old THEN new ELSE old

Promises(b) == promised' = (promised \/ call[b].rank = FOREVER)

CommitsExtended(b) ==
  /\ call[b].step = "extending"
  /\ bans' = [bans EXCEPT ![call[b].id].rank = Longer(@, call[b].rank)]
  /\ Moves(b, "committed") /\ Promises(b) /\ banLock' = "free"
  /\ UNCHANGED <<snapshot, reading, own, banFaults>>

CommitsInserted(b) ==
  /\ call[b].step = "inserting" /\ \E i \in BanIds : ~bans[i].kept
  /\ LET i == CHOOSE j \in BanIds : ~bans[j].kept IN
       bans' = [bans EXCEPT ![i] = [rank |-> call[b].rank, kept |-> TRUE]]
  /\ Moves(b, "committed") /\ Promises(b) /\ banLock' = "free"
  /\ UNCHANGED <<snapshot, reading, own, banFaults>>

\* The transaction fails: the call answers null and nothing is invalidated.
BanFails(b) ==
  /\ call[b].step \in {"locked", "extending", "inserting"} /\ banFaults < MaxBanFaults
  /\ banFaults' = banFaults + 1
  /\ call' = [call EXCEPT ![b] = Idling] /\ banLock' = "free"
  /\ UNCHANGED <<bans, snapshot, reading, own, promised>>

\* Lifting takes every live row of the subject.  It waits for the row lock of a
\* ban that is extending one, and does not see one that is being inserted.
LiftsBan(b, p) ==
  /\ call[b].step = "idle" /\ Banned
  /\ \A o \in BanCalls : call[o].step # "extending"
  /\ bans' = [i \in BanIds |-> [bans[i] EXCEPT !.rank = 0]]
  /\ call' = [call EXCEPT ![b] = [Idling EXCEPT !.step = "committed", !.at = p]]
  /\ own' = {} /\ promised' = FALSE
  /\ UNCHANGED <<banLock, snapshot, reading, banFaults>>

\* invalidate(), in the process that wrote.
InvalidatesBans(b) ==
  /\ call[b].step = "committed"
  /\ snapshot' = [p \in Apis |-> IF p = call[b].at THEN NoCopy ELSE snapshot[p]]
  /\ reading' = [pq \in Apis \X Lookups |->
                   IF pq[1] = call[b].at THEN [reading[pq] EXCEPT !.raced = @ \/ reading[pq].held]
                   ELSE reading[pq]]
  /\ own' = IF Banned THEN own \cup ({call[b].at} \cap Apis) ELSE own
  /\ call' = [call EXCEPT ![b] = Idling]
  /\ UNCHANGED <<bans, banLock, promised, banFaults>>

-----------------------------------------------------------------------------
BanRunsDown(i) ==
  /\ InForce(i) /\ bans[i].rank # FOREVER
  /\ bans' = [bans EXCEPT ![i].rank = @ - 1]
  /\ own' = IF bans[i].rank = TIMED THEN {} ELSE own
  /\ UNCHANGED <<call, banLock, snapshot, reading, promised, banFaults>>

\* pruneExpired(): long after every call that may hold the row.
PruneBans ==
  /\ \E i \in BanIds : bans[i].kept /\ ~InForce(i)
  /\ \A b \in BanCalls : call[b].step = "idle"
  /\ bans' = [i \in BanIds |-> IF InForce(i) THEN bans[i] ELSE NoBan]
  /\ UNCHANGED <<call, banLock, snapshot, reading, own, promised, banFaults>>

BanSteps(b) == TakesLock(b) \/ LooksForLive(b) \/ CommitsExtended(b)
               \/ CommitsInserted(b) \/ InvalidatesBans(b)
CopySteps(p, q) == ReadsBans(p, q) \/ KeepsBans(p, q)

BanNext ==
  \/ \E b \in BanCalls : BanSteps(b) \/ BanFails(b)
                         \/ \E p \in Places : AutoBan(b, p) \/ ManualBan(b, p) \/ LiftsBan(b, p)
  \/ \E p \in Apis : SnapshotAges(p) \/ \E q \in Lookups : CopySteps(p, q)
  \/ \E i \in BanIds : BanRunsDown(i)
  \/ PruneBans

BanSpec == BanInit /\ [][BanNext]_banVars

-----------------------------------------------------------------------------
\* "One subject, one live ban": calls that block the same address together
\* extend one row and never leave two, so lifting what the panel shows frees it.
OneLiveBan == \A i, j \in BanIds : InForce(i) /\ InForce(j) => i = j

\* A permanent ban that was given stays permanent until it is lifted, whatever
\* shorter bans are issued over it meanwhile.
ForeverIsForever == promised => \E i \in BanIds : bans[i].rank = FOREVER

\* After ban() has returned, the process that issued it answers no request from
\* a copy that lacks the ban, except from one whose query was already under
\* way when the copy was invalidated (that one lives as long as any copy).
OwnBanIsSeen ==
  \A p \in own : snapshot[p].held /\ ~snapshot[p].raced => snapshot[p].banned

\* Every process comes to see a ban that lasts, and a lift that lasts, although
\* only the process that wrote is told.
LastingBanBites == (<>[]Banned) => <>[](\A p \in Apis : snapshot[p].held => snapshot[p].banned)
LastingLiftFrees == (<>[]~Banned) => <>[](\A p \in Apis : ~snapshot[p].banned)

\* Bans at every moment: one live row of a subject, for ever is for ever, and who
\* banned sees the ban.
BansSafe ==
  /\ BanTypeOK
  /\ OneLiveBan
  /\ ForeverIsForever
  /\ OwnBanIsSeen

\* What every process comes to see: a ban that lasts, and a lift that lasts.
BansBehave ==
  /\ LastingBanBites
  /\ LastingLiftFrees
=============================================================================
