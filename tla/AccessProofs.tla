---------------------------- MODULE AccessProofs ----------------------------
(***************************************************************************)
(* Proofs about who is let in: the bans of the edge (EdgeBans), the        *)
(* maintenance setting each instance remembers (MaintenanceCache), the     *)
(* rights to the dashboard of a server (GuildAccess) and the tabs that     *)
(* share one session (BrowserTabs).  Each component has an inductive       *)
(* invariant of named parts, a lemma that the initial states satisfy it    *)
(* and one that every step keeps it.                                       *)
(***************************************************************************)
EXTENDS EdgeBans, MaintenanceCache, GuildAccess, BrowserTabs, Integers, FiniteSetTheorems, TLAPS

----------------------------------------------------------------------------
(* The bans of one subject. *)

Copies == [banned : BOOLEAN, raced : BOOLEAN, held : BOOLEAN]
BanCallRecords == [step : {"idle", "asked", "locked", "extending", "inserting", "committed"},
                   at : Places, rank : TIMED..FOREVER, id : BanIds \cup {"none"}]

\* A row that is not there bans nobody.
RowsAreKept == \A i \in BanIds : ~bans[i].kept => bans[i].rank = 0

\* What the holder of the lock has found is still so when it commits.
HolderKnows ==
  \A b \in BanCalls :
    /\ call[b].step = "inserting" => ~Banned
    /\ call[b].step = "extending" =>
         /\ call[b].id \in BanIds /\ bans[call[b].id].kept
         /\ \A j \in BanIds : InForce(j) => j = call[b].id

\* A ban that somebody's own process still answers for is in force, and in the copies.
OwnBanStands ==
  /\ own # {} => Banned
  /\ \A p \in own : /\ snapshot[p].held /\ ~snapshot[p].raced => snapshot[p].banned
                    /\ \A q \in Lookups :
                         reading[p, q].held /\ ~reading[p, q].raced => reading[p, q].banned

BanInv ==
  /\ BanTypeOK
  /\ RowsAreKept
  /\ OneLiveBan
  /\ HolderKnows
  /\ ForeverIsForever
  /\ OwnBanStands

LEMMA NoCopyIsEmpty == NoCopy \in Copies /\ ~NoCopy.held
<1>1. ~NoCopy.held
  BY Zenon DEF NoCopy
<1>2. FALSE \in BOOLEAN
  OBVIOUS
<1> QED
  BY <1>1, <1>2, Zenon DEF NoCopy, Copies

LEMMA NoBanIsNone == NoBan \in [rank : 0..FOREVER, kept : BOOLEAN] /\ NoBan.rank = 0
  BY DEF NoBan, FOREVER

LEMMA BanStarts == BanInit => BanInv
<1> SUFFICES ASSUME BanInit PROVE BanInv
  OBVIOUS
<1>1. BanTypeOK
  <2>1. \A b \in BanCalls : call[b].step = "idle" /\ b # banLock
    BY BanAssumption DEF BanInit, Idling
  <2>2. call \in [BanCalls -> BanCallRecords]
    BY DEF BanInit, BanCallRecords, Idling, Places, TIMED, FOREVER
  <2>3. bans \in [BanIds -> [rank : 0..FOREVER, kept : BOOLEAN]]
    BY NoBanIsNone DEF BanInit
  <2>4. snapshot \in [Apis -> Copies] /\ reading \in [Apis \X Lookups -> Copies]
    BY NoCopyIsEmpty DEF BanInit
  <2>5. promised \in BOOLEAN /\ own \subseteq Apis /\ banFaults \in 0..MaxBanFaults
    <3>1. promised \in BOOLEAN
      BY Zenon DEF BanInit
    <3> QED
      BY <3>1, BanAssumption DEF BanInit
  <2> QED
    BY <2>1, <2>2, <2>3, <2>4, <2>5 DEF BanTypeOK, BanInit, Copies, BanCallRecords
<1>2. \A i \in BanIds : bans[i].rank = 0
  BY NoBanIsNone DEF BanInit
<1>3. ~promised /\ own = {} /\ \A b \in BanCalls : call[b].step = "idle"
  BY DEF BanInit, Idling
<1> QED
  BY <1>1, <1>2, <1>3 DEF BanInv, RowsAreKept, OneLiveBan, HolderKnows, ForeverIsForever,
     OwnBanStands, InForce

LEMMA BansKeepSafe == BanInv /\ [BanNext]_banVars => BanInv'
<1> SUFFICES ASSUME BanInv, [BanNext]_banVars PROVE BanInv'
  OBVIOUS
<1>t. BanTypeOK /\ RowsAreKept /\ OneLiveBan /\ HolderKnows /\ ForeverIsForever /\ OwnBanStands
  BY DEF BanInv
<1>y. /\ bans \in [BanIds -> [rank : 0..FOREVER, kept : BOOLEAN]]
      /\ call \in [BanCalls -> BanCallRecords]
      /\ snapshot \in [Apis -> Copies] /\ reading \in [Apis \X Lookups -> Copies]
      /\ banLock \in BanCalls \cup {"free"} /\ own \subseteq Apis /\ promised \in BOOLEAN
      /\ banFaults \in 0..MaxBanFaults
      /\ \A b \in BanCalls : call[b].step \in {"locked", "extending", "inserting"} <=> b = banLock
  BY <1>t DEF BanTypeOK, Copies, BanCallRecords
<1>z. ASSUME /\ bans' \in [BanIds -> [rank : 0..FOREVER, kept : BOOLEAN]]
             /\ call' \in [BanCalls -> BanCallRecords]
             /\ snapshot' \in [Apis -> Copies] /\ reading' \in [Apis \X Lookups -> Copies]
             /\ banLock' \in BanCalls \cup {"free"} /\ own' \subseteq Apis
             /\ promised' \in BOOLEAN /\ banFaults' \in 0..MaxBanFaults
             /\ \A b \in BanCalls : call'[b].step \in {"locked", "extending", "inserting"}
                                    <=> b = banLock'
      PROVE  BanTypeOK'
  BY <1>z DEF BanTypeOK, Copies, BanCallRecords
\* A step that touches no row and no history.
<1>c. ASSUME NEW p \in Apis, NEW q \in Lookups, ReadsBans(p, q) PROVE BanInv'
  <2> DEFINE r == [banned |-> Banned, raced |-> FALSE, held |-> TRUE]
  <2>1. r \in Copies /\ (r.banned <=> Banned)
    <3>1. Banned \in BOOLEAN /\ FALSE \in BOOLEAN /\ TRUE \in BOOLEAN
      BY DEF Banned
    <3>2. r.banned <=> Banned
      BY Zenon
    <3> QED
      BY <3>1, <3>2, Zenon DEF Copies
  <2>2. /\ UNCHANGED <<bans, call, banLock, snapshot, own, promised, banFaults>>
        /\ reading' = [reading EXCEPT ![<<p, q>>] = r]
    BY <1>c DEF ReadsBans
  <2> HIDE DEF r
  <2>3. BanTypeOK'
    BY <2>1, <2>2, <1>y, <1>z
  <2>4. OwnBanStands'
    BY <2>1, <2>2, <1>y, <1>t DEF OwnBanStands, Banned, InForce
  <2> QED
    BY <2>2, <2>3, <2>4, <1>t DEF BanInv, RowsAreKept, OneLiveBan, HolderKnows,
       ForeverIsForever, Banned, InForce
<1>d. ASSUME NEW p \in Apis, NEW q \in Lookups, KeepsBans(p, q) PROVE BanInv'
  <2>2. /\ UNCHANGED <<bans, call, banLock, own, promised, banFaults>>
        /\ snapshot' = [snapshot EXCEPT ![p] = reading[p, q]]
        /\ reading' = [reading EXCEPT ![<<p, q>>] = NoCopy]
    BY <1>d DEF KeepsBans
  <2>3. BanTypeOK'
    BY <2>2, <1>y, <1>z, NoCopyIsEmpty
  <2>4. OwnBanStands'
    BY <2>2, <1>y, <1>t, NoCopyIsEmpty DEF OwnBanStands, Banned, InForce
  <2> QED
    BY <2>2, <2>3, <2>4, <1>t DEF BanInv, RowsAreKept, OneLiveBan, HolderKnows,
       ForeverIsForever, Banned, InForce
<1>e. ASSUME NEW p \in Apis, SnapshotAges(p) PROVE BanInv'
  <2>2. /\ UNCHANGED <<bans, call, banLock, reading, own, promised, banFaults>>
        /\ snapshot' = [snapshot EXCEPT ![p] = NoCopy]
    BY <1>e DEF SnapshotAges
  <2>3. BanTypeOK'
    BY <2>2, <1>y, <1>z, NoCopyIsEmpty
  <2>4. OwnBanStands'
    BY <2>2, <1>y, <1>t, NoCopyIsEmpty DEF OwnBanStands, Banned, InForce
  <2> QED
    BY <2>2, <2>3, <2>4, <1>t DEF BanInv, RowsAreKept, OneLiveBan, HolderKnows,
       ForeverIsForever, Banned, InForce
\* Steps of a call that leave the rows and the copies as they are.
<1>f. ASSUME NEW b \in BanCalls, NEW step \in {"idle", "asked", "locked", "committed"},
             call' \in [BanCalls -> BanCallRecords], call'[b].step = step,
             \A o \in BanCalls \ {b} : call'[o] = call[o],
             UNCHANGED <<bans, snapshot, reading, own, promised>>,
             banFaults' \in 0..MaxBanFaults,
             banLock' \in BanCalls \cup {"free"},
             \A o \in BanCalls \ {b} : (o = banLock <=> o = banLock'),
             step = "locked" <=> b = banLock'
      PROVE  BanInv'
  <2>1. BanTypeOK'
    BY <1>f, <1>y, <1>z
  <2>2. HolderKnows'
    BY <1>f, <1>t DEF HolderKnows, Banned, InForce
  <2> QED
    BY <1>f, <2>1, <2>2, <1>t DEF BanInv, RowsAreKept, OneLiveBan, ForeverIsForever,
       OwnBanStands, Banned, InForce
<1>1. ASSUME NEW b \in BanCalls, NEW p \in Places, AutoBan(b, p) \/ ManualBan(b, p) PROVE BanInv'
  <2>a. call' = [call EXCEPT ![b] = [Idling EXCEPT !.step = "asked", !.at = p]]
        \/ call' = [call EXCEPT ![b] = [Idling EXCEPT !.step = "asked", !.at = p,
                                                      !.rank = FOREVER]]
    BY <1>1 DEF AutoBan, ManualBan
  <2>b. /\ call[b].step = "idle"
        /\ UNCHANGED <<bans, banLock, snapshot, reading, own, promised, banFaults>>
    BY <1>1 DEF AutoBan, ManualBan
  <2>c. PICK rank \in TIMED..FOREVER :
          call' = [call EXCEPT ![b] = [step |-> "asked", at |-> p, rank |-> rank, id |-> "none"]]
    <3>1. TIMED \in TIMED..FOREVER /\ FOREVER \in TIMED..FOREVER
      BY DEF TIMED, FOREVER
    <3> QED
      BY <2>a, <3>1, ZenonT(40) DEF Idling
  <2>1. /\ call[b].step = "idle"
        /\ UNCHANGED <<bans, banLock, snapshot, reading, own, promised, banFaults>>
        /\ call' = [call EXCEPT ![b] = [step |-> "asked", at |-> p, rank |-> rank, id |-> "none"]]
    BY <2>b, <2>c
  <2>2. call' \in [BanCalls -> BanCallRecords] /\ call'[b].step = "asked"
        /\ \A o \in BanCalls \ {b} : call'[o] = call[o]
    BY <2>1, <1>y DEF BanCallRecords
  <2>3. b # banLock
    BY <2>1, <1>y
  <2> QED
    BY <2>1, <2>2, <2>3, <1>f, <1>y
<1>2. ASSUME NEW b \in BanCalls, TakesLock(b) PROVE BanInv'
  <2>1. /\ call[b].step = "asked" /\ banLock = "free" /\ banLock' = b
        /\ call' = [call EXCEPT ![b].step = "locked"]
        /\ UNCHANGED <<bans, snapshot, reading, own, promised, banFaults>>
    BY <1>2 DEF TakesLock, Moves
  <2>2. call' \in [BanCalls -> BanCallRecords] /\ call'[b].step = "locked"
        /\ \A o \in BanCalls \ {b} : call'[o] = call[o]
    BY <2>1, <1>y DEF BanCallRecords
  <2>3. \A o \in BanCalls \ {b} : o # banLock /\ o # banLock'
    BY <2>1, BanAssumption
  <2> QED
    BY <2>1, <2>2, <2>3, <1>f, <1>y
<1>3. ASSUME NEW b \in BanCalls, LooksForLive(b) PROVE BanInv'
  <2>1. b = banLock /\ UNCHANGED <<bans, banLock, snapshot, reading, own, promised, banFaults>>
    BY <1>3, <1>y DEF LooksForLive
  <2>2. CASE ~Banned /\ Moves(b, "inserting")
    <3>1. call' \in [BanCalls -> BanCallRecords] /\ call'[b].step = "inserting"
          /\ \A o \in BanCalls \ {b} : call'[o] = call[o]
      BY <2>2, <1>y DEF BanCallRecords, Moves
    <3>2. BanTypeOK'
      BY <2>1, <3>1, <1>y, <1>z
    <3>3. HolderKnows'
      BY <2>1, <2>2, <3>1, <1>t DEF HolderKnows, Banned, InForce
    <3> QED
      BY <2>1, <3>2, <3>3, <1>t DEF BanInv, RowsAreKept, OneLiveBan, ForeverIsForever,
         OwnBanStands, Banned, InForce
  <2>3. ASSUME NEW i \in BanIds, InForce(i),
               call' = [call EXCEPT ![b].step = "extending", ![b].id = i]
        PROVE  BanInv'
    <3>1. call' \in [BanCalls -> BanCallRecords] /\ call'[b].step = "extending" /\ call'[b].id = i
          /\ \A o \in BanCalls \ {b} : call'[o] = call[o]
      BY <2>3, <1>y, ZenonT(40) DEF BanCallRecords
    <3>2. BanTypeOK'
      BY <2>1, <3>1, <1>y, <1>z
    <3>3. bans[i].kept /\ \A j \in BanIds : InForce(j) => j = i
      BY <2>3, <1>t, <1>y DEF RowsAreKept, OneLiveBan, InForce
    <3>4. HolderKnows'
      BY <2>1, <3>1, <3>3, <1>t DEF HolderKnows, Banned, InForce
    <3> QED
      BY <2>1, <3>2, <3>4, <1>t DEF BanInv, RowsAreKept, OneLiveBan, ForeverIsForever,
         OwnBanStands, Banned, InForce
  <2> QED
    BY <1>3, <2>2, <2>3 DEF LooksForLive
\* A commit: one row gets a rank at least as great as before, and no other is in force.
<1>g. ASSUME NEW b \in BanCalls, NEW i \in BanIds, NEW row, b = banLock,
             row \in [rank : 0..FOREVER, kept : BOOLEAN], row.kept,
             bans' = [bans EXCEPT ![i] = row],
             row.rank >= bans[i].rank, row.rank >= call[b].rank,
             \A j \in BanIds : InForce(j) => j = i,
             Moves(b, "committed"), Promises(b), banLock' = "free",
             UNCHANGED <<snapshot, reading, own, banFaults>>
      PROVE  BanInv'
  <2>1. call' \in [BanCalls -> BanCallRecords] /\ call'[b].step = "committed"
        /\ \A o \in BanCalls \ {b} : call'[o] = call[o]
    BY <1>g, <1>y DEF Moves, BanCallRecords
  <2>2. promised' \in BOOLEAN
    BY <1>g, Zenon DEF Promises
  <2>3. \A o \in BanCalls : call'[o].step \notin {"locked", "extending", "inserting"}
    BY <2>1, <1>g, <1>y
  <2>4. bans' \in [BanIds -> [rank : 0..FOREVER, kept : BOOLEAN]]
        /\ bans'[i] = row /\ \A j \in BanIds \ {i} : bans'[j] = bans[j]
    BY <1>g, <1>y
  <2>5. BanTypeOK'
    <3>1. \A o \in BanCalls : o # banLock'
      BY <1>g, BanAssumption
    <3> QED
      BY <2>1, <2>2, <2>3, <2>4, <3>1, <1>g, <1>y, <1>z
  <2>6. RowsAreKept'
    BY <2>4, <1>g, <1>t DEF RowsAreKept
  <2>7. call[b].rank \in TIMED..FOREVER /\ row.rank \in 0..FOREVER
    BY <1>y, <1>g DEF BanCallRecords
  <2>8. OneLiveBan' /\ Banned'
    BY <2>4, <2>7, <1>g, <1>t DEF OneLiveBan, InForce, Banned, TIMED, FOREVER
  <2>9. HolderKnows'
    BY <2>3 DEF HolderKnows
  <2>10. ForeverIsForever'
    <3> SUFFICES ASSUME promised' PROVE (\E j \in BanIds : bans'[j].rank = FOREVER)
      BY DEF ForeverIsForever
    <3>1. CASE call[b].rank = FOREVER
      BY <3>1, <2>4, <2>7, <1>g DEF TIMED, FOREVER
    <3>2. CASE promised
      <4>1. PICK j \in BanIds : bans[j].rank = FOREVER
        BY <3>2, <1>t DEF ForeverIsForever
      <4>2. CASE j = i
        BY <4>1, <4>2, <2>4, <2>7, <1>g DEF FOREVER
      <4>3. CASE j # i
        BY <4>1, <4>3, <2>4
      <4> QED
        BY <4>2, <4>3
    <3> QED
      BY <3>1, <3>2, <1>g DEF Promises
  <2>11. OwnBanStands'
    BY <2>8, <1>g, <1>t DEF OwnBanStands
  <2> QED
    BY <2>5, <2>6, <2>8, <2>9, <2>10, <2>11 DEF BanInv
<1>4. ASSUME NEW b \in BanCalls, CommitsExtended(b) PROVE BanInv'
  <2> DEFINE i == call[b].id
             row == [bans[i] EXCEPT !.rank = Longer(@, call[b].rank)]
  <2>1. b = banLock /\ call[b].step = "extending" /\ bans' = [bans EXCEPT ![i] = row]
        /\ Moves(b, "committed") /\ Promises(b) /\ banLock' = "free"
        /\ UNCHANGED <<snapshot, reading, own, banFaults>>
    BY <1>4, <1>y DEF CommitsExtended
  <2>2. i \in BanIds /\ bans[i].kept /\ \A j \in BanIds : InForce(j) => j = i
    BY <2>1, <1>t DEF HolderKnows
  <2>3. call[b].rank \in TIMED..FOREVER /\ bans[i] \in [rank : 0..FOREVER, kept : BOOLEAN]
    BY <2>2, <1>y DEF BanCallRecords
  <2>4. row \in [rank : 0..FOREVER, kept : BOOLEAN] /\ row.kept
        /\ row.rank >= bans[i].rank /\ row.rank >= call[b].rank
    BY <2>2, <2>3 DEF Longer, TIMED, FOREVER
  <2> HIDE DEF row, i
  <2> QED
    BY <2>1, <2>2, <2>4, <1>g
<1>5. ASSUME NEW b \in BanCalls, CommitsInserted(b) PROVE BanInv'
  <2> DEFINE i == CHOOSE j \in BanIds : ~bans[j].kept
             row == [rank |-> call[b].rank, kept |-> TRUE]
  <2>1. b = banLock /\ call[b].step = "inserting" /\ bans' = [bans EXCEPT ![i] = row]
        /\ Moves(b, "committed") /\ Promises(b) /\ banLock' = "free"
        /\ UNCHANGED <<snapshot, reading, own, banFaults>> /\ \E j \in BanIds : ~bans[j].kept
    BY <1>5, <1>y DEF CommitsInserted
  <2>2. i \in BanIds /\ ~bans[i].kept
    BY <2>1
  <2>3. bans[i].rank = 0 /\ ~Banned
    BY <2>1, <2>2, <1>t DEF RowsAreKept, HolderKnows
  <2>4. call[b].rank \in TIMED..FOREVER
    BY <1>y DEF BanCallRecords
  <2>5. row.kept /\ row.rank = call[b].rank
    BY Zenon
  <2>6. row \in [rank : 0..FOREVER, kept : BOOLEAN]
    <3>1. call[b].rank \in 0..FOREVER /\ TRUE \in BOOLEAN
      BY <2>4 DEF TIMED, FOREVER
    <3> QED
      BY <3>1, Zenon
  <2> HIDE DEF row, i
  <2>7. row.rank >= bans[i].rank /\ row.rank >= call[b].rank
    BY <2>3, <2>4, <2>5 DEF TIMED, FOREVER
  <2>8. \A j \in BanIds : InForce(j) => j = i
    BY <2>3 DEF Banned
  <2> QED
    BY <2>1, <2>2, <2>5, <2>6, <2>7, <2>8, <1>g
<1>6. ASSUME NEW b \in BanCalls, BanFails(b) PROVE BanInv'
  <2>1. /\ b = banLock /\ banLock' = "free" /\ call' = [call EXCEPT ![b] = Idling]
        /\ UNCHANGED <<bans, snapshot, reading, own, promised>>
        /\ banFaults' \in 0..MaxBanFaults
    BY <1>6, <1>y, BanAssumption DEF BanFails
  <2>2. call' \in [BanCalls -> BanCallRecords] /\ call'[b].step = "idle"
        /\ \A o \in BanCalls \ {b} : call'[o] = call[o]
    BY <2>1, <1>y DEF BanCallRecords, Idling, Places, TIMED, FOREVER
  <2>3. \A o \in BanCalls : o # banLock'
    BY <2>1, BanAssumption
  <2> QED
    BY <2>1, <2>2, <2>3, <1>f, <1>y
<1>7. ASSUME NEW b \in BanCalls, NEW p \in Places, LiftsBan(b, p) PROVE BanInv'
  <2>1. /\ call[b].step = "idle" /\ own' = {} /\ UNCHANGED <<banLock, snapshot, reading, banFaults>>
        /\ bans' = [i \in BanIds |-> [bans[i] EXCEPT !.rank = 0]]
        /\ \A o \in BanCalls : call[o].step # "extending"
        /\ call' = [call EXCEPT ![b] = [Idling EXCEPT !.step = "committed", !.at = p]]
    BY <1>7 DEF LiftsBan
  <2>2. call' \in [BanCalls -> BanCallRecords] /\ call'[b].step = "committed"
        /\ \A o \in BanCalls \ {b} : call'[o] = call[o]
    <3>1. Idling \in BanCallRecords
      BY DEF Idling, BanCallRecords, Places, TIMED, FOREVER
    <3>2. ASSUME NEW r \in BanCallRecords
          PROVE  /\ [r EXCEPT !.step = "committed", !.at = p] \in BanCallRecords
                 /\ [r EXCEPT !.step = "committed", !.at = p].step = "committed"
      BY DEF BanCallRecords
    <3> QED
      BY <2>1, <3>1, <3>2, <1>y
  <2>3. bans' \in [BanIds -> [rank : 0..FOREVER, kept : BOOLEAN]]
        /\ \A i \in BanIds : bans'[i].rank = 0
    BY <2>1, <1>y DEF FOREVER
  <2>4. ~promised' /\ promised' \in BOOLEAN
    BY <1>7, Zenon DEF LiftsBan
  <2>5. BanTypeOK'
    BY <2>1, <2>2, <2>3, <2>4, <1>y, <1>z
  <2>6. ~Banned' /\ OneLiveBan' /\ RowsAreKept'
    BY <2>3 DEF Banned, InForce, OneLiveBan, RowsAreKept
  <2>7. HolderKnows'
    BY <2>1, <2>2, <2>6 DEF HolderKnows
  <2>8. ForeverIsForever' /\ OwnBanStands'
    BY <2>1, <2>4 DEF ForeverIsForever, OwnBanStands
  <2> QED
    BY <2>5, <2>6, <2>7, <2>8 DEF BanInv
<1>8. ASSUME NEW b \in BanCalls, InvalidatesBans(b) PROVE BanInv'
  <2>1. /\ call[b].step = "committed" /\ UNCHANGED <<bans, banLock, promised, banFaults>>
        /\ snapshot' = [p \in Apis |-> IF p = call[b].at THEN NoCopy ELSE snapshot[p]]
        /\ reading' = [pq \in Apis \X Lookups |->
                         IF pq[1] = call[b].at
                         THEN [reading[pq] EXCEPT !.raced = @ \/ reading[pq].held]
                         ELSE reading[pq]]
        /\ own' = (IF Banned THEN own \cup ({call[b].at} \cap Apis) ELSE own)
        /\ call' = [call EXCEPT ![b] = Idling]
    BY <1>8 DEF InvalidatesBans
  <2>2. call' \in [BanCalls -> BanCallRecords] /\ call'[b].step = "idle"
        /\ \A o \in BanCalls \ {b} : call'[o] = call[o]
    BY <2>1, <1>y DEF BanCallRecords, Idling, Places, TIMED, FOREVER
  <2>3. snapshot' \in [Apis -> Copies] /\ own' \subseteq Apis
    BY <2>1, <1>y, NoCopyIsEmpty
  <2>4. ASSUME NEW r \in Copies
        PROVE  LET q == [r EXCEPT !.raced = @ \/ r.held] IN q \in Copies /\ ~(q.held /\ ~q.raced)
    <3>1. r.held \in BOOLEAN /\ r.banned \in BOOLEAN /\ (r.raced \/ r.held) \in BOOLEAN
      BY DEF Copies
    <3>2. [r EXCEPT !.raced = @ \/ r.held]
            = [banned |-> r.banned, raced |-> r.raced \/ r.held, held |-> r.held]
      BY DEF Copies
    <3> QED
      BY <3>1, <3>2 DEF Copies
  <2>5. /\ reading' \in [Apis \X Lookups -> Copies]
        /\ \A p \in Apis, q \in Lookups :
             IF p = call[b].at THEN ~(reading'[p, q].held /\ ~reading'[p, q].raced)
             ELSE reading'[p, q] = reading[p, q]
    <3>1. \A pq \in Apis \X Lookups :
            /\ reading'[pq] \in Copies
            /\ IF pq[1] = call[b].at THEN ~(reading'[pq].held /\ ~reading'[pq].raced)
               ELSE reading'[pq] = reading[pq]
      BY <2>1, <2>4, <1>y
    <3>2. reading' \in [Apis \X Lookups -> Copies]
      BY <2>1, <3>1
    <3>3. ASSUME NEW p \in Apis, NEW q \in Lookups
          PROVE  IF p = call[b].at THEN ~(reading'[p, q].held /\ ~reading'[p, q].raced)
                 ELSE reading'[p, q] = reading[p, q]
      <4>1. <<p, q>> \in Apis \X Lookups /\ <<p, q>>[1] = p
        OBVIOUS
      <4> QED
        BY <3>1, <4>1
    <3> QED
      BY <3>2, <3>3
  <2>6. BanTypeOK'
    BY <2>1, <2>2, <2>3, <2>5, <1>y, <1>z
  <2>7. HolderKnows'
    BY <2>1, <2>2, <1>t DEF HolderKnows, Banned, InForce
  <2>8. own' # {} => Banned'
    BY <2>1, <1>t DEF OwnBanStands, Banned, InForce
  <2>9. ASSUME NEW p \in own'
        PROVE  /\ snapshot'[p].held /\ ~snapshot'[p].raced => snapshot'[p].banned
               /\ \A q \in Lookups :
                    reading'[p, q].held /\ ~reading'[p, q].raced => reading'[p, q].banned
    <3>1. p \in Apis
      BY <2>3
    <3>2. CASE p = call[b].at
      BY <3>1, <3>2, <2>1, <2>5, NoCopyIsEmpty
    <3>3. CASE p # call[b].at
      <4>1. /\ p \in own /\ snapshot'[p] = snapshot[p]
            /\ \A q \in Lookups : reading'[p, q] = reading[p, q]
        BY <3>1, <3>3, <2>1, <2>5
      <4> QED
        BY <4>1, <1>t DEF OwnBanStands
    <3> QED
      BY <3>2, <3>3
  <2> QED
    BY <2>1, <2>6, <2>7, <2>8, <2>9, <1>t DEF BanInv, RowsAreKept, OneLiveBan,
       ForeverIsForever, OwnBanStands, InForce
<1>9. ASSUME NEW i \in BanIds, BanRunsDown(i) PROVE BanInv'
  <2>1. /\ bans[i].rank = TIMED /\ own' = {}
        /\ UNCHANGED <<call, banLock, snapshot, reading, promised, banFaults>>
        /\ bans' = [bans EXCEPT ![i].rank = @ - 1]
    BY <1>9, <1>y DEF BanRunsDown, InForce, TIMED, FOREVER
  <2>2. bans' \in [BanIds -> [rank : 0..FOREVER, kept : BOOLEAN]]
        /\ bans'[i].rank = 0 /\ bans'[i].kept = bans[i].kept
        /\ \A j \in BanIds \ {i} : bans'[j] = bans[j]
    BY <2>1, <1>y DEF TIMED, FOREVER
  <2>3. BanTypeOK'
    BY <2>1, <2>2, <1>y, <1>z
  <2>4. \A j \in BanIds : InForce(j)' => InForce(j)
    BY <2>2 DEF InForce
  <2>5. RowsAreKept' /\ OneLiveBan' /\ OwnBanStands'
    BY <2>1, <2>2, <2>4, <1>t DEF RowsAreKept, OneLiveBan, OwnBanStands
  <2>6. HolderKnows'
    BY <2>1, <2>2, <2>4, <1>t DEF HolderKnows, Banned
  <2>7. ForeverIsForever'
    BY <2>1, <2>2, <1>t DEF ForeverIsForever, TIMED, FOREVER
  <2> QED
    BY <2>3, <2>5, <2>6, <2>7 DEF BanInv
<1>10. CASE PruneBans
  <2>1. /\ \A b \in BanCalls : call[b].step = "idle"
        /\ UNCHANGED <<call, banLock, snapshot, reading, own, promised, banFaults>>
        /\ bans' = [i \in BanIds |-> IF InForce(i) THEN bans[i] ELSE NoBan]
    BY <1>10 DEF PruneBans
  <2>2. /\ bans' \in [BanIds -> [rank : 0..FOREVER, kept : BOOLEAN]]
        /\ \A j \in BanIds : InForce(j) => bans'[j] = bans[j]
        /\ \A j \in BanIds : ~InForce(j) => bans'[j].rank = 0
    BY <2>1, <1>y, NoBanIsNone DEF InForce
  <2>3. \A j \in BanIds : InForce(j)' <=> InForce(j)
    BY <2>2 DEF InForce
  <2>4. BanTypeOK'
    BY <2>1, <2>2, <1>y, <1>z
  <2>5. RowsAreKept'
    BY <2>2, <1>t DEF RowsAreKept
  <2>6. OneLiveBan' /\ OwnBanStands' /\ HolderKnows'
    BY <2>1, <2>3, <1>t DEF OneLiveBan, OwnBanStands, HolderKnows, Banned
  <2>7. ForeverIsForever'
    BY <2>1, <2>2, <1>t DEF ForeverIsForever, InForce, FOREVER
  <2> QED
    BY <2>4, <2>5, <2>6, <2>7 DEF BanInv
<1>11. CASE UNCHANGED banVars
  BY <1>11, <1>t DEF banVars, BanInv, BanTypeOK, RowsAreKept, OneLiveBan, HolderKnows,
     ForeverIsForever, OwnBanStands, Banned, InForce
<1> QED
  BY <1>1, <1>2, <1>3, <1>4, <1>5, <1>6, <1>7, <1>8, <1>9, <1>10, <1>11, <1>c, <1>d, <1>e
     DEF BanNext, BanSteps, CopySteps

\* One subject has one live ban, a permanent one stays until it is lifted, and the process
\* that banned answers nobody from a copy without the ban that was read afterwards.
THEOREM BansAreSafe == BanSpec => []BansSafe
<1>1. BanInv => BansSafe
  BY DEF BanInv, BansSafe, OwnBanStands, OwnBanIsSeen
<1> QED
  BY <1>1, BanStarts, BansKeepSafe, PTL DEF BanSpec

----------------------------------------------------------------------------
(* The maintenance setting in the memory of each instance. *)

\* What an instance has, is told and is loading is no newer than the row; a load that has
\* read is no older than what is served, nor than what was told unless they crossed.
LoadsAreAhead ==
  \A i \in Instances :
    /\ current[i] <= latest /\ told[i] <= latest
    /\ \A v \in announcing[i] \cup onTheWay[i] : v <= latest
    /\ fresh[i] => loads[i] = {}
    /\ \A load \in loads[i] :
         /\ load \in {Unread} \cup {HasRead(v) : v \in 0 .. latest}
         /\ load.read => load.version >= current[i]
         /\ load.read /\ ~raced[i] => load.version >= told[i]

MaintenanceInv ==
  /\ MaintenanceTypeOK
  /\ LoadsAreAhead
  /\ ToldIsServed

LEMMA LoadKinds ==
  /\ ~Unread.read /\ Unread \in [read : BOOLEAN, version : Versions]
  /\ \A v \in Versions : /\ HasRead(v) \in [read : BOOLEAN, version : Versions]
                         /\ HasRead(v).read /\ HasRead(v).version = v
<1>a. MaxSaves \in Nat /\ 0 \in Versions
  BY MaintenanceAssumption DEF Versions
<1>1. FALSE \in BOOLEAN /\ TRUE \in BOOLEAN
  OBVIOUS
<1>2. ~Unread.read /\ Unread \in [read : BOOLEAN, version : Versions]
  BY <1>a, <1>1, Zenon DEF Unread
<1>3. ASSUME NEW v \in Versions
      PROVE  /\ HasRead(v) \in [read : BOOLEAN, version : Versions]
             /\ HasRead(v).read /\ HasRead(v).version = v
  BY <1>1, <1>3, Zenon DEF HasRead
<1> QED
  BY <1>2, <1>3

LEMMA MaintenanceStarts == MaintenanceInit => MaintenanceInv
<1> SUFFICES ASSUME MaintenanceInit PROVE MaintenanceInv
  OBVIOUS
<1>a. MaxSaves \in Nat /\ MaxBreaks \in Nat /\ 0 \in Versions
  BY MaintenanceAssumption DEF Versions
<1>1. /\ fresh \in [Instances -> BOOLEAN] /\ link \in [Instances -> BOOLEAN]
      /\ raced \in [Instances -> BOOLEAN] /\ \A i \in Instances : ~fresh[i]
  <2>1. FALSE \in BOOLEAN /\ TRUE \in BOOLEAN
    OBVIOUS
  <2> QED
    BY <2>1, Zenon DEF MaintenanceInit
<1>2. /\ latest = 0 /\ current = [i \in Instances |-> 0] /\ told = [i \in Instances |-> 0]
      /\ loads = [i \in Instances |-> {}] /\ breaks = 0
      /\ onTheWay = [i \in Instances |-> {}] /\ announcing = [i \in Instances |-> {}]
  BY DEF MaintenanceInit
<1> QED
  BY <1>1, <1>2, <1>a DEF MaintenanceInv, MaintenanceTypeOK, LoadsAreAhead, ToldIsServed

LEMMA MaintenanceKeepsSafe ==
  MaintenanceInv /\ [MaintenanceNext]_maintenanceVars => MaintenanceInv'
<1> SUFFICES ASSUME MaintenanceInv, [MaintenanceNext]_maintenanceVars PROVE MaintenanceInv'
  OBVIOUS
<1>t. MaintenanceTypeOK /\ LoadsAreAhead /\ ToldIsServed
  BY DEF MaintenanceInv
<1>a. MaxSaves \in Nat /\ MaxBreaks \in Nat /\ latest \in Nat /\ latest <= MaxSaves
  BY <1>t, MaintenanceAssumption DEF MaintenanceTypeOK, Versions
<1>v. \A v : v \in Versions <=> v \in Nat /\ v <= MaxSaves
  BY <1>a DEF Versions
<1>b. Breaks => breaks' \in 0 .. MaxBreaks
  BY <1>t, <1>a DEF Breaks, MaintenanceTypeOK
<1>1. ASSUME NEW i \in Instances, Request(i) PROVE MaintenanceInv'
  <2>1. /\ ~fresh[i] /\ loads[i] = {} /\ loads' = [loads EXCEPT ![i] = {Unread}]
        /\ UNCHANGED <<latest, current, fresh, link, onTheWay, announcing, told, raced, breaks>>
    BY <1>1 DEF Request, MayLoad
  <2>2. loads'[i] = {Unread} /\ \A j \in Instances \ {i} : loads'[j] = loads[j]
    BY <2>1, <1>t DEF MaintenanceTypeOK
  <2>3. MaintenanceTypeOK'
    BY <2>1, <2>2, <1>t, LoadKinds DEF MaintenanceTypeOK
  <2>4. LoadsAreAhead'
    BY <2>1, <2>2, <1>t, LoadKinds DEF LoadsAreAhead
  <2> QED
    BY <2>1, <2>3, <2>4, <1>t DEF MaintenanceInv, ToldIsServed
<1>2. ASSUME NEW i \in Instances, LoadReads(i) PROVE MaintenanceInv'
  <2>1. /\ Unread \in loads[i]
        /\ loads' = [loads EXCEPT ![i] = (@ \ {Unread}) \cup {HasRead(latest)}]
        /\ UNCHANGED <<latest, current, fresh, link, onTheWay, announcing, told, raced, breaks>>
    BY <1>2 DEF LoadReads
  <2>2. loads[i] = {Unread}
    BY <2>1, <1>t DEF MaintenanceTypeOK
  <2>3. loads'[i] = {HasRead(latest)} /\ \A j \in Instances \ {i} : loads'[j] = loads[j]
    BY <2>1, <2>2, <1>t DEF MaintenanceTypeOK
  <2>4. latest \in Versions /\ HasRead(latest).version = latest
    BY <1>a, <1>v, LoadKinds
  <2>5. MaintenanceTypeOK'
    BY <2>1, <2>3, <2>4, <1>t, LoadKinds DEF MaintenanceTypeOK
  <2>6. current[i] <= latest /\ told[i] <= latest /\ ~fresh[i]
    BY <2>2, <1>t DEF LoadsAreAhead
  <2>7. HasRead(latest) \in {HasRead(v) : v \in 0 .. latest}
    BY <1>a
  <2>8. LoadsAreAhead'
    <3> SUFFICES ASSUME NEW j \in Instances
                 PROVE  /\ current[j] <= latest /\ told[j] <= latest
                        /\ \A v \in announcing[j] \cup onTheWay[j] : v <= latest
                        /\ fresh[j] => loads'[j] = {}
                        /\ \A load \in loads'[j] :
                             /\ load \in {Unread} \cup {HasRead(v) : v \in 0 .. latest}
                             /\ load.read => load.version >= current[j]
                             /\ load.read /\ ~raced[j] => load.version >= told[j]
      BY <2>1 DEF LoadsAreAhead
    <3>1. CASE j = i
      BY <3>1, <2>3, <2>4, <2>6, <2>7, <1>a, <1>t DEF LoadsAreAhead, MaintenanceTypeOK, Versions
    <3>2. CASE j # i
      BY <3>2, <2>3, <1>t DEF LoadsAreAhead
    <3> QED
      BY <3>1, <3>2
  <2> QED
    BY <2>1, <2>5, <2>8, <1>t DEF MaintenanceInv, ToldIsServed
<1>3. ASSUME NEW i \in Instances, LoadReturns(i) PROVE MaintenanceInv'
  <2>1. PICK load \in loads[i] :
          /\ load.read
          /\ loads' = [loads EXCEPT ![i] = @ \ {load}]
          /\ (load.version = 0 /\ UNCHANGED <<current, fresh>>)
             \/ (/\ current' = [current EXCEPT ![i] = load.version]
                 /\ fresh' = [fresh EXCEPT ![i] = TRUE])
          /\ UNCHANGED <<latest, link, onTheWay, announcing, told, raced, breaks>>
    BY <1>3 DEF LoadReturns
  <2>2. loads[i] = {load}
    BY <2>1, <1>t DEF MaintenanceTypeOK
  <2>3. loads'[i] = {} /\ \A j \in Instances \ {i} : loads'[j] = loads[j]
    BY <2>1, <2>2, <1>t DEF MaintenanceTypeOK
  <2>4. PICK v \in 0 .. latest : load = HasRead(v)
    BY <2>1, <2>2, <1>t, LoadKinds DEF LoadsAreAhead
  <2>5. v \in Versions /\ load.version = v /\ v <= latest /\ v >= current[i]
        /\ (~raced[i] => v >= told[i])
    BY <2>1, <2>2, <2>4, <1>t, <1>a, <1>v, LoadKinds DEF LoadsAreAhead
  <2>6. fresh' \in [Instances -> BOOLEAN] /\ \A j \in Instances \ {i} : fresh'[j] = fresh[j]
    <3>1. fresh' = fresh \/ fresh' = [fresh EXCEPT ![i] = TRUE]
      BY <2>1
    <3>2. fresh \in [Instances -> BOOLEAN]
      BY <1>t DEF MaintenanceTypeOK
    <3>3. CASE fresh' = fresh
      BY <3>2, <3>3
    <3>4. CASE fresh' = [fresh EXCEPT ![i] = TRUE]
      BY <3>2, <3>4, Zenon
    <3> QED
      BY <3>1, <3>3, <3>4
  <2>7. /\ current' \in [Instances -> Versions] /\ current'[i] \in {current[i], v}
        /\ fresh'[i] => (current'[i] = v \/ (current'[i] = current[i] /\ fresh[i]))
        /\ \A j \in Instances \ {i} : current'[j] = current[j]
    BY <2>1, <2>5, <1>t DEF MaintenanceTypeOK
  <2>8. MaintenanceTypeOK'
    BY <2>1, <2>3, <2>6, <2>7, <1>t DEF MaintenanceTypeOK
  <2>9. LoadsAreAhead'
    BY <2>1, <2>3, <2>5, <2>6, <2>7, <1>t DEF LoadsAreAhead
  <2>10. ToldIsServed'
    BY <2>1, <2>5, <2>6, <2>7, <1>t DEF ToldIsServed
  <2> QED
    BY <2>8, <2>9, <2>10 DEF MaintenanceInv
<1>4. ASSUME NEW i \in Instances, LoadFails(i) PROVE MaintenanceInv'
  <2>1. PICK load \in loads[i] :
          /\ loads' = [loads EXCEPT ![i] = @ \ {load}] /\ breaks' \in 0 .. MaxBreaks
          /\ UNCHANGED <<latest, current, fresh, link, onTheWay, announcing, told, raced>>
    BY <1>4, <1>b DEF LoadFails
  <2>2. loads'[i] \subseteq loads[i] /\ \A j \in Instances \ {i} : loads'[j] = loads[j]
    BY <2>1, <1>t DEF MaintenanceTypeOK
  <2>3. MaintenanceTypeOK'
    BY <2>1, <2>2, <1>t DEF MaintenanceTypeOK
  <2>4. LoadsAreAhead'
    BY <2>1, <2>2, <1>t DEF LoadsAreAhead
  <2> QED
    BY <2>1, <2>3, <2>4, <1>t DEF MaintenanceInv, ToldIsServed
<1>5. ASSUME NEW i \in Instances, Expires(i) PROVE MaintenanceInv'
  <2>1. fresh[i] /\ UNCHANGED <<latest, current, loads, link, onTheWay, announcing, told, breaks>>
    BY <1>5 DEF Expires
  <2>2. /\ fresh' \in [Instances -> BOOLEAN] /\ raced' \in [Instances -> BOOLEAN]
        /\ ~fresh'[i]
        /\ \A j \in Instances \ {i} : fresh'[j] = fresh[j] /\ raced'[j] = raced[j]
    BY <1>5, <1>t, Zenon DEF Expires, MaintenanceTypeOK
  <2>3. loads[i] = {}
    BY <2>1, <1>t DEF LoadsAreAhead
  <2>4. MaintenanceTypeOK'
    BY <2>1, <2>2, <1>t DEF MaintenanceTypeOK
  <2>5. LoadsAreAhead' /\ ToldIsServed'
    BY <2>1, <2>2, <2>3, <1>t DEF LoadsAreAhead, ToldIsServed
  <2> QED
    BY <2>4, <2>5 DEF MaintenanceInv
<1>6. ASSUME NEW i \in Instances, SaveSetting(i) PROVE MaintenanceInv'
  <2>1. /\ latest < MaxSaves /\ latest' = latest + 1
        /\ announcing' = [announcing EXCEPT ![i] = @ \cup {latest + 1}]
        /\ UNCHANGED <<current, fresh, loads, link, onTheWay, told, raced, breaks>>
    BY <1>6 DEF SaveSetting
  <2>2. latest' \in Versions /\ latest < latest'
    BY <2>1, <1>a, <1>v
  <2>3. announcing'[i] = announcing[i] \cup {latest'}
        /\ \A j \in Instances \ {i} : announcing'[j] = announcing[j]
    BY <2>1, <1>t DEF MaintenanceTypeOK
  <2>4. MaintenanceTypeOK'
    BY <2>1, <2>2, <2>3, <1>t DEF MaintenanceTypeOK
  <2>5. LoadsAreAhead'
    <3> SUFFICES ASSUME NEW j \in Instances
                 PROVE  /\ current[j] <= latest' /\ told[j] <= latest'
                        /\ \A v \in announcing'[j] \cup onTheWay[j] : v <= latest'
                        /\ fresh[j] => loads[j] = {}
                        /\ \A load \in loads[j] :
                             /\ load \in {Unread} \cup {HasRead(v) : v \in 0 .. latest'}
                             /\ load.read => load.version >= current[j]
                             /\ load.read /\ ~raced[j] => load.version >= told[j]
      BY <2>1 DEF LoadsAreAhead
    <3>1. \A v \in Versions : v <= latest => v <= latest' /\ v \in 0 .. latest'
      BY <2>1, <1>a, <1>v
    <3>2. current[j] \in Versions /\ told[j] \in Versions
          /\ announcing[j] \subseteq Versions /\ onTheWay[j] \subseteq Versions
      BY <1>t DEF MaintenanceTypeOK
    <3>3. \A v \in announcing'[j] \cup onTheWay[j] : v <= latest'
      <4>1. announcing'[j] \subseteq announcing[j] \cup {latest'}
        BY <2>3
      <4>2. \A v \in announcing[j] \cup onTheWay[j] : v <= latest'
        BY <3>1, <3>2, <1>t DEF LoadsAreAhead
      <4>3. latest' <= latest'
        BY <2>1, <1>a
      <4> QED
        BY <4>1, <4>2, <4>3
    <3>4. \A v \in 0 .. latest : v \in 0 .. latest'
      BY <2>1, <1>a
    <3>5. current[j] <= latest' /\ told[j] <= latest'
      BY <3>1, <3>2, <1>t DEF LoadsAreAhead
    <3> QED
      BY <3>3, <3>4, <3>5, <1>t DEF LoadsAreAhead
  <2> QED
    BY <2>1, <2>4, <2>5, <1>t DEF MaintenanceInv, ToldIsServed
\* Being told, by an own save or by an announcement.
<1>i. ASSUME NEW i \in Instances, NEW v \in Versions, v <= latest, Invalidate(i, v),
             UNCHANGED <<latest, current, link, breaks>>,
             announcing' \in [Instances -> SUBSET Versions],
             onTheWay' \in [Instances -> SUBSET Versions],
             \A j \in Instances : \A w \in announcing'[j] \cup onTheWay'[j] : w <= latest,
             \A j \in Instances \ {i} : loads'[j] = loads[j],
             loads' \in [Instances -> SUBSET [read : BOOLEAN, version : Versions]],
             loads'[i] = loads[i] \/ (loads[i] = {} /\ loads'[i] = {Unread})
      PROVE  MaintenanceInv'
  <2>1. /\ fresh' \in [Instances -> BOOLEAN] /\ ~fresh'[i]
        /\ \A j \in Instances \ {i} : fresh'[j] = fresh[j]
    BY <1>i, <1>t, Zenon DEF Invalidate, MaintenanceTypeOK
  <2>2. /\ raced' \in [Instances -> BOOLEAN]
        /\ raced'[i] <=> \E load \in loads[i] : load.read
        /\ \A j \in Instances \ {i} : raced'[j] = raced[j]
    <3>1. (\E load \in loads[i] : load.read) \in BOOLEAN
      OBVIOUS
    <3> QED
      BY <3>1, <1>i, <1>t, Zenon DEF Invalidate, MaintenanceTypeOK
  <2>3. /\ told' \in [Instances -> Versions] /\ told'[i] <= latest
        /\ \A j \in Instances \ {i} : told'[j] = told[j]
    BY <1>i, <1>t DEF Invalidate, Newer, MaintenanceTypeOK, LoadsAreAhead
  <2>4. MaintenanceTypeOK'
    BY <1>i, <2>1, <2>2, <2>3, <1>t DEF MaintenanceTypeOK
  <2>5. LoadsAreAhead'
    <3> SUFFICES ASSUME NEW j \in Instances
                 PROVE  /\ current[j] <= latest /\ told'[j] <= latest
                        /\ \A w \in announcing'[j] \cup onTheWay'[j] : w <= latest
                        /\ fresh'[j] => loads'[j] = {}
                        /\ \A load \in loads'[j] :
                             /\ load \in {Unread} \cup {HasRead(w) : w \in 0 .. latest}
                             /\ load.read => load.version >= current[j]
                             /\ load.read /\ ~raced'[j] => load.version >= told'[j]
      BY <1>i DEF LoadsAreAhead
    <3>1. CASE j = i
      BY <3>1, <1>i, <2>1, <2>2, <2>3, <1>t, LoadKinds DEF LoadsAreAhead
    <3>2. CASE j # i
      BY <3>2, <1>i, <2>1, <2>2, <2>3, <1>t DEF LoadsAreAhead
    <3> QED
      BY <3>1, <3>2
  <2>6. ToldIsServed'
    BY <1>i, <2>1, <2>2, <2>3, <1>t DEF ToldIsServed
  <2> QED
    BY <2>4, <2>5, <2>6 DEF MaintenanceInv
<1>7. ASSUME NEW i \in Instances, Publishes(i) PROVE MaintenanceInv'
  <2>1. PICK v \in announcing[i], out \in BOOLEAN :
          /\ announcing' = [announcing EXCEPT ![i] = @ \ {v}]
          /\ Invalidate(i, v)
          /\ onTheWay' = (IF out THEN [j \in Instances |-> IF link[j] THEN onTheWay[j] \cup {v}
                                                           ELSE onTheWay[j]]
                          ELSE onTheWay)
          /\ UNCHANGED <<latest, current, loads, link, breaks>>
    BY <1>7 DEF Publishes
  <2>2. v \in Versions /\ v <= latest
    BY <1>t DEF MaintenanceTypeOK, LoadsAreAhead
  <2>3. /\ announcing' \in [Instances -> SUBSET Versions]
        /\ \A j \in Instances : announcing'[j] \subseteq announcing[j]
    BY <2>1, <1>t DEF MaintenanceTypeOK
  <2>4. /\ onTheWay' \in [Instances -> SUBSET Versions]
        /\ \A j \in Instances : onTheWay'[j] \subseteq onTheWay[j] \cup {v}
    BY <2>1, <2>2, <1>t DEF MaintenanceTypeOK
  <2>5. \A j \in Instances : \A w \in announcing'[j] \cup onTheWay'[j] : w <= latest
    BY <2>2, <2>3, <2>4, <1>t DEF LoadsAreAhead
  <2>6. loads' \in [Instances -> SUBSET [read : BOOLEAN, version : Versions]]
    BY <2>1, <1>t DEF MaintenanceTypeOK
  <2> QED
    BY <2>1, <2>2, <2>3, <2>4, <2>5, <2>6, <1>i
<1>8. ASSUME NEW i \in Instances, Hears(i) PROVE MaintenanceInv'
  <2>1. PICK v \in onTheWay[i] :
          /\ onTheWay' = [onTheWay EXCEPT ![i] = @ \ {v}]
          /\ Invalidate(i, v)
          /\ loads' = (IF MayLoad(i) THEN [loads EXCEPT ![i] = @ \cup {Unread}] ELSE loads)
          /\ UNCHANGED <<latest, current, link, announcing, breaks>>
    BY <1>8 DEF Hears
  <2>2. v \in Versions /\ v <= latest
    BY <1>t DEF MaintenanceTypeOK, LoadsAreAhead
  <2>3. /\ onTheWay' \in [Instances -> SUBSET Versions]
        /\ announcing' \in [Instances -> SUBSET Versions]
        /\ \A j \in Instances : onTheWay'[j] \subseteq onTheWay[j]
    BY <2>1, <1>t DEF MaintenanceTypeOK
  <2>4. \A j \in Instances : \A w \in announcing'[j] \cup onTheWay'[j] : w <= latest
    BY <2>1, <2>3, <1>t DEF LoadsAreAhead
  <2>5. /\ loads' \in [Instances -> SUBSET [read : BOOLEAN, version : Versions]]
        /\ \A j \in Instances \ {i} : loads'[j] = loads[j]
        /\ loads'[i] = loads[i] \/ (loads[i] = {} /\ loads'[i] = {Unread})
    BY <2>1, <1>t, LoadKinds DEF MaintenanceTypeOK, MayLoad
  <2> QED
    BY <2>1, <2>2, <2>3, <2>4, <2>5, <1>i
<1>9. ASSUME NEW i \in Instances, LinkLost(i) \/ LinkBack(i) PROVE MaintenanceInv'
  <2>1. /\ UNCHANGED <<latest, current, fresh, loads, announcing, told, raced>>
        /\ onTheWay' = onTheWay \/ onTheWay' = [onTheWay EXCEPT ![i] = {}]
        /\ breaks' \in 0 .. MaxBreaks
    BY <1>9, <1>b, <1>t DEF LinkLost, LinkBack, MaintenanceTypeOK
  <2>2. link' \in [Instances -> BOOLEAN]
    BY <1>9, <1>t, Zenon DEF LinkLost, LinkBack, MaintenanceTypeOK
  <2>3. /\ onTheWay' \in [Instances -> SUBSET Versions]
        /\ \A j \in Instances : onTheWay'[j] \subseteq onTheWay[j]
    BY <2>1, <1>t DEF MaintenanceTypeOK
  <2> QED
    BY <2>1, <2>2, <2>3, <1>t DEF MaintenanceInv, MaintenanceTypeOK, LoadsAreAhead, ToldIsServed
<1>10. ASSUME NEW i \in Instances, Restart(i) PROVE MaintenanceInv'
  <2>1. /\ current' = [current EXCEPT ![i] = 0] /\ told' = [told EXCEPT ![i] = 0]
        /\ loads' = [loads EXCEPT ![i] = {}] /\ onTheWay' = [onTheWay EXCEPT ![i] = {}]
        /\ announcing' = [announcing EXCEPT ![i] = {}] /\ breaks' \in 0 .. MaxBreaks
        /\ UNCHANGED <<latest, link>>
    BY <1>10, <1>b DEF Restart
  <2>2. /\ fresh' \in [Instances -> BOOLEAN] /\ raced' \in [Instances -> BOOLEAN]
        /\ ~fresh'[i]
        /\ \A j \in Instances \ {i} : fresh'[j] = fresh[j] /\ raced'[j] = raced[j]
    BY <1>10, <1>t, Zenon DEF Restart, MaintenanceTypeOK
  <2>3. /\ current'[i] = 0 /\ told'[i] = 0 /\ loads'[i] = {} /\ onTheWay'[i] = {}
        /\ announcing'[i] = {} /\ 0 \in Versions /\ 0 <= latest
        /\ \A j \in Instances \ {i} :
             /\ current'[j] = current[j] /\ told'[j] = told[j] /\ loads'[j] = loads[j]
             /\ onTheWay'[j] = onTheWay[j] /\ announcing'[j] = announcing[j]
    BY <2>1, <1>a, <1>v, <1>t DEF MaintenanceTypeOK
  <2>4. MaintenanceTypeOK'
    BY <2>1, <2>2, <2>3, <1>t DEF MaintenanceTypeOK
  <2>5. LoadsAreAhead' /\ ToldIsServed'
    BY <2>1, <2>2, <2>3, <1>t DEF LoadsAreAhead, ToldIsServed
  <2> QED
    BY <2>4, <2>5 DEF MaintenanceInv
<1>11. CASE UNCHANGED maintenanceVars
  BY <1>11, <1>t DEF maintenanceVars, MaintenanceInv, MaintenanceTypeOK, LoadsAreAhead, ToldIsServed
<1> QED
  BY <1>1, <1>2, <1>3, <1>4, <1>5, <1>6, <1>7, <1>8, <1>9, <1>10, <1>11
     DEF MaintenanceNext, Caching

\* An instance that was told of a setting, by its own save or by an announcement, serves
\* nothing older as fresh, unless a load had read before it was told.
THEOREM MaintenanceIsSafe == MaintenanceSpec => []MaintenanceSafe
<1>1. MaintenanceInv => MaintenanceSafe
  BY DEF MaintenanceInv, MaintenanceSafe
<1> QED
  BY <1>1, MaintenanceStarts, MaintenanceKeepsSafe, PTL DEF MaintenanceSpec

\* A running instance never goes back to an older setting, nor to none.
THEOREM MaintenanceNeverGoesBack == MaintenanceSpec => NeverGoesBack
<1>1. MaintenanceInv /\ [MaintenanceNext]_maintenanceVars
        => [\A i \in Instances : current'[i] >= current[i] \/ Restart(i)]_maintenanceVars
  <2> SUFFICES ASSUME MaintenanceInv, [MaintenanceNext]_maintenanceVars,
                      NEW i \in Instances, ~UNCHANGED maintenanceVars
               PROVE  current'[i] >= current[i] \/ Restart(i)
    OBVIOUS
  <2>t. MaintenanceTypeOK /\ LoadsAreAhead
    BY DEF MaintenanceInv
  <2>c. current[i] \in Nat /\ current \in [Instances -> Versions]
    BY <2>t, MaintenanceAssumption DEF MaintenanceTypeOK, Versions
  <2>1. PICK j \in Instances : Caching(j) \/ SaveSetting(j) \/ Publishes(j) \/ Hears(j)
                               \/ LinkLost(j) \/ LinkBack(j) \/ Restart(j)
    BY DEF MaintenanceNext
  <2>2. CASE LoadReturns(j)
    <3>1. PICK load \in loads[j] :
            /\ load.read
            /\ UNCHANGED current \/ current' = [current EXCEPT ![j] = load.version]
      BY <2>2 DEF LoadReturns
    <3>2. load.version >= current[j]
      BY <3>1, <2>t DEF LoadsAreAhead
    <3> QED
      BY <3>1, <3>2, <2>c
  <2>3. CASE Restart(j)
    <3>1. CASE j = i
      BY <2>3, <3>1
    <3>2. CASE j # i
      BY <2>3, <2>c, <3>2 DEF Restart
    <3> QED
      BY <3>1, <3>2
  <2>4. CASE ~LoadReturns(j) /\ ~Restart(j)
    <3>1. UNCHANGED current
      BY <2>1, <2>4 DEF Caching, Request, LoadReads, LoadFails, Expires, SaveSetting,
         Publishes, Hears, LinkLost, LinkBack
    <3> QED
      BY <3>1, <2>c
  <2> QED
    BY <2>2, <2>3, <2>4
<1> QED
  BY <1>1, MaintenanceStarts, MaintenanceKeepsSafe, PTL DEF MaintenanceSpec, NeverGoesBack

----------------------------------------------------------------------------
(* The rights to the dashboard of a server. *)

CallbackRecords == [step : {"idle", "checking", "linking", "listing", "clearing", "filling",
                            "done"},
                    account : Accounts \cup {NoAccount}, seen : Standing, admitted : BOOLEAN]
CheckRecords == [step : {"idle", "linked", "waiting", "granted", "refused"},
                 account : Accounts \cup {NoAccount}]
RenewalRecords == [step : {"none", "asking", "writing"}, seen : Standing]
MemberRows == [there : BOOLEAN, manages : BOOLEAN, fresh : BOOLEAN]

\* Whatever says "manager" and may still become, or is, a fresh row was so lately.
ManagersAreRecent ==
  \A d \in Accounts :
    /\ truth[d] = "manager" => lately[d]
    /\ member[d].fresh /\ member[d].manages => lately[d]
    /\ renewal[d].step = "writing" /\ renewal[d].seen = "manager" => lately[d]
    /\ \A c \in Callbacks : callback[c].account = d /\ callback[c].seen = "manager"
                            /\ callback[c].step \in {"clearing", "filling"} => lately[d]

\* Who is on the way to a link or to a verdict is so with an account.
AccountsAreKnown ==
  /\ \A c \in Callbacks : callback[c].step \notin {"idle", "done"} => callback[c].account \in Accounts
  /\ \A k \in Checks : check[k].step \in {"linked", "waiting"} => check[k].account \in Accounts

\* A state that has admitted somebody is gone.
AdmittedIsSpent == \A c \in Callbacks : callback[c].admitted => StateOf[c] \notin states

AccessInv ==
  /\ AccessTypeOK
  /\ AccountOfOne
  /\ StateAdmitsOne
  /\ ManagersAreRecent
  /\ AccountsAreKnown
  /\ AdmittedIsSpent

LEMMA RowKinds ==
  /\ NoRow \in MemberRows /\ ~NoRow.there /\ ~NoRow.manages /\ ~NoRow.fresh
  /\ \A s \in Standing : /\ RowFor(s) \in MemberRows /\ RowFor(s).there
                         /\ RowFor(s).manages <=> s = "manager"
<1>1. FALSE \in BOOLEAN /\ TRUE \in BOOLEAN
  OBVIOUS
<1>2. NoRow \in MemberRows /\ ~NoRow.there /\ ~NoRow.manages /\ ~NoRow.fresh
  BY <1>1, Zenon DEF NoRow, MemberRows
<1>3. ASSUME NEW s \in Standing
      PROVE  /\ RowFor(s) \in MemberRows /\ RowFor(s).there
             /\ RowFor(s).manages <=> s = "manager"
  <2>1. (s = "manager") \in BOOLEAN
    OBVIOUS
  <2> QED
    BY <2>1, <1>1, Zenon DEF RowFor, MemberRows
<1> QED
  BY <1>2, <1>3

LEMMA AccessStarts == AccessInit => AccessInv
<1> SUFFICES ASSUME AccessInit PROVE AccessInv
  OBVIOUS
<1>1. \A c \in Callbacks : callback[c].step = "idle" /\ ~callback[c].admitted
  BY Zenon DEF AccessInit
<1>2. callback \in [Callbacks -> CallbackRecords]
  <2>1. FALSE \in BOOLEAN /\ "idle" \in {"idle", "checking", "linking", "listing", "clearing",
          "filling", "done"} /\ "left" \in Standing /\ NoAccount \in Accounts \cup {NoAccount}
    BY DEF Standing
  <2> QED
    BY <2>1, Zenon DEF AccessInit, CallbackRecords
<1>3. member \in [Accounts -> MemberRows] /\ \A d \in Accounts : ~member[d].fresh
  BY RowKinds DEF AccessInit
<1>4. lately \in [Accounts -> BOOLEAN]
      /\ \A d \in Accounts : truth[d] = "manager" => lately[d]
  BY Zenon DEF AccessInit
<1>5. /\ check \in [Checks -> CheckRecords] /\ renewal \in [Accounts -> RenewalRecords]
      /\ truth \in [Accounts -> Standing]
      /\ \A k \in Checks : check[k].step = "idle"
      /\ \A d \in Accounts : renewal[d].step = "none"
  BY DEF AccessInit, CheckRecords, RenewalRecords, Standing
<1>6. AccessTypeOK
  <2>1. linkOf \in [Users -> Accounts \cup {NoAccount}] /\ leaving = {} /\ failed = {}
        /\ states = {StateOf[c] : c \in Callbacks}
        /\ changes \in 0 .. MaxChanges /\ silences \in 0 .. MaxSilences
    <3>1. MaxChanges \in Nat /\ MaxSilences \in Nat
      BY AccessAssumption
    <3>2. 0 \in 0 .. MaxChanges /\ 0 \in 0 .. MaxSilences
      BY <3>1
    <3>3. linkOf \in [Users -> Accounts \cup {NoAccount}]
      BY DEF AccessInit
    <3> QED
      BY <3>2, <3>3, Zenon DEF AccessInit
  <2> QED
    BY <1>2, <1>3, <1>4, <1>5, <2>1 DEF AccessTypeOK, CallbackRecords, CheckRecords,
       RenewalRecords, MemberRows
<1>7. AccountOfOne
  BY DEF AccessInit, AccountOfOne
<1>8. StateAdmitsOne /\ AdmittedIsSpent
  BY <1>1 DEF StateAdmitsOne, AdmittedIsSpent
<1>9. ManagersAreRecent /\ AccountsAreKnown
  BY <1>1, <1>3, <1>4, <1>5 DEF ManagersAreRecent, AccountsAreKnown
<1> QED
  BY <1>6, <1>7, <1>8, <1>9 DEF AccessInv

LEMMA AccessKeepsSafe == AccessInv /\ [AccessNext]_accessVars => AccessInv'
<1> SUFFICES ASSUME AccessInv, [AccessNext]_accessVars PROVE AccessInv'
  OBVIOUS
<1>t. AccessTypeOK /\ AccountOfOne /\ StateAdmitsOne /\ ManagersAreRecent
      /\ AccountsAreKnown /\ AdmittedIsSpent
  BY DEF AccessInv
<1>y. /\ linkOf \in [Users -> Accounts \cup {NoAccount}] /\ member \in [Accounts -> MemberRows]
      /\ truth \in [Accounts -> Standing] /\ lately \in [Accounts -> BOOLEAN]
      /\ states \subseteq {StateOf[c] : c \in Callbacks}
      /\ callback \in [Callbacks -> CallbackRecords]
      /\ leaving \subseteq Accounts /\ failed \subseteq Accounts
      /\ check \in [Checks -> CheckRecords] /\ renewal \in [Accounts -> RenewalRecords]
      /\ changes \in 0 .. MaxChanges /\ silences \in 0 .. MaxSilences
      /\ \A k \in Checks : check[k].step = "waiting" => renewal[check[k].account].step # "none"
  BY <1>t DEF AccessTypeOK, CallbackRecords, CheckRecords, RenewalRecords, MemberRows
<1>z. ASSUME /\ linkOf' \in [Users -> Accounts \cup {NoAccount}]
             /\ member' \in [Accounts -> MemberRows]
             /\ truth' \in [Accounts -> Standing] /\ lately' \in [Accounts -> BOOLEAN]
             /\ states' \subseteq {StateOf[c] : c \in Callbacks}
             /\ callback' \in [Callbacks -> CallbackRecords]
             /\ leaving' \subseteq Accounts /\ failed' \subseteq Accounts
             /\ check' \in [Checks -> CheckRecords] /\ renewal' \in [Accounts -> RenewalRecords]
             /\ changes' \in 0 .. MaxChanges /\ silences' \in 0 .. MaxSilences
             /\ \A k \in Checks : check'[k].step = "waiting"
                                    => renewal'[check'[k].account].step # "none"
      PROVE  AccessTypeOK'
  BY <1>z DEF AccessTypeOK, CallbackRecords, CheckRecords, RenewalRecords, MemberRows
<1>m. MaxChanges \in Nat /\ MaxSilences \in Nat /\ StarterOf \in [Callbacks -> Users]
      /\ AskerOf \in [Checks -> Users] /\ NoAccount \notin Accounts
  BY AccessAssumption
<1>n. /\ silences < MaxSilences => silences + 1 \in 0 .. MaxSilences
      /\ changes < MaxChanges => changes + 1 \in 0 .. MaxChanges
  BY <1>y, <1>m

\* The steps of a redirect.
<1>1. ASSUME NEW c \in Callbacks, LinkSteps(c) PROVE AccessInv'
  <2>k. UNCHANGED <<truth, lately, leaving, check, renewal, failed, changes>>
    BY <1>1 DEF LinkSteps, Consumes, LooksForOther, Links, Lists, Clears, Fills
  \* A step that only moves the redirect.
  <2>s. ASSUME NEW step \in {"done", "linking", "listing", "clearing", "filling"},
               StepsTo(c, step), ~On(c, "idle"), ~On(c, "done"),
               step \in {"filling", "clearing"} => On(c, "clearing")
        PROVE  /\ callback' \in [Callbacks -> CallbackRecords]
               /\ callback'[c].step = step /\ callback'[c].account = callback[c].account
               /\ callback'[c].seen = callback[c].seen
               /\ callback'[c].admitted = callback[c].admitted
               /\ \A o \in Callbacks \ {c} : callback'[o] = callback[o]
               /\ StateAdmitsOne' /\ AccountsAreKnown'
               /\ UNCHANGED states => AdmittedIsSpent'
    <3>1. callback' \in [Callbacks -> CallbackRecords]
          /\ callback'[c].step = step /\ callback'[c].account = callback[c].account
          /\ callback'[c].seen = callback[c].seen
          /\ callback'[c].admitted = callback[c].admitted
      BY <2>s, <1>y DEF StepsTo, CallbackRecords
    <3>2. \A o \in Callbacks \ {c} : callback'[o] = callback[o]
      BY <2>s, <1>y DEF StepsTo
    <3>3. StateAdmitsOne'
      BY <3>1, <3>2, <1>t DEF StateAdmitsOne
    <3>4. AccountsAreKnown'
      BY <3>1, <3>2, <2>s, <2>k, <1>t, <1>y DEF AccountsAreKnown, On, CallbackRecords
    <3>5. UNCHANGED states => AdmittedIsSpent'
      BY <3>1, <3>2, <1>t DEF AdmittedIsSpent
    <3> QED
      BY <3>1, <3>2, <3>3, <3>4, <3>5
  <2>1. CASE Consumes(c)
    <3>1. On(c, "idle") /\ states' = states \ {StateOf[c]} /\ UNCHANGED <<linkOf, member, silences>>
      BY <2>1 DEF Consumes
    <3>2. CASE StateOf[c] \in states
      <4>1. PICK d \in Accounts :
              callback' = [callback EXCEPT ![c].step = "checking", ![c].account = d,
                                           ![c].admitted = TRUE]
        BY <2>1, <3>2 DEF Consumes
      <4>2. /\ callback'[c].step = "checking" /\ callback'[c].account = d
            /\ \A o \in Callbacks \ {c} : callback'[o] = callback[o]
        BY <4>1, <1>y DEF CallbackRecords
      <4>3. callback' \in [Callbacks -> CallbackRecords]
        <5>1. ASSUME NEW r \in CallbackRecords, NEW b \in BOOLEAN
              PROVE  [r EXCEPT !.step = "checking", !.account = d, !.admitted = b]
                       \in CallbackRecords
          BY DEF CallbackRecords
        <5>2. TRUE \in BOOLEAN
          OBVIOUS
        <5>3. callback[c] \in CallbackRecords
          BY <1>y
        <5>4. [callback[c] EXCEPT !.step = "checking", !.account = d, !.admitted = TRUE]
                \in CallbackRecords
          BY <5>1, <5>2, <5>3, Zenon
        <5>5. callback' = [callback EXCEPT ![c] =
                [callback[c] EXCEPT !.step = "checking", !.account = d, !.admitted = TRUE]]
          BY <4>1, <1>y
        <5> QED
          BY <5>4, <5>5, <1>y
      <4>4. AccessTypeOK'
        BY <3>1, <4>3, <2>k, <1>y, <1>z
      <4>5. ManagersAreRecent'
        BY <3>1, <4>2, <2>k, <1>t DEF ManagersAreRecent
      <4>6. AccountsAreKnown'
        BY <4>2, <2>k, <1>t DEF AccountsAreKnown
      <4>7. AdmittedIsSpent'
        BY <3>1, <4>2, <1>t DEF AdmittedIsSpent
      <4>8. StateAdmitsOne'
        BY <3>2, <4>2, <1>t DEF StateAdmitsOne, AdmittedIsSpent
      <4> QED
        BY <3>1, <4>4, <4>5, <4>6, <4>7, <4>8, <1>t DEF AccessInv, AccountOfOne
    <3>3. CASE StateOf[c] \notin states
      <4>1. StepsTo(c, "done")
        BY <2>1, <3>3 DEF Consumes
      <4>2. /\ callback' \in [Callbacks -> CallbackRecords]
            /\ callback'[c].step = "done" /\ callback'[c].admitted = callback[c].admitted
            /\ callback'[c].account = callback[c].account
            /\ \A o \in Callbacks \ {c} : callback'[o] = callback[o]
        BY <4>1, <1>y DEF StepsTo, CallbackRecords
      <4>3. AccessTypeOK'
        BY <3>1, <4>2, <2>k, <1>y, <1>z
      <4>4. ManagersAreRecent' /\ AccountsAreKnown'
        BY <3>1, <4>2, <2>k, <1>t DEF ManagersAreRecent, AccountsAreKnown
      <4>5. AdmittedIsSpent' /\ StateAdmitsOne'
        BY <3>1, <4>2, <1>t DEF StateAdmitsOne, AdmittedIsSpent
      <4> QED
        BY <3>1, <4>3, <4>4, <4>5, <1>t DEF AccessInv, AccountOfOne
    <3> QED
      BY <3>2, <3>3
  <2>2. CASE LooksForOther(c)
    <3>1. ~On(c, "idle") /\ ~On(c, "done") /\ UNCHANGED <<linkOf, member, states, silences>>
          /\ (StepsTo(c, "done") \/ StepsTo(c, "linking"))
      BY <2>2 DEF LooksForOther, On
    <3>2. PICK step \in {"done", "linking"} : StepsTo(c, step)
      BY <3>1
    <3>3. AccessTypeOK'
      BY <3>1, <3>2, <2>s, <2>k, <1>y, <1>z
    <3>4. ManagersAreRecent'
      BY <3>1, <3>2, <2>s, <2>k, <1>t DEF ManagersAreRecent
    <3> QED
      BY <3>1, <3>2, <3>3, <3>4, <2>s, <1>t DEF AccessInv, AccountOfOne
  <2>3. CASE Links(c)
    <3>1. ~On(c, "idle") /\ ~On(c, "done") /\ callback[c].step = "linking" /\ UNCHANGED <<member, states, silences>>
      BY <2>3 DEF Links, On
    <3>2. callback[c].account \in Accounts
      BY <3>1, <1>t DEF AccountsAreKnown
    <3>3. PICK step \in {"done", "listing"} : StepsTo(c, step)
      BY <2>3 DEF Links
    <3>4. linkOf' \in [Users -> Accounts \cup {NoAccount}] /\ AccountOfOne'
      <4>1. CASE TakenByOther(c)
        BY <2>3, <4>1, <1>y, <1>t DEF Links, AccountOfOne
      <4>2. CASE ~TakenByOther(c)
        <5>1. linkOf' = [linkOf EXCEPT ![StarterOf[c]] = callback[c].account]
          BY <2>3, <4>2 DEF Links
        <5>2. \A u \in Users \ {StarterOf[c]} : linkOf[u] # callback[c].account
          BY <4>2 DEF TakenByOther
        <5> QED
          BY <5>1, <5>2, <3>2, <1>y, <1>m, <1>t DEF AccountOfOne
      <4> QED
        BY <4>1, <4>2
    <3>5. AccessTypeOK'
      BY <3>1, <3>3, <3>4, <2>s, <2>k, <1>y, <1>z
    <3>6. ManagersAreRecent'
      BY <3>1, <3>3, <2>s, <2>k, <1>t DEF ManagersAreRecent
    <3> QED
      BY <3>1, <3>3, <3>4, <3>5, <3>6, <2>s DEF AccessInv
  <2>4. CASE Lists(c)
    <3>1. /\ ~On(c, "idle") /\ ~On(c, "done") /\ callback[c].step = "listing" /\ UNCHANGED <<linkOf, member, states>>
          /\ callback[c].account \in Accounts
      BY <2>4, <1>t DEF Lists, On, AccountsAreKnown
    <3>2. silences' \in 0 .. MaxSilences
      BY <2>4, <1>y, <1>n DEF Lists
    <3>3. CASE StepsTo(c, "done")
      <4>1. AccessTypeOK'
        BY <3>1, <3>2, <3>3, <2>s, <2>k, <1>y, <1>z
      <4>2. ManagersAreRecent'
        BY <3>1, <3>3, <2>s, <2>k, <1>t DEF ManagersAreRecent
      <4> QED
        BY <3>1, <3>3, <4>1, <4>2, <2>s, <1>t DEF AccessInv, AccountOfOne
    <3>4. CASE callback' = [callback EXCEPT ![c].step = "clearing",
                                            ![c].seen = truth[callback[c].account]]
      <4>1. /\ callback' \in [Callbacks -> CallbackRecords]
            /\ callback'[c].step = "clearing" /\ callback'[c].account = callback[c].account
            /\ callback'[c].seen = truth[callback[c].account]
            /\ callback'[c].admitted = callback[c].admitted
            /\ \A o \in Callbacks \ {c} : callback'[o] = callback[o]
        BY <3>1, <3>4, <1>y DEF CallbackRecords
      <4>2. AccessTypeOK'
        BY <3>1, <3>2, <4>1, <2>k, <1>y, <1>z
      <4>3. ManagersAreRecent'
        BY <3>1, <4>1, <2>k, <1>t DEF ManagersAreRecent
      <4>4. AccountsAreKnown'
        BY <3>1, <4>1, <2>k, <1>t DEF AccountsAreKnown
      <4>5. AdmittedIsSpent' /\ StateAdmitsOne'
        BY <3>1, <4>1, <1>t DEF StateAdmitsOne, AdmittedIsSpent
      <4> QED
        BY <3>1, <4>2, <4>3, <4>4, <4>5, <1>t DEF AccessInv, AccountOfOne
    <3> QED
      BY <2>4, <3>3, <3>4 DEF Lists
  <2>5. CASE Clears(c)
    <3>1. ~On(c, "idle") /\ ~On(c, "done") /\ On(c, "clearing") /\ UNCHANGED <<linkOf, states, silences>>
          /\ member' = [member EXCEPT ![callback[c].account] = NoRow]
      BY <2>5 DEF Clears, On
    <3>2. PICK step \in {"done", "filling"} : StepsTo(c, step)
      BY <2>5 DEF Clears
    <3>3. member' \in [Accounts -> MemberRows]
          /\ \A d \in Accounts : member'[d] = member[d] \/ member'[d] = NoRow
      BY <3>1, <1>y, RowKinds
    <3>4. AccessTypeOK'
      BY <3>1, <3>2, <3>3, <2>s, <2>k, <1>y, <1>z
    <3>5. ManagersAreRecent'
      BY <3>1, <3>2, <3>3, <2>s, <2>k, <1>t, RowKinds DEF ManagersAreRecent, On
    <3> QED
      BY <3>1, <3>2, <3>4, <3>5, <2>s, <1>t DEF AccessInv, AccountOfOne
  <2>6. CASE Fills(c)
    <3>1. /\ ~On(c, "idle") /\ ~On(c, "done") /\ callback[c].step = "filling" /\ StepsTo(c, "done")
          /\ UNCHANGED <<linkOf, states, silences>> /\ callback[c].account \in Accounts
          /\ callback[c].seen \in Standing
      BY <2>6, <1>t, <1>y DEF Fills, On, AccountsAreKnown, CallbackRecords
    <3>2. member' = member \/ member' = [member EXCEPT ![callback[c].account]
                                                    = RowFor(callback[c].seen)]
      BY <2>6 DEF Fills
    <3>3. /\ member' \in [Accounts -> MemberRows]
          /\ \A d \in Accounts : \/ member'[d] = member[d]
                                 \/ d = callback[c].account /\ member'[d] = RowFor(callback[c].seen)
      BY <3>1, <3>2, <1>y, RowKinds
    <3>4. AccessTypeOK'
      BY <3>1, <3>3, <2>s, <2>k, <1>y, <1>z
    <3>5. ManagersAreRecent'
      BY <3>1, <3>3, <2>s, <2>k, <1>t, RowKinds DEF ManagersAreRecent
    <3> QED
      BY <3>1, <3>4, <3>5, <2>s, <1>t DEF AccessInv, AccountOfOne
  <2> QED
    BY <1>1, <2>1, <2>2, <2>3, <2>4, <2>5, <2>6 DEF LinkSteps
\* The link undone.
<1>2. ASSUME NEW u \in Users, Unlinks(u) PROVE AccessInv'
  <2>1. /\ linkOf[u] # NoAccount /\ linkOf' = [linkOf EXCEPT ![u] = NoAccount]
        /\ leaving' = leaving \cup {linkOf[u]}
        /\ UNCHANGED <<member, truth, lately, states, callback, check, renewal, failed, changes,
                       silences>>
    BY <1>2 DEF Unlinks
  <2>2. AccessTypeOK'
    BY <2>1, <1>y, <1>z
  <2>3. AccountOfOne'
    BY <2>1, <1>y, <1>t DEF AccountOfOne
  <2> QED
    BY <2>1, <2>2, <2>3, <1>t DEF AccessInv, StateAdmitsOne, ManagersAreRecent,
       AccountsAreKnown, AdmittedIsSpent
\* Steps that change neither the links nor the redirects.
<1>u. ASSUME UNCHANGED <<linkOf, states, callback, truth, lately, changes>>,
             member' \in [Accounts -> MemberRows],
             check' \in [Checks -> CheckRecords], renewal' \in [Accounts -> RenewalRecords],
             leaving' \subseteq Accounts, failed' \subseteq Accounts,
             silences' \in 0 .. MaxSilences,
             \A d \in Accounts :
               /\ member'[d].fresh /\ member'[d].manages => lately[d]
               /\ renewal'[d].step = "writing" /\ renewal'[d].seen = "manager" => lately[d],
             \A k \in Checks :
               /\ check'[k].step \in {"linked", "waiting"} => check'[k].account \in Accounts
               /\ check'[k].step = "waiting" => renewal'[check'[k].account].step # "none"
      PROVE  AccessInv'
  <2>1. AccessTypeOK'
    BY <1>u, <1>y, <1>z
  <2>2. ManagersAreRecent'
    BY <1>u, <1>t DEF ManagersAreRecent
  <2>3. AccountsAreKnown'
    BY <1>u, <1>t DEF AccountsAreKnown
  <2> QED
    BY <1>u, <2>1, <2>2, <2>3, <1>t DEF AccessInv, AccountOfOne, StateAdmitsOne, AdmittedIsSpent
<1>3. ASSUME NEW d \in Accounts, UnlinkClears(d) PROVE AccessInv'
  <2>1. /\ leaving' = leaving \ {d} /\ member' = [member EXCEPT ![d] = NoRow]
        /\ UNCHANGED <<linkOf, truth, lately, states, callback, check, renewal, failed, changes,
                       silences>>
    BY <1>3 DEF UnlinkClears
  <2>2. member' \in [Accounts -> MemberRows]
        /\ \A e \in Accounts : member'[e] = member[e] \/ member'[e] = NoRow
    BY <2>1, <1>y, RowKinds
  <2>3. \A e \in Accounts : member'[e].fresh /\ member'[e].manages => lately[e]
    BY <2>2, <1>t, RowKinds DEF ManagersAreRecent
  <2> QED
    BY <2>1, <2>2, <2>3, <1>y, <1>t, <1>u DEF ManagersAreRecent, AccountsAreKnown
<1>4. ASSUME NEW d \in Accounts, HalfMinute(d) PROVE AccessInv'
  <2>1. /\ failed' = failed \ {d}
        /\ UNCHANGED <<linkOf, member, truth, lately, states, callback, leaving, check, renewal,
                       changes, silences>>
    BY <1>4 DEF HalfMinute
  <2> QED
    BY <2>1, <1>y, <1>t, <1>u DEF ManagersAreRecent, AccountsAreKnown
\* The renewal of a copy.
<1>5. ASSUME NEW d \in Accounts, Answers(d) PROVE AccessInv'
  <2>1. /\ failed' = failed \ {d}
        /\ renewal' = [renewal EXCEPT ![d] = [step |-> "writing", seen |-> truth[d]]]
        /\ UNCHANGED <<linkOf, member, truth, lately, states, callback, leaving, check, changes,
                       silences>>
    BY <1>5 DEF Answers
  <2>2. /\ renewal' \in [Accounts -> RenewalRecords]
        /\ renewal'[d].step = "writing" /\ renewal'[d].seen = truth[d]
        /\ \A e \in Accounts \ {d} : renewal'[e] = renewal[e]
    BY <2>1, <1>y DEF RenewalRecords
  <2>3. \A e \in Accounts :
          renewal'[e].step = "writing" /\ renewal'[e].seen = "manager" => lately[e]
    BY <2>2, <1>t DEF ManagersAreRecent
  <2>4. \A k \in Checks : /\ check[k].step \in {"linked", "waiting"} => check[k].account \in Accounts
                          /\ check[k].step = "waiting" => renewal'[check[k].account].step # "none"
    BY <2>2, <1>y, <1>t DEF AccountsAreKnown
  <2>5. \A e \in Accounts : member[e].fresh /\ member[e].manages => lately[e]
    BY <1>t DEF ManagersAreRecent
  <2> QED
    BY <2>1, <2>2, <2>3, <2>4, <2>5, <1>y, <1>u
\* A renewal that is over: who waited for it has a verdict.
<1>v. ASSUME NEW d \in Accounts, NEW verdict \in BOOLEAN, Verdict(d, verdict),
             renewal' = [renewal EXCEPT ![d].step = "none"]
      PROVE  /\ check' \in [Checks -> CheckRecords] /\ renewal' \in [Accounts -> RenewalRecords]
             /\ \A e \in Accounts :
                  renewal'[e].step = "writing" /\ renewal'[e].seen = "manager" => lately[e]
             /\ \A k \in Checks :
                  /\ check'[k].step \in {"linked", "waiting"} => check'[k].account \in Accounts
                  /\ check'[k].step = "waiting" => renewal'[check'[k].account].step # "none"
  <2>1. /\ renewal' \in [Accounts -> RenewalRecords] /\ renewal'[d].step = "none"
        /\ \A e \in Accounts \ {d} : renewal'[e] = renewal[e]
    BY <1>v, <1>y DEF RenewalRecords
  <2>2. check' = [k \in Checks |->
          IF check[k].step = "waiting" /\ check[k].account = d
          THEN [step |-> IF verdict THEN "granted" ELSE "refused", account |-> NoAccount]
          ELSE check[k]]
    BY <1>v DEF Verdict
  <2>3. ASSUME NEW k \in Checks
        PROVE  /\ check'[k] \in CheckRecords
               /\ \/ check'[k] = check[k] /\ ~(check[k].step = "waiting" /\ check[k].account = d)
                  \/ check'[k].step \in {"granted", "refused"}
    <3>1. CASE check[k].step = "waiting" /\ check[k].account = d
      <4>1. \A s \in {"granted", "refused"} : [step |-> s, account |-> NoAccount] \in CheckRecords
        BY DEF CheckRecords
      <4>2. check'[k] = [step |-> IF verdict THEN "granted" ELSE "refused", account |-> NoAccount]
        BY <2>2, <3>1
      <4> QED
        BY <4>1, <4>2
    <3>2. CASE ~(check[k].step = "waiting" /\ check[k].account = d)
      BY <2>2, <3>2, <1>y
    <3> QED
      BY <3>1, <3>2
  <2>4. check' \in [Checks -> CheckRecords]
    BY <2>2, <2>3
  <2>5. \A e \in Accounts :
          renewal'[e].step = "writing" /\ renewal'[e].seen = "manager" => lately[e]
    BY <2>1, <1>t DEF ManagersAreRecent
  <2>6. \A k \in Checks :
          /\ check'[k].step \in {"linked", "waiting"} => check'[k].account \in Accounts
          /\ check'[k].step = "waiting" => renewal'[check'[k].account].step # "none"
    BY <2>1, <2>3, <1>y, <1>t DEF AccountsAreKnown
  <2> QED
    BY <2>1, <2>4, <2>5, <2>6
<1>6. ASSUME NEW d \in Accounts, Silent(d) PROVE AccessInv'
  <2>1. /\ failed' = failed \cup {d} /\ silences' \in 0 .. MaxSilences
        /\ renewal' = [renewal EXCEPT ![d].step = "none"] /\ Verdict(d, FALSE)
        /\ UNCHANGED <<linkOf, member, truth, lately, states, callback, leaving, changes>>
    BY <1>6, <1>n DEF Silent
  <2>2. \A e \in Accounts : member[e].fresh /\ member[e].manages => lately[e]
    BY <1>t DEF ManagersAreRecent
  <2>3. FALSE \in BOOLEAN
    OBVIOUS
  <2>4. /\ check' \in [Checks -> CheckRecords] /\ renewal' \in [Accounts -> RenewalRecords]
        /\ \A e \in Accounts :
             renewal'[e].step = "writing" /\ renewal'[e].seen = "manager" => lately[e]
        /\ \A k \in Checks :
             /\ check'[k].step \in {"linked", "waiting"} => check'[k].account \in Accounts
             /\ check'[k].step = "waiting" => renewal'[check'[k].account].step # "none"
    BY <2>1, <2>3, <1>v
  <2> QED
    BY <2>1, <2>2, <2>4, <1>y, <1>u
<1>7. ASSUME NEW d \in Accounts, Writes(d) PROVE AccessInv'
  <2>1. /\ renewal[d].step = "writing" /\ member' = [member EXCEPT ![d] = Renewed(d)]
        /\ Verdict(d, member'[d].manages) /\ renewal' = [renewal EXCEPT ![d].step = "none"]
        /\ UNCHANGED <<linkOf, truth, lately, states, callback, leaving, failed, changes, silences>>
    BY <1>7 DEF Writes
  <2>2. renewal[d].seen \in Standing
    BY <1>y DEF RenewalRecords
  <2>3. Renewed(d) = NoRow \/ Renewed(d) = RowFor(renewal[d].seen)
    BY DEF Renewed
  <2>4. /\ member' \in [Accounts -> MemberRows] /\ member'[d] = Renewed(d)
        /\ \A e \in Accounts \ {d} : member'[e] = member[e]
    BY <2>1, <2>2, <2>3, <1>y, RowKinds
  <2>5. \A e \in Accounts : member'[e].fresh /\ member'[e].manages => lately[e]
    BY <2>1, <2>2, <2>3, <2>4, <1>t, RowKinds DEF ManagersAreRecent
  <2>6. member'[d].manages \in BOOLEAN
    BY <2>4 DEF MemberRows
  <2>7. /\ check' \in [Checks -> CheckRecords] /\ renewal' \in [Accounts -> RenewalRecords]
        /\ \A e \in Accounts :
             renewal'[e].step = "writing" /\ renewal'[e].seen = "manager" => lately[e]
        /\ \A k \in Checks :
             /\ check'[k].step \in {"linked", "waiting"} => check'[k].account \in Accounts
             /\ check'[k].step = "waiting" => renewal'[check'[k].account].step # "none"
    BY <2>1, <2>6, <1>v
  <2> QED
    BY <2>1, <2>4, <2>5, <2>7, <1>y, <1>u
\* The requests to the dashboard.
<1>d. ASSUME NEW k \in Checks, NEW verdict \in BOOLEAN, Decides(k, verdict)
      PROVE  /\ check' \in [Checks -> CheckRecords]
             /\ check'[k].step \in {"granted", "refused"}
             /\ check'[k].step = "granted" => verdict
             /\ \A o \in Checks \ {k} : check'[o] = check[o]
  <2>1. ASSUME NEW s \in {"granted", "refused"},
               check' = [check EXCEPT ![k] = [step |-> s, account |-> NoAccount]]
        PROVE  /\ check' \in [Checks -> CheckRecords] /\ check'[k].step = s
               /\ \A o \in Checks \ {k} : check'[o] = check[o]
    BY <2>1, <1>y DEF CheckRecords
  <2>2. CASE verdict
    BY <2>1, <2>2, <1>d DEF Decides
  <2>3. CASE ~verdict
    BY <2>1, <2>3, <1>d DEF Decides
  <2> QED
    BY <2>2, <2>3
<1>8. ASSUME NEW k \in Checks, AsksLink(k) PROVE AccessInv'
  <2>1. UNCHANGED <<linkOf, member, truth, lately, states, callback, leaving, renewal, failed,
                    changes, silences>>
    BY <1>8 DEF AsksLink
  <2>2. /\ check' \in [Checks -> CheckRecords]
        /\ check'[k].step # "waiting"
        /\ check'[k].step = "linked" => check'[k].account \in Accounts
        /\ \A o \in Checks \ {k} : check'[o] = check[o]
    <3> DEFINE let == AskerOf[k] \in Operators
    <3>1. CASE let \/ linkOf[AskerOf[k]] = NoAccount
      <4>1. let \in BOOLEAN /\ Decides(k, let)
        BY <1>8, <3>1 DEF AsksLink
      <4> HIDE DEF let
      <4> QED
        BY <4>1, <1>d
    <3>2. CASE ~(let \/ linkOf[AskerOf[k]] = NoAccount)
      <4>1. check' = [check EXCEPT ![k] = [step |-> "linked", account |-> linkOf[AskerOf[k]]]]
        BY <1>8, <3>2 DEF AsksLink
      <4>2. linkOf[AskerOf[k]] \in Accounts
        BY <3>2, <1>y, <1>m
      <4> QED
        BY <4>1, <4>2, <1>y DEF CheckRecords
    <3> QED
      BY <3>1, <3>2
  <2>3. \A o \in Checks :
          /\ check'[o].step \in {"linked", "waiting"} => check'[o].account \in Accounts
          /\ check'[o].step = "waiting" => renewal'[check'[o].account].step # "none"
    BY <2>1, <2>2, <1>y, <1>t DEF AccountsAreKnown
  <2> QED
    BY <2>1, <2>2, <2>3, <1>y, <1>t, <1>u DEF ManagersAreRecent
<1>9. ASSUME NEW k \in Checks, AsksMember(k) PROVE AccessInv'
  <2> DEFINE d == check[k].account
  <2>1. /\ UNCHANGED <<linkOf, member, truth, lately, states, callback, leaving, failed, changes,
                       silences>>
        /\ check[k].step = "linked" /\ d \in Accounts
    BY <1>9, <1>t DEF AsksMember, AccountsAreKnown
  <2>2. CASE /\ check' = [check EXCEPT ![k].step = "waiting"]
             /\ renewal' = (IF renewal[d].step = "none"
                            THEN [renewal EXCEPT ![d].step = "asking"] ELSE renewal)
    <3>1. /\ check' \in [Checks -> CheckRecords] /\ check'[k].account = d
          /\ \A o \in Checks \ {k} : check'[o] = check[o]
      BY <2>2, <1>y DEF CheckRecords
    <3>2. /\ renewal' \in [Accounts -> RenewalRecords] /\ renewal'[d].step # "none"
          /\ renewal'[d] = renewal[d] \/ renewal'[d].step = "asking"
          /\ \A e \in Accounts \ {d} : renewal'[e] = renewal[e]
      BY <2>1, <2>2, <1>y DEF RenewalRecords
    <3>3. \A e \in Accounts :
            renewal'[e].step = "writing" /\ renewal'[e].seen = "manager" => lately[e]
      BY <3>2, <1>t DEF ManagersAreRecent
    <3>4. \A o \in Checks :
            /\ check'[o].step \in {"linked", "waiting"} => check'[o].account \in Accounts
            /\ check'[o].step = "waiting" => renewal'[check'[o].account].step # "none"
      <4> SUFFICES ASSUME NEW o \in Checks
                   PROVE  /\ check'[o].step \in {"linked", "waiting"} => check'[o].account \in Accounts
                          /\ check'[o].step = "waiting" => renewal'[check'[o].account].step # "none"
        OBVIOUS
      <4>1. CASE o = k
        BY <4>1, <2>1, <3>1, <3>2
      <4>2. CASE o # k
        BY <4>2, <3>1, <3>2, <1>y, <1>t DEF AccountsAreKnown
      <4> QED
        BY <4>1, <4>2
    <3> QED
      BY <2>1, <3>1, <3>2, <3>3, <3>4, <1>y, <1>t, <1>u DEF ManagersAreRecent
  <2>3. CASE /\ Decides(k, member[d].there /\ Usable(d) /\ member[d].manages)
             /\ UNCHANGED renewal
    <3>1. (member[d].there /\ Usable(d) /\ member[d].manages) \in BOOLEAN
      OBVIOUS
    <3>2. /\ check' \in [Checks -> CheckRecords]
          /\ check'[k].step \in {"granted", "refused"}
          /\ \A o \in Checks \ {k} : check'[o] = check[o]
      BY <2>3, <3>1, <1>d
    <3>3. \A o \in Checks :
            /\ check'[o].step \in {"linked", "waiting"} => check'[o].account \in Accounts
            /\ check'[o].step = "waiting" => renewal'[check'[o].account].step # "none"
      BY <2>3, <3>2, <1>y, <1>t DEF AccountsAreKnown
    <3> QED
      BY <2>1, <2>3, <3>2, <3>3, <1>y, <1>t, <1>u DEF ManagersAreRecent
  <2> QED
    BY <1>9, <2>2, <2>3 DEF AsksMember
\* Discord, and time.
<1>10. ASSUME NEW d \in Accounts, Changes(d) PROVE AccessInv'
  <2>1. /\ changes' \in 0 .. MaxChanges
        /\ UNCHANGED <<linkOf, member, states, callback, leaving, check, renewal, failed, silences>>
    BY <1>10, <1>n DEF Changes
  <2>2. truth' \in [Accounts -> Standing] /\ \A e \in Accounts \ {d} : truth'[e] = truth[e]
    <3>1. PICK standing \in Standing : truth' = [truth EXCEPT ![d] = standing]
      BY <1>10 DEF Changes
    <3> QED
      BY <3>1, <1>y
  <2>3. /\ lately' \in [Accounts -> BOOLEAN]
        /\ lately'[d] <=> (lately[d] \/ truth'[d] = "manager")
        /\ \A e \in Accounts \ {d} : lately'[e] = lately[e]
    <3>1. (lately[d] \/ truth'[d] = "manager") \in BOOLEAN
      OBVIOUS
    <3>2. lately' = [lately EXCEPT ![d] = lately[d] \/ truth'[d] = "manager"]
      BY <1>10 DEF Changes
    <3> QED
      BY <3>1, <3>2, <1>y, Zenon
  <2>4. AccessTypeOK'
    BY <2>1, <2>2, <2>3, <1>y, <1>z
  <2>5. ManagersAreRecent'
    BY <2>1, <2>2, <2>3, <1>t DEF ManagersAreRecent
  <2> QED
    BY <2>1, <2>4, <2>5, <1>t DEF AccessInv, AccountOfOne, StateAdmitsOne, AccountsAreKnown,
       AdmittedIsSpent
<1>11. CASE FiveMinutes
  <2>1. /\ \A d \in Accounts : renewal[d].step # "writing"
        /\ \A c \in Callbacks : callback[c].step \notin {"clearing", "filling"}
        /\ UNCHANGED <<linkOf, truth, states, callback, leaving, check, renewal, failed, changes,
                       silences>>
    BY <1>11 DEF FiveMinutes, On
  <2>2. member' \in [Accounts -> MemberRows] /\ \A d \in Accounts : ~member'[d].fresh
    <3>1. \A r \in MemberRows : \A f \in BOOLEAN : /\ [r EXCEPT !.fresh = f] \in MemberRows
                                                   /\ [r EXCEPT !.fresh = f].fresh = f
      BY DEF MemberRows
    <3>2. \A r \in MemberRows : [r EXCEPT !.fresh = FALSE] \in MemberRows
                                /\ ~[r EXCEPT !.fresh = FALSE].fresh
      BY <3>1, Zenon
    <3>3. member' = [d \in Accounts |-> [member[d] EXCEPT !.fresh = FALSE]]
      BY <1>11 DEF FiveMinutes
    <3> HIDE <3>1
    <3> QED
      BY <3>2, <3>3, <1>y, Zenon
  <2>3. /\ lately' \in [Accounts -> BOOLEAN]
        /\ \A d \in Accounts : truth[d] = "manager" => lately'[d]
    BY <1>11, Zenon DEF FiveMinutes
  <2>4. AccessTypeOK'
    BY <2>1, <2>2, <2>3, <1>y, <1>z
  <2>5. ManagersAreRecent'
    BY <2>1, <2>2, <2>3 DEF ManagersAreRecent
  <2> QED
    BY <2>1, <2>4, <2>5, <1>t DEF AccessInv, AccountOfOne, StateAdmitsOne, AccountsAreKnown,
       AdmittedIsSpent
<1>12. CASE UNCHANGED accessVars
  BY <1>12, <1>t DEF accessVars, AccessInv, AccessTypeOK, AccountOfOne, StateAdmitsOne,
     ManagersAreRecent, AccountsAreKnown, AdmittedIsSpent
<1> QED
  BY <1>1, <1>2, <1>3, <1>4, <1>5, <1>6, <1>7, <1>8, <1>9, <1>10, <1>11, <1>12
     DEF AccessNext, RenewalSteps

\* A Discord account is linked to one YUME account and a state admits one redirect, in
\* whatever order the statements of redirects and of unlinking happen.
THEOREM AccessIsSafe == AccessSpec => []AccessSafe
<1>1. AccessInv => AccessSafe
  BY DEF AccessInv, AccessSafe
<1> QED
  BY <1>1, AccessStarts, AccessKeepsSafe, PTL DEF AccessSpec

\* The dashboard opens only to an operator of YUME or to a Discord account that had the
\* right within the last five minutes.
THEOREM OnlyManagersAreGranted == AccessSpec => GrantedHadRight
<1>1. AccessInv /\ [AccessNext]_accessVars
        => [\A k \in Checks : check[k].step # "granted" /\ check'[k].step = "granted"
              => Entitled(k)]_accessVars
  <2> SUFFICES ASSUME AccessInv, AccessNext, NEW k \in Checks,
                      check[k].step # "granted", check'[k].step = "granted"
               PROVE  Entitled(k)
    BY DEF accessVars
  <2>t. ManagersAreRecent /\ AccountsAreKnown /\ check \in [Checks -> CheckRecords]
        /\ renewal \in [Accounts -> RenewalRecords] /\ member \in [Accounts -> MemberRows]
    BY DEF AccessInv, AccessTypeOK, CheckRecords, RenewalRecords, MemberRows
  <2>1. check[k].step \in {"linked", "waiting"} => check[k].account \in Accounts
    BY <2>t DEF AccountsAreKnown
  <2>2. CASE check' = check
    BY <2>2
  <2>3. ASSUME NEW o \in Checks, AsksMember(o) PROVE Entitled(k)
    <3>1. CASE o = k
      <4> DEFINE d == check[k].account
      <4>1. Decides(k, member[d].there /\ Usable(d) /\ member[d].manages)
        <5>1. CASE check' = [check EXCEPT ![k].step = "waiting"]
          BY <5>1, <2>t DEF CheckRecords
        <5> QED
          BY <2>3, <3>1, <5>1 DEF AsksMember
      <4>2. member[d].there /\ Usable(d) /\ member[d].manages
        <5>1. CASE ~(member[d].there /\ Usable(d) /\ member[d].manages)
          <6>1. check'[k] = [step |-> "refused", account |-> NoAccount]
            BY <4>1, <5>1, <2>t DEF Decides
          <6> QED
            BY <6>1
        <5> QED
          BY <5>1
      <4> QED
        BY <4>2, <2>1, <2>3, <3>1, <2>t DEF ManagersAreRecent, Usable, AsksMember, Entitled
    <3>2. CASE o # k
      <4>1. check'[k] = check[k]
        BY <2>3, <3>2, <2>t DEF AsksMember, Decides
      <4> QED
        BY <4>1
    <3> QED
      BY <3>1, <3>2
  <2>4. ASSUME NEW o \in Checks, AsksLink(o) PROVE Entitled(k)
    <3>1. CASE o = k /\ AskerOf[k] \notin Operators
      <4>1. \/ check'[k] = [step |-> "refused", account |-> NoAccount]
            \/ check'[k] = [step |-> "linked", account |-> linkOf[AskerOf[k]]]
        BY <2>4, <3>1, <2>t DEF AsksLink, Decides
      <4> QED
        BY <4>1
    <3>2. CASE o # k
      <4>1. check'[k] = check[k]
        BY <2>4, <3>2, <2>t DEF AsksLink, Decides
      <4> QED
        BY <4>1
    <3> QED
      BY <3>1, <3>2 DEF Entitled
  <2>5. ASSUME NEW d \in Accounts, Writes(d) PROVE Entitled(k)
    <3>1. CASE check[k].step = "waiting" /\ check[k].account = d
      <4>1. member'[d].manages
        <5>1. CASE ~member'[d].manages
          <6>1. check'[k] = [step |-> "refused", account |-> NoAccount]
            BY <2>5, <3>1, <5>1 DEF Writes, Verdict
          <6> QED
            BY <6>1
        <5> QED
          BY <5>1
      <4>2. member'[d] = Renewed(d) /\ renewal[d].seen \in Standing
        BY <2>5, <2>t DEF Writes, RenewalRecords
      <4>3. renewal[d].seen = "manager"
        BY <4>1, <4>2, RowKinds DEF Renewed
      <4> QED
        BY <3>1, <4>3, <2>1, <2>5, <2>t DEF ManagersAreRecent, Writes, Entitled
    <3>2. CASE ~(check[k].step = "waiting" /\ check[k].account = d)
      <4>1. check'[k] = check[k]
        BY <2>5, <3>2 DEF Writes, Verdict
      <4> QED
        BY <4>1
    <3> QED
      BY <3>1, <3>2
  <2>6. ASSUME NEW d \in Accounts, Silent(d) PROVE Entitled(k)
    <3>1. check'[k] = [step |-> "refused", account |-> NoAccount] \/ check'[k] = check[k]
      BY <2>6 DEF Silent, Verdict
    <3> QED
      BY <3>1
  <2>7. CASE \E c \in Callbacks : LinkSteps(c)
    BY <2>2, <2>7 DEF LinkSteps, Consumes, LooksForOther, Links, Lists, Clears, Fills
  <2>8. CASE \E u \in Users : Unlinks(u)
    BY <2>2, <2>8 DEF Unlinks
  <2>9. CASE \E d \in Accounts : UnlinkClears(d) \/ Answers(d) \/ HalfMinute(d) \/ Changes(d)
    BY <2>2, <2>9 DEF UnlinkClears, Answers, HalfMinute, Changes
  <2>10. CASE FiveMinutes
    BY <2>2, <2>10 DEF FiveMinutes
  <2> QED
    BY <2>3, <2>4, <2>5, <2>6, <2>7, <2>8, <2>9, <2>10 DEF AccessNext, RenewalSteps
<1> QED
  BY <1>1, AccessStarts, AccessKeepsSafe, PTL DEF AccessSpec, GrantedHadRight

\* Neither a renewal that comes late nor anything else but a redirect brings a row back.
THEOREM NothingIsRevived == AccessSpec => RenewalRevivesNothing
<1>1. AccessInv /\ [AccessNext]_accessVars
        => [\A d \in Accounts : ~member[d].there /\ member'[d].there
              => \E c \in Callbacks : On(c, "filling") /\ callback[c].account = d]_accessVars
  <2> SUFFICES ASSUME AccessInv, AccessNext, NEW d \in Accounts,
                      ~member[d].there, member'[d].there
               PROVE  \E c \in Callbacks : On(c, "filling") /\ callback[c].account = d
    BY DEF accessVars
  <2>t. member \in [Accounts -> MemberRows] /\ renewal \in [Accounts -> RenewalRecords]
    BY DEF AccessInv, AccessTypeOK, MemberRows, RenewalRecords
  <2>u. member' # member
    OBVIOUS
  <2>1. ASSUME NEW c \in Callbacks, LinkSteps(c)
        PROVE  On(c, "filling") /\ callback[c].account = d
    <3>1. CASE Clears(c)
      <4>1. member'[d] = member[d] \/ member'[d] = NoRow
        BY <3>1, <2>t DEF Clears
      <4> QED
        BY <4>1, RowKinds
    <3>2. CASE Fills(c)
      <4>1. callback[c].account = d
        BY <3>2, <2>t DEF Fills
      <4> QED
        BY <3>2, <4>1 DEF Fills
    <3> QED
      BY <2>1, <2>u, <3>1, <3>2 DEF LinkSteps, Consumes, LooksForOther, Links, Lists
  <2>2. ASSUME NEW e \in Accounts, UnlinkClears(e) \/ Writes(e) PROVE FALSE
    <3>1. member'[d] = member[d] \/ member'[d] = NoRow
      <4>1. CASE UnlinkClears(e)
        BY <4>1, <2>t DEF UnlinkClears
      <4>2. CASE Writes(e)
        BY <4>2, <2>t DEF Writes, Renewed
      <4> QED
        BY <2>2, <4>1, <4>2
    <3> QED
      BY <3>1, RowKinds
  <2>3. CASE FiveMinutes
    <3>1. member'[d] = [member[d] EXCEPT !.fresh = FALSE]
      BY <2>3 DEF FiveMinutes
    <3>2. member'[d].there = member[d].there
      BY <3>1, <2>t DEF MemberRows
    <3> QED
      BY <3>2
  <2> QED
    BY <2>1, <2>2, <2>3, <2>u DEF AccessNext, RenewalSteps, Unlinks, Answers, Silent,
       HalfMinute, Changes, AsksLink, AsksMember
<1> QED
  BY <1>1, AccessStarts, AccessKeepsSafe, PTL DEF AccessSpec, RenewalRevivesNothing

----------------------------------------------------------------------------
(* The tabs of one browser. *)

Saving(t) == refresh[t].step \in {"fresh", "reading"}
NoneLive == \A n \in Numbers : ~LiveSession(n)

\* Calls that have had their one refresh, and tabs that may still trade a cookie.
Spent == {c \in Calls : request[c].step \in {"waiting", "done"} \/ request[c].again}
Exchanging == {t \in Tabs : refresh[t].step \in {"queued", "sent", "pausing"}}

\* One session is live at most, and none after one was ended.
OneLives ==
  /\ \A m, n \in Numbers : LiveSession(m) /\ LiveSession(n) => m = n
  /\ \A n \in Numbers \ {0} : sessions[n] = "ended" => NoneLive

\* The numbers in use are the first k, and there are enough of them: each call leads to
\* one refresh at most, and each refresh to one new number.
UsedUpTo(k) ==
  /\ \A n \in Numbers \ {0} : sessions[n] # "none" <=> n <= k
  /\ stored <= k /\ cookie <= k
  /\ \A c \in Calls : request[c].token <= k
  /\ \A t \in Tabs : refresh[t].stale <= k /\ refresh[t].cookie <= k
  /\ \A n \in Numbers : replacements[n] > 0 => n <= k
  /\ k + Cardinality(Exchanging) <= 1 + Cardinality(Spent)
NumbersSuffice == \E k \in Numbers \ {0} : UsedUpTo(k)

\* A token that is about to be stored is known to its own tab only.
SavesAreNew ==
  \A t \in Tabs : Saving(t) =>
    /\ refresh[t].cookie # 0 /\ stored # refresh[t].cookie
    /\ replacements[refresh[t].cookie] = 0
    /\ \A u \in Tabs : refresh[u].stale # refresh[t].cookie
    /\ \A c \in Calls : request[c].token # refresh[t].cookie
    /\ \A u \in Tabs \ {t} : Saving(u) => refresh[u].cookie # refresh[t].cookie

\* A cookie on its way to the browser is the live one, and nobody can present it.
FreshIsUnseen ==
  \A t \in Tabs : At(t, "fresh") =>
    /\ sessions[refresh[t].cookie] \in {"live", "ended"}
    /\ cookie # refresh[t].cookie
    /\ \A u \in Tabs : At(u, "sent") => refresh[u].cookie # refresh[t].cookie
    /\ \A n \in Numbers : LiveSession(n) => n = refresh[t].cookie

\* Who queues does so for a lock; a cookie is cleared only where there is no session;
\* only a logout revokes.
StepsAreDue ==
  /\ \A t \in Tabs : At(t, "queued") => webLocks
  /\ \A t \in Tabs : At(t, "cleared") => NoneLive
  /\ \A c \in Logouts : request[c].step \notin {"idle", "done"} => fate.wished
  /\ \A c \in Calls : request[c].step \in {"revoking", "ok"} => c \in Logouts
  /\ \A c \in Calls : request[c].step = "revoking" => request[c].token # 0
  /\ \A c \in Calls : request[c].step = "idle" => ~request[c].again

\* Without a loss the browser has the newest cookie, or a tab is about to give it one.
NothingLost ==
  lost = 0 =>
    /\ \A n \in Numbers \ {0} : sessions[n] # "replayable"
    /\ ~fate.alarm
    /\ cookie # 0 /\ sessions[cookie] = "rotated" => \E t \in Tabs : At(t, "fresh")
    /\ ~fate.wished => \A n \in Numbers : LiveSession(n) =>
         n = cookie \/ \E t \in Tabs : At(t, "fresh") /\ refresh[t].cookie = n

\* Where nobody ended the session a tab that fails leaves the saving to another one.
Calm ==
  lost = 0 /\ ~fate.elsewhere /\ ~fate.wished =>
    /\ ~NoneLive /\ cookie # 0
    /\ \A t \in Tabs : At(t, "sent") => refresh[t].cookie # 0
    /\ stored # 0 \/ \E t \in Tabs : Saving(t)
    /\ \A u \in Tabs :
         /\ stored = refresh[u].stale
         /\ At(u, "failed") \/ (At(u, "sent") /\ sessions[refresh[u].cookie] = "rotated")
         => \E t \in Tabs : Saving(t)

\* Under the lock one tab exchanges; where nothing was lost, with the cookie the browser
\* has, for a token that was not traded before.
LockHeld ==
  webLocks =>
    /\ \A t \in Tabs : refresh[t].step \notin {"none", "queued"} => holder = t
    /\ \A t \in Tabs : Saving(t) => \A n \in Numbers : LiveSession(n) => n = refresh[t].cookie

TradedOnce ==
  webLocks /\ lost = 0 /\ ~fate.wished =>
    /\ \A t \in Tabs : At(t, "sent") => refresh[t].cookie = cookie
    /\ \A t \in Tabs : ~At(t, "pausing")
    /\ \A t \in Tabs : At(t, "failed") => NoneLive
    /\ stored = 0 => NoneLive
    /\ \A n \in Numbers \ {0} : replacements[n] > 0 =>
         n # stored \/ \E t \in Tabs : Saving(t) /\ refresh[t].stale = n
    /\ \A t \in Tabs : At(t, "sent") /\ refresh[t].stale # 0 =>
         replacements[refresh[t].stale] = 0 \/ NoneLive
    /\ \A n \in Numbers \ {0} : replacements[n] <= 1

\* After a logout that revoked the live session no tab is about to store another.
LogoutHolds ==
  ~fate.crossed =>
    /\ fate.out \/ (\E c \in Calls : Is(c, "ok")) =>
         NoneLive /\ (webLocks => \A t \in Tabs : ~Saving(t))
    /\ fate.out /\ webLocks => stored = 0

TabsInv ==
  /\ TabsTypeOK /\ OneLives /\ NumbersSuffice /\ SavesAreNew /\ FreshIsUnseen
  /\ StepsAreDue /\ NothingLost /\ Calm /\ LockHeld /\ TradedOnce /\ LogoutHolds

RequestStates == {"idle", "sent", "revoking", "ok", "unauthorized", "waiting", "done"}
RequestRecords == [step : RequestStates, token : Numbers, again : BOOLEAN]
RefreshStates == {"none", "queued", "sent", "fresh", "reading", "pausing", "cleared", "failed"}
RefreshRecords == [step : RefreshStates, stale : Numbers, cookie : Numbers, again : BOOLEAN]
SessionStates == {"none", "live", "rotated", "replayable", "ended"}

LEMMA NumbersAre ==
  /\ Cardinality(Calls) \in Nat /\ 0 \in Numbers /\ 1 \in Numbers
  /\ \A n : n \in Numbers <=> n \in Nat /\ n <= Cardinality(Calls) + 1
<1>1. Cardinality(Calls) \in Nat
  BY TabsAssumption, FS_CardinalityType
<1> QED
  BY <1>1 DEF Numbers

\* The records of requests and refreshes, and what an assignment to a field leaves.
LEMMA RequestKinds ==
  /\ \A s \in RequestStates, n \in Numbers, b \in BOOLEAN :
       /\ [step |-> s, token |-> n, again |-> b] \in RequestRecords
       /\ [step |-> s, token |-> n, again |-> b].step = s
       /\ [step |-> s, token |-> n, again |-> b].token = n
       /\ [step |-> s, token |-> n, again |-> b].again = b
  /\ \A r \in RequestRecords, s \in RequestStates :
       /\ [r EXCEPT !.step = s] \in RequestRecords
       /\ [r EXCEPT !.step = s].step = s /\ [r EXCEPT !.step = s].token = r.token
       /\ [r EXCEPT !.step = s].again = r.again
  /\ \A r \in RequestRecords, s \in RequestStates, b \in BOOLEAN :
       /\ [r EXCEPT !.step = s, !.again = b] \in RequestRecords
       /\ [r EXCEPT !.step = s, !.again = b].step = s
       /\ [r EXCEPT !.step = s, !.again = b].token = r.token
       /\ [r EXCEPT !.step = s, !.again = b].again = b
<1>1. \A s \in RequestStates, n \in Numbers, b \in BOOLEAN :
       /\ [step |-> s, token |-> n, again |-> b] \in RequestRecords
       /\ [step |-> s, token |-> n, again |-> b].step = s
       /\ [step |-> s, token |-> n, again |-> b].token = n
       /\ [step |-> s, token |-> n, again |-> b].again = b
  BY DEF RequestRecords
<1>2. \A r \in RequestRecords, s \in RequestStates :
       /\ [r EXCEPT !.step = s] \in RequestRecords
       /\ [r EXCEPT !.step = s].step = s /\ [r EXCEPT !.step = s].token = r.token
       /\ [r EXCEPT !.step = s].again = r.again
  BY DEF RequestRecords
<1>3. \A r \in RequestRecords, s \in RequestStates, b \in BOOLEAN :
       /\ [r EXCEPT !.step = s, !.again = b] \in RequestRecords
       /\ [r EXCEPT !.step = s, !.again = b].step = s
       /\ [r EXCEPT !.step = s, !.again = b].token = r.token
       /\ [r EXCEPT !.step = s, !.again = b].again = b
  BY DEF RequestRecords
<1> QED
  BY <1>1, <1>2, <1>3

LEMMA RefreshKinds ==
  /\ NoRefresh \in RefreshRecords /\ NoRefresh.step = "none"
  /\ NoRefresh.stale = 0 /\ NoRefresh.cookie = 0
  /\ \A r \in RefreshRecords, s \in RefreshStates :
       /\ [r EXCEPT !.step = s] \in RefreshRecords
       /\ [r EXCEPT !.step = s].step = s /\ [r EXCEPT !.step = s].stale = r.stale
       /\ [r EXCEPT !.step = s].cookie = r.cookie
  /\ \A r \in RefreshRecords, s \in RefreshStates, n \in Numbers :
       /\ [r EXCEPT !.step = s, !.cookie = n] \in RefreshRecords
       /\ [r EXCEPT !.step = s, !.cookie = n].step = s
       /\ [r EXCEPT !.step = s, !.cookie = n].stale = r.stale
       /\ [r EXCEPT !.step = s, !.cookie = n].cookie = n
  /\ \A r \in RefreshRecords, s \in RefreshStates, m \in Numbers, n \in Numbers :
       /\ [r EXCEPT !.step = s, !.stale = m, !.cookie = n] \in RefreshRecords
       /\ [r EXCEPT !.step = s, !.stale = m, !.cookie = n].step = s
       /\ [r EXCEPT !.step = s, !.stale = m, !.cookie = n].stale = m
       /\ [r EXCEPT !.step = s, !.stale = m, !.cookie = n].cookie = n
  /\ \A r \in RefreshRecords, s \in RefreshStates, n \in Numbers, b \in BOOLEAN :
       /\ [r EXCEPT !.step = s, !.cookie = n, !.again = b] \in RefreshRecords
       /\ [r EXCEPT !.step = s, !.cookie = n, !.again = b].step = s
       /\ [r EXCEPT !.step = s, !.cookie = n, !.again = b].stale = r.stale
       /\ [r EXCEPT !.step = s, !.cookie = n, !.again = b].cookie = n
<1>1. FALSE \in BOOLEAN /\ 0 \in Numbers /\ "none" \in RefreshStates
  BY NumbersAre DEF RefreshStates
<1>2. NoRefresh \in RefreshRecords /\ NoRefresh.step = "none"
      /\ NoRefresh.stale = 0 /\ NoRefresh.cookie = 0
  BY <1>1, Zenon DEF NoRefresh, RefreshRecords
<1>3. \A r \in RefreshRecords, s \in RefreshStates :
       /\ [r EXCEPT !.step = s] \in RefreshRecords
       /\ [r EXCEPT !.step = s].step = s /\ [r EXCEPT !.step = s].stale = r.stale
       /\ [r EXCEPT !.step = s].cookie = r.cookie
  BY DEF RefreshRecords
<1>4. \A r \in RefreshRecords, s \in RefreshStates, n \in Numbers :
       /\ [r EXCEPT !.step = s, !.cookie = n] \in RefreshRecords
       /\ [r EXCEPT !.step = s, !.cookie = n].step = s
       /\ [r EXCEPT !.step = s, !.cookie = n].stale = r.stale
       /\ [r EXCEPT !.step = s, !.cookie = n].cookie = n
  BY DEF RefreshRecords
<1>5. \A r \in RefreshRecords, s \in RefreshStates, m \in Numbers, n \in Numbers :
       /\ [r EXCEPT !.step = s, !.stale = m, !.cookie = n] \in RefreshRecords
       /\ [r EXCEPT !.step = s, !.stale = m, !.cookie = n].step = s
       /\ [r EXCEPT !.step = s, !.stale = m, !.cookie = n].stale = m
       /\ [r EXCEPT !.step = s, !.stale = m, !.cookie = n].cookie = n
  BY DEF RefreshRecords
<1>6. \A r \in RefreshRecords, s \in RefreshStates, n \in Numbers, b \in BOOLEAN :
       /\ [r EXCEPT !.step = s, !.cookie = n, !.again = b] \in RefreshRecords
       /\ [r EXCEPT !.step = s, !.cookie = n, !.again = b].step = s
       /\ [r EXCEPT !.step = s, !.cookie = n, !.again = b].stale = r.stale
       /\ [r EXCEPT !.step = s, !.cookie = n, !.again = b].cookie = n
  BY ZenonT(40) DEF RefreshRecords
<1> QED
  BY <1>2, <1>3, <1>4, <1>5, <1>6

\* The history of what ended the session, and what an assignment to a part leaves.
LEMMA FateKinds ==
  \A f \in Fate, b \in BOOLEAN :
    /\ f.wished \in BOOLEAN /\ f.alarm \in BOOLEAN /\ f.crossed \in BOOLEAN
    /\ [f EXCEPT !.wished = b] \in Fate /\ [f EXCEPT !.wished = b].wished = b
    /\ [f EXCEPT !.wished = b].alarm = f.alarm /\ [f EXCEPT !.wished = b].out = f.out
    /\ [f EXCEPT !.wished = b].elsewhere = f.elsewhere
    /\ [f EXCEPT !.wished = b].crossed = f.crossed
    /\ [f EXCEPT !.alarm = b] \in Fate /\ [f EXCEPT !.alarm = b].alarm = b
    /\ [f EXCEPT !.alarm = b].wished = f.wished /\ [f EXCEPT !.alarm = b].out = f.out
    /\ [f EXCEPT !.alarm = b].elsewhere = f.elsewhere
    /\ [f EXCEPT !.alarm = b].crossed = f.crossed
    /\ [f EXCEPT !.out = b] \in Fate /\ [f EXCEPT !.out = b].out = b
    /\ [f EXCEPT !.out = b].wished = f.wished /\ [f EXCEPT !.out = b].alarm = f.alarm
    /\ [f EXCEPT !.out = b].elsewhere = f.elsewhere
    /\ [f EXCEPT !.out = b].crossed = f.crossed
    /\ [f EXCEPT !.crossed = b] \in Fate /\ [f EXCEPT !.crossed = b].crossed = b
    /\ [f EXCEPT !.crossed = b].wished = f.wished /\ [f EXCEPT !.crossed = b].alarm = f.alarm
    /\ [f EXCEPT !.crossed = b].elsewhere = f.elsewhere
    /\ [f EXCEPT !.crossed = b].out = f.out
    /\ [f EXCEPT !.elsewhere = b] \in Fate /\ [f EXCEPT !.elsewhere = b].elsewhere = b
    /\ [f EXCEPT !.elsewhere = b].wished = f.wished
    /\ [f EXCEPT !.elsewhere = b].alarm = f.alarm
    /\ [f EXCEPT !.elsewhere = b].crossed = f.crossed
    /\ [f EXCEPT !.elsewhere = b].out = f.out
  BY DEF Fate

LEMMA TabsStart == TabsInit => TabsInv
<1> SUFFICES ASSUME TabsInit PROVE TabsInv
  OBVIOUS
<1>n. Cardinality(Calls) \in Nat /\ 0 \in Numbers /\ 1 \in Numbers
      /\ \A n : n \in Numbers <=> n \in Nat /\ n <= Cardinality(Calls) + 1
  BY NumbersAre
<1>1. /\ stored = 1 /\ cookie = 1 /\ lost = 0 /\ expired = {} /\ holder = "nobody"
      /\ sessions = [n \in Numbers \ {0} |-> IF n = 1 THEN "live" ELSE "none"]
      /\ replacements = [n \in Numbers |-> 0] /\ webLocks \in BOOLEAN
  BY DEF TabsInit
<1>2. \A n \in Numbers \ {0} : sessions[n] = (IF n = 1 THEN "live" ELSE "none")
  BY <1>1
<1>3. /\ request \in [Calls -> RequestRecords]
      /\ \A c \in Calls : request[c].step = "idle" /\ request[c].token = 0 /\ ~request[c].again
  <2>1. "idle" \in RequestStates /\ FALSE \in BOOLEAN /\ 0 \in Numbers
    BY <1>n DEF RequestStates
  <2> QED
    BY <2>1, Zenon DEF TabsInit, RequestRecords
<1>4. /\ refresh \in [Tabs -> RefreshRecords]
      /\ \A t \in Tabs : refresh[t].step = "none" /\ refresh[t].stale = 0 /\ refresh[t].cookie = 0
  BY RefreshKinds DEF TabsInit
<1>5. fate \in Fate /\ ~fate.alarm /\ ~fate.out
  <2>1. FALSE \in BOOLEAN
    OBVIOUS
  <2> QED
    BY <2>1, Zenon DEF TabsInit, Fate
<1>6. TabsTypeOK
  <2>1. sessions \in [Numbers \ {0} -> SessionStates] /\ replacements \in [Numbers -> Nat]
    BY <1>1 DEF SessionStates
  <2>2. lost \in 0 .. MaxLost
    BY <1>1, TabsAssumption
  <2> QED
    BY <1>1, <1>3, <1>4, <1>5, <1>n, <2>1, <2>2 DEF TabsTypeOK, RequestRecords, RequestStates,
       RefreshRecords, RefreshStates, SessionStates
<1>7. OneLives
  BY <1>2, <1>n DEF OneLives, LiveSession, NoneLive
<1>8. NumbersSuffice
  <2>1. Exchanging = {} /\ Spent = {}
    BY <1>3, <1>4 DEF Exchanging, Spent
  <2>2. Cardinality(Exchanging) = 0 /\ Cardinality(Spent) = 0
    BY <2>1, FS_EmptySet
  <2>3. \A n \in Numbers \ {0} : sessions[n] # "none" <=> n <= 1
    BY <1>2, <1>n
  <2>4. UsedUpTo(1)
    BY <1>1, <1>3, <1>4, <2>2, <2>3, <1>n DEF UsedUpTo
  <2> QED
    BY <2>4, <1>n DEF NumbersSuffice
<1>9. SavesAreNew /\ FreshIsUnseen
  BY <1>4 DEF SavesAreNew, FreshIsUnseen, Saving, At
<1>10. StepsAreDue
  BY <1>3, <1>4 DEF StepsAreDue, At, Calls
<1>11. LiveSession(1) /\ ~NoneLive /\ \A n \in Numbers : LiveSession(n) => n = 1
  BY <1>2, <1>n DEF LiveSession, NoneLive
<1>12. NothingLost
  BY <1>1, <1>2, <1>5, <1>11, <1>n DEF NothingLost
<1>13. Calm
  BY <1>1, <1>2, <1>4, <1>11, <1>n DEF Calm, At
<1>14. LockHeld /\ TradedOnce
  BY <1>1, <1>4, <1>n DEF LockHeld, TradedOnce, At, Saving
<1>15. LogoutHolds
  BY <1>3, <1>5 DEF LogoutHolds, Is
<1> QED
  BY <1>6, <1>7, <1>8, <1>9, <1>10, <1>12, <1>13, <1>14, <1>15 DEF TabsInv

LEMMA TabsKeepSafe == TabsInv /\ TabsNext => TabsInv'
<1> SUFFICES ASSUME TabsInv, TabsNext PROVE TabsInv'
  OBVIOUS
<1>n. Cardinality(Calls) \in Nat /\ 0 \in Numbers /\ 1 \in Numbers
      /\ \A n : n \in Numbers <=> n \in Nat /\ n <= Cardinality(Calls) + 1
  BY NumbersAre
<1>t. /\ TabsTypeOK /\ OneLives /\ NumbersSuffice /\ SavesAreNew /\ FreshIsUnseen
      /\ StepsAreDue /\ NothingLost /\ Calm /\ LockHeld /\ TradedOnce /\ LogoutHolds
  BY DEF TabsInv
<1>y. /\ webLocks \in BOOLEAN /\ stored \in Numbers /\ cookie \in Numbers
      /\ sessions \in [Numbers \ {0} -> SessionStates] /\ expired \subseteq Numbers
      /\ request \in [Calls -> RequestRecords] /\ refresh \in [Tabs -> RefreshRecords]
      /\ holder \in Tabs \cup {"nobody"}
      /\ holder # "nobody" => webLocks /\ refresh[holder].step \notin {"none", "queued"}
      /\ replacements \in [Numbers -> Nat] /\ fate \in Fate /\ lost \in 0 .. MaxLost
  BY <1>t DEF TabsTypeOK, RequestRecords, RequestStates, RefreshRecords, RefreshStates,
     SessionStates
<1>w. /\ \A c \in Calls : request[c] \in RequestRecords /\ request[c].step \in RequestStates
           /\ request[c].token \in Numbers
      /\ \A t \in Tabs : refresh[t] \in RefreshRecords /\ refresh[t].step \in RefreshStates
           /\ refresh[t].stale \in Numbers /\ refresh[t].cookie \in Numbers
  <2>1. \A r \in RequestRecords : r.step \in RequestStates /\ r.token \in Numbers
    BY DEF RequestRecords
  <2>2. \A r \in RefreshRecords : r.step \in RefreshStates /\ r.stale \in Numbers
          /\ r.cookie \in Numbers
    BY DEF RefreshRecords
  <2> QED
    BY <1>y, <2>1, <2>2
<1>z. ASSUME webLocks' \in BOOLEAN, stored' \in Numbers, cookie' \in Numbers,
        sessions' \in [Numbers \ {0} -> SessionStates], expired' \subseteq Numbers,
        request' \in [Calls -> RequestRecords], refresh' \in [Tabs -> RefreshRecords],
        holder' \in Tabs \cup {"nobody"},
        holder' # "nobody" => webLocks' /\ refresh'[holder'].step \notin {"none", "queued"},
        replacements' \in [Numbers -> Nat], fate' \in Fate, lost' \in 0 .. MaxLost
      PROVE  TabsTypeOK'
  BY <1>z DEF TabsTypeOK, RequestRecords, RequestStates, RefreshRecords, RefreshStates,
     SessionStates
<1>s. ASSUME TabsTypeOK', OneLives', NumbersSuffice', SavesAreNew', FreshIsUnseen',
        StepsAreDue', NothingLost', Calm', LockHeld', TradedOnce', LogoutHolds'
      PROVE  TabsInv'
  BY <1>s DEF TabsInv
<1>f. /\ IsFiniteSet(Spent) /\ Cardinality(Spent) \in Nat
      /\ Cardinality(Spent) <= Cardinality(Calls)
      /\ IsFiniteSet(Spent') /\ Cardinality(Spent') \in Nat
      /\ IsFiniteSet(Exchanging) /\ Cardinality(Exchanging) \in Nat
      /\ IsFiniteSet(Exchanging') /\ Cardinality(Exchanging') \in Nat
  <2>1. IsFiniteSet(Calls) /\ IsFiniteSet(Tabs)
    BY TabsAssumption
  <2>2. Spent \subseteq Calls /\ Spent' \subseteq Calls
    BY DEF Spent
  <2>3. Exchanging \subseteq Tabs /\ Exchanging' \subseteq Tabs
    BY DEF Exchanging
  <2>4. IsFiniteSet(Spent) /\ Cardinality(Spent) <= Cardinality(Calls)
    BY <2>1, <2>2, FS_Subset
  <2>5. IsFiniteSet(Spent') /\ IsFiniteSet(Exchanging) /\ IsFiniteSet(Exchanging')
    BY <2>1, <2>2, <2>3, FS_Subset
  <2> QED
    BY <2>4, <2>5, FS_CardinalityType
<1>u. PICK k \in Numbers \ {0} : UsedUpTo(k)
  BY <1>t DEF NumbersSuffice
<1>k. /\ k \in Nat /\ k # 0
      /\ \A n \in Numbers \ {0} : sessions[n] # "none" <=> n <= k
      /\ stored <= k /\ cookie <= k
      /\ \A c \in Calls : request[c].token <= k
      /\ \A t \in Tabs : refresh[t].stale <= k /\ refresh[t].cookie <= k
      /\ \A n \in Numbers : replacements[n] > 0 => n <= k
      /\ k + Cardinality(Exchanging) <= 1 + Cardinality(Spent)
  BY <1>u, <1>n DEF UsedUpTo
<1>m. ASSUME \A n \in Numbers \ {0} : sessions'[n] # "none" <=> sessions[n] # "none",
             stored' <= k, cookie' <= k, \A c \in Calls : request'[c].token <= k,
             \A t \in Tabs : refresh'[t].stale <= k /\ refresh'[t].cookie <= k,
             replacements' = replacements,
             Cardinality(Exchanging') + Cardinality(Spent)
               <= Cardinality(Exchanging) + Cardinality(Spent')
      PROVE  NumbersSuffice'
  <2>1. k + Cardinality(Exchanging') <= 1 + Cardinality(Spent')
    BY <1>m, <1>f, <1>k
  <2>2. UsedUpTo(k)'
    BY <1>m, <1>k, <2>1 DEF UsedUpTo
  <2> QED
    BY <2>2, <1>u DEF NumbersSuffice
\* The numbers where no tab begins to exchange.
<1>c. ASSUME \A n \in Numbers \ {0} : sessions'[n] # "none" <=> sessions[n] # "none",
             stored' <= k, cookie' <= k, \A c \in Calls : request'[c].token <= k,
             \A t \in Tabs : refresh'[t].stale <= k /\ refresh'[t].cookie <= k,
             replacements' = replacements,
             Exchanging' \subseteq Exchanging, Spent \subseteq Spent'
      PROVE  NumbersSuffice'
  <2>1. Cardinality(Exchanging') <= Cardinality(Exchanging)
    BY <1>c, <1>f, FS_Subset
  <2>2. Cardinality(Spent) <= Cardinality(Spent')
    BY <1>c, <1>f, FS_Subset
  <2>3. Cardinality(Exchanging') + Cardinality(Spent)
               <= Cardinality(Exchanging) + Cardinality(Spent')
    BY <2>1, <2>2, <1>f
  <2> QED
    BY <1>c, <1>m, <2>3
\* What the browser's calls do, where they start no refresh.
<1>q. ASSUME UNCHANGED <<webLocks, stored, cookie, sessions, refresh, holder, replacements, lost>>,
             expired' \subseteq Numbers, request' \in [Calls -> RequestRecords], fate' \in Fate,
             fate'.alarm = fate.alarm, fate'.elsewhere = fate.elsewhere, fate'.out = fate.out,
             fate'.crossed = fate.crossed, fate.wished => fate'.wished,
             \A d \in Calls : request'[d].token \in {request[d].token, stored, 0},
             \A d \in Calls : request'[d].step = "ok" => request[d].step = "ok",
             StepsAreDue', Spent \subseteq Spent'
      PROVE  TabsInv'
  <2>1. TabsTypeOK'
    BY <1>q, <1>y, <1>z
  <2>2. OneLives' /\ FreshIsUnseen'
    BY <1>q, <1>t DEF OneLives, NoneLive, LiveSession, FreshIsUnseen, At
  <2>3. NumbersSuffice'
    <3>1. \A d \in Calls : request'[d].token <= k
      BY <1>q, <1>k, <1>w, <1>n
    <3>2. Exchanging' \subseteq Exchanging
      BY <1>q DEF Exchanging
    <3> QED
      BY <1>c, <1>q, <1>k, <3>1, <3>2
  <2>4. SavesAreNew'
    BY <1>q, <1>t DEF SavesAreNew, Saving
  <2>5. NothingLost' /\ Calm'
    BY <1>q, <1>t DEF NothingLost, Calm, NoneLive, LiveSession, At, Saving
  <2>6. LockHeld' /\ TradedOnce'
    BY <1>q, <1>t DEF LockHeld, TradedOnce, NoneLive, LiveSession, At, Saving
  <2>7. LogoutHolds'
    BY <1>q, <1>t DEF LogoutHolds, NoneLive, LiveSession, Is, Saving
  <2> QED
    BY <1>q, <1>s, <2>1, <2>2, <2>3, <2>4, <2>5, <2>6, <2>7
\* The history, whatever is assigned to a part of it.
<1>v. \A b \in BOOLEAN :
     /\ fate.wished \in BOOLEAN /\ fate.alarm \in BOOLEAN /\ fate.crossed \in BOOLEAN
     /\ [fate EXCEPT !.wished = b] \in Fate /\ [fate EXCEPT !.wished = b].wished = b
     /\ [fate EXCEPT !.wished = b].alarm = fate.alarm /\ [fate EXCEPT !.wished = b].out = fate.out
     /\ [fate EXCEPT !.wished = b].elsewhere = fate.elsewhere
     /\ [fate EXCEPT !.wished = b].crossed = fate.crossed
     /\ [fate EXCEPT !.alarm = b] \in Fate /\ [fate EXCEPT !.alarm = b].alarm = b
     /\ [fate EXCEPT !.alarm = b].wished = fate.wished /\ [fate EXCEPT !.alarm = b].out = fate.out
     /\ [fate EXCEPT !.alarm = b].elsewhere = fate.elsewhere
     /\ [fate EXCEPT !.alarm = b].crossed = fate.crossed
     /\ [fate EXCEPT !.out = b] \in Fate /\ [fate EXCEPT !.out = b].out = b
     /\ [fate EXCEPT !.out = b].wished = fate.wished /\ [fate EXCEPT !.out = b].alarm = fate.alarm
     /\ [fate EXCEPT !.out = b].elsewhere = fate.elsewhere
     /\ [fate EXCEPT !.out = b].crossed = fate.crossed
     /\ [fate EXCEPT !.crossed = b] \in Fate /\ [fate EXCEPT !.crossed = b].crossed = b
     /\ [fate EXCEPT !.crossed = b].wished = fate.wished /\ [fate EXCEPT !.crossed = b].alarm = fate.alarm
     /\ [fate EXCEPT !.crossed = b].elsewhere = fate.elsewhere
     /\ [fate EXCEPT !.crossed = b].out = fate.out
     /\ [fate EXCEPT !.elsewhere = b] \in Fate /\ [fate EXCEPT !.elsewhere = b].elsewhere = b
     /\ [fate EXCEPT !.elsewhere = b].wished = fate.wished
     /\ [fate EXCEPT !.elsewhere = b].alarm = fate.alarm
     /\ [fate EXCEPT !.elsewhere = b].crossed = fate.crossed
     /\ [fate EXCEPT !.elsewhere = b].out = fate.out
  BY <1>y, FateKinds, Zenon
\* The records of one call and of one tab, whatever is assigned to their parts.
<1>x. ASSUME NEW c \in Calls, NEW s \in RequestStates
      PROVE  /\ [request[c] EXCEPT !.step = s] \in RequestRecords
             /\ [request[c] EXCEPT !.step = s].step = s
             /\ [request[c] EXCEPT !.step = s].token = request[c].token
             /\ [request[c] EXCEPT !.step = s].again = request[c].again
  <2>1. \A r \in RequestRecords :
          /\ [r EXCEPT !.step = s] \in RequestRecords
          /\ [r EXCEPT !.step = s].step = s /\ [r EXCEPT !.step = s].token = r.token
          /\ [r EXCEPT !.step = s].again = r.again
    BY DEF RequestRecords
  <2> QED
    BY <2>1, <1>w, Zenon
<1>i. ASSUME NEW t \in Tabs, NEW r \in RefreshRecords, refresh' = [refresh EXCEPT ![t] = r]
      PROVE  /\ refresh' \in [Tabs -> RefreshRecords] /\ refresh'[t] = r
             /\ \A u \in Tabs \ {t} : refresh'[u] = refresh[u]
  BY <1>i, <1>y
\* What one call's step leaves of the others.
<1>e. ASSUME NEW c \in Calls, NEW r \in RequestRecords, request' = [request EXCEPT ![c] = r]
      PROVE  /\ request' \in [Calls -> RequestRecords] /\ request'[c] = r
             /\ \A d \in Calls \ {c} : request'[d] = request[d]
  BY <1>e, <1>y
<1>d. /\ Finished \in RequestRecords /\ Finished.step = "done" /\ Finished.token = 0
      /\ ~Finished.again
  <2>1. "done" \in RequestStates /\ FALSE \in BOOLEAN
    BY DEF RequestStates
  <2> QED
    BY <2>1, <1>n, Zenon DEF Finished, RequestRecords
\* Only a logout revokes, after a call's step that leaves the refreshes' part alone.
<1>h. ASSUME NEW c \in Calls, NEW r \in RequestRecords, request' = [request EXCEPT ![c] = r],
             fate.wished => fate'.wished, r.step # "idle",
             r.step \in {"revoking", "ok"} => c \in Logouts,
             r.step = "revoking" => r.token # 0, c \in Logouts /\ r.step # "done" => fate'.wished
      PROVE  /\ \A d \in Logouts : request'[d].step \notin {"idle", "done"} => fate'.wished
             /\ \A d \in Calls : request'[d].step \in {"revoking", "ok"} => d \in Logouts
             /\ \A d \in Calls : request'[d].step = "revoking" => request'[d].token # 0
             /\ \A d \in Calls : request'[d].step = "idle" => ~request'[d].again
  <2>1. /\ request' \in [Calls -> RequestRecords] /\ request'[c] = r
        /\ \A d \in Calls \ {c} : request'[d] = request[d]
    BY <1>h, <1>e
  <2>2. \A d \in Logouts : request'[d].step \notin {"idle", "done"} => fate'.wished
    <3>1. ASSUME NEW d \in Logouts, d # c, request'[d].step \notin {"idle", "done"}
          PROVE  fate'.wished
      <4>1. d \in Calls
        BY DEF Calls
      <4>2. request[d].step \notin {"idle", "done"}
        BY <2>1, <3>1, <4>1
      <4>3. fate.wished
        BY <4>2, <1>t DEF StepsAreDue
      <4> QED
        BY <4>3, <1>h
    <3>2. c \in Logouts /\ request'[c].step # "done" => fate'.wished
      BY <1>h, <2>1
    <3> QED
      BY <3>1, <3>2
  <2>3. \A d \in Calls : request'[d].step \in {"revoking", "ok"} => d \in Logouts
    BY <1>h, <2>1, <1>t DEF StepsAreDue
  <2>4. \A d \in Calls : request'[d].step = "revoking" => request'[d].token # 0
    BY <1>h, <2>1, <1>t DEF StepsAreDue
  <2>5. \A d \in Calls : request'[d].step = "idle" => ~request'[d].again
    BY <1>h, <2>1, <1>t DEF StepsAreDue
  <2> QED
    BY <2>2, <2>3, <2>4, <2>5
\* A call's step that starts no refresh, in terms of the call alone.
<1>o. ASSUME NEW c \in Calls, NEW r \in RequestRecords, request' = [request EXCEPT ![c] = r],
             UNCHANGED <<webLocks, stored, cookie, sessions, expired, refresh, holder,
                         replacements, lost>>,
             fate' \in Fate, fate'.alarm = fate.alarm, fate'.elsewhere = fate.elsewhere,
             fate'.out = fate.out, fate'.crossed = fate.crossed, fate.wished => fate'.wished,
             r.token \in {request[c].token, stored, 0},
             r.step \notin {"ok", "idle"}, r.step = "revoking" => c \in Logouts /\ r.token # 0,
             c \in Logouts /\ r.step # "done" => fate'.wished,
             c \in Spent => r.step \in {"waiting", "done"} \/ r.again
      PROVE  TabsInv'
  <2>1. /\ request' \in [Calls -> RequestRecords] /\ request'[c] = r
        /\ \A d \in Calls \ {c} : request'[d] = request[d]
    BY <1>o, <1>e
  <2>2. \A d \in Calls : request'[d].token \in {request[d].token, stored, 0}
    BY <1>o, <2>1
  <2>3. \A d \in Calls : request'[d].step = "ok" => request[d].step = "ok"
    BY <1>o, <2>1
  <2>4. Spent \subseteq Spent'
    BY <1>o, <2>1 DEF Spent
  <2>5. StepsAreDue'
    <3>1. (\A t \in Tabs : At(t, "cleared") => NoneLive)'
      BY <1>o, <1>t DEF StepsAreDue, NoneLive, LiveSession, At
    <3>2. (\A t \in Tabs : At(t, "queued") => webLocks)'
      BY <1>o, <1>t DEF StepsAreDue, At
    <3>3. /\ \A d \in Logouts : request'[d].step \notin {"idle", "done"} => fate'.wished
          /\ \A d \in Calls : request'[d].step \in {"revoking", "ok"} => d \in Logouts
          /\ \A d \in Calls : request'[d].step = "revoking" => request'[d].token # 0
          /\ \A d \in Calls : request'[d].step = "idle" => ~request'[d].again
      BY <1>o, <1>h
    <3> QED
      BY <3>1, <3>2, <3>3 DEF StepsAreDue
  <2>6. expired' \subseteq Numbers
    BY <1>o, <1>y
  <2> QED
    BY <1>o, <1>q, <2>1, <2>2, <2>3, <2>4, <2>5, <2>6
<1>1. ASSUME NEW c \in Calls, Sends(c) PROVE TabsInv'
  <2> DEFINE r == [step |-> "sent", token |-> stored, again |-> FALSE]
  <2>1. /\ request[c].step = "idle" /\ request' = [request EXCEPT ![c] = r]
        /\ fate' = [fate EXCEPT !.wished = @ \/ c \in Logouts]
        /\ UNCHANGED <<webLocks, stored, cookie, sessions, expired, refresh, holder,
                         replacements, lost>>
    BY <1>1 DEF Sends, Is
  <2>2. r \in RequestRecords /\ r.step = "sent" /\ r.token = stored
    <3>1. "sent" \in RequestStates /\ FALSE \in BOOLEAN
      BY DEF RequestStates
    <3> QED
      BY <3>1, <1>y, Zenon DEF RequestRecords
  <2>3. c \notin Spent
    BY <2>1, <1>t DEF Spent, StepsAreDue
  <2>4. /\ fate' \in Fate /\ fate'.alarm = fate.alarm /\ fate'.elsewhere = fate.elsewhere
        /\ fate'.out = fate.out /\ fate'.crossed = fate.crossed
        /\ fate'.wished = (fate.wished \/ c \in Logouts)
    <3> DEFINE b == fate.wished \/ c \in Logouts
    <3>1. b \in BOOLEAN /\ fate' = [fate EXCEPT !.wished = b]
      BY <2>1
    <3> HIDE DEF b
    <3>2. /\ fate' \in Fate /\ fate'.alarm = fate.alarm /\ fate'.elsewhere = fate.elsewhere
          /\ fate'.out = fate.out /\ fate'.crossed = fate.crossed /\ fate'.wished = b
      BY <3>1, <1>v, Zenon
    <3> QED
      BY <3>2 DEF b
  <2>5. (fate.wished => fate'.wished) /\ (c \in Logouts => fate'.wished)
    BY <2>4, Zenon
  <2> HIDE DEF r
  <2> QED
    BY <2>1, <2>2, <2>3, <2>4, <2>5, <1>o
\* ... where it is under way and the history is left alone.
<1>p. ASSUME NEW c \in Calls, NEW r \in RequestRecords, request' = [request EXCEPT ![c] = r],
             UNCHANGED <<webLocks, stored, cookie, sessions, expired, refresh, holder,
                         replacements, fate, lost>>,
             request[c].step \notin {"idle", "done"},
             r.token \in {request[c].token, stored, 0},
             r.step \notin {"ok", "idle"}, r.step = "revoking" => c \in Logouts /\ r.token # 0,
             c \in Spent => r.step \in {"waiting", "done"} \/ r.again
      PROVE  TabsInv'
  <2>1. c \in Logouts => fate.wished
    BY <1>p, <1>t DEF StepsAreDue
  <2>2. /\ fate' \in Fate /\ fate'.alarm = fate.alarm /\ fate'.elsewhere = fate.elsewhere
        /\ fate'.out = fate.out /\ fate'.crossed = fate.crossed /\ fate.wished => fate'.wished
        /\ c \in Logouts /\ r.step # "done" => fate'.wished
    BY <1>p, <1>y, <2>1
  <2> QED
    BY <1>p, <2>2, <1>o
\* The second try.
<1>g. ASSUME NEW c \in Calls, Again(c), request[c].step \notin {"idle", "done"},
             UNCHANGED <<webLocks, stored, cookie, sessions, expired, refresh, holder,
                         replacements, fate, lost>>
      PROVE  TabsInv'
  <2>1. CASE stored = 0 /\ c \in Reads
    <3>1. request' = [request EXCEPT ![c] = Finished]
      BY <1>g, <2>1 DEF Again, Ends
    <3> QED
      BY <3>1, <1>d, <1>g, <1>p
  <2>2. CASE ~(stored = 0 /\ c \in Reads)
    <3> DEFINE r == [step |-> "sent", token |-> stored, again |-> TRUE]
    <3>1. request' = [request EXCEPT ![c] = r]
      BY <1>g, <2>2 DEF Again
    <3>2. r \in RequestRecords /\ r.step = "sent" /\ r.token = stored /\ r.again
      <4>1. "sent" \in RequestStates /\ TRUE \in BOOLEAN
        BY DEF RequestStates
      <4> QED
        BY <4>1, <1>y, Zenon DEF RequestRecords
    <3> HIDE DEF r
    <3> QED
      BY <3>1, <3>2, <1>g, <1>p
  <2> QED
    BY <2>1, <2>2
<1>2. ASSUME NEW c \in Calls, Judges(c) PROVE TabsInv'
  <2>1. /\ request[c].step = "sent"
        /\ UNCHANGED <<webLocks, stored, cookie, sessions, expired, refresh, holder,
                         replacements, fate, lost>>
    BY <1>2 DEF Judges, Is
  <2>2. CASE request' = [request EXCEPT ![c] = Finished]
    BY <2>1, <2>2, <1>d, <1>p
  <2>3. CASE Accepted(request[c].token) /\ c \in Logouts
    <3> DEFINE r == [request[c] EXCEPT !.step = "revoking"]
    <3>1. request' = [request EXCEPT ![c] = r]
      BY <1>2, <2>3 DEF Judges
    <3>2. r \in RequestRecords /\ r.step = "revoking" /\ r.token = request[c].token
          /\ r.again = request[c].again
      <4>1. "revoking" \in RequestStates
        BY DEF RequestStates
      <4> QED
        BY <4>1, <1>x
    <3>3. request[c].token # 0
      BY <2>3 DEF Accepted, LiveSession
    <3>4. c \in Spent => r.again
      BY <2>1, <3>2 DEF Spent
    <3> HIDE DEF r
    <3> QED
      BY <2>1, <2>3, <3>1, <3>2, <3>3, <3>4, <1>p
  <2>4. CASE ~Accepted(request[c].token) /\ request' # [request EXCEPT ![c] = Finished]
    <3> DEFINE r == [request[c] EXCEPT !.step = "unauthorized"]
    <3>1. request' = [request EXCEPT ![c] = r]
      BY <1>2, <2>4 DEF Judges, Ends
    <3>2. r \in RequestRecords /\ r.step = "unauthorized" /\ r.token = request[c].token
          /\ r.again = request[c].again
      <4>1. "unauthorized" \in RequestStates
        BY DEF RequestStates
      <4> QED
        BY <4>1, <1>x
    <3>3. c \in Spent => r.again
      BY <2>1, <3>2 DEF Spent
    <3> HIDE DEF r
    <3> QED
      BY <2>1, <3>1, <3>2, <3>3, <1>p
  <2> QED
    BY <1>2, <2>2, <2>3, <2>4 DEF Judges, Ends
<1>3. ASSUME NEW c \in Calls, TriesAgain(c) PROVE TabsInv'
  <2>1. /\ request[c].step = "waiting"
        /\ UNCHANGED <<webLocks, stored, cookie, sessions, expired, refresh, holder,
                         replacements, fate, lost>>
    BY <1>3 DEF TriesAgain, Is
  <2>2. CASE c \in Resumes
    <3>1. request' = [request EXCEPT ![c] = Finished]
      BY <1>3, <2>2 DEF TriesAgain, Ends
    <3> QED
      BY <2>1, <3>1, <1>d, <1>p
  <2>3. CASE c \notin Resumes
    BY <1>3, <2>1, <2>3, <1>g DEF TriesAgain
  <2> QED
    BY <2>2, <2>3
<1>4. ASSUME NEW n \in Numbers \ {0}, TokenExpires(n) PROVE TabsInv'
  <2>1. /\ expired' = expired \cup {n}
        /\ UNCHANGED <<webLocks, stored, cookie, sessions, request, refresh, holder,
                         replacements, fate, lost>>
    BY <1>4 DEF TokenExpires
  <2>2. expired' \subseteq Numbers /\ Spent \subseteq Spent'
    BY <2>1, <1>y DEF Spent
  <2>3. StepsAreDue'
    BY <2>1, <1>t DEF StepsAreDue, NoneLive, LiveSession, At
  <2>4. /\ fate' \in Fate /\ request' \in [Calls -> RequestRecords]
        /\ fate.wished => fate'.wished
    BY <2>1, <1>y
  <2> QED
    BY <2>1, <2>2, <2>3, <2>4, <1>q
\* A call that starts the refresh of its tab, or joins the one there is.
<1>j. ASSUME NEW c \in Calls, NEW r \in RequestRecords, request' = [request EXCEPT ![c] = r],
             Joins(HomeOf[c]),
             UNCHANGED <<webLocks, stored, cookie, sessions, expired, holder, replacements,
                         fate, lost>>,
             c \notin Spent, r.step = "waiting", r.token \in {request[c].token, 0},
             c \in Logouts => fate.wished
      PROVE  TabsInv'
  <2> DEFINE t == HomeOf[c]
  <2>0. t \in Tabs
    BY TabsAssumption
  <2>1. /\ request' \in [Calls -> RequestRecords] /\ request'[c] = r
        /\ \A d \in Calls \ {c} : request'[d] = request[d]
    BY <1>j, <1>e
  <2>2. CASE refresh[t].step # "none"
    <3>1. refresh' = refresh
      BY <1>j, <2>2 DEF Joins, At
    <3>2. fate' \in Fate
      BY <1>j, <1>y
    <3> QED
      BY <1>j, <3>1, <3>2, <1>o
  <2>3. CASE refresh[t].step = "none"
    <3> DEFINE q == [NoRefresh EXCEPT !.step = IF webLocks THEN "queued" ELSE "sent",
                             !.stale = stored, !.cookie = IF webLocks THEN 0 ELSE cookie]
    <3>1. refresh' = [refresh EXCEPT ![t] = q]
      BY <1>j, <2>3 DEF Joins, At
    <3>2. /\ q \in RefreshRecords /\ q.stale = stored
          /\ q.step = (IF webLocks THEN "queued" ELSE "sent")
          /\ q.cookie = (IF webLocks THEN 0 ELSE cookie)
      <4> DEFINE s == IF webLocks THEN "queued" ELSE "sent"
                 m == IF webLocks THEN 0 ELSE cookie
      <4>1. s \in RefreshStates /\ m \in Numbers /\ stored \in Numbers
        BY <1>y, <1>n DEF RefreshStates
      <4> HIDE DEF s, m
      <4>2. NoRefresh \in RefreshRecords
        BY RefreshKinds
      <4>3. /\ [NoRefresh EXCEPT !.step = s, !.stale = stored, !.cookie = m] \in RefreshRecords
            /\ [NoRefresh EXCEPT !.step = s, !.stale = stored, !.cookie = m].step = s
            /\ [NoRefresh EXCEPT !.step = s, !.stale = stored, !.cookie = m].stale = stored
            /\ [NoRefresh EXCEPT !.step = s, !.stale = stored, !.cookie = m].cookie = m
        BY <4>1, <4>2 DEF RefreshRecords
      <4> QED
        BY <4>3, Zenon DEF s, m
    <3> HIDE DEF q, t
    <3>3. /\ refresh' \in [Tabs -> RefreshRecords] /\ refresh'[t] = q
          /\ \A u \in Tabs \ {t} : refresh'[u] = refresh[u]
      BY <3>1, <3>2, <2>0, <1>i
    <3>4. q.step \notin {"none", "fresh", "reading", "pausing", "cleared", "failed"}
      BY <3>2
    <3>5. \A u \in Tabs : Saving(u)' <=> Saving(u)
      BY <3>3, <3>4, <2>3 DEF Saving
    <3>6. \A u \in Tabs : At(u, "fresh")' <=> At(u, "fresh")
      BY <3>3, <3>4, <2>3 DEF At
    <3>7. TabsTypeOK'
      <4>1. holder' # "nobody" => webLocks' /\ refresh'[holder'].step \notin {"none", "queued"}
        <5>1. holder # "nobody" => holder \in Tabs \ {t}
          BY <1>y, <2>3
        <5> QED
          BY <5>1, <3>3, <1>j, <1>y
      <4> QED
        BY <1>j, <1>y, <2>1, <3>3, <4>1, <1>z
    <3>8. OneLives' /\ (NoneLive' <=> NoneLive) /\ \A n \in Numbers : LiveSession(n)' <=> LiveSession(n)
      BY <1>j, <1>t DEF OneLives, NoneLive, LiveSession
    <3>9. NumbersSuffice'
      <4>1. Exchanging' \subseteq Exchanging \cup {t}
        BY <3>3 DEF Exchanging
      <4>2. Spent \cup {c} \subseteq Spent'
        BY <2>1, <1>j DEF Spent
      <4>3. t \notin Exchanging
        BY <2>3 DEF Exchanging
      <4>4. IsFiniteSet(Exchanging \cup {t}) /\ Cardinality(Exchanging \cup {t}) = Cardinality(Exchanging) + 1
        BY <4>3, <1>f, FS_AddElement
      <4>5. Cardinality(Exchanging') <= Cardinality(Exchanging) + 1
        BY <4>1, <4>4, FS_Subset
      <4>6. Cardinality(Spent \cup {c}) = Cardinality(Spent) + 1
        BY <1>j, <1>f, FS_AddElement
      <4>7. Cardinality(Spent) + 1 <= Cardinality(Spent')
        BY <4>2, <4>6, <1>f, FS_Subset
      <4>8. Cardinality(Exchanging') + Cardinality(Spent)
               <= Cardinality(Exchanging) + Cardinality(Spent')
        BY <4>5, <4>7, <1>f
      <4>9. \A d \in Calls : request'[d].token <= k
        BY <1>j, <2>1, <1>k, <1>w, <1>n
      <4>10. \A u \in Tabs : refresh'[u].stale <= k /\ refresh'[u].cookie <= k
        BY <3>2, <3>3, <1>k, <1>w, <1>n
      <4> QED
        BY <1>j, <1>k, <4>8, <4>9, <4>10, <1>m
    <3>10. SavesAreNew'
      <4>1. ASSUME NEW u \in Tabs, Saving(u)'
            PROVE  /\ refresh'[u].cookie # 0 /\ stored' # refresh'[u].cookie
                   /\ replacements'[refresh'[u].cookie] = 0
                   /\ \A v \in Tabs : refresh'[v].stale # refresh'[u].cookie
                   /\ \A d \in Calls : request'[d].token # refresh'[u].cookie
                   /\ \A v \in Tabs \ {u} : Saving(v)' => refresh'[v].cookie # refresh'[u].cookie
        <5>1. Saving(u) /\ u # t /\ refresh'[u] = refresh[u]
          BY <3>5, <4>1, <3>3, <2>3 DEF Saving
        <5>2. /\ refresh[u].cookie # 0 /\ stored # refresh[u].cookie
              /\ replacements[refresh[u].cookie] = 0
              /\ \A v \in Tabs : refresh[v].stale # refresh[u].cookie
              /\ \A d \in Calls : request[d].token # refresh[u].cookie
              /\ \A v \in Tabs \ {u} : Saving(v) => refresh[v].cookie # refresh[u].cookie
          BY <5>1, <1>t DEF SavesAreNew
        <5>3. \A v \in Tabs : refresh'[v].stale # refresh'[u].cookie
          BY <5>1, <5>2, <3>2, <3>3
        <5>4. \A d \in Calls : request'[d].token # refresh'[u].cookie
          BY <5>1, <5>2, <2>1, <1>j
        <5>5. \A v \in Tabs \ {u} : Saving(v)' => refresh'[v].cookie # refresh'[u].cookie
          BY <5>1, <5>2, <3>3, <3>5, <2>3 DEF Saving
        <5> QED
          BY <5>1, <5>2, <5>3, <5>4, <5>5, <1>j
      <4> QED
        BY <4>1 DEF SavesAreNew
    <3>11. FreshIsUnseen'
      <4>1. ASSUME NEW u \in Tabs, At(u, "fresh")'
            PROVE  /\ sessions'[refresh'[u].cookie] \in {"live", "ended"}
                   /\ cookie' # refresh'[u].cookie
                   /\ \A v \in Tabs : At(v, "sent")' => refresh'[v].cookie # refresh'[u].cookie
                   /\ \A n \in Numbers : LiveSession(n)' => n = refresh'[u].cookie
        <5>1. At(u, "fresh") /\ refresh'[u] = refresh[u]
          BY <3>6, <4>1, <3>3, <2>3 DEF At
        <5>2. /\ sessions[refresh[u].cookie] \in {"live", "ended"}
              /\ cookie # refresh[u].cookie
              /\ \A v \in Tabs : At(v, "sent") => refresh[v].cookie # refresh[u].cookie
              /\ \A n \in Numbers : LiveSession(n) => n = refresh[u].cookie
          BY <5>1, <1>t DEF FreshIsUnseen
        <5>3. \A v \in Tabs : At(v, "sent")' => refresh'[v].cookie # refresh'[u].cookie
          BY <5>1, <5>2, <3>2, <3>3 DEF At
        <5> QED
          BY <5>1, <5>2, <5>3, <3>8, <1>j
      <4> QED
        BY <4>1 DEF FreshIsUnseen
    <3>12. StepsAreDue'
      <4>1. (\A u \in Tabs : At(u, "cleared") => NoneLive)'
        BY <3>3, <3>4, <3>8, <1>t DEF StepsAreDue, At
      <4>2. (\A u \in Tabs : At(u, "queued") => webLocks)'
        BY <3>2, <3>3, <1>j, <1>t DEF StepsAreDue, At
      <4>3. /\ fate.wished => fate'.wished
            /\ c \in Logouts /\ r.step # "done" => fate'.wished
        BY <1>j
      <4>4. /\ \A d \in Logouts : request'[d].step \notin {"idle", "done"} => fate'.wished
            /\ \A d \in Calls : request'[d].step \in {"revoking", "ok"} => d \in Logouts
            /\ \A d \in Calls : request'[d].step = "revoking" => request'[d].token # 0
            /\ \A d \in Calls : request'[d].step = "idle" => ~request'[d].again
        BY <1>j, <4>3, <1>h
      <4> QED
        BY <4>1, <4>2, <4>4 DEF StepsAreDue
    <3>13. (\E u \in Tabs : At(u, "fresh")) => (\E u \in Tabs : At(u, "fresh"))'
      BY <3>6
    <3>14. (\E u \in Tabs : Saving(u)) => (\E u \in Tabs : Saving(u))'
      BY <3>5
    <3>15. NothingLost'
      <4>1. \A n \in Numbers : (\E u \in Tabs : At(u, "fresh") /\ refresh[u].cookie = n)
              => (\E u \in Tabs : At(u, "fresh") /\ refresh[u].cookie = n)'
        BY <3>3, <3>6, <2>3 DEF At
      <4> QED
        BY <1>j, <1>t, <3>8, <3>13, <4>1 DEF NothingLost
    <3>16. Calm'
      <4>1. SUFFICES ASSUME lost' = 0, ~fate'.elsewhere, ~fate'.wished
            PROVE  /\ ~NoneLive' /\ cookie' # 0
                   /\ \A u \in Tabs : At(u, "sent")' => refresh'[u].cookie # 0
                   /\ stored' # 0 \/ (\E u \in Tabs : Saving(u))'
                   /\ \A u \in Tabs :
                        /\ stored' = refresh'[u].stale
                        /\ \/ At(u, "failed")'
                           \/ At(u, "sent")' /\ sessions'[refresh'[u].cookie] = "rotated"
                        => (\E v \in Tabs : Saving(v))'
        BY DEF Calm
      <4>2. /\ ~NoneLive /\ cookie # 0
            /\ \A u \in Tabs : At(u, "sent") => refresh[u].cookie # 0
            /\ stored # 0 \/ \E u \in Tabs : Saving(u)
            /\ \A u \in Tabs :
                 /\ stored = refresh[u].stale
                 /\ At(u, "failed") \/ (At(u, "sent") /\ sessions[refresh[u].cookie] = "rotated")
                 => \E v \in Tabs : Saving(v)
        BY <4>1, <1>j, <1>t DEF Calm
      <4>3. \A u \in Tabs : At(u, "sent")' => refresh'[u].cookie # 0
        BY <4>2, <3>2, <3>3 DEF At
      <4>4. sessions[cookie] = "rotated" => \E u \in Tabs : Saving(u)
        BY <4>1, <4>2, <1>j, <1>t DEF NothingLost, Saving, At
      <4>5. ASSUME NEW u \in Tabs, stored' = refresh'[u].stale,
                   \/ At(u, "failed")'
                   \/ At(u, "sent")' /\ sessions'[refresh'[u].cookie] = "rotated"
            PROVE  (\E v \in Tabs : Saving(v))'
        <5>1. CASE u = t
          BY <5>1, <4>4, <4>5, <3>2, <3>3, <3>14, <1>j DEF At
        <5>2. CASE u # t
          <6>1. refresh'[u] = refresh[u]
            BY <5>2, <3>3
          <6> QED
            BY <6>1, <4>2, <4>5, <3>14, <1>j DEF At
        <5> QED
          BY <5>1, <5>2
      <4> QED
        BY <4>2, <4>3, <4>5, <3>8, <3>14, <1>j
    <3>17. LockHeld'
      <4>1. ASSUME webLocks' PROVE \A u \in Tabs : refresh'[u].step \notin {"none", "queued"} => holder' = u
        BY <4>1, <3>2, <3>3, <1>j, <1>t DEF LockHeld
      <4>2. ASSUME webLocks', NEW u \in Tabs, Saving(u)'
            PROVE  \A n \in Numbers : LiveSession(n)' => n = refresh'[u].cookie
        <5>1. Saving(u) /\ refresh'[u] = refresh[u]
          BY <3>5, <4>2, <3>3, <2>3 DEF Saving
        <5> QED
          BY <5>1, <4>2, <3>8, <1>j, <1>t DEF LockHeld
      <4> QED
        BY <4>1, <4>2 DEF LockHeld
    <3>18. TradedOnce'
      <4>1. SUFFICES ASSUME webLocks', lost' = 0, ~fate'.wished
            PROVE  /\ \A u \in Tabs : At(u, "sent")' => refresh'[u].cookie = cookie'
                   /\ \A u \in Tabs : ~At(u, "pausing")'
                   /\ \A u \in Tabs : At(u, "failed")' => NoneLive'
                   /\ stored' = 0 => NoneLive'
                   /\ \A n \in Numbers \ {0} : replacements'[n] > 0 =>
                        n # stored' \/ (\E u \in Tabs : Saving(u) /\ refresh[u].stale = n)'
                   /\ \A u \in Tabs : At(u, "sent")' /\ refresh'[u].stale # 0 =>
                        replacements'[refresh'[u].stale] = 0 \/ NoneLive'
                   /\ \A n \in Numbers \ {0} : replacements'[n] <= 1
        BY DEF TradedOnce
      <4>2. /\ \A u \in Tabs : At(u, "sent") => refresh[u].cookie = cookie
            /\ \A u \in Tabs : ~At(u, "pausing")
            /\ \A u \in Tabs : At(u, "failed") => NoneLive
            /\ stored = 0 => NoneLive
            /\ \A n \in Numbers \ {0} : replacements[n] > 0 =>
                 n # stored \/ \E u \in Tabs : Saving(u) /\ refresh[u].stale = n
            /\ \A u \in Tabs : At(u, "sent") /\ refresh[u].stale # 0 =>
                 replacements[refresh[u].stale] = 0 \/ NoneLive
            /\ \A n \in Numbers \ {0} : replacements[n] <= 1
        BY <4>1, <1>j, <1>t DEF TradedOnce
      <4>3. q.step = "queued"
        BY <4>1, <3>2, <1>j
      <4>4. \A n \in Numbers : (\E u \in Tabs : Saving(u) /\ refresh[u].stale = n)
              => (\E u \in Tabs : Saving(u) /\ refresh[u].stale = n)'
        BY <3>3, <3>5, <2>3 DEF Saving
      <4>5. /\ \A u \in Tabs : At(u, "sent")' => refresh'[u].cookie = cookie'
            /\ \A u \in Tabs : ~At(u, "pausing")'
            /\ \A u \in Tabs : At(u, "failed")' => NoneLive'
        BY <4>2, <4>3, <3>3, <3>8, <1>j DEF At
      <4>6. \A u \in Tabs : At(u, "sent")' /\ refresh'[u].stale # 0 =>
                        replacements'[refresh'[u].stale] = 0 \/ NoneLive'
        BY <4>2, <4>3, <3>3, <3>8, <1>j DEF At
      <4> QED
        BY <4>2, <4>4, <4>5, <4>6, <3>8, <1>j
    <3>19. LogoutHolds'
      <4>1. \A d \in Calls : request'[d].step = "ok" => request[d].step = "ok"
        BY <2>1, <1>j
      <4> QED
        BY <4>1, <3>5, <3>8, <1>j, <1>t DEF LogoutHolds, Is
    <3> QED
      BY <3>7, <3>8, <3>9, <3>10, <3>11, <3>12, <3>15, <3>16, <3>17, <3>18, <3>19, <1>s
  <2> QED
    BY <2>2, <2>3
<1>5. ASSUME NEW c \in Calls, ResumesSession(c) PROVE TabsInv'
  <2> DEFINE r == [request[c] EXCEPT !.step = "waiting", !.again = TRUE]
  <2>1. /\ c \in Resumes /\ request[c].step = "idle" /\ request' = [request EXCEPT ![c] = r]
        /\ Joins(HomeOf[c])
        /\ UNCHANGED <<webLocks, stored, cookie, sessions, expired, holder, replacements,
                         fate, lost>>
    BY <1>5 DEF ResumesSession, Is
  <2>2. r \in RequestRecords /\ r.step = "waiting" /\ r.token = request[c].token
    <3>1. TRUE \in BOOLEAN /\ "waiting" \in RequestStates /\ request[c] \in RequestRecords
      BY <1>w DEF RequestStates
    <3>2. \A b \in BOOLEAN :
            /\ [request[c] EXCEPT !.step = "waiting", !.again = b] \in RequestRecords
            /\ [request[c] EXCEPT !.step = "waiting", !.again = b].step = "waiting"
            /\ [request[c] EXCEPT !.step = "waiting", !.again = b].token = request[c].token
      BY <3>1 DEF RequestRecords
    <3> QED
      BY <3>1, <3>2, Zenon
  <2>3. c \notin Spent /\ c \notin Logouts
    BY <2>1, <1>t, TabsAssumption DEF Spent, StepsAreDue
  <2> HIDE DEF r
  <2> QED
    BY <2>1, <2>2, <2>3, <1>j
<1>6. ASSUME NEW c \in Calls, Unauthorized(c) PROVE TabsInv'
  <2>1. /\ request[c].step = "unauthorized" /\ ~request[c].again
        /\ UNCHANGED <<webLocks, stored, cookie, sessions, expired, holder, replacements,
                         fate, lost>>
    BY <1>6 DEF Unauthorized, Is
  <2>2. CASE stored = request[c].token
    <3> DEFINE r == [request[c] EXCEPT !.step = "waiting"]
    <3>1. request' = [request EXCEPT ![c] = r] /\ Joins(HomeOf[c])
      BY <1>6, <2>2 DEF Unauthorized
    <3>2. r \in RequestRecords /\ r.step = "waiting" /\ r.token = request[c].token
      <4>1. "waiting" \in RequestStates
        BY DEF RequestStates
      <4> QED
        BY <4>1, <1>x
    <3>3. c \notin Spent /\ (c \in Logouts => fate.wished)
      BY <2>1, <1>t DEF Spent, StepsAreDue
    <3> HIDE DEF r
    <3> QED
      BY <2>1, <3>1, <3>2, <3>3, <1>j
  <2>3. CASE stored # request[c].token
    <3>1. Again(c) /\ UNCHANGED refresh
      BY <1>6, <2>3 DEF Unauthorized
    <3> QED
      BY <2>1, <3>1, <1>g
  <2> QED
    BY <2>2, <2>3
\* The session is ended by a logout.
<1>7. ASSUME NEW c \in Calls, Revokes(c) PROVE TabsInv'
  <2> DEFINE r == [request[c] EXCEPT !.step = "ok"]
  <2>a. PICK sent \in {cookie, 0} :
          sessions' = [n \in Numbers \ {0} |->
            IF n \in {request[c].token, sent} /\ sessions[n] = "live" THEN "ended"
            ELSE sessions[n]]
    BY <1>7 DEF Revokes
  <2>1. /\ request[c].step = "revoking" /\ request' = [request EXCEPT ![c] = r]
        /\ fate' = [fate EXCEPT !.crossed = @ \/ sessions[request[c].token] # "live"]
        /\ UNCHANGED <<webLocks, stored, cookie, expired, refresh, holder, replacements, lost>>
    BY <1>7 DEF Revokes, Is
  <2>2. /\ r \in RequestRecords /\ r.step = "ok" /\ r.token = request[c].token
        /\ r.again = request[c].again
    <3>1. "ok" \in RequestStates
      BY DEF RequestStates
    <3> QED
      BY <3>1, <1>x
  <2>3. c \in Logouts /\ fate.wished /\ request[c].token \in Numbers \ {0}
    BY <2>1, <1>t, <1>w DEF StepsAreDue
  <2>4. /\ fate' \in Fate /\ fate'.alarm = fate.alarm /\ fate'.elsewhere = fate.elsewhere
        /\ fate'.out = fate.out /\ fate'.wished = fate.wished
        /\ fate'.crossed = (fate.crossed \/ sessions[request[c].token] # "live")
    <3> DEFINE b == fate.crossed \/ sessions[request[c].token] # "live"
    <3>1. b \in BOOLEAN /\ fate' = [fate EXCEPT !.crossed = b]
      BY <2>1
    <3> HIDE DEF b
    <3>2. /\ fate' \in Fate /\ fate'.alarm = fate.alarm /\ fate'.elsewhere = fate.elsewhere
          /\ fate'.out = fate.out /\ fate'.wished = fate.wished /\ fate'.crossed = b
      BY <3>1, <1>v, Zenon
    <3> QED
      BY <3>2 DEF b
  <2> HIDE DEF r
  <2>5. /\ request' \in [Calls -> RequestRecords] /\ request'[c] = r
        /\ \A d \in Calls \ {c} : request'[d] = request[d]
    BY <2>1, <2>2, <1>e
  <2>6. /\ sessions' \in [Numbers \ {0} -> SessionStates]
        /\ \A n \in Numbers \ {0} : sessions'[n] # sessions[n] =>
             sessions[n] = "live" /\ sessions'[n] = "ended" /\ n \in {request[c].token, sent}
        /\ \A n \in {request[c].token, sent} \ {0} : sessions'[n] # "live"
    <3>1. sessions' \in [Numbers \ {0} -> SessionStates]
      BY <2>a, <1>y DEF SessionStates
    <3>2. \A n \in Numbers \ {0} :
            sessions'[n] = IF n \in {request[c].token, sent} /\ sessions[n] = "live" THEN "ended"
                           ELSE sessions[n]
      BY <2>a
    <3>3. \A n \in {request[c].token, sent} \ {0} : n \in Numbers \ {0}
      BY <2>3, <2>a, <1>y
    <3> QED
      BY <3>1, <3>2, <3>3
  <2>7. TabsTypeOK'
    BY <2>1, <2>4, <2>5, <2>6, <1>y, <1>z
  <2>8. \A n \in Numbers : LiveSession(n)' => LiveSession(n)
    BY <2>6 DEF LiveSession
  <2>9. NoneLive => NoneLive'
    BY <2>8 DEF NoneLive
  <2>10. OneLives'
    <3>1. ASSUME NEW n \in Numbers \ {0}, sessions'[n] = "ended" PROVE NoneLive'
      <4>1. CASE sessions[n] = "ended"
        BY <4>1, <2>9, <1>t DEF OneLives
      <4>2. CASE sessions[n] # "ended"
        <5>1. LiveSession(n) /\ ~LiveSession(n)'
          BY <4>2, <3>1, <2>6 DEF LiveSession
        <5> QED
          BY <5>1, <2>8, <1>t DEF OneLives, NoneLive
      <4> QED
        BY <4>1, <4>2
    <3> QED
      BY <3>1, <2>8, <1>t DEF OneLives
  <2>11. NumbersSuffice'
    <3>1. \A d \in Calls : request'[d].token <= k
      BY <2>2, <2>5, <1>k
    <3>2. Exchanging' \subseteq Exchanging
      BY <2>1 DEF Exchanging
    <3>3. Spent \subseteq Spent'
      BY <2>1, <2>2, <2>5 DEF Spent
    <3> QED
      BY <2>1, <2>6, <3>1, <3>2, <3>3, <1>k, <1>c
  <2>12. SavesAreNew'
    <3>1. \A d \in Calls : request'[d].token = request[d].token
      BY <2>2, <2>5
    <3> QED
      BY <3>1, <2>1, <1>t DEF SavesAreNew, Saving
  <2>13. FreshIsUnseen'
    <3>1. \A t \in Tabs : At(t, "fresh") => sessions'[refresh[t].cookie] \in {"live", "ended"}
      <4>1. \A t \in Tabs : At(t, "fresh") => refresh[t].cookie \in Numbers \ {0}
              /\ sessions[refresh[t].cookie] \in {"live", "ended"}
        BY <1>t, <1>w DEF FreshIsUnseen, SavesAreNew, Saving, At
      <4> QED
        BY <4>1, <2>6
    <3> QED
      BY <3>1, <2>1, <2>8, <1>t DEF FreshIsUnseen, At
  <2>14. StepsAreDue'
    <3>1. (\A t \in Tabs : At(t, "cleared") => NoneLive)'
      BY <2>1, <2>9, <1>t DEF StepsAreDue, At
    <3>2. (\A t \in Tabs : At(t, "queued") => webLocks)'
      BY <2>1, <1>t DEF StepsAreDue, At
    <3>3. /\ \A d \in Logouts : request'[d].step \notin {"idle", "done"} => fate'.wished
          /\ \A d \in Calls : request'[d].step \in {"revoking", "ok"} => d \in Logouts
          /\ \A d \in Calls : request'[d].step = "revoking" => request'[d].token # 0
          /\ \A d \in Calls : request'[d].step = "idle" => ~request'[d].again
      BY <2>1, <2>2, <2>3, <2>4, <1>h
    <3> QED
      BY <3>1, <3>2, <3>3 DEF StepsAreDue
  <2>15. NothingLost'
    <3>1. SUFFICES ASSUME lost' = 0
          PROVE  /\ \A n \in Numbers \ {0} : sessions'[n] # "replayable"
                 /\ ~fate'.alarm
                 /\ cookie' # 0 /\ sessions'[cookie'] = "rotated" => (\E t \in Tabs : At(t, "fresh"))'
                 /\ fate'.wished
      BY DEF NothingLost
    <3>2. /\ \A n \in Numbers \ {0} : sessions[n] # "replayable"
          /\ ~fate.alarm
          /\ cookie # 0 /\ sessions[cookie] = "rotated" => \E t \in Tabs : At(t, "fresh")
      BY <3>1, <2>1, <1>t DEF NothingLost
    <3>3. \A n \in Numbers \ {0} : sessions'[n] # "replayable"
      BY <3>2, <2>6
    <3>4. cookie' # 0 /\ sessions'[cookie'] = "rotated" => (\E t \in Tabs : At(t, "fresh"))'
      BY <3>2, <2>1, <2>6, <1>y DEF At
    <3> QED
      BY <3>2, <3>3, <3>4, <2>3, <2>4
  <2>16. fate'.wished
    BY <2>3, <2>4
  <2>17. Calm' /\ TradedOnce'
    BY <2>16 DEF Calm, TradedOnce
  <2>18. LockHeld'
    BY <2>1, <2>8, <1>t DEF LockHeld, Saving
  <2>19. LogoutHolds'
    <3>1. SUFFICES ASSUME ~fate'.crossed
          PROVE  /\ NoneLive' /\ (webLocks' => (\A t \in Tabs : ~Saving(t))')
                 /\ fate'.out /\ webLocks' => stored' = 0
      BY DEF LogoutHolds
    <3>2. ~fate.crossed /\ LiveSession(request[c].token) /\ ~LiveSession(request[c].token)'
      <4>1. ~fate.crossed /\ sessions[request[c].token] = "live"
        BY <3>1, <2>4, Zenon
      <4>2. sessions'[request[c].token] # "live"
        BY <2>3, <2>6
      <4>3. request'[c].token = request[c].token
        BY <2>2, <2>5
      <4> QED
        BY <4>1, <4>2, <4>3, <2>3 DEF LiveSession
    <3>3. NoneLive'
      <4>1. \A n \in Numbers : LiveSession(n) => n = request[c].token
        BY <3>2, <2>3, <1>t DEF OneLives
      <4>2. \A n \in Numbers : ~LiveSession(n)'
        <5>1. sessions'[request[c].token] # "live"
          BY <2>3, <2>6
        <5> QED
          BY <5>1, <4>1, <2>8 DEF LiveSession
      <4> QED
        BY <4>2 DEF NoneLive
    <3>4. ASSUME webLocks, NEW t \in Tabs, Saving(t) PROVE FALSE
      <4>1. request[c].token = refresh[t].cookie
        BY <3>2, <3>4, <2>3, <1>t DEF LockHeld
      <4> QED
        BY <4>1, <3>4, <1>t DEF SavesAreNew
    <3>5. fate.out /\ webLocks => stored = 0
      BY <3>2, <1>t DEF LogoutHolds
    <3> QED
      BY <3>3, <3>4, <3>5, <2>1, <2>4 DEF Saving
  <2> QED
    BY <2>7, <2>10, <2>11, <2>12, <2>13, <2>14, <2>15, <2>17, <2>18, <2>19, <1>s
\* A logout that is through forgets the token.
<1>l. ASSUME NEW c \in Calls, request' = [request EXCEPT ![c] = Finished],
             stored' = 0, cookie' \in {cookie, 0}, fate.wished, fate'.wished, fate' \in Fate,
             fate'.alarm = fate.alarm,
             UNCHANGED <<webLocks, sessions, expired, refresh, holder, replacements, lost>>,
             LogoutHolds'
      PROVE  TabsInv'
  <2>1. /\ request' \in [Calls -> RequestRecords] /\ request'[c] = Finished
        /\ \A d \in Calls \ {c} : request'[d] = request[d]
    BY <1>l, <1>d, <1>e
  <2>2. TabsTypeOK'
    BY <1>l, <1>n, <1>y, <2>1, <1>z
  <2>3. OneLives' /\ LockHeld'
    BY <1>l, <1>t DEF OneLives, NoneLive, LiveSession, LockHeld, Saving
  <2>4. NumbersSuffice'
    <3>1. \A d \in Calls : request'[d].token <= k
      BY <2>1, <1>d, <1>k
    <3>2. Exchanging' \subseteq Exchanging
      BY <1>l DEF Exchanging
    <3>3. Spent \subseteq Spent'
      BY <2>1, <1>d DEF Spent
    <3>4. stored' <= k /\ cookie' <= k
      BY <1>l, <1>k
    <3> QED
      BY <1>l, <3>1, <3>2, <3>3, <3>4, <1>k, <1>c
  <2>5. SavesAreNew'
    <3>1. \A d \in Calls : request'[d].token \in {request[d].token, 0}
      BY <2>1, <1>d
    <3> QED
      BY <3>1, <1>l, <1>t DEF SavesAreNew, Saving
  <2>6. FreshIsUnseen'
    <3>1. \A t \in Tabs : At(t, "fresh") => refresh[t].cookie # 0
      BY <1>t DEF SavesAreNew, Saving, At
    <3> QED
      BY <3>1, <1>l, <1>t DEF FreshIsUnseen, At, LiveSession
  <2>7. StepsAreDue'
    <3>1. (\A t \in Tabs : At(t, "cleared") => NoneLive)'
      BY <1>l, <1>t DEF StepsAreDue, At, NoneLive, LiveSession
    <3>2. (\A t \in Tabs : At(t, "queued") => webLocks)'
      BY <1>l, <1>t DEF StepsAreDue, At
    <3>3. /\ \A d \in Logouts : request'[d].step \notin {"idle", "done"} => fate'.wished
          /\ \A d \in Calls : request'[d].step \in {"revoking", "ok"} => d \in Logouts
          /\ \A d \in Calls : request'[d].step = "revoking" => request'[d].token # 0
          /\ \A d \in Calls : request'[d].step = "idle" => ~request'[d].again
      BY <1>l, <1>d, <1>h
    <3> QED
      BY <3>1, <3>2, <3>3 DEF StepsAreDue
  <2>8. NothingLost'
    BY <1>l, <1>t DEF NothingLost, At
  <2>9. Calm' /\ TradedOnce'
    BY <1>l DEF Calm, TradedOnce
  <2> QED
    BY <1>l, <2>2, <2>3, <2>4, <2>5, <2>6, <2>7, <2>8, <2>9, <1>s
<1>8. ASSUME NEW c \in Calls, LoggedOut(c) PROVE TabsInv'
  <2>1. /\ request[c].step = "ok" /\ request' = [request EXCEPT ![c] = Finished]
        /\ stored' = 0 /\ cookie' \in {cookie, 0} /\ fate' = [fate EXCEPT !.out = TRUE]
        /\ UNCHANGED <<webLocks, sessions, expired, refresh, holder, replacements, lost>>
    BY <1>8 DEF LoggedOut, Is, Ends
  <2>2. /\ fate' \in Fate /\ fate'.alarm = fate.alarm /\ fate'.wished = fate.wished
        /\ fate'.crossed = fate.crossed
    <3>1. TRUE \in BOOLEAN
      OBVIOUS
    <3> QED
      BY <3>1, <2>1, <1>v, Zenon
  <2>3. fate.wished /\ fate'.wished
    <3>1. c \in Logouts
      BY <2>1, <1>t DEF StepsAreDue
    <3>2. fate.wished
      BY <3>1, <2>1, <1>t DEF StepsAreDue
    <3> QED
      BY <3>2, <2>2, Zenon
  <2>4. LogoutHolds'
    <3>1. ~fate.crossed => NoneLive /\ (webLocks => \A t \in Tabs : ~Saving(t))
      BY <2>1, <1>t DEF LogoutHolds, Is
    <3>2. ~fate'.crossed => NoneLive' /\ (webLocks' => (\A t \in Tabs : ~Saving(t))')
      BY <3>1, <2>1, <2>2 DEF NoneLive, LiveSession, Saving
    <3> QED
      BY <3>2, <2>1 DEF LogoutHolds
  <2> QED
    BY <2>1, <2>2, <2>3, <2>4, <1>l
<1>9. ASSUME NEW c \in Calls, LogoutFails(c) PROVE TabsInv'
  <2>1. /\ c \in Logouts /\ request[c].step \in {"unauthorized", "sent", "ok"}
        /\ request' = [request EXCEPT ![c] = Finished] /\ stored' = 0
        /\ UNCHANGED <<webLocks, cookie, sessions, expired, refresh, holder, replacements,
                         fate, lost>>
    BY <1>9 DEF LogoutFails, Is, Ends
  <2>2. fate.wished
    BY <2>1, <1>t DEF StepsAreDue
  <2>3. fate'.wished /\ fate' \in Fate /\ fate'.alarm = fate.alarm /\ cookie' \in {cookie, 0}
    BY <2>1, <2>2, <1>y
  <2>4. LogoutHolds'
    <3>1. \A d \in Calls : request'[d].step = "ok" => request[d].step = "ok"
      BY <2>1, <1>d, <1>e
    <3> QED
      BY <3>1, <2>1, <1>t DEF LogoutHolds, NoneLive, LiveSession, Saving, Is
  <2> QED
    BY <2>1, <2>2, <2>3, <2>4, <1>l
\* The session is ended on another device.
<1>10. ASSUME EndedElsewhere PROVE TabsInv'
  <2>1. /\ lost = 0 /\ fate' = [fate EXCEPT !.elsewhere = TRUE]
        /\ sessions' = [n \in Numbers \ {0} |-> IF sessions[n] = "live" THEN "ended"
                                                ELSE sessions[n]]
        /\ UNCHANGED <<webLocks, stored, cookie, expired, request, refresh, holder,
                         replacements, lost>>
    BY <1>10 DEF EndedElsewhere
  <2>2. /\ fate' \in Fate /\ fate'.alarm = fate.alarm /\ fate'.wished = fate.wished
        /\ fate'.crossed = fate.crossed /\ fate'.out = fate.out /\ fate'.elsewhere = TRUE
    <3>1. TRUE \in BOOLEAN
      OBVIOUS
    <3> QED
      BY <3>1, <2>1, <1>v, Zenon
  <2>3. fate'.elsewhere
    BY <2>2, Zenon
  <2>4. /\ sessions' \in [Numbers \ {0} -> SessionStates]
        /\ \A n \in Numbers \ {0} : sessions'[n] # "live"
        /\ \A n \in Numbers \ {0} : sessions[n] # "live" => sessions'[n] = sessions[n]
        /\ \A n \in Numbers \ {0} : sessions[n] = "live" => sessions'[n] = "ended"
    <3>1. \A n \in Numbers \ {0} : sessions'[n] = IF sessions[n] = "live" THEN "ended"
                                                  ELSE sessions[n]
      BY <2>1
    <3>2. sessions' \in [Numbers \ {0} -> SessionStates]
      BY <2>1, <1>y DEF SessionStates
    <3> QED
      BY <3>1, <3>2
  <2>5. TabsTypeOK'
    BY <2>1, <2>2, <2>4, <1>y, <1>z
  <2>6. NoneLive' /\ \A n \in Numbers : ~LiveSession(n)'
    BY <2>4 DEF NoneLive, LiveSession
  <2>7. OneLives' /\ LockHeld' /\ StepsAreDue'
    <3>1. OneLives' /\ LockHeld'
      BY <2>1, <2>6, <1>t DEF OneLives, LockHeld
    <3>2. \A d \in Logouts : request'[d].step \notin {"idle", "done"} => fate'.wished
      BY <2>1, <2>2, <1>t DEF StepsAreDue
    <3> QED
      BY <3>1, <3>2, <2>1, <2>6, <1>t DEF StepsAreDue, At
  <2>8. NumbersSuffice'
    <3>1. Exchanging' \subseteq Exchanging /\ Spent \subseteq Spent'
      BY <2>1 DEF Exchanging, Spent
    <3> QED
      BY <2>1, <2>4, <3>1, <1>k, <1>c
  <2>9. SavesAreNew'
    BY <2>1, <1>t DEF SavesAreNew, Saving
  <2>10. FreshIsUnseen'
    <3>1. \A t \in Tabs : At(t, "fresh") => refresh[t].cookie \in Numbers \ {0}
            /\ sessions[refresh[t].cookie] \in {"live", "ended"}
      BY <1>t, <1>w DEF FreshIsUnseen, SavesAreNew, Saving, At
    <3> QED
      BY <3>1, <2>1, <2>4, <2>6, <1>t DEF FreshIsUnseen, At
  <2>11. NothingLost'
    BY <2>1, <2>2, <2>4, <2>6, <1>y, <1>t DEF NothingLost, At
  <2>12. Calm'
    BY <2>3 DEF Calm
  <2>13. TradedOnce'
    <3>1. webLocks' /\ lost' = 0 /\ ~fate'.wished => webLocks /\ lost = 0 /\ ~fate.wished
      BY <2>1, <2>2
    <3> QED
      BY <3>1, <2>1, <2>6, <1>t DEF TradedOnce, At, Saving
  <2>14. LogoutHolds'
    BY <2>1, <2>2, <2>6, <1>t DEF LogoutHolds, Saving, Is
  <2> QED
    BY <2>5, <2>7, <2>8, <2>9, <2>10, <2>11, <2>12, <2>13, <2>14, <1>s
\* What one tab's step leaves of the others.
<1>r. ASSUME NEW t \in Tabs, NEW s \in RefreshStates
      PROVE  /\ Goes(t, s) =>
                  /\ refresh' \in [Tabs -> RefreshRecords] /\ refresh'[t].step = s
                  /\ refresh'[t].stale = refresh[t].stale /\ refresh'[t].cookie = refresh[t].cookie
                  /\ \A u \in Tabs \ {t} : refresh'[u] = refresh[u]
             /\ \A n \in Numbers : refresh' = [refresh EXCEPT ![t].step = s, ![t].cookie = n] =>
                  /\ refresh' \in [Tabs -> RefreshRecords] /\ refresh'[t].step = s
                  /\ refresh'[t].stale = refresh[t].stale /\ refresh'[t].cookie = n
                  /\ \A u \in Tabs \ {t} : refresh'[u] = refresh[u]
  <2>1. [refresh[t] EXCEPT !.step = s] \in RefreshRecords
        /\ [refresh[t] EXCEPT !.step = s].step = s
        /\ [refresh[t] EXCEPT !.step = s].stale = refresh[t].stale
        /\ [refresh[t] EXCEPT !.step = s].cookie = refresh[t].cookie
    <3>1. refresh[t] \in RefreshRecords
      BY <1>w
    <3> QED
      BY <3>1 DEF RefreshRecords
  <2>2. ASSUME NEW n \in Numbers
        PROVE  /\ [refresh[t] EXCEPT !.step = s, !.cookie = n] \in RefreshRecords
               /\ [refresh[t] EXCEPT !.step = s, !.cookie = n].step = s
               /\ [refresh[t] EXCEPT !.step = s, !.cookie = n].stale = refresh[t].stale
               /\ [refresh[t] EXCEPT !.step = s, !.cookie = n].cookie = n
    <3>1. refresh[t] \in RefreshRecords
      BY <1>w
    <3> QED
      BY <3>1 DEF RefreshRecords
  <2>3. ASSUME Goes(t, s)
        PROVE  /\ refresh' \in [Tabs -> RefreshRecords]
               /\ refresh'[t] = [refresh[t] EXCEPT !.step = s]
               /\ \A u \in Tabs \ {t} : refresh'[u] = refresh[u]
    <3>1. refresh' = [refresh EXCEPT ![t] = [refresh[t] EXCEPT !.step = s]]
      BY <2>3 DEF Goes
    <3> QED
      BY <3>1, <2>1, <1>i
  <2>4. ASSUME NEW n \in Numbers, refresh' = [refresh EXCEPT ![t].step = s, ![t].cookie = n]
        PROVE  /\ refresh' \in [Tabs -> RefreshRecords]
               /\ refresh'[t] = [refresh[t] EXCEPT !.step = s, !.cookie = n]
               /\ \A u \in Tabs \ {t} : refresh'[u] = refresh[u]
    <3>1. refresh' = [refresh EXCEPT ![t] = [refresh[t] EXCEPT !.step = s, !.cookie = n]]
      BY <2>4, <1>y
    <3> QED
      BY <3>1, <2>2, <1>i
  <2>5. ASSUME Goes(t, s)
        PROVE  /\ refresh' \in [Tabs -> RefreshRecords] /\ refresh'[t].step = s
               /\ refresh'[t].stale = refresh[t].stale /\ refresh'[t].cookie = refresh[t].cookie
               /\ \A u \in Tabs \ {t} : refresh'[u] = refresh[u]
    BY <2>5, <2>1, <2>3, Zenon
  <2>6. ASSUME NEW n \in Numbers, refresh' = [refresh EXCEPT ![t].step = s, ![t].cookie = n]
        PROVE  /\ refresh' \in [Tabs -> RefreshRecords] /\ refresh'[t].step = s
               /\ refresh'[t].stale = refresh[t].stale /\ refresh'[t].cookie = n
               /\ \A u \in Tabs \ {t} : refresh'[u] = refresh[u]
    BY <2>6, <2>2, <2>4, Zenon
  <2> QED
    BY <2>5, <2>6
<1>b. ASSUME NEW t \in Tabs, Over(t)
      PROVE  /\ refresh' \in [Tabs -> RefreshRecords] /\ refresh'[t].step = "none"
             /\ refresh'[t].stale = 0 /\ refresh'[t].cookie = 0
             /\ \A u \in Tabs \ {t} : refresh'[u] = refresh[u]
             /\ holder' \in Tabs \cup {"nobody"} /\ holder' # t /\ "nobody" \notin Tabs
             /\ holder' # "nobody" => holder' = holder /\ holder \in Tabs \ {t}
             /\ holder # t => holder' = holder
             /\ Exchanging' \subseteq Exchanging
  <2>1. /\ refresh' \in [Tabs -> RefreshRecords] /\ refresh'[t] = NoRefresh
        /\ \A u \in Tabs \ {t} : refresh'[u] = refresh[u]
    BY <1>b, <1>i, RefreshKinds DEF Over
  <2>2. "nobody" \notin Tabs /\ holder' = IF holder = t THEN "nobody" ELSE holder
    BY <1>b, TabsAssumption DEF Over
  <2>3. Exchanging' \subseteq Exchanging
    BY <2>1, RefreshKinds DEF Exchanging
  <2> QED
    BY <2>1, <2>2, <2>3, <1>y, RefreshKinds
\* Only a logout revokes, where the calls are left alone.
<1>a. ASSUME UNCHANGED <<request, webLocks>>, fate.wished => fate'.wished,
             \A u \in Tabs : At(u, "queued")' => At(u, "queued"),
             \A u \in Tabs : At(u, "cleared")' => NoneLive'
      PROVE  StepsAreDue'
  <2>1. \A d \in Logouts : request'[d].step \notin {"idle", "done"} => fate'.wished
    BY <1>a, <1>t DEF StepsAreDue
  <2>2. (\A u \in Tabs : At(u, "queued") => webLocks)'
    BY <1>a, <1>t DEF StepsAreDue
  <2> QED
    BY <1>a, <2>1, <2>2, <1>t DEF StepsAreDue
\* The numbers, where one tab goes on and the calls are left alone.
<1>ab. ASSUME UNCHANGED <<request, replacements>>,
             \A n \in Numbers \ {0} : sessions'[n] # "none" <=> sessions[n] # "none",
             stored' <= k, cookie' <= k, Exchanging' \subseteq Exchanging,
             \A u \in Tabs : refresh'[u].stale \in {refresh[u].stale, 0}
                             /\ refresh'[u].cookie \in {refresh[u].cookie, cookie, 0}
      PROVE  NumbersSuffice'
  <2>1. Spent \subseteq Spent'
    BY <1>ab DEF Spent
  <2>2. \A u \in Tabs : refresh'[u].stale <= k /\ refresh'[u].cookie <= k
    BY <1>ab, <1>k, <1>w, <1>n
  <2> QED
    BY <1>ab, <2>1, <2>2, <1>k, <1>c
<1>11. ASSUME NEW t \in Tabs, Granted(t) PROVE TabsInv'
  <2>1. /\ refresh[t].step = "queued" /\ holder = "nobody" /\ holder \notin Tabs
        /\ UNCHANGED <<webLocks, stored, cookie, sessions, expired, request, replacements,
                         fate, lost>>
    BY <1>11, TabsAssumption DEF Granted, At
  <2>2. webLocks
    BY <2>1, <1>t DEF StepsAreDue, At
  <2>3. \A u \in Tabs : refresh[u].step \in {"none", "queued"}
    BY <2>1, <2>2, <1>t DEF LockHeld
  <2>4. (\A n \in Numbers : LiveSession(n)' <=> LiveSession(n)) /\ (NoneLive' <=> NoneLive)
    BY <2>1 DEF LiveSession, NoneLive
  <2>5. OneLives'
    BY <2>1, <2>4, <1>t DEF OneLives
  <2>6. sessions[cookie] # "rotated" \/ cookie = 0 \/ lost # 0
    BY <2>3, <1>t DEF NothingLost, At
  <2>7. CASE Replaced(t)
    <3>1. Over(t)
      BY <1>11, <2>7 DEF Granted
    <3>2. /\ refresh' \in [Tabs -> RefreshRecords] /\ refresh'[t].step = "none"
          /\ refresh'[t].stale = 0 /\ refresh'[t].cookie = 0
          /\ \A u \in Tabs \ {t} : refresh'[u] = refresh[u]
          /\ holder' = "nobody" /\ Exchanging' \subseteq Exchanging
      BY <3>1, <2>1, <1>b
    <3>3. \A u \in Tabs : refresh'[u].step \in {"none", "queued"}
      BY <2>3, <3>2
    <3>4. TabsTypeOK'
      BY <2>1, <3>2, <1>y, <1>z
    <3>5. NumbersSuffice'
      <4>1. \A u \in Tabs : refresh'[u].stale \in {refresh[u].stale, 0}
                             /\ refresh'[u].cookie \in {refresh[u].cookie, cookie, 0}
        BY <3>2
      <4> QED
        BY <4>1, <2>1, <3>2, <1>k, <1>ab
    <3>6. SavesAreNew' /\ FreshIsUnseen' /\ LockHeld'
      BY <3>3 DEF SavesAreNew, FreshIsUnseen, LockHeld, Saving, At
    <3>7. StepsAreDue'
      BY <2>1, <3>2, <3>3, <1>a DEF At
    <3>8. NothingLost'
      BY <2>1, <2>3, <2>4, <1>t DEF NothingLost, At
    <3>9. Calm' /\ TradedOnce'
      <4>1. \A u \in Tabs : ~Saving(u) /\ ~Saving(u)'
        BY <2>3, <3>3 DEF Saving
      <4>2. Calm'
        BY <2>1, <2>4, <3>3, <4>1, <1>t DEF Calm, At
      <4>3. TradedOnce'
        BY <2>1, <2>4, <3>3, <4>1, <1>t DEF TradedOnce, At
      <4> QED
        BY <4>2, <4>3
    <3>10. LogoutHolds'
      BY <2>1, <2>4, <3>3, <1>t DEF LogoutHolds, Saving, Is
    <3> QED
      BY <2>5, <3>4, <3>5, <3>6, <3>7, <3>8, <3>9, <3>10, <1>s
  <2>8. CASE ~Replaced(t)
    <3>1. holder' = t /\ refresh' = [refresh EXCEPT ![t].step = "sent", ![t].cookie = cookie]
      BY <1>11, <2>8 DEF Granted, Presents
    <3>2. /\ refresh' \in [Tabs -> RefreshRecords] /\ refresh'[t].step = "sent"
          /\ refresh'[t].stale = refresh[t].stale /\ refresh'[t].cookie = cookie
          /\ \A u \in Tabs \ {t} : refresh'[u] = refresh[u]
      <4>1. "sent" \in RefreshStates /\ cookie \in Numbers
        BY <1>y DEF RefreshStates
      <4> QED
        BY <3>1, <4>1, <1>r
    <3>3. \A u \in Tabs \ {t} : refresh'[u].step \in {"none", "queued"}
      BY <2>3, <3>2
    <3>4. TabsTypeOK'
      BY <2>1, <2>2, <3>1, <3>2, <1>y, <1>z
    <3>5. NumbersSuffice'
      <4>1. \A u \in Tabs : refresh'[u].stale \in {refresh[u].stale, 0}
                             /\ refresh'[u].cookie \in {refresh[u].cookie, cookie, 0}
        BY <3>2
      <4>2. Exchanging' \subseteq Exchanging
        BY <2>1, <3>2 DEF Exchanging
      <4> QED
        BY <4>1, <4>2, <2>1, <1>k, <1>ab
    <3>6. \A u \in Tabs : ~Saving(u) /\ ~Saving(u)'
      BY <2>3, <3>2, <3>3 DEF Saving
    <3>7. SavesAreNew' /\ FreshIsUnseen' /\ LockHeld'
      BY <3>1, <3>3, <3>6 DEF SavesAreNew, FreshIsUnseen, LockHeld, Saving, At
    <3>8. StepsAreDue'
      BY <2>1, <3>2, <3>3, <1>a DEF At
    <3>9. NothingLost'
      BY <2>1, <2>3, <2>4, <1>t DEF NothingLost, At
    <3>10. Calm'
      BY <2>1, <2>4, <2>6, <3>2, <3>3, <3>6, <1>t DEF Calm, At
    <3>11. TradedOnce'
      <4>1. SUFFICES ASSUME webLocks', lost' = 0, ~fate'.wished
            PROVE  /\ \A u \in Tabs : At(u, "sent")' => refresh'[u].cookie = cookie'
                   /\ \A u \in Tabs : ~At(u, "pausing")'
                   /\ \A u \in Tabs : At(u, "failed")' => NoneLive'
                   /\ stored' = 0 => NoneLive'
                   /\ \A n \in Numbers \ {0} : replacements'[n] > 0 =>
                        n # stored' \/ (\E u \in Tabs : Saving(u) /\ refresh[u].stale = n)'
                   /\ \A u \in Tabs : At(u, "sent")' /\ refresh'[u].stale # 0 =>
                        replacements'[refresh'[u].stale] = 0 \/ NoneLive'
                   /\ \A n \in Numbers \ {0} : replacements'[n] <= 1
        BY DEF TradedOnce
      <4>2. /\ stored = 0 => NoneLive
            /\ \A n \in Numbers \ {0} : replacements[n] > 0 => n # stored
            /\ \A n \in Numbers \ {0} : replacements[n] <= 1
        BY <4>1, <2>1, <3>6, <1>t DEF TradedOnce
      <4>3. stored # 0 => replacements[stored] = 0
        <5>1. replacements[stored] \in Nat
          BY <1>y
        <5> QED
          BY <5>1, <4>2, <1>y
      <4>4. refresh[t].stale # 0 => stored = 0 \/ stored = refresh[t].stale
        BY <2>8 DEF Replaced
      <4>5. refresh[t].stale # 0 => replacements[refresh[t].stale] = 0 \/ NoneLive
        BY <4>2, <4>3, <4>4
      <4>6. \A u \in Tabs : At(u, "sent")' /\ refresh'[u].stale # 0 =>
                        replacements'[refresh'[u].stale] = 0 \/ NoneLive'
        BY <4>5, <3>2, <3>3, <2>1, <2>4 DEF At
      <4> QED
        BY <4>2, <4>6, <3>2, <3>3, <2>1, <2>4 DEF At
    <3>12. LogoutHolds'
      BY <2>1, <2>4, <3>6, <1>t DEF LogoutHolds, Is
    <3> QED
      BY <2>5, <3>4, <3>5, <3>7, <3>8, <3>9, <3>10, <3>11, <3>12, <1>s
  <2> QED
    BY <2>7, <2>8
\* The exchange: the first of the cookie is answered with a new one ...
<1>12. ASSUME NEW t \in Tabs, At(t, "sent"), Rotates(t),
              UNCHANGED <<webLocks, stored, cookie, expired, request, holder, lost>>
       PROVE  TabsInv'
  <2> DEFINE old == refresh[t].cookie
             new == CHOOSE n \in Numbers \ {0} :
                      sessions[n] = "none"
                      /\ \A m \in Numbers \ {0} : sessions[m] = "none" => n <= m
  <2>1. /\ refresh[t].step = "sent" /\ LiveSession(old) /\ fate' = fate
        /\ sessions' = [sessions EXCEPT ![old] = "rotated", ![new] = "live"]
        /\ refresh' = [refresh EXCEPT ![t].step = "fresh", ![t].cookie = new]
        /\ replacements' = [replacements EXCEPT ![refresh[t].stale] = @ + 1]
    BY <1>12 DEF Rotates, At
  <2>2. k + 1 \in Numbers /\ k + 1 # 0
    <3>1. t \in Exchanging
      BY <2>1 DEF Exchanging
    <3>2. Cardinality(Exchanging) # 0
      BY <3>1, <1>f, FS_EmptySet
    <3>3. k + 1 <= Cardinality(Calls) + 1 /\ k + 1 \in Nat
      BY <3>2, <1>f, <1>k, <1>n
    <3> QED
      BY <3>3, <1>n, <1>k
  <2>3. new = k + 1
    <3>1. \A n \in Numbers \ {0} : sessions[n] = "none" <=> n > k
      BY <1>k, <1>n
    <3>2. sessions[k + 1] = "none" /\ \A m \in Numbers \ {0} : sessions[m] = "none" => k + 1 <= m
      BY <3>1, <2>2, <1>k, <1>n
    <3>3. \A n \in Numbers \ {0} :
            /\ sessions[n] = "none"
            /\ \A m \in Numbers \ {0} : sessions[m] = "none" => n <= m
            => n = k + 1
      BY <3>1, <3>2, <2>2, <1>k, <1>n
    <3> QED
      BY <3>2, <3>3, <2>2
  <2> HIDE DEF new
  <2>4. /\ old \in Numbers \ {0} /\ old # new /\ new \in Numbers \ {0}
        /\ sessions[old] = "live" /\ sessions[new] = "none"
    BY <2>1, <2>2, <2>3, <1>w, <1>k, <1>n DEF LiveSession
  <2>5. /\ refresh' \in [Tabs -> RefreshRecords] /\ refresh'[t].step = "fresh"
        /\ refresh'[t].stale = refresh[t].stale /\ refresh'[t].cookie = new
        /\ \A u \in Tabs \ {t} : refresh'[u] = refresh[u]
    <3>1. "fresh" \in RefreshStates
      BY DEF RefreshStates
    <3> QED
      BY <3>1, <2>1, <2>4, <1>r
  <2>6. \A u \in Tabs : refresh[u].step # "fresh"
    BY <2>1, <2>4, <1>t DEF FreshIsUnseen, At
  <2>7. /\ sessions' \in [Numbers \ {0} -> SessionStates]
        /\ sessions'[old] = "rotated" /\ sessions'[new] = "live"
        /\ \A n \in Numbers \ {0} : n # old /\ n # new => sessions'[n] = sessions[n]
    <3>1. sessions' \in [Numbers \ {0} -> SessionStates]
      BY <2>1, <2>4, <1>y DEF SessionStates
    <3> QED
      BY <3>1, <2>1, <2>4, <1>y
  <2>8. \A n \in Numbers \ {0} : sessions[n] = "live" => n = old
    BY <2>1, <2>4, <1>t DEF OneLives, LiveSession
  <2>9. \A n \in Numbers : LiveSession(n)' <=> n = new
    BY <2>4, <2>7, <2>8 DEF LiveSession
  <2>10. \A n \in Numbers \ {0} : sessions[n] # "ended" /\ sessions'[n] # "ended"
    <3>1. \A n \in Numbers \ {0} : sessions[n] # "ended"
      BY <2>1, <2>4, <1>t DEF OneLives, NoneLive
    <3> QED
      BY <3>1, <2>7, <2>4
  <2>11. ~NoneLive /\ ~NoneLive'
    BY <2>1, <2>4, <2>9 DEF NoneLive
  <2>12. /\ replacements' \in [Numbers -> Nat]
         /\ replacements'[refresh[t].stale] = replacements[refresh[t].stale] + 1
         /\ \A n \in Numbers : n # refresh[t].stale => replacements'[n] = replacements[n]
    <3>1. refresh[t].stale \in Numbers /\ replacements[refresh[t].stale] + 1 \in Nat
      BY <1>w, <1>y
    <3> QED
      BY <3>1, <2>1, <1>y
  <2>13. TabsTypeOK'
    <3>1. holder' # "nobody" => webLocks' /\ refresh'[holder'].step \notin {"none", "queued"}
      BY <1>12, <2>5, <1>y
    <3>2. holder' \in Tabs \cup {"nobody"} /\ fate' \in Fate
      BY <1>12, <2>1, <1>y
    <3> QED
      BY <1>12, <2>5, <2>7, <2>12, <3>1, <3>2, <1>y, <1>z
  <2>14. OneLives'
    BY <2>9, <2>10 DEF OneLives
  <2>15. NumbersSuffice'
    <3>1. Exchanging' = Exchanging \ {t} /\ Spent' = Spent /\ t \in Exchanging
      BY <1>12, <2>1, <2>5 DEF Exchanging, Spent
    <3>2. Cardinality(Exchanging') = Cardinality(Exchanging) - 1
      BY <3>1, <1>f, FS_RemoveElement
    <3>3. (k + 1) + Cardinality(Exchanging') <= 1 + Cardinality(Spent')
      BY <3>1, <3>2, <1>f, <1>k
    <3>4. \A n \in Numbers \ {0} : sessions'[n] # "none" <=> n <= k + 1
      BY <2>2, <2>3, <2>4, <2>7, <1>k, <1>n
    <3>5. \A c \in Calls : request'[c].token <= k + 1
      BY <1>12, <1>k, <1>w, <1>n
    <3>6. \A u \in Tabs : refresh'[u].stale <= k + 1 /\ refresh'[u].cookie <= k + 1
      BY <2>3, <2>5, <1>k, <1>w, <1>n
    <3>7. \A n \in Numbers : replacements'[n] > 0 => n <= k + 1
      BY <2>12, <1>k, <1>w, <1>n
    <3>8. stored' <= k + 1 /\ cookie' <= k + 1
      BY <1>12, <1>k, <1>y, <1>n
    <3>9. \E kk \in Numbers \ {0} :
            /\ \A n \in Numbers \ {0} : sessions'[n] # "none" <=> n <= kk
            /\ stored' <= kk /\ cookie' <= kk
            /\ \A c \in Calls : request'[c].token <= kk
            /\ \A u \in Tabs : refresh'[u].stale <= kk /\ refresh'[u].cookie <= kk
            /\ \A n \in Numbers : replacements'[n] > 0 => n <= kk
            /\ kk + Cardinality(Exchanging') <= 1 + Cardinality(Spent')
      BY <2>2, <3>3, <3>4, <3>5, <3>6, <3>7, <3>8, Zenon
    <3> QED
      BY <3>9 DEF NumbersSuffice, UsedUpTo
  <2>16. SavesAreNew'
    <3>1. \A n \in Numbers : n <= k => n # new
      BY <2>3, <1>k, <1>n
    <3>2. replacements'[new] = 0
      <4>1. new # refresh[t].stale
        BY <3>1, <1>k, <1>w
      <4>2. ~(replacements[new] > 0) /\ replacements[new] \in Nat
        BY <3>1, <2>4, <1>k, <1>y
      <4> QED
        BY <4>1, <4>2, <2>4, <2>12
    <3>3. ASSUME NEW u \in Tabs, Saving(u)'
          PROVE  /\ refresh'[u].cookie # 0 /\ stored' # refresh'[u].cookie
                 /\ replacements'[refresh'[u].cookie] = 0
                 /\ \A v \in Tabs : refresh'[v].stale # refresh'[u].cookie
                 /\ \A d \in Calls : request'[d].token # refresh'[u].cookie
                 /\ \A v \in Tabs \ {u} : Saving(v)' => refresh'[v].cookie # refresh'[u].cookie
      <4>1. CASE u = t
        <5>1. refresh'[u].cookie # 0 /\ stored' # refresh'[u].cookie
              /\ replacements'[refresh'[u].cookie] = 0
          BY <4>1, <2>4, <2>5, <3>1, <3>2, <1>12, <1>k, <1>y
        <5>2. \A v \in Tabs : refresh'[v].stale # refresh'[u].cookie
          BY <4>1, <2>5, <3>1, <1>k, <1>w
        <5>3. \A d \in Calls : request'[d].token # refresh'[u].cookie
          BY <4>1, <2>5, <3>1, <1>12, <1>k, <1>w
        <5>4. \A v \in Tabs \ {u} : refresh'[v].cookie # refresh'[u].cookie
          BY <4>1, <2>5, <3>1, <1>k, <1>w
        <5> QED
          BY <5>1, <5>2, <5>3, <5>4
      <4>2. CASE u # t
        <5>1. Saving(u) /\ refresh'[u] = refresh[u]
          BY <4>2, <3>3, <2>5 DEF Saving
        <5>2. /\ refresh[u].cookie # 0 /\ stored # refresh[u].cookie
              /\ replacements[refresh[u].cookie] = 0
              /\ \A v \in Tabs : refresh[v].stale # refresh[u].cookie
              /\ \A d \in Calls : request[d].token # refresh[u].cookie
              /\ \A v \in Tabs \ {u} : Saving(v) => refresh[v].cookie # refresh[u].cookie
          BY <5>1, <1>t DEF SavesAreNew
        <5>3. replacements'[refresh[u].cookie] = 0
          BY <5>2, <2>12, <1>w
        <5>4. \A v \in Tabs : refresh'[v].stale # refresh'[u].cookie
          BY <5>1, <5>2, <2>5
        <5>5. \A v \in Tabs \ {u} : Saving(v)' => refresh'[v].cookie # refresh'[u].cookie
          <6>1. refresh[u].cookie # new
            BY <3>1, <1>k, <1>w
          <6> QED
            BY <6>1, <5>1, <5>2, <2>5 DEF Saving
        <5> QED
          BY <5>1, <5>2, <5>3, <5>4, <5>5, <1>12
      <4> QED
        BY <4>1, <4>2
    <3> QED
      BY <3>3 DEF SavesAreNew
  <2>17. FreshIsUnseen'
    <3>1. \A u \in Tabs : At(u, "fresh")' => u = t
      BY <2>5, <2>6 DEF At
    <3>2. cookie' # new /\ \A u \in Tabs : refresh[u].cookie # new
      BY <2>3, <1>12, <1>k, <1>w, <1>y, <1>n
    <3>3. \A v \in Tabs : At(v, "sent")' => refresh'[v].cookie # new
      BY <2>5, <3>2 DEF At
    <3> QED
      BY <3>1, <3>2, <3>3, <2>5, <2>7, <2>9 DEF FreshIsUnseen
  <2>18. StepsAreDue'
    <3>1. \A u \in Tabs : At(u, "cleared")' => At(u, "cleared")
      BY <2>5 DEF At
    <3>2. \A u \in Tabs : At(u, "cleared") => NoneLive
      BY <1>t DEF StepsAreDue
    <3>3. \A u \in Tabs : At(u, "queued")' => At(u, "queued")
      BY <2>5 DEF At
    <3> QED
      BY <3>1, <3>2, <3>3, <2>11, <2>1, <1>12, <1>a
  <2>19. At(t, "fresh")' /\ Saving(t)'
    BY <2>5 DEF At, Saving
  <2>20. NothingLost'
    <3>1. SUFFICES ASSUME lost' = 0
          PROVE  /\ \A n \in Numbers \ {0} : sessions'[n] # "replayable"
                 /\ ~fate'.alarm
      BY <2>5, <2>9, <2>19 DEF NothingLost
    <3>2. (\A n \in Numbers \ {0} : sessions[n] # "replayable") /\ ~fate.alarm
      BY <3>1, <1>12, <1>t DEF NothingLost
    <3> QED
      BY <3>2, <2>1, <2>7
  <2>21. Calm'
    <3>1. SUFFICES ASSUME lost' = 0, ~fate'.elsewhere, ~fate'.wished
          PROVE  cookie' # 0 /\ \A u \in Tabs : At(u, "sent")' => refresh'[u].cookie # 0
      BY <2>11, <2>19 DEF Calm
    <3>2. cookie # 0 /\ \A u \in Tabs : At(u, "sent") => refresh[u].cookie # 0
      BY <3>1, <2>1, <1>12, <1>t DEF Calm
    <3> QED
      BY <3>2, <2>5, <1>12 DEF At
  <2>22. webLocks => \A u \in Tabs \ {t} : refresh[u].step \in {"none", "queued"} /\ holder = t
    BY <2>1, <1>t DEF LockHeld
  <2>23. LockHeld'
    <3>1. webLocks => holder = t
      BY <2>1, <1>t DEF LockHeld
    <3> QED
      BY <3>1, <2>5, <2>9, <2>22, <1>12 DEF LockHeld, Saving
  <2>24. TradedOnce'
    <3>1. SUFFICES ASSUME webLocks', lost' = 0, ~fate'.wished
          PROVE  /\ \A u \in Tabs : At(u, "sent")' => refresh'[u].cookie = cookie'
                 /\ \A u \in Tabs : ~At(u, "pausing")'
                 /\ \A u \in Tabs : At(u, "failed")' => NoneLive'
                 /\ stored' = 0 => NoneLive'
                 /\ \A n \in Numbers \ {0} : replacements'[n] > 0 =>
                      n # stored' \/ (\E u \in Tabs : Saving(u) /\ refresh[u].stale = n)'
                 /\ \A u \in Tabs : At(u, "sent")' /\ refresh'[u].stale # 0 =>
                      replacements'[refresh'[u].stale] = 0 \/ NoneLive'
                 /\ \A n \in Numbers \ {0} : replacements'[n] <= 1
      BY DEF TradedOnce
    <3>2. /\ stored = 0 => NoneLive
          /\ \A n \in Numbers \ {0} : replacements[n] > 0 =>
               n # stored \/ \E u \in Tabs : Saving(u) /\ refresh[u].stale = n
          /\ refresh[t].stale # 0 => replacements[refresh[t].stale] = 0 \/ NoneLive
          /\ \A n \in Numbers \ {0} : replacements[n] <= 1
      BY <3>1, <2>1, <1>12, <1>t DEF TradedOnce, At
    <3>3. \A u \in Tabs : refresh'[u].step \in {"none", "queued", "fresh"}
      BY <3>1, <2>5, <2>22, <1>12
    <3>4. \A u \in Tabs : ~Saving(u)
      BY <3>1, <2>1, <2>22, <1>12 DEF Saving
    <3>5. \A n \in Numbers \ {0} : replacements'[n] > 0 =>
                      n # stored' \/ (\E u \in Tabs : Saving(u) /\ refresh[u].stale = n)'
      <4>1. ASSUME NEW n \in Numbers \ {0}, replacements'[n] > 0, n # refresh[t].stale
            PROVE  n # stored'
        BY <4>1, <3>2, <3>4, <2>12, <1>12
      <4>2. refresh'[t].stale = refresh[t].stale /\ Saving(t)'
        BY <2>5, <2>19
      <4>3. ASSUME NEW n \in Numbers \ {0}, n = refresh[t].stale
            PROVE  (\E u \in Tabs : Saving(u) /\ refresh[u].stale = n)'
        BY <4>2, <4>3
      <4> QED
        BY <4>1, <4>3
    <3>6. \A n \in Numbers \ {0} : replacements'[n] <= 1
      BY <3>2, <2>11, <2>12, <1>y, <1>w
    <3> QED
      BY <3>2, <3>3, <3>5, <3>6, <2>11, <1>12 DEF At
  <2>25. LogoutHolds'
    <3>1. ~fate.crossed => ~fate.out /\ \A c \in Calls : request[c].step # "ok"
      BY <2>11, <1>t DEF LogoutHolds, Is
    <3> QED
      BY <3>1, <2>1, <1>12 DEF LogoutHolds, Is
  <2> QED
    BY <2>13, <2>14, <2>15, <2>16, <2>17, <2>18, <2>20, <2>21, <2>23, <2>24, <2>25, <1>s
\* ... and what else becomes of a tab that exchanges.
<1>ga. ASSUME NEW t \in Tabs,
              UNCHANGED <<webLocks, stored, expired, request, holder, replacements>>,
              fate' \in Fate, fate'.out = fate.out, fate'.crossed = fate.crossed,
              fate'.wished = fate.wished, lost' \in 0 .. MaxLost,
              sessions' \in [Numbers \ {0} -> SessionStates],
              \A n \in Numbers \ {0} : sessions'[n] # "none" <=> sessions[n] # "none",
              \A n \in Numbers : LiveSession(n)' => LiveSession(n),
              \A n \in Numbers \ {0} : sessions'[n] = "ended" => sessions[n] = "ended" \/ NoneLive',
              cookie' \in {cookie, refresh[t].cookie, 0},
              refresh' \in [Tabs -> RefreshRecords], \A u \in Tabs \ {t} : refresh'[u] = refresh[u],
              refresh[t].step \notin {"none", "queued"}, refresh'[t].step \notin {"none", "queued"},
              refresh'[t].stale = refresh[t].stale,
              refresh'[t].cookie \in {refresh[t].cookie, cookie},
              Saving(t)' => Saving(t) /\ refresh'[t].cookie = refresh[t].cookie,
              refresh'[t].step \in {"sent", "pausing"} => refresh[t].step \in {"sent", "pausing"},
              At(t, "cleared")' => NoneLive'
       PROVE  /\ TabsTypeOK' /\ OneLives' /\ NumbersSuffice' /\ SavesAreNew' /\ StepsAreDue'
              /\ LockHeld' /\ LogoutHolds'
  <2>1. TabsTypeOK'
    <3>1. cookie' \in Numbers
      BY <1>ga, <1>n, <1>w, <1>y
    <3>2. holder' # "nobody" => webLocks' /\ refresh'[holder'].step \notin {"none", "queued"}
      BY <1>ga, <1>y
    <3> QED
      BY <1>ga, <3>1, <3>2, <1>y, <1>z
  <2>2. NoneLive => NoneLive'
    BY <1>ga DEF NoneLive
  <2>3. OneLives'
    <3>1. \A m, n \in Numbers : LiveSession(m)' /\ LiveSession(n)' => m = n
      BY <1>ga, <1>t DEF OneLives
    <3>2. \A n \in Numbers \ {0} : sessions'[n] = "ended" => NoneLive'
      BY <1>ga, <2>2, <1>t DEF OneLives
    <3> QED
      BY <3>1, <3>2 DEF OneLives
  <2>4. NumbersSuffice'
    <3>1. Exchanging' \subseteq Exchanging
      BY <1>ga DEF Exchanging
    <3>2. \A u \in Tabs : refresh'[u].stale \in {refresh[u].stale, 0}
                             /\ refresh'[u].cookie \in {refresh[u].cookie, cookie, 0}
      BY <1>ga
    <3>3. stored' <= k /\ cookie' <= k
      BY <1>ga, <1>k, <1>n
    <3> QED
      BY <1>ga, <3>1, <3>2, <3>3, <1>ab
  <2>5. \A u \in Tabs : Saving(u)' => Saving(u) /\ refresh'[u].cookie = refresh[u].cookie
    BY <1>ga DEF Saving
  <2>6. \A u \in Tabs : refresh'[u].stale = refresh[u].stale
    BY <1>ga
  <2>7. SavesAreNew'
    BY <1>ga, <2>5, <2>6, <1>t DEF SavesAreNew
  <2>8. StepsAreDue'
    <3>1. \A u \in Tabs : At(u, "queued")' => At(u, "queued")
      BY <1>ga DEF At
    <3>2. \A u \in Tabs : At(u, "cleared")' => NoneLive'
      BY <1>ga, <2>2, <1>t DEF StepsAreDue, At
    <3> QED
      BY <1>ga, <3>1, <3>2, <1>a
  <2>9. LockHeld'
    <3>1. \A u \in Tabs : refresh'[u].step \notin {"none", "queued"} => refresh[u].step \notin {"none", "queued"}
      BY <1>ga
    <3> QED
      BY <1>ga, <2>5, <3>1, <1>t DEF LockHeld
  <2>10. LogoutHolds'
    BY <1>ga, <2>2, <2>5, <1>t DEF LogoutHolds, Is
  <2> QED
    BY <2>1, <2>3, <2>4, <2>7, <2>8, <2>9, <2>10
\* What a step that leaves the sessions alone does to the ones alive.
<1>gb. ASSUME UNCHANGED sessions
       PROVE  /\ sessions' \in [Numbers \ {0} -> SessionStates]
              /\ \A n \in Numbers \ {0} : sessions'[n] # "none" <=> sessions[n] # "none"
              /\ \A n \in Numbers : LiveSession(n)' <=> LiveSession(n)
              /\ \A n \in Numbers \ {0} : sessions'[n] = "ended" => sessions[n] = "ended" \/ NoneLive'
              /\ NoneLive' <=> NoneLive
  BY <1>gb, <1>y DEF LiveSession, NoneLive
<1>13. ASSUME NEW t \in Tabs, At(t, "sent"), Replays(t),
              UNCHANGED <<webLocks, stored, cookie, expired, request, holder, lost>>
       PROVE  TabsInv'
  <2> DEFINE old == refresh[t].cookie
  <2>1. refresh[t].step = "sent" /\ old \in Numbers \ {0} /\ replacements' = replacements
        /\ lost' \in 0 .. MaxLost /\ cookie' \in {cookie, refresh[t].cookie, 0}
    BY <1>13, <1>w, <1>y DEF Replays, At
  <2>2. CASE sessions[old] = "rotated" /\ UNCHANGED <<sessions, fate>>
             /\ Goes(t, IF refresh[t].again THEN "failed" ELSE "pausing")
    <3> DEFINE s == IF refresh[t].again THEN "failed" ELSE "pausing"
    <3>1. s \in RefreshStates /\ s \in {"failed", "pausing"}
      BY DEF RefreshStates
    <3> HIDE DEF s
    <3>2. /\ refresh' \in [Tabs -> RefreshRecords] /\ refresh'[t].step = s
          /\ refresh'[t].stale = refresh[t].stale /\ refresh'[t].cookie = refresh[t].cookie
          /\ \A u \in Tabs \ {t} : refresh'[u] = refresh[u]
      <4>1. Goes(t, s)
        BY <2>2 DEF s
      <4> QED
        BY <3>1, <4>1, <1>r
    <3>3. /\ TabsTypeOK' /\ OneLives' /\ NumbersSuffice' /\ SavesAreNew' /\ StepsAreDue'
          /\ LockHeld' /\ LogoutHolds'
      <4>1. ~Saving(t)' /\ ~At(t, "cleared")'
        BY <3>1, <3>2 DEF Saving, At
      <4>2. fate' \in Fate /\ fate'.out = fate.out /\ fate'.crossed = fate.crossed
            /\ fate'.wished = fate.wished
        BY <2>2, <1>y
      <4> QED
        BY <1>13, <2>1, <2>2, <3>1, <3>2, <4>1, <4>2, <1>gb, <1>ga
    <3>4. \A u \in Tabs : /\ At(u, "fresh")' <=> At(u, "fresh")
                          /\ Saving(u)' <=> Saving(u)
                          /\ At(u, "sent")' => At(u, "sent")
                          /\ refresh'[u].cookie = refresh[u].cookie
                          /\ refresh'[u].stale = refresh[u].stale
      BY <2>1, <3>1, <3>2 DEF At, Saving
    <3>5. FreshIsUnseen'
      BY <1>13, <2>2, <3>4, <1>gb, <1>t DEF FreshIsUnseen
    <3>6. NothingLost'
      BY <1>13, <2>2, <3>4, <1>gb, <1>t DEF NothingLost
    <3>7. Calm'
      <4>1. SUFFICES ASSUME lost' = 0, ~fate'.elsewhere, ~fate'.wished
            PROVE  /\ ~NoneLive' /\ cookie' # 0
                   /\ \A u \in Tabs : At(u, "sent")' => refresh'[u].cookie # 0
                   /\ stored' # 0 \/ (\E u \in Tabs : Saving(u))'
                   /\ \A u \in Tabs :
                        /\ stored' = refresh'[u].stale
                        /\ \/ At(u, "failed")'
                           \/ At(u, "sent")' /\ sessions'[refresh'[u].cookie] = "rotated"
                        => (\E v \in Tabs : Saving(v))'
        BY DEF Calm
      <4>2. /\ ~NoneLive /\ cookie # 0
            /\ \A u \in Tabs : At(u, "sent") => refresh[u].cookie # 0
            /\ stored # 0 \/ \E u \in Tabs : Saving(u)
            /\ \A u \in Tabs :
                 /\ stored = refresh[u].stale
                 /\ At(u, "failed") \/ (At(u, "sent") /\ sessions[refresh[u].cookie] = "rotated")
                 => \E v \in Tabs : Saving(v)
        BY <4>1, <1>13, <2>2, <1>t DEF Calm
      <4>3. \A u \in Tabs : At(u, "failed")' =>
               At(u, "failed") \/ (At(u, "sent") /\ sessions[refresh[u].cookie] = "rotated")
        BY <2>1, <2>2, <3>2 DEF At
      <4>4. (\E v \in Tabs : Saving(v)) => (\E v \in Tabs : Saving(v))'
        BY <3>4
      <4> QED
        BY <1>13, <2>2, <3>4, <4>2, <4>3, <4>4, <1>gb
    <3>8. TradedOnce'
      <4>1. webLocks /\ lost = 0 /\ ~fate.wished => FALSE
        <5>1. ASSUME webLocks, lost = 0, ~fate.wished PROVE FALSE
          <6>1. old = cookie
            BY <5>1, <1>13, <1>t DEF TradedOnce
          <6>2. PICK u \in Tabs : At(u, "fresh")
            BY <5>1, <6>1, <2>1, <2>2, <1>t DEF NothingLost
          <6>3. holder = u /\ holder = t
            BY <5>1, <6>2, <2>1, <1>t DEF LockHeld, At
          <6> QED
            BY <6>2, <6>3, <2>1 DEF At
        <5> QED
          BY <5>1
      <4> QED
        BY <4>1, <1>13, <2>2 DEF TradedOnce
    <3> QED
      BY <3>3, <3>5, <3>6, <3>7, <3>8, <1>s
  <2>3. CASE sessions[old] = "replayable" /\ Goes(t, "cleared")
             /\ sessions' = [n \in Numbers \ {0} |-> IF sessions[n] = "live" THEN "ended"
                                                     ELSE sessions[n]]
             /\ fate' = [fate EXCEPT !.alarm = TRUE]
    <3>1. /\ refresh' \in [Tabs -> RefreshRecords] /\ refresh'[t].step = "cleared"
          /\ refresh'[t].stale = refresh[t].stale /\ refresh'[t].cookie = refresh[t].cookie
          /\ \A u \in Tabs \ {t} : refresh'[u] = refresh[u]
      <4>1. "cleared" \in RefreshStates
        BY DEF RefreshStates
      <4> QED
        BY <4>1, <2>3, <1>r
    <3>2. lost # 0 /\ lost' # 0
      BY <1>13, <2>1, <2>3, <1>t DEF NothingLost
    <3>3. /\ fate' \in Fate /\ fate'.out = fate.out /\ fate'.crossed = fate.crossed
          /\ fate'.wished = fate.wished
      <4>1. TRUE \in BOOLEAN
        OBVIOUS
      <4> QED
        BY <4>1, <2>3, <1>v, Zenon
    <3>4. /\ sessions' \in [Numbers \ {0} -> SessionStates]
          /\ \A n \in Numbers \ {0} : sessions'[n] # "live"
          /\ \A n \in Numbers \ {0} : sessions[n] # "live" => sessions'[n] = sessions[n]
          /\ \A n \in Numbers \ {0} : sessions[n] = "live" => sessions'[n] = "ended"
      <4>1. \A n \in Numbers \ {0} : sessions'[n] = IF sessions[n] = "live" THEN "ended"
                                                    ELSE sessions[n]
        BY <2>3
      <4>2. sessions' \in [Numbers \ {0} -> SessionStates]
        BY <2>3, <1>y DEF SessionStates
      <4> QED
        BY <4>1, <4>2
    <3>5. NoneLive' /\ \A n \in Numbers : ~LiveSession(n)'
      BY <3>4 DEF NoneLive, LiveSession
    <3>6. /\ TabsTypeOK' /\ OneLives' /\ NumbersSuffice' /\ SavesAreNew' /\ StepsAreDue'
          /\ LockHeld' /\ LogoutHolds'
      <4>1. ~Saving(t)'
        BY <3>1 DEF Saving
      <4>2. \A n \in Numbers \ {0} : sessions'[n] # "none" <=> sessions[n] # "none"
        BY <3>4
      <4> QED
        BY <1>13, <2>1, <3>1, <3>3, <3>4, <3>5, <4>1, <4>2, <1>ga
    <3>7. FreshIsUnseen'
      <4>1. \A u \in Tabs : At(u, "fresh") => refresh[u].cookie \in Numbers \ {0}
              /\ sessions[refresh[u].cookie] \in {"live", "ended"}
        BY <1>t, <1>w DEF FreshIsUnseen, SavesAreNew, Saving, At
      <4>2. \A u \in Tabs : At(u, "fresh")' => At(u, "fresh") /\ refresh'[u] = refresh[u]
        BY <3>1 DEF At
      <4>3. \A u \in Tabs : At(u, "sent")' => At(u, "sent") /\ refresh'[u] = refresh[u]
        BY <3>1 DEF At
      <4> QED
        BY <4>1, <4>2, <4>3, <1>13, <3>4, <3>5, <1>t DEF FreshIsUnseen
    <3>8. NothingLost' /\ Calm' /\ TradedOnce'
      BY <3>2 DEF NothingLost, Calm, TradedOnce
    <3> QED
      BY <3>6, <3>7, <3>8, <1>s
  <2> QED
    BY <1>13, <2>2, <2>3 DEF Replays
<1>14. ASSUME NEW t \in Tabs, At(t, "sent"), Refuses(t),
              UNCHANGED <<webLocks, stored, cookie, expired, request, holder, lost>>
       PROVE  TabsInv'
  <2> DEFINE old == refresh[t].cookie
             s == IF old = 0 THEN "failed" ELSE "cleared"
  <2>1. /\ refresh[t].step = "sent" /\ (old # 0 => sessions[old] = "ended")
        /\ UNCHANGED <<sessions, fate, replacements>> /\ Goes(t, s) /\ old \in Numbers
        /\ lost' \in 0 .. MaxLost /\ cookie' \in {cookie, refresh[t].cookie, 0}
    BY <1>14, <1>w, <1>y DEF Refuses, At
  <2>2. s \in RefreshStates /\ s \in {"failed", "cleared"} /\ (s = "cleared" => old # 0)
    BY DEF RefreshStates
  <2> HIDE DEF s
  <2>3. /\ refresh' \in [Tabs -> RefreshRecords] /\ refresh'[t].step = s
        /\ refresh'[t].stale = refresh[t].stale /\ refresh'[t].cookie = refresh[t].cookie
        /\ \A u \in Tabs \ {t} : refresh'[u] = refresh[u]
    BY <2>1, <2>2, <1>r
  <2>4. old # 0 => NoneLive
    BY <2>1, <1>t DEF OneLives
  <2>5. /\ TabsTypeOK' /\ OneLives' /\ NumbersSuffice' /\ SavesAreNew' /\ StepsAreDue'
        /\ LockHeld' /\ LogoutHolds'
    <3>1. ~Saving(t)' /\ (At(t, "cleared")' => NoneLive')
      BY <2>1, <2>2, <2>3, <2>4, <1>gb DEF Saving, At
    <3>2. fate' \in Fate /\ fate'.out = fate.out /\ fate'.crossed = fate.crossed
          /\ fate'.wished = fate.wished
      BY <2>1, <1>y
    <3> QED
      BY <1>14, <2>1, <2>2, <2>3, <3>1, <3>2, <1>gb, <1>ga
  <2>6. \A u \in Tabs : /\ At(u, "fresh")' <=> At(u, "fresh")
                        /\ Saving(u)' <=> Saving(u)
                        /\ At(u, "sent")' => At(u, "sent")
                        /\ refresh'[u].cookie = refresh[u].cookie
                        /\ refresh'[u].stale = refresh[u].stale
    BY <2>1, <2>2, <2>3 DEF At, Saving
  <2>7. FreshIsUnseen'
    BY <1>14, <2>1, <2>6, <1>gb, <1>t DEF FreshIsUnseen
  <2>8. NothingLost'
    BY <1>14, <2>1, <2>6, <1>gb, <1>t DEF NothingLost
  <2>9. Calm'
    <3>1. ~(lost = 0 /\ ~fate.elsewhere /\ ~fate.wished)
      BY <1>14, <2>4, <1>t DEF Calm
    <3> QED
      BY <3>1, <1>14, <2>1 DEF Calm
  <2>10. TradedOnce'
    <3>1. SUFFICES ASSUME webLocks', lost' = 0, ~fate'.wished
          PROVE  /\ \A u \in Tabs : At(u, "sent")' => refresh'[u].cookie = cookie'
                 /\ \A u \in Tabs : ~At(u, "pausing")'
                 /\ \A u \in Tabs : At(u, "failed")' => NoneLive'
                 /\ stored' = 0 => NoneLive'
                 /\ \A n \in Numbers \ {0} : replacements'[n] > 0 =>
                      n # stored' \/ (\E u \in Tabs : Saving(u) /\ refresh[u].stale = n)'
                 /\ \A u \in Tabs : At(u, "sent")' /\ refresh'[u].stale # 0 =>
                      replacements'[refresh'[u].stale] = 0 \/ NoneLive'
                 /\ \A n \in Numbers \ {0} : replacements'[n] <= 1
      BY DEF TradedOnce
    <3>2. webLocks /\ lost = 0 /\ ~fate.wished
      BY <3>1, <1>14, <2>1
    <3>3. /\ \A u \in Tabs : At(u, "sent") => refresh[u].cookie = cookie
          /\ \A u \in Tabs : ~At(u, "pausing")
          /\ \A u \in Tabs : At(u, "failed") => NoneLive
          /\ stored = 0 => NoneLive
          /\ \A n \in Numbers \ {0} : replacements[n] > 0 =>
               n # stored \/ \E u \in Tabs : Saving(u) /\ refresh[u].stale = n
          /\ \A u \in Tabs : At(u, "sent") /\ refresh[u].stale # 0 =>
               replacements[refresh[u].stale] = 0 \/ NoneLive
          /\ \A n \in Numbers \ {0} : replacements[n] <= 1
      BY <3>2, <1>t DEF TradedOnce
    <3>4. NoneLive
      <4>1. ASSUME old = 0, NEW n \in Numbers, LiveSession(n) PROVE FALSE
        <5>1. cookie = 0
          BY <4>1, <3>3, <1>14
        <5>2. n # cookie
          BY <5>1, <4>1 DEF LiveSession
        <5>3. PICK u \in Tabs : At(u, "fresh")
          BY <5>2, <4>1, <3>2, <1>t DEF NothingLost
        <5>4. holder = u /\ holder = t
          BY <3>2, <5>3, <2>1, <1>t DEF LockHeld, At
        <5> QED
          BY <5>3, <5>4, <2>1 DEF At
      <4> QED
        BY <4>1, <2>4 DEF NoneLive
    <3>5. \A n \in Numbers : (\E u \in Tabs : Saving(u) /\ refresh[u].stale = n)
            => (\E u \in Tabs : Saving(u) /\ refresh[u].stale = n)'
      BY <2>6
    <3>6. \A u \in Tabs : ~At(u, "pausing")'
      BY <3>3, <2>2, <2>3 DEF At
    <3> QED
      BY <3>3, <3>4, <3>5, <3>6, <2>1, <2>6, <1>14, <1>gb
  <2> QED
    BY <2>5, <2>7, <2>8, <2>9, <2>10, <1>s
<1>15. ASSUME NEW t \in Tabs, Exchanges(t) PROVE TabsInv'
  BY <1>15, <1>12, <1>13, <1>14 DEF Exchanges
\* The answer arrives.
<1>16. ASSUME NEW t \in Tabs, Arrives(t) PROVE TabsInv'
  <2>1. UNCHANGED <<webLocks, stored, sessions, expired, request, holder, replacements,
                      fate, lost>>
    BY <1>16 DEF Arrives
  <2>2. fate' \in Fate /\ fate'.out = fate.out /\ fate'.crossed = fate.crossed
        /\ fate'.wished = fate.wished /\ lost' \in 0 .. MaxLost
    BY <2>1, <1>y
  <2>3. CASE At(t, "fresh") /\ cookie' = refresh[t].cookie /\ Goes(t, "reading")
    <3>1. /\ refresh' \in [Tabs -> RefreshRecords] /\ refresh'[t].step = "reading"
          /\ refresh'[t].stale = refresh[t].stale /\ refresh'[t].cookie = refresh[t].cookie
          /\ \A u \in Tabs \ {t} : refresh'[u] = refresh[u]
      <4>1. "reading" \in RefreshStates
        BY DEF RefreshStates
      <4> QED
        BY <4>1, <2>3, <1>r
    <3>2. Saving(t) /\ ~At(t, "cleared")' /\ refresh[t].step = "fresh"
      BY <2>3, <3>1 DEF Saving, At
    <3>3. /\ TabsTypeOK' /\ OneLives' /\ NumbersSuffice' /\ SavesAreNew' /\ StepsAreDue'
          /\ LockHeld' /\ LogoutHolds'
      <4>1. cookie' \in {cookie, refresh[t].cookie, 0}
        BY <2>3
      <4> QED
        BY <4>1, <2>1, <2>2, <3>1, <3>2, <1>gb, <1>ga
    <3>4. \A u \in Tabs : /\ At(u, "fresh")' => At(u, "fresh") /\ u # t
                          /\ Saving(u)' <=> Saving(u)
                          /\ refresh'[u].step \in {"sent", "pausing", "failed"} =>
                               refresh[u].step = refresh'[u].step
                          /\ refresh'[u].cookie = refresh[u].cookie
                          /\ refresh'[u].stale = refresh[u].stale
      BY <3>1, <3>2 DEF At, Saving
    <3>5. /\ refresh[t].cookie \in Numbers \ {0}
          /\ sessions[refresh[t].cookie] \in {"live", "ended"}
          /\ \A u \in Tabs : At(u, "sent") => refresh[u].cookie # refresh[t].cookie
          /\ \A n \in Numbers : LiveSession(n) => n = refresh[t].cookie
          /\ \A u \in Tabs \ {t} : Saving(u) => refresh[u].cookie # refresh[t].cookie
      BY <2>3, <3>2, <1>t, <1>w DEF FreshIsUnseen, SavesAreNew
    <3>6. FreshIsUnseen'
      <4>1. ASSUME NEW u \in Tabs, At(u, "fresh")'
            PROVE  /\ sessions'[refresh'[u].cookie] \in {"live", "ended"}
                   /\ cookie' # refresh'[u].cookie
                   /\ \A v \in Tabs : At(v, "sent")' => refresh'[v].cookie # refresh'[u].cookie
                   /\ \A n \in Numbers : LiveSession(n)' => n = refresh'[u].cookie
        <5>1. At(u, "fresh") /\ u # t /\ Saving(u)
          BY <4>1, <3>4 DEF At, Saving
        <5>2. \A v \in Tabs : At(v, "sent")' => At(v, "sent")
          BY <3>4 DEF At
        <5> QED
          BY <5>1, <5>2, <2>1, <2>3, <3>4, <3>5, <1>gb, <1>t DEF FreshIsUnseen
      <4> QED
        BY <4>1 DEF FreshIsUnseen
    <3>7. NothingLost'
      BY <2>1, <2>3, <3>5, <1>gb, <1>t DEF NothingLost
    <3>8. (\E u \in Tabs : Saving(u))'
      BY <3>2, <3>4
    <3>9. Calm'
      <4>1. SUFFICES ASSUME lost' = 0, ~fate'.elsewhere, ~fate'.wished
            PROVE  ~NoneLive' /\ cookie' # 0
                   /\ \A u \in Tabs : At(u, "sent")' => refresh'[u].cookie # 0
        BY <3>8 DEF Calm
      <4>2. ~NoneLive /\ \A u \in Tabs : At(u, "sent") => refresh[u].cookie # 0
        BY <4>1, <2>1, <1>t DEF Calm
      <4> QED
        BY <4>2, <2>1, <2>3, <3>4, <3>5, <1>gb DEF At
    <3>10. TradedOnce'
      <4>1. SUFFICES ASSUME webLocks', lost' = 0, ~fate'.wished
            PROVE  /\ \A u \in Tabs : At(u, "sent")' => refresh'[u].cookie = cookie'
                   /\ \A u \in Tabs : ~At(u, "pausing")'
                   /\ \A u \in Tabs : At(u, "failed")' => NoneLive'
                   /\ stored' = 0 => NoneLive'
                   /\ \A n \in Numbers \ {0} : replacements'[n] > 0 =>
                        n # stored' \/ (\E u \in Tabs : Saving(u) /\ refresh[u].stale = n)'
                   /\ \A u \in Tabs : At(u, "sent")' /\ refresh'[u].stale # 0 =>
                        replacements'[refresh'[u].stale] = 0 \/ NoneLive'
                   /\ \A n \in Numbers \ {0} : replacements'[n] <= 1
        BY DEF TradedOnce
      <4>2. \A u \in Tabs \ {t} : refresh'[u].step \in {"none", "queued"}
        BY <4>1, <2>1, <3>1, <3>2, <1>t DEF LockHeld
      <4>3. /\ stored = 0 => NoneLive
            /\ \A n \in Numbers \ {0} : replacements[n] > 0 =>
                 n # stored \/ \E u \in Tabs : Saving(u) /\ refresh[u].stale = n
            /\ \A n \in Numbers \ {0} : replacements[n] <= 1
        BY <4>1, <2>1, <1>t DEF TradedOnce
      <4>4. \A n \in Numbers : (\E u \in Tabs : Saving(u) /\ refresh[u].stale = n)
              => (\E u \in Tabs : Saving(u) /\ refresh[u].stale = n)'
        BY <3>4
      <4> QED
        BY <4>2, <4>3, <4>4, <2>1, <3>1, <1>gb DEF At
    <3> QED
      BY <3>3, <3>6, <3>7, <3>9, <3>10, <1>s
  <2>4. CASE At(t, "cleared") /\ cookie' = 0 /\ Goes(t, "failed")
    <3>1. /\ refresh' \in [Tabs -> RefreshRecords] /\ refresh'[t].step = "failed"
          /\ refresh'[t].stale = refresh[t].stale /\ refresh'[t].cookie = refresh[t].cookie
          /\ \A u \in Tabs \ {t} : refresh'[u] = refresh[u]
      <4>1. "failed" \in RefreshStates
        BY DEF RefreshStates
      <4> QED
        BY <4>1, <2>4, <1>r
    <3>2. ~Saving(t)' /\ ~At(t, "cleared")' /\ refresh[t].step = "cleared" /\ ~Saving(t)
      BY <2>4, <3>1 DEF Saving, At
    <3>3. /\ TabsTypeOK' /\ OneLives' /\ NumbersSuffice' /\ SavesAreNew' /\ StepsAreDue'
          /\ LockHeld' /\ LogoutHolds'
      <4>1. cookie' \in {cookie, refresh[t].cookie, 0}
        BY <2>4
      <4> QED
        BY <4>1, <2>1, <2>2, <3>1, <3>2, <1>gb, <1>ga
    <3>4. NoneLive /\ NoneLive' /\ \A n \in Numbers : ~LiveSession(n)
      BY <2>1, <2>4, <1>gb, <1>t DEF StepsAreDue, NoneLive
    <3>5. \A u \in Tabs : /\ At(u, "fresh")' <=> At(u, "fresh")
                          /\ Saving(u)' <=> Saving(u)
                          /\ At(u, "sent")' => At(u, "sent")
                          /\ At(u, "pausing")' => At(u, "pausing")
                          /\ refresh'[u].cookie = refresh[u].cookie
                          /\ refresh'[u].stale = refresh[u].stale
      BY <3>1, <3>2 DEF At, Saving
    <3>6. FreshIsUnseen'
      <4>1. \A u \in Tabs : At(u, "fresh") => refresh[u].cookie # 0
        BY <1>t DEF SavesAreNew, Saving, At
      <4> QED
        BY <4>1, <2>1, <2>4, <3>5, <1>gb, <1>t DEF FreshIsUnseen
    <3>7. NothingLost'
      BY <2>1, <2>4, <3>4, <1>gb, <1>t DEF NothingLost
    <3>8. Calm'
      <4>1. ~(lost = 0 /\ ~fate.elsewhere /\ ~fate.wished)
        BY <3>4, <1>t DEF Calm
      <4> QED
        BY <4>1, <2>1 DEF Calm
    <3>9. TradedOnce'
      <4>1. ASSUME webLocks PROVE \A u \in Tabs : ~At(u, "sent")'
        <5>1. \A u \in Tabs \ {t} : refresh[u].step \in {"none", "queued"}
          BY <4>1, <3>2, <1>t DEF LockHeld
        <5> QED
          BY <5>1, <3>1 DEF At
      <4>2. \A n \in Numbers : (\E u \in Tabs : Saving(u) /\ refresh[u].stale = n)
              => (\E u \in Tabs : Saving(u) /\ refresh[u].stale = n)'
        BY <3>5
      <4> QED
        BY <4>1, <4>2, <2>1, <3>4, <3>5, <1>t DEF TradedOnce
    <3> QED
      BY <3>3, <3>6, <3>7, <3>8, <3>9, <1>s
  <2> QED
    BY <1>16, <2>3, <2>4 DEF Arrives
\* The pause is over.
<1>17. ASSUME NEW t \in Tabs, PresentsAgain(t) PROVE TabsInv'
  <2>1. /\ refresh[t].step = "pausing"
        /\ refresh' = [refresh EXCEPT ![t].step = "sent", ![t].cookie = cookie, ![t].again = TRUE]
        /\ UNCHANGED <<webLocks, stored, cookie, sessions, expired, request, holder,
                         replacements, fate, lost>>
    BY <1>17 DEF PresentsAgain, At
  <2>2. /\ refresh' \in [Tabs -> RefreshRecords] /\ refresh'[t].step = "sent"
        /\ refresh'[t].stale = refresh[t].stale /\ refresh'[t].cookie = cookie
        /\ \A u \in Tabs \ {t} : refresh'[u] = refresh[u]
    <3> DEFINE q == [refresh[t] EXCEPT !.step = "sent", !.cookie = cookie, !.again = TRUE]
    <3>1. refresh' = [refresh EXCEPT ![t] = q]
      BY <2>1, <1>y
    <3>2. refresh[t] \in RefreshRecords /\ "sent" \in RefreshStates /\ cookie \in Numbers
      BY <1>w, <1>y DEF RefreshStates
    <3>3. \A b \in BOOLEAN :
            /\ [refresh[t] EXCEPT !.step = "sent", !.cookie = cookie, !.again = b] \in RefreshRecords
            /\ [refresh[t] EXCEPT !.step = "sent", !.cookie = cookie, !.again = b].step = "sent"
            /\ [refresh[t] EXCEPT !.step = "sent", !.cookie = cookie, !.again = b].stale
                 = refresh[t].stale
            /\ [refresh[t] EXCEPT !.step = "sent", !.cookie = cookie, !.again = b].cookie = cookie
      BY <3>2 DEF RefreshRecords
    <3>4. TRUE \in BOOLEAN
      OBVIOUS
    <3>5. q \in RefreshRecords /\ q.step = "sent" /\ q.stale = refresh[t].stale /\ q.cookie = cookie
      BY <3>3, <3>4, Zenon
    <3> HIDE DEF q
    <3> QED
      BY <3>1, <3>5, <1>i
  <2>3. /\ TabsTypeOK' /\ OneLives' /\ NumbersSuffice' /\ SavesAreNew' /\ StepsAreDue'
        /\ LockHeld' /\ LogoutHolds'
    <3>1. ~Saving(t)' /\ ~At(t, "cleared")' /\ cookie' \in {cookie, refresh[t].cookie, 0}
      BY <2>1, <2>2 DEF Saving, At
    <3>2. fate' \in Fate /\ fate'.out = fate.out /\ fate'.crossed = fate.crossed
          /\ fate'.wished = fate.wished /\ lost' \in 0 .. MaxLost
      BY <2>1, <1>y
    <3> QED
      BY <2>1, <2>2, <3>1, <3>2, <1>gb, <1>ga
  <2>4. \A u \in Tabs : /\ At(u, "fresh")' <=> At(u, "fresh")
                        /\ Saving(u)' <=> Saving(u)
                        /\ refresh'[u].stale = refresh[u].stale
                        /\ u # t => refresh'[u] = refresh[u]
    BY <2>1, <2>2 DEF At, Saving
  <2>5. FreshIsUnseen'
    <3>1. \A u \in Tabs : At(u, "fresh")' => At(u, "fresh") /\ refresh'[u] = refresh[u]
      BY <2>2, <2>4 DEF At
    <3>2. \A u \in Tabs : At(u, "sent")' => (At(u, "sent") /\ refresh'[u] = refresh[u])
                                            \/ refresh'[u].cookie = cookie
      BY <2>2 DEF At
    <3>3. ASSUME NEW u \in Tabs, At(u, "fresh")'
          PROVE  /\ sessions'[refresh'[u].cookie] \in {"live", "ended"}
                 /\ cookie' # refresh'[u].cookie
                 /\ \A v \in Tabs : At(v, "sent")' => refresh'[v].cookie # refresh'[u].cookie
                 /\ \A n \in Numbers : LiveSession(n)' => n = refresh'[u].cookie
      <4>1. At(u, "fresh") /\ refresh'[u] = refresh[u]
        BY <3>1, <3>3
      <4>2. /\ sessions[refresh[u].cookie] \in {"live", "ended"}
            /\ cookie # refresh[u].cookie
            /\ \A v \in Tabs : At(v, "sent") => refresh[v].cookie # refresh[u].cookie
            /\ \A n \in Numbers : LiveSession(n) => n = refresh[u].cookie
        BY <4>1, <1>t DEF FreshIsUnseen
      <4>3. \A v \in Tabs : At(v, "sent")' => refresh'[v].cookie # refresh[u].cookie
        BY <3>2, <4>2
      <4> QED
        BY <4>1, <4>2, <4>3, <2>1, <1>gb
    <3> QED
      BY <3>3 DEF FreshIsUnseen
  <2>6. NothingLost'
    <3>1. \A n \in Numbers : (\E u \in Tabs : At(u, "fresh") /\ refresh[u].cookie = n)
            => (\E u \in Tabs : At(u, "fresh") /\ refresh[u].cookie = n)'
      BY <2>1, <2>4 DEF At
    <3>2. (\E u \in Tabs : At(u, "fresh")) => (\E u \in Tabs : At(u, "fresh"))'
      BY <2>4
    <3> QED
      BY <2>1, <3>1, <3>2, <1>gb, <1>t DEF NothingLost
  <2>7. Calm'
    <3>1. SUFFICES ASSUME lost' = 0, ~fate'.elsewhere, ~fate'.wished
          PROVE  /\ ~NoneLive' /\ cookie' # 0
                 /\ \A u \in Tabs : At(u, "sent")' => refresh'[u].cookie # 0
                 /\ stored' # 0 \/ (\E u \in Tabs : Saving(u))'
                 /\ \A u \in Tabs :
                      /\ stored' = refresh'[u].stale
                      /\ \/ At(u, "failed")'
                         \/ At(u, "sent")' /\ sessions'[refresh'[u].cookie] = "rotated"
                      => (\E v \in Tabs : Saving(v))'
      BY DEF Calm
    <3>2. /\ ~NoneLive /\ cookie # 0
          /\ \A u \in Tabs : At(u, "sent") => refresh[u].cookie # 0
          /\ stored # 0 \/ \E u \in Tabs : Saving(u)
          /\ \A u \in Tabs :
               /\ stored = refresh[u].stale
               /\ At(u, "failed") \/ (At(u, "sent") /\ sessions[refresh[u].cookie] = "rotated")
               => \E v \in Tabs : Saving(v)
      BY <3>1, <2>1, <1>t DEF Calm
    <3>3. sessions[cookie] = "rotated" => \E u \in Tabs : Saving(u)
      BY <3>1, <3>2, <2>1, <1>t DEF NothingLost, Saving, At
    <3>4. (\E v \in Tabs : Saving(v)) => (\E v \in Tabs : Saving(v))'
      BY <2>4
    <3>5. ASSUME NEW u \in Tabs, stored' = refresh'[u].stale,
                 \/ At(u, "failed")'
                 \/ At(u, "sent")' /\ sessions'[refresh'[u].cookie] = "rotated"
          PROVE  (\E v \in Tabs : Saving(v))'
      <4>1. CASE u = t
        BY <4>1, <3>3, <3>4, <3>5, <2>1, <2>2 DEF At
      <4>2. CASE u # t
        <5>1. refresh'[u] = refresh[u] /\ stored' = stored /\ sessions' = sessions
          BY <4>2, <2>1, <2>2
        <5> QED
          BY <5>1, <3>2, <3>4, <3>5 DEF At
      <4> QED
        BY <4>1, <4>2
    <3>6. \A u \in Tabs : At(u, "sent")' => refresh'[u].cookie # 0
      BY <3>2, <2>2 DEF At
    <3> QED
      BY <2>1, <3>2, <3>4, <3>5, <3>6, <1>gb
  <2>8. TradedOnce'
    <3>1. ~(webLocks /\ lost = 0 /\ ~fate.wished)
      BY <2>1, <1>t DEF TradedOnce, At
    <3> QED
      BY <3>1, <2>1 DEF TradedOnce
  <2> QED
    BY <2>3, <2>5, <2>6, <2>7, <2>8, <1>s
\* An answer is lost.
<1>18. ASSUME NEW t \in Tabs, Loses(t) PROVE TabsInv'
  <2>1. /\ lost < MaxLost /\ lost' = lost + 1 /\ refresh[t].step \in {"sent", "fresh", "cleared"}
        /\ Goes(t, "failed")
        /\ UNCHANGED <<webLocks, stored, cookie, sessions, expired, request, holder,
                         replacements, fate>>
    BY <1>18 DEF Loses, Losing, At
  <2>2. /\ refresh' \in [Tabs -> RefreshRecords] /\ refresh'[t].step = "failed"
        /\ refresh'[t].stale = refresh[t].stale /\ refresh'[t].cookie = refresh[t].cookie
        /\ \A u \in Tabs \ {t} : refresh'[u] = refresh[u]
    <3>1. "failed" \in RefreshStates
      BY DEF RefreshStates
    <3> QED
      BY <3>1, <2>1, <1>r
  <2>3. lost' \in 0 .. MaxLost /\ lost' # 0
    BY <2>1, <1>y, TabsAssumption
  <2>4. /\ TabsTypeOK' /\ OneLives' /\ NumbersSuffice' /\ SavesAreNew' /\ StepsAreDue'
        /\ LockHeld' /\ LogoutHolds'
    <3>1. ~Saving(t)' /\ ~At(t, "cleared")' /\ cookie' \in {cookie, refresh[t].cookie, 0}
      BY <2>1, <2>2 DEF Saving, At
    <3>2. fate' \in Fate /\ fate'.out = fate.out /\ fate'.crossed = fate.crossed
          /\ fate'.wished = fate.wished
      BY <2>1, <1>y
    <3> QED
      BY <2>1, <2>2, <2>3, <3>1, <3>2, <1>gb, <1>ga
  <2>5. FreshIsUnseen'
    <3>1. \A u \in Tabs : At(u, "fresh")' => At(u, "fresh") /\ refresh'[u] = refresh[u]
      BY <2>2 DEF At
    <3>2. \A u \in Tabs : At(u, "sent")' => At(u, "sent") /\ refresh'[u] = refresh[u]
      BY <2>2 DEF At
    <3> QED
      BY <2>1, <3>1, <3>2, <1>gb, <1>t DEF FreshIsUnseen
  <2> QED
    BY <2>3, <2>4, <2>5, <1>s DEF NothingLost, Calm, TradedOnce
\* What the end of a refresh leaves in any case.
<1>gc. ASSUME NEW t \in Tabs, Over(t), UNCHANGED <<webLocks, cookie, sessions, expired, replacements>>,
              fate' = fate, lost' \in 0 .. MaxLost, request' \in [Calls -> RequestRecords],
              stored' \in Numbers, stored' <= k,
              \A d \in Calls : request'[d].token \in {request[d].token, 0},
              \A d \in Calls : request'[d].step = "ok" => request[d].step = "ok",
              Spent \subseteq Spent', StepsAreDue',
              \A u \in Tabs \ {t} : Saving(u) => stored' # refresh[u].cookie,
              fate.out /\ webLocks /\ ~fate.crossed => stored' = 0
       PROVE  /\ TabsTypeOK' /\ OneLives' /\ NumbersSuffice' /\ SavesAreNew' /\ FreshIsUnseen'
              /\ LockHeld' /\ LogoutHolds'
  <2>1. /\ refresh' \in [Tabs -> RefreshRecords] /\ refresh'[t].step = "none"
        /\ refresh'[t].stale = 0 /\ refresh'[t].cookie = 0
        /\ \A u \in Tabs \ {t} : refresh'[u] = refresh[u]
        /\ holder' \in Tabs \cup {"nobody"} /\ holder' # t
        /\ holder' # "nobody" => holder' = holder /\ holder \in Tabs \ {t}
        /\ holder # t => holder' = holder
        /\ Exchanging' \subseteq Exchanging
    BY <1>gc, <1>b
  <2>2. TabsTypeOK'
    <3>1. holder' # "nobody" => webLocks' /\ refresh'[holder'].step \notin {"none", "queued"}
      BY <2>1, <1>gc, <1>y
    <3>2. fate' \in Fate
      BY <1>gc, <1>y
    <3> QED
      BY <1>gc, <2>1, <3>1, <3>2, <1>y, <1>z
  <2>3. OneLives'
    BY <1>gc, <1>gb, <1>t DEF OneLives
  <2>4. NumbersSuffice'
    <3>1. \A d \in Calls : request'[d].token <= k
      BY <1>gc, <1>k, <1>n
    <3>2. \A u \in Tabs : refresh'[u].stale <= k /\ refresh'[u].cookie <= k
      BY <2>1, <1>k, <1>n
    <3> QED
      BY <1>gc, <1>gb, <2>1, <3>1, <3>2, <1>k, <1>c
  <2>5. \A u \in Tabs : Saving(u)' => u # t /\ Saving(u) /\ refresh'[u] = refresh[u]
    BY <2>1 DEF Saving
  <2>6. SavesAreNew'
    <3>1. \A u \in Tabs : refresh'[u].stale \in {refresh[u].stale, 0}
      BY <2>1
    <3> QED
      BY <1>gc, <2>5, <3>1, <1>t DEF SavesAreNew
  <2>7. FreshIsUnseen'
    <3>1. \A u \in Tabs : At(u, "fresh")' => At(u, "fresh") /\ refresh'[u] = refresh[u]
      BY <2>1 DEF At
    <3>2. \A u \in Tabs : At(u, "sent")' => At(u, "sent") /\ refresh'[u] = refresh[u]
      BY <2>1 DEF At
    <3> QED
      BY <1>gc, <3>1, <3>2, <1>gb, <1>t DEF FreshIsUnseen
  <2>8. LockHeld'
    <3>1. ASSUME webLocks', NEW u \in Tabs, refresh'[u].step \notin {"none", "queued"}
          PROVE  holder' = u
      <4>1. u # t /\ refresh[u].step \notin {"none", "queued"}
        BY <3>1, <2>1
      <4>2. holder = u
        BY <4>1, <3>1, <1>gc, <1>t DEF LockHeld
      <4> QED
        BY <4>1, <4>2, <2>1
    <3>2. ASSUME webLocks', NEW u \in Tabs, Saving(u)'
          PROVE  \A n \in Numbers : LiveSession(n)' => n = refresh'[u].cookie
      BY <3>2, <2>5, <1>gc, <1>gb, <1>t DEF LockHeld
    <3> QED
      BY <3>1, <3>2 DEF LockHeld
  <2>9. LogoutHolds'
    <3>1. NoneLive => NoneLive'
      BY <1>gc, <1>gb
    <3> QED
      BY <1>gc, <2>5, <3>1, <1>t DEF LogoutHolds, Is
  <2> QED
    BY <2>2, <2>3, <2>4, <2>6, <2>7, <2>8, <2>9
<1>19. ASSUME NEW t \in Tabs, Closes(t) PROVE TabsInv'
  <2>1. /\ lost < MaxLost /\ lost' = lost + 1 /\ Over(t)
        /\ request' = [c \in Calls |-> IF HomeOf[c] = t THEN Finished ELSE request[c]]
        /\ UNCHANGED <<webLocks, stored, cookie, sessions, expired, replacements, fate>>
    BY <1>19 DEF Closes, Losing
  <2>2. lost' \in 0 .. MaxLost /\ lost' # 0
    BY <2>1, <1>y, TabsAssumption
  <2>3. /\ request' \in [Calls -> RequestRecords]
        /\ \A d \in Calls : request'[d] = request[d] \/ request'[d] = Finished
    <3>1. request' \in [Calls -> RequestRecords]
      BY <2>1, <1>d, <1>y
    <3> QED
      BY <3>1, <2>1
  <2>4. /\ refresh'[t].step = "none" /\ \A u \in Tabs \ {t} : refresh'[u] = refresh[u]
    BY <2>1, <1>b
  <2>5. StepsAreDue'
    <3>1. \A d \in Logouts : request'[d].step \notin {"idle", "done"} => fate'.wished
      <4>1. \A d \in Logouts : d \in Calls
        BY DEF Calls
      <4> QED
        BY <4>1, <2>1, <2>3, <1>d, <1>t DEF StepsAreDue
    <3>2. /\ \A d \in Calls : request'[d].step \in {"revoking", "ok"} => d \in Logouts
          /\ \A d \in Calls : request'[d].step = "revoking" => request'[d].token # 0
          /\ \A d \in Calls : request'[d].step = "idle" => ~request'[d].again
      BY <2>3, <1>d, <1>t DEF StepsAreDue
    <3>3. \A u \in Tabs : At(u, "queued")' => webLocks'
      BY <2>1, <2>4, <1>t DEF StepsAreDue, At
    <3>4. \A u \in Tabs : At(u, "cleared")' => NoneLive'
      BY <2>1, <2>4, <1>gb, <1>t DEF StepsAreDue, At
    <3> QED
      BY <3>1, <3>2, <3>3, <3>4 DEF StepsAreDue
  <2>6. Spent \subseteq Spent'
    BY <2>3, <1>d DEF Spent
  <2>7. /\ \A d \in Calls : request'[d].token \in {request[d].token, 0}
        /\ \A d \in Calls : request'[d].step = "ok" => request[d].step = "ok"
    BY <2>3, <1>d
  <2>8. /\ stored' \in Numbers /\ stored' <= k
        /\ \A u \in Tabs \ {t} : Saving(u) => stored' # refresh[u].cookie
        /\ fate.out /\ webLocks /\ ~fate.crossed => stored' = 0
    BY <2>1, <1>k, <1>y, <1>t DEF SavesAreNew, LogoutHolds
  <2>9. /\ TabsTypeOK' /\ OneLives' /\ NumbersSuffice' /\ SavesAreNew' /\ FreshIsUnseen'
        /\ LockHeld' /\ LogoutHolds'
    BY <2>1, <2>2, <2>3, <2>5, <2>6, <2>7, <2>8, <1>gc
  <2> QED
    BY <2>2, <2>5, <2>9, <1>s DEF NothingLost, Calm, TradedOnce
\* The fresh token is stored.
<1>20. ASSUME NEW t \in Tabs, Saves(t) PROVE TabsInv'
  <2>1. /\ refresh[t].step = "reading" /\ stored' = refresh[t].cookie /\ Over(t)
        /\ UNCHANGED <<webLocks, cookie, sessions, expired, request, replacements, fate, lost>>
    BY <1>20 DEF Saves, At
  <2>2. Saving(t)
    BY <2>1 DEF Saving
  <2>3. /\ refresh[t].cookie # 0 /\ replacements[refresh[t].cookie] = 0
        /\ \A u \in Tabs : refresh[u].stale # refresh[t].cookie
        /\ \A u \in Tabs \ {t} : Saving(u) => refresh[u].cookie # refresh[t].cookie
    BY <2>2, <1>t DEF SavesAreNew
  <2>4. /\ refresh'[t].step = "none" /\ refresh'[t].stale = 0
        /\ \A u \in Tabs \ {t} : refresh'[u] = refresh[u]
    BY <2>1, <1>b
  <2>5. StepsAreDue'
    <3>1. \A u \in Tabs : At(u, "queued")' => At(u, "queued")
      BY <2>4 DEF At
    <3>2. \A u \in Tabs : At(u, "cleared")' => NoneLive'
      BY <2>1, <2>4, <1>gb, <1>t DEF StepsAreDue, At
    <3> QED
      BY <2>1, <3>1, <3>2, <1>a
  <2>6. /\ TabsTypeOK' /\ OneLives' /\ NumbersSuffice' /\ SavesAreNew' /\ FreshIsUnseen'
        /\ LockHeld' /\ LogoutHolds'
    <3>1. stored' \in Numbers /\ stored' <= k /\ lost' \in 0 .. MaxLost
      BY <2>1, <1>k, <1>w, <1>y
    <3>2. \A u \in Tabs \ {t} : Saving(u) => stored' # refresh[u].cookie
      BY <2>1, <2>3
    <3>3. ~(fate.out /\ webLocks /\ ~fate.crossed)
      BY <2>2, <1>t DEF LogoutHolds
    <3>4. /\ request' \in [Calls -> RequestRecords]
          /\ \A d \in Calls : request'[d].token \in {request[d].token, 0}
          /\ \A d \in Calls : request'[d].step = "ok" => request[d].step = "ok"
          /\ Spent \subseteq Spent'
      BY <2>1, <1>y DEF Spent
    <3> QED
      BY <2>1, <2>5, <3>1, <3>2, <3>3, <3>4, <1>gc
  <2>7. NothingLost'
    <3>1. \A u \in Tabs : At(u, "fresh") => At(u, "fresh")' /\ refresh'[u] = refresh[u]
      BY <2>1, <2>4 DEF At
    <3>2. (\E u \in Tabs : At(u, "fresh")) => (\E u \in Tabs : At(u, "fresh"))'
      BY <3>1
    <3>3. \A n \in Numbers : (\E u \in Tabs : At(u, "fresh") /\ refresh[u].cookie = n)
            => (\E u \in Tabs : At(u, "fresh") /\ refresh[u].cookie = n)'
      BY <3>1
    <3> QED
      BY <2>1, <3>2, <3>3, <1>gb, <1>t DEF NothingLost
  <2>8. \A u \in Tabs : stored' # refresh'[u].stale /\ stored' # 0
    BY <2>1, <2>3, <2>4
  <2>9. Calm'
    <3>1. SUFFICES ASSUME lost' = 0, ~fate'.elsewhere, ~fate'.wished
          PROVE  ~NoneLive' /\ cookie' # 0
                 /\ \A u \in Tabs : At(u, "sent")' => refresh'[u].cookie # 0
      BY <2>1, <2>3, <2>8 DEF Calm
    <3>2. ~NoneLive /\ cookie # 0 /\ \A u \in Tabs : At(u, "sent") => refresh[u].cookie # 0
      BY <3>1, <2>1, <1>t DEF Calm
    <3> QED
      BY <3>2, <2>1, <2>4, <1>gb DEF At
  <2>10. TradedOnce'
    <3>1. SUFFICES ASSUME webLocks', lost' = 0, ~fate'.wished
          PROVE  /\ \A u \in Tabs : At(u, "sent")' => refresh'[u].cookie = cookie'
                 /\ \A u \in Tabs : ~At(u, "pausing")'
                 /\ \A u \in Tabs : At(u, "failed")' => NoneLive'
                 /\ stored' = 0 => NoneLive'
                 /\ \A n \in Numbers \ {0} : replacements'[n] > 0 =>
                      n # stored' \/ (\E u \in Tabs : Saving(u) /\ refresh[u].stale = n)'
                 /\ \A u \in Tabs : At(u, "sent")' /\ refresh'[u].stale # 0 =>
                      replacements'[refresh'[u].stale] = 0 \/ NoneLive'
                 /\ \A n \in Numbers \ {0} : replacements'[n] <= 1
      BY DEF TradedOnce
    <3>2. \A u \in Tabs : refresh'[u].step \in {"none", "queued"}
      BY <3>1, <2>1, <2>4, <1>t DEF LockHeld
    <3>3. \A n \in Numbers \ {0} : replacements[n] <= 1
      BY <3>1, <2>1, <1>t DEF TradedOnce
    <3>4. \A n \in Numbers \ {0} : replacements[n] > 0 => n # stored'
      BY <2>1, <2>3
    <3> QED
      BY <2>1, <2>3, <3>2, <3>3, <3>4 DEF At
  <2> QED
    BY <2>5, <2>6, <2>7, <2>9, <2>10, <1>s
\* The token that could not be replaced is forgotten.
<1>21. ASSUME NEW t \in Tabs, SignsOut(t) PROVE TabsInv'
  <2>1. /\ refresh[t].step = "failed" /\ Over(t)
        /\ stored' = IF stored = refresh[t].stale THEN 0 ELSE stored
        /\ UNCHANGED <<webLocks, cookie, sessions, expired, request, replacements, fate, lost>>
    BY <1>21 DEF SignsOut, At
  <2>2. /\ refresh'[t].step = "none" /\ refresh'[t].stale = 0
        /\ \A u \in Tabs \ {t} : refresh'[u] = refresh[u]
    BY <2>1, <1>b
  <2>3. \A u \in Tabs : Saving(u)' <=> Saving(u)
    BY <2>1, <2>2 DEF Saving
  <2>4. StepsAreDue'
    <3>1. \A u \in Tabs : At(u, "queued")' => At(u, "queued")
      BY <2>2 DEF At
    <3>2. \A u \in Tabs : At(u, "cleared")' => NoneLive'
      BY <2>1, <2>2, <1>gb, <1>t DEF StepsAreDue, At
    <3> QED
      BY <2>1, <3>1, <3>2, <1>a
  <2>5. stored' \in {stored, 0}
    BY <2>1
  <2>6. /\ TabsTypeOK' /\ OneLives' /\ NumbersSuffice' /\ SavesAreNew' /\ FreshIsUnseen'
        /\ LockHeld' /\ LogoutHolds'
    <3>1. stored' \in Numbers /\ stored' <= k /\ lost' \in 0 .. MaxLost
      BY <2>1, <2>5, <1>k, <1>n, <1>y
    <3>2. \A u \in Tabs \ {t} : Saving(u) => stored' # refresh[u].cookie
      BY <2>5, <1>t DEF SavesAreNew
    <3>3. fate.out /\ webLocks /\ ~fate.crossed => stored' = 0
      BY <2>5, <1>t DEF LogoutHolds
    <3>4. /\ request' \in [Calls -> RequestRecords]
          /\ \A d \in Calls : request'[d].token \in {request[d].token, 0}
          /\ \A d \in Calls : request'[d].step = "ok" => request[d].step = "ok"
          /\ Spent \subseteq Spent'
      BY <2>1, <1>y DEF Spent
    <3> QED
      BY <2>1, <2>4, <3>1, <3>2, <3>3, <3>4, <1>gc
  <2>7. NothingLost'
    <3>1. \A u \in Tabs : At(u, "fresh") => At(u, "fresh")' /\ refresh'[u] = refresh[u]
      BY <2>1, <2>2 DEF At
    <3>2. (\E u \in Tabs : At(u, "fresh")) => (\E u \in Tabs : At(u, "fresh"))'
      BY <3>1
    <3>3. \A n \in Numbers : (\E u \in Tabs : At(u, "fresh") /\ refresh[u].cookie = n)
            => (\E u \in Tabs : At(u, "fresh") /\ refresh[u].cookie = n)'
      BY <3>1
    <3> QED
      BY <2>1, <3>2, <3>3, <1>gb, <1>t DEF NothingLost
  <2>8. (\E v \in Tabs : Saving(v)) => (\E v \in Tabs : Saving(v))'
    BY <2>3
  <2>9. Calm'
    <3>1. SUFFICES ASSUME lost' = 0, ~fate'.elsewhere, ~fate'.wished
          PROVE  /\ ~NoneLive' /\ cookie' # 0
                 /\ \A u \in Tabs : At(u, "sent")' => refresh'[u].cookie # 0
                 /\ stored' # 0 \/ (\E u \in Tabs : Saving(u))'
                 /\ \A u \in Tabs :
                      /\ stored' = refresh'[u].stale
                      /\ \/ At(u, "failed")'
                         \/ At(u, "sent")' /\ sessions'[refresh'[u].cookie] = "rotated"
                      => (\E v \in Tabs : Saving(v))'
      BY DEF Calm
    <3>2. /\ ~NoneLive /\ cookie # 0
          /\ \A u \in Tabs : At(u, "sent") => refresh[u].cookie # 0
          /\ stored # 0 \/ \E u \in Tabs : Saving(u)
          /\ \A u \in Tabs :
               /\ stored = refresh[u].stale
               /\ At(u, "failed") \/ (At(u, "sent") /\ sessions[refresh[u].cookie] = "rotated")
               => \E v \in Tabs : Saving(v)
      BY <3>1, <2>1, <1>t DEF Calm
    <3>3. stored' = stored \/ \E v \in Tabs : Saving(v)
      BY <3>2, <2>1 DEF At
    <3>4. \A u \in Tabs : At(u, "sent")' => refresh'[u].cookie # 0
      BY <3>2, <2>2 DEF At
    <3>5. ASSUME NEW u \in Tabs, stored' = stored, stored' = refresh'[u].stale,
                 \/ At(u, "failed")'
                 \/ At(u, "sent")' /\ sessions'[refresh'[u].cookie] = "rotated"
          PROVE  (\E v \in Tabs : Saving(v))'
      <4>1. u # t
        BY <3>5, <2>2 DEF At
      <4>2. refresh'[u] = refresh[u] /\ sessions' = sessions
        BY <4>1, <2>1, <2>2
      <4> QED
        BY <4>2, <3>2, <3>5, <2>8 DEF At
    <3> QED
      BY <2>1, <2>8, <3>2, <3>3, <3>4, <3>5, <1>gb
  <2>10. TradedOnce'
    <3>1. SUFFICES ASSUME webLocks', lost' = 0, ~fate'.wished
          PROVE  /\ \A u \in Tabs : At(u, "sent")' => refresh'[u].cookie = cookie'
                 /\ \A u \in Tabs : ~At(u, "pausing")'
                 /\ \A u \in Tabs : At(u, "failed")' => NoneLive'
                 /\ stored' = 0 => NoneLive'
                 /\ \A n \in Numbers \ {0} : replacements'[n] > 0 =>
                      n # stored' \/ (\E u \in Tabs : Saving(u) /\ refresh[u].stale = n)'
                 /\ \A u \in Tabs : At(u, "sent")' /\ refresh'[u].stale # 0 =>
                      replacements'[refresh'[u].stale] = 0 \/ NoneLive'
                 /\ \A n \in Numbers \ {0} : replacements'[n] <= 1
      BY DEF TradedOnce
    <3>2. \A u \in Tabs : refresh'[u].step \in {"none", "queued"}
      BY <3>1, <2>1, <2>2, <1>t DEF LockHeld
    <3>3. /\ NoneLive
          /\ \A n \in Numbers \ {0} : replacements[n] <= 1
          /\ \A n \in Numbers \ {0} : replacements[n] > 0 =>
               n # stored \/ \E u \in Tabs : Saving(u) /\ refresh[u].stale = n
      BY <3>1, <2>1, <1>t DEF TradedOnce, At
    <3>4. \A u \in Tabs : ~Saving(u)
      BY <3>2, <2>3 DEF Saving
    <3>5. \A n \in Numbers \ {0} : replacements[n] > 0 => n # stored'
      BY <3>3, <3>4, <2>5
    <3> QED
      BY <2>1, <3>2, <3>3, <3>5, <1>gb DEF At
  <2> QED
    BY <2>4, <2>6, <2>7, <2>9, <2>10, <1>s
\* Thirty seconds after a rotation whose answer was lost.
<1>22. ASSUME NEW n \in Numbers \ {0}, GraceEnds(n) PROVE TabsInv'
  <2>1. /\ sessions[n] = "rotated" /\ cookie = n /\ \A t \in Tabs : ~At(t, "fresh")
        /\ sessions' = [sessions EXCEPT ![n] = "replayable"]
        /\ UNCHANGED <<webLocks, stored, cookie, expired, request, refresh, holder,
                         replacements, fate, lost>>
    BY <1>22 DEF GraceEnds
  <2>2. lost # 0 /\ lost' # 0
    BY <2>1, <1>t DEF NothingLost
  <2>3. /\ sessions' \in [Numbers \ {0} -> SessionStates]
        /\ sessions'[n] = "replayable"
        /\ \A m \in Numbers \ {0} : m # n => sessions'[m] = sessions[m]
    BY <2>1, <1>y DEF SessionStates
  <2>4. \A m \in Numbers : LiveSession(m)' <=> LiveSession(m)
    BY <2>1, <2>3 DEF LiveSession
  <2>5. NoneLive' <=> NoneLive
    BY <2>4 DEF NoneLive
  <2>6. TabsTypeOK'
    BY <2>1, <2>3, <1>y, <1>z
  <2>7. OneLives' /\ LockHeld'
    <3>1. \A m \in Numbers \ {0} : sessions'[m] = "ended" => sessions[m] = "ended"
      BY <2>3
    <3>2. OneLives'
      BY <2>4, <2>5, <3>1, <1>t DEF OneLives
    <3>3. LockHeld'
      BY <2>1, <2>4, <1>t DEF LockHeld, Saving
    <3> QED
      BY <3>2, <3>3
  <2>8. NumbersSuffice'
    <3>1. Exchanging' \subseteq Exchanging /\ Spent \subseteq Spent'
      BY <2>1 DEF Exchanging, Spent
    <3>2. \A m \in Numbers \ {0} : sessions'[m] # "none" <=> sessions[m] # "none"
      BY <2>1, <2>3
    <3> QED
      BY <2>1, <3>1, <3>2, <1>k, <1>c
  <2>9. SavesAreNew' /\ FreshIsUnseen'
    BY <2>1, <1>t DEF SavesAreNew, Saving, FreshIsUnseen, At
  <2>10. StepsAreDue'
    <3>1. \A u \in Tabs : At(u, "queued")' => At(u, "queued")
      BY <2>1 DEF At
    <3>2. \A u \in Tabs : At(u, "cleared")' => NoneLive'
      BY <2>1, <2>5, <1>t DEF StepsAreDue, At
    <3> QED
      BY <2>1, <3>1, <3>2, <1>a
  <2>11. LogoutHolds'
    BY <2>1, <2>5, <1>t DEF LogoutHolds, Saving, Is
  <2> QED
    BY <2>2, <2>6, <2>7, <2>8, <2>9, <2>10, <2>11, <1>s DEF NothingLost, Calm, TradedOnce
<1> QED
  BY <1>1, <1>2, <1>3, <1>4, <1>5, <1>6, <1>7, <1>8, <1>9, <1>10, <1>11, <1>15, <1>16, <1>17,
     <1>18, <1>19, <1>20, <1>21, <1>22 DEF TabsNext, CallSteps, RefreshSteps

\* A step that changes nothing.
LEMMA TabsStand == TabsInv /\ UNCHANGED tabVars => TabsInv'
<1> SUFFICES ASSUME TabsInv, UNCHANGED tabVars PROVE TabsInv'
  OBVIOUS
<1>1. UNCHANGED <<webLocks, stored, cookie, sessions, expired, request, refresh, holder,
                  replacements, fate, lost>>
  BY DEF tabVars
<1>2. TabsTypeOK'
  BY <1>1 DEF TabsInv, TabsTypeOK
<1>3. OneLives' /\ FreshIsUnseen' /\ LockHeld'
  BY <1>1 DEF TabsInv, OneLives, FreshIsUnseen, LockHeld, NoneLive, LiveSession, Saving, At
<1>4. NumbersSuffice'
  <2>1. Spent' = Spent /\ Exchanging' = Exchanging
    BY <1>1 DEF Spent, Exchanging
  <2> QED
    BY <1>1, <2>1 DEF TabsInv, NumbersSuffice, UsedUpTo
<1>5. SavesAreNew'
  BY <1>1 DEF TabsInv, SavesAreNew, Saving
<1>6. StepsAreDue' /\ LogoutHolds'
  BY <1>1 DEF TabsInv, StepsAreDue, LogoutHolds, NoneLive, LiveSession, Saving, At, Is
<1>7. NothingLost'
  BY <1>1 DEF TabsInv, NothingLost, LiveSession, At
<1>8. Calm'
  BY <1>1 DEF TabsInv, Calm, NoneLive, LiveSession, Saving, At
<1>9. TradedOnce'
  BY <1>1 DEF TabsInv, TradedOnce, NoneLive, LiveSession, Saving, At
<1> QED
  BY <1>2, <1>3, <1>4, <1>5, <1>6, <1>7, <1>8, <1>9 DEF TabsInv

\* Tabs that share a session: no race signs anybody out, a token is traded once under
\* the lock, the alarm rings for a loss only, and out is out.
THEOREM TabsAreSafe == TabsSpec => []TabsSafe
<1>1. TabsInv => TabsSafe
  <2> SUFFICES ASSUME TabsInv PROVE TabsSafe
    OBVIOUS
  <2>n. 0 \in Numbers /\ (lost \in Nat)
    BY NumbersAre, TabsAssumption DEF TabsInv, TabsTypeOK
  <2>1. TabsTypeOK
    BY DEF TabsInv
  <2>2. SignedInAtRest
    <3>1. SUFFICES ASSUME Resting, lost = 0, ~fate.elsewhere, ~fate.wished
          PROVE  stored # 0 /\ LiveSession(cookie)
      BY DEF SignedInAtRest
    <3>2. \A t \in Tabs : ~Saving(t) /\ ~At(t, "fresh")
      BY <3>1 DEF Resting, Saving, At
    <3>3. stored # 0 /\ ~NoneLive
      BY <3>1, <3>2 DEF TabsInv, Calm
    <3>4. \A n \in Numbers : LiveSession(n) => n = cookie
      BY <3>1, <3>2 DEF TabsInv, NothingLost
    <3> QED
      BY <3>3, <3>4 DEF NoneLive
  <2>3. RefreshedOnce
    BY DEF RefreshedOnce, TabsInv, TradedOnce
  <2>4. AlarmNeedsLoss
    BY <2>n DEF AlarmNeedsLoss, TabsInv, NothingLost
  <2>5. LoggedOutStaysOut
    BY DEF LoggedOutStaysOut, TabsInv, LogoutHolds, NoneLive
  <2> QED
    BY <2>1, <2>2, <2>3, <2>4, <2>5 DEF TabsSafe
<1>2. TabsInv /\ [TabsNext]_tabVars => TabsInv'
  BY TabsKeepSafe, TabsStand
<1> QED
  BY <1>1, <1>2, TabsStart, PTL DEF TabsSpec
=============================================================================
