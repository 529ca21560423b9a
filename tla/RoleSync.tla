------------------------------ MODULE RoleSync ------------------------------
(* The roles of linked accounts in a guild
   (src/apps/api/src/modules/discord/role-sync.ts): a pass reads whose turn it is and
   what the accounts are entitled to, then asks Discord about one member after the
   other and puts the difference right; then it strips those who unlinked.

   One managed role stands for all: a role that is not managed is never touched, and
   each role of a member is decided by itself. *)
EXTENDS Naturals, FiniteSets

CONSTANTS Members,       \* Discord users, numbered as their ids are ordered
          Passes,        \* passes of the worker's replicas
          SYNC_BATCH     \* KOTEG

\* Bounds of the model, not of the code.
CONSTANTS MaxSwaps,      \* links made or removed, accounts entitled or not, roles by hand
          MaxSyncFaults  \* calls that fail, passes that break off

ASSUME RoleAssumption ==
  /\ Members \subseteq Nat /\ IsFiniteSet(Members)
  /\ SYNC_BATCH \in Nat \ {0} /\ MaxSwaps \in Nat /\ MaxSyncFaults \in Nat

VARIABLES linked,    \* discord_links
          entitled,  \* active accounts whose YUME roles, or link, give the role
          has,       \* members with the role, in Discord
          turn,      \* discord_role_sync: 0, or the place in the order of synced_at
          unknown,   \* members Discord never tells about (the answer is "unknown")
          pass,      \* what each pass is doing
          given,     \* history: members the bot gave the role and did not take it from
          slipped,   \* history: of these, those whose row a pass did not write, or removed,
                     \* and none has written since
          swaps, syncFaults

roleVars == <<linked, entitled, has, turn, unknown, pass, given, slipped, swaps, syncFaults>>

\* todo: members and whether the role is due to them, as it was read.  unlinking: the
\* second half of a pass.
NoPass == [pc |-> "idle", todo |-> {}, due |-> {}, unlinking |-> FALSE]

\* The first pass after the feature is switched on: some are linked, nobody has the role
\* or everybody got it by hand, and Discord may be silent about any of them.
RoleInit ==
  /\ linked \in SUBSET Members /\ entitled = Members /\ has \in {{}, Members}
  /\ turn = [m \in Members |-> 0]
  /\ unknown \in SUBSET Members
  /\ pass = [p \in Passes |-> NoPass]
  /\ given = {} /\ slipped = {} /\ swaps = 0 /\ syncFaults = 0

Swap == swaps < MaxSwaps /\ swaps' = swaps + 1
SyncFault == syncFaults < MaxSyncFaults /\ syncFaults' = syncFaults + 1

----------------------------------------------------------------------------
Links(m) ==
  /\ Swap
  /\ linked' = IF m \in linked THEN linked \ {m} ELSE linked \cup {m}
  /\ UNCHANGED <<entitled, has, turn, unknown, pass, given, slipped, syncFaults>>

\* The account is suspended or loses the YUME role, or gets it.
Entitles(m) ==
  /\ Swap
  /\ entitled' = IF m \in entitled THEN entitled \ {m} ELSE entitled \cup {m}
  /\ UNCHANGED <<linked, has, turn, unknown, pass, given, slipped, syncFaults>>

RoleByHand(m) ==
  /\ Swap
  /\ has' = IF m \in has THEN has \ {m} ELSE has \cup {m}
  /\ given' = given \ {m}
  /\ UNCHANGED <<linked, entitled, turn, unknown, pass, slipped, syncFaults>>

----------------------------------------------------------------------------
\* Mutant of Turns: by the id alone.
TurnsById == {t \in SUBSET linked :
  /\ Cardinality(t) <= SYNC_BATCH
  /\ t # linked => Cardinality(t) = SYNC_BATCH
  /\ \A m \in t, n \in linked \ t : m < n}

\* ORDER BY synced_at NULLS FIRST, discord_user_id LIMIT.
Turns == {t \in SUBSET linked :
  /\ Cardinality(t) <= SYNC_BATCH
  /\ t # linked => Cardinality(t) = SYNC_BATCH
  /\ \A m \in t, n \in linked \ t :
       turn[m] < turn[n] \/ (turn[m] = turn[n] /\ m < n)}

SyncBegins(p) ==
  /\ pass[p].pc = "idle"
  /\ \E t \in Turns :
       pass' = [pass EXCEPT ![p] = [pc |-> "next", todo |-> t, due |-> t \cap entitled,
                                    unlinking |-> FALSE]]
  /\ UNCHANGED <<linked, entitled, has, turn, unknown, given, slipped, swaps, syncFaults>>

\* levaltak: any batch of them, the statement names no order.
Unlinked == {m \in Members \ linked : turn[m] # 0}
UnlinkedTurns == {t \in SUBSET Unlinked :
  Cardinality(t) = IF Cardinality(Unlinked) < SYNC_BATCH THEN Cardinality(Unlinked)
                   ELSE SYNC_BATCH}

HalfDone(p) ==
  /\ pass[p].pc = "next" /\ pass[p].todo = {}
  /\ IF pass[p].unlinking THEN pass' = [pass EXCEPT ![p] = NoPass]
     ELSE \E t \in UnlinkedTurns :
            pass' = [pass EXCEPT ![p] = [pc |-> "next", todo |-> t, due |-> {},
                                         unlinking |-> TRUE]]
  /\ UNCHANGED <<linked, entitled, has, turn, unknown, given, slipped, swaps, syncFaults>>

InTurn(p) == CHOOSE m \in pass[p].todo : \A n \in pass[p].todo : m <= n
Onwards(p) == pass' = [pass EXCEPT ![p].pc = "next", ![p].todo = @ \ {InTurn(p)}]

\* fetchMemberRoles.  Unknown: this member is left as he is.
Asks(p) ==
  /\ pass[p].pc = "next" /\ pass[p].todo # {}
  /\ \/ /\ InTurn(p) \notin unknown
        /\ pass' = [pass EXCEPT ![p].pc = IF (InTurn(p) \in has) = (InTurn(p) \in pass[p].due)
                                          THEN "record" ELSE "repair"]
        /\ UNCHANGED syncFaults
     \/ Onwards(p) /\ IF InTurn(p) \in unknown THEN UNCHANGED syncFaults ELSE SyncFault
  /\ UNCHANGED <<linked, entitled, has, turn, unknown, given, slipped, swaps>>

\* addMemberRole, removeMemberRole.  A failed one is noted and not retried; a role that
\* could not be taken from somebody unlinked keeps the row.
Put(p, ms) == IF InTurn(p) \in pass[p].due THEN ms \cup {InTurn(p)} ELSE ms \ {InTurn(p)}

Repairs(p) ==
  /\ pass[p].pc = "repair"
  /\ \/ /\ has' = Put(p, has) /\ given' = Put(p, given)
        /\ pass' = [pass EXCEPT ![p].pc = "record"] /\ UNCHANGED syncFaults
     \/ /\ SyncFault
        /\ \/ UNCHANGED <<has, given>>
           \/ has' = Put(p, has) /\ given' = Put(p, given)
        /\ IF pass[p].unlinking THEN Onwards(p)
           ELSE pass' = [pass EXCEPT ![p].pc = "record"]
  /\ UNCHANGED <<linked, entitled, turn, unknown, slipped, swaps>>

\* synced_at = now(): last in the order from here on, and what slipped is on record
\* again.  Or the row goes, although another pass may have given the role back since this
\* one asked.
Records(p) ==
  /\ pass[p].pc = "record"
  /\ Onwards(p)
  /\ LET m == InTurn(p)
         others == {n \in Members \ {m} : turn[n] # 0}
         place(n) == 1 + Cardinality({k \in others : turn[k] < turn[n]})
     IN turn' = [n \in Members |->
                   IF n \in others THEN place(n)
                   ELSE IF n = m /\ ~pass[p].unlinking THEN 1 + Cardinality(others)
                   ELSE 0]
  /\ slipped' = IF pass[p].unlinking THEN slipped \cup (given \cap {InTurn(p)})
                ELSE slipped \ {InTurn(p)}
  /\ UNCHANGED <<linked, entitled, has, unknown, given, swaps, syncFaults>>

\* The process dies, or a statement fails: a role may have been given that no row
\* remembers.
PassBreaks(p) ==
  /\ pass[p].pc # "idle" /\ SyncFault
  /\ pass' = [pass EXCEPT ![p] = NoPass]
  /\ slipped' = IF pass[p].pc = "record" THEN slipped \cup {InTurn(p)} ELSE slipped
  /\ UNCHANGED <<linked, entitled, has, turn, unknown, given, swaps>>

PassSteps(p) == \/ SyncBegins(p) \/ HalfDone(p) \/ Asks(p) \/ Repairs(p) \/ Records(p)

RoleNext == \/ \E m \in Members : Links(m) \/ Entitles(m) \/ RoleByHand(m)
            \/ \E p \in Passes : PassSteps(p) \/ PassBreaks(p)

RoleSpec == RoleInit /\ [][RoleNext]_roleVars

----------------------------------------------------------------------------
\* The shape of the state.
RoleTypeOK ==
  /\ linked \subseteq Members /\ entitled \subseteq Members /\ has \subseteq Members
  /\ turn \in [Members -> 0 .. Cardinality(Members)] /\ unknown \subseteq Members
  /\ pass \in [Passes -> [pc : {"idle", "next", "repair", "record"}, todo : SUBSET Members,
                          due : SUBSET Members, unlinking : BOOLEAN]]
  /\ given \subseteq has /\ slipped \subseteq Members
  /\ swaps \in 0 .. MaxSwaps /\ syncFaults \in 0 .. MaxSyncFaults

\* A pass has given member m the role, or found it, and is about to write the row.
ToBeRecorded(m) ==
  \E p \in Passes : pass[p].pc = "record" /\ ~pass[p].unlinking /\ InTurn(p) = m

\* What the bot gave it does not forget: the row that gets the role taken back once the
\* member unlinks is there, or a pass is about to write it; unless a pass broke off in
\* between, or another one removed the row of somebody it took for unlinked.
GivenIsRemembered == \A m \in given : turn[m] # 0 \/ ToBeRecorded(m) \/ m \in slipped

\* As many of the linked are silent as a pass takes: no row of theirs is ever written, so
\* they come first every time.
NobodyElsesTurn == Cardinality(unknown \cap linked) >= SYNC_BATCH

\* Everyone has his turn: who stays linked ends up with the role if and only if it is due
\* to him, although others are silent for good, passes break off and replicas overlap;
\* unless the silent ones fill the batch.
LinkedGetTheirs ==
  \A m \in Members :
    <>[](m \in linked /\ m \notin unknown /\ ~NobodyElsesTurn
           => (m \in has <=> m \in entitled))

\* What the code does not keep: "so everyone has his turn" (role-sync.ts:21-22), whatever
\* Discord does not tell about the others.
EveryonesTurn ==
  \A m \in Members :
    <>[](m \in linked /\ m \notin unknown => (m \in has <=> m \in entitled))

\* Who unlinked loses the role the bot gave, also when another replica, which read the
\* link before, gave it back in the meantime; unless no pass has put it on record since a
\* pass broke off between the role and its row, or removed the row.
UnlinkedLoseIt ==
  \A m \in Members : <>[](m \notin linked /\ m \in given => m \in slipped)

\* Roles follow the links: every linked member comes to have theirs, every unlinked one
\* to lose it.
RolesBehave ==
  /\ []RoleTypeOK
  /\ []GivenIsRemembered
  /\ LinkedGetTheirs
  /\ UnlinkedLoseIt
=============================================================================
