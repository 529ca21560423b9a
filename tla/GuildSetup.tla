----------------------------- MODULE GuildSetup -----------------------------
(***************************************************************************)
(* One channel of the structure YUME sets up on a guild                    *)
(* (modules/discord/setup.ts, registry.ts): the registry row that says     *)
(* which Discord object it is and whether YUME made it, the runs that      *)
(* create, repair and reset it with no lock between them, the ticket a     *)
(* reset needs, and the people who change the guild by hand.  Categories   *)
(* and roles take the same decisions one after the other.                  *)
(***************************************************************************)
EXTENDS Naturals

CONSTANTS
  SetupRuns,       \* runs of setup, repair and resync under way
  ResetRuns,       \* factory resets under way
  Things,          \* Discord objects that may be made
  Tickets,         \* confirmations that may be issued
  MaxHands,        \* bound: changes people make in Discord
  MaxSetupFaults,  \* bound: calls that fail, answers lost, processes killed
  MaxRows          \* bound: rows the key may have, one after the other

ASSUME SetupAssumption ==
  MaxHands \in Nat /\ MaxSetupFaults \in Nat /\ MaxRows \in Nat /\ "none" \notin Things
  /\ SetupRuns \cap ResetRuns = {}

VARIABLES
  maker,        \* history: who made each object
  alive,        \* the objects Discord has
  named,        \* those that carry the name the structure gives
  row,          \* the latest discord_registry row of the key
  ticket,       \* discord_confirmations: the target its hash stands for
  setup,        \* per run: its step and what it has read
  erased,       \* history: what resets deleted
  inherited,    \* history: objects adopted onto a row that says YUME made it
  lost,         \* history: what was made without the answer or the row, and what a
                \* crossed run wrote out of the row (see RowIsWritten)
  hands, setupFaults

setupVars == <<maker, alive, named, row, ticket, setup, erased, inherited,
               lost, hands, setupFaults>>
discord == <<maker, alive, named>>
ledger == <<ticket, erased, inherited>>
trouble == <<lost, hands, setupFaults>>

AllRuns == SetupRuns \cup ResetRuns
NoRow == [open |-> FALSE, no |-> 0, object |-> "none", ours |-> FALSE]
\* shown: the targets the ticket was issued for.  crossed: another run wrote the row since
\* this one began; disturbed: that, or somebody else changed the guild.
Resting == [step |-> "idle", list |-> {}, names |-> {}, got |-> "nothing", object |-> "none",
            shown |-> "nothing", no |-> 0, ticket |-> "none",
            crossed |-> FALSE, disturbed |-> FALSE]
Targets == Things \cup {"none", "nothing"}

SetupTypeOK ==
  /\ maker \in [Things -> {"none", "yume", "people"}]
  /\ alive \subseteq Things /\ named \subseteq Things
  /\ row \in [open : BOOLEAN, no : 0..MaxRows, object : Things \cup {"none"}, ours : BOOLEAN]
  /\ ticket \in [Tickets -> Targets \cup {"invalid"}]
  /\ setup \in [AllRuns ->
       [step : {"idle", "resync", "orphaning", "plan", "adopting", "updating", "creating",
                "created", "ok", "checking", "relisting", "deleting", "deleted", "closing"},
        list : SUBSET Things, names : SUBSET Things, got : {"nothing", "list", "row"},
        object : Targets, shown : Targets, no : 0..MaxRows,
        ticket : Tickets \cup {"none"}, crossed : BOOLEAN, disturbed : BOOLEAN]]
  /\ erased \subseteq Things /\ inherited \subseteq Things /\ lost \subseteq Things
  /\ hands \in 0..MaxHands /\ setupFaults \in 0..MaxSetupFaults

SetupInit ==
  /\ maker = [o \in Things |-> "none"] /\ alive = {} /\ named = {}
  /\ row = NoRow /\ ticket = [t \in Tickets |-> "invalid"]
  /\ setup = [r \in AllRuns |-> Resting]
  /\ erased = {} /\ inherited = {} /\ lost = {} /\ hands = 0 /\ setupFaults = 0

Unmade == {o \in Things : maker[o] = "none"}
\* One object stands for any that Discord has not numbered yet.
Fresh == IF Unmade = {} THEN {} ELSE {CHOOSE o \in Unmade : TRUE}
\* The object a row answers with, as a run reads it.
RowObject == IF row.open THEN row.object ELSE "none"

\* The run goes on; the guild, or the row, has changed under the others.
GoesOn(r, new) == setup' = [setup EXCEPT ![r] = new]
Changes(r, new) ==
  setup' = [q \in AllRuns |-> IF q = r THEN new
                                ELSE [setup[q] EXCEPT !.disturbed = @ \/ setup[q].step # "idle"]]
Writes(r, new) ==
  setup' = [q \in AllRuns |-> IF q = r THEN new
                                ELSE [setup[q] EXCEPT !.disturbed = @ \/ setup[q].step # "idle",
                                                      !.crossed = @ \/ setup[q].step # "idle"]]
At(r, step) == setup[r].step = step
To(r, step) == [setup[r] EXCEPT !.step = step]
\* What a run that another crossed writes out of the row, nobody knows any more; what the
\* row answers with is known again.
RowIsWritten(r) ==
  lost' = (IF setup[r].crossed THEN lost \cup {RowObject} ELSE lost) \ {RowObject', "none"}

-----------------------------------------------------------------------------
\* routes.ts: setup/run plans, setup/repair and setup/resync first resync.
Begins(r) ==
  /\ At(r, "idle")
  /\ \E step \in {"plan", "resync"} : GoesOn(r, [Resting EXCEPT !.step = step])
  /\ UNCHANGED <<discord, row, ledger, trouble>>

\* Promise.all: the guild's objects and the registry are read in either order.
FetchesList(r) ==
  /\ setup[r].step \in {"resync", "plan"} /\ setup[r].got = "nothing"
  /\ GoesOn(r, [setup[r] EXCEPT !.list = alive, !.got = "list",
                                !.names = IF At(r, "plan") THEN alive \cap named ELSE {}])
  /\ UNCHANGED <<discord, row, ledger, trouble>>

ReadsRow(r) ==
  /\ setup[r].step \in {"resync", "plan"} /\ setup[r].got = "nothing"
  /\ GoesOn(r, [setup[r] EXCEPT !.object = RowObject, !.got = "row",
                                !.no = IF At(r, "resync") THEN row.no ELSE 0])
  /\ UNCHANGED <<discord, row, ledger, trouble>>

\* What a run knows when the second answer is in.
List(r) == IF setup[r].got = "list" THEN setup[r].list ELSE alive
Names(r) == IF setup[r].got = "list" THEN setup[r].names ELSE alive \cap named
Object(r) == IF setup[r].got = "row" THEN setup[r].object ELSE RowObject
RowNo(r) == IF setup[r].got = "row" THEN setup[r].no ELSE row.no

\* resync() finds the object of the row gone.
FindsGone(r) ==
  /\ At(r, "resync") /\ setup[r].got # "nothing" /\ Object(r) \in Things \ List(r)
  /\ GoesOn(r, [To(r, "orphaning") EXCEPT !.no = RowNo(r), !.got = "nothing",
                                          !.list = {}, !.object = "none"])
  /\ UNCHANGED <<discord, row, ledger, trouble>>

\* A resync is over; a repair goes on with the plan, which reads everything again.
Resynced == {Resting, [Resting EXCEPT !.step = "plan"]}

FindsAllThere(r) ==
  /\ At(r, "resync") /\ setup[r].got # "nothing" /\ Object(r) \notin Things \ List(r)
  /\ \E next \in Resynced : GoesOn(r, next)
  /\ UNCHANGED <<discord, row, ledger, trouble>>

\* orphan(): the row lets go of the object and keeps its owner.
Orphans(r) ==
  /\ At(r, "orphaning")
  /\ row' = IF row.no = setup[r].no THEN [row EXCEPT !.object = "none"] ELSE row
  /\ \E next \in Resynced : Writes(r, next)
  /\ RowIsWritten(r)
  /\ UNCHANGED <<discord, ledger, hands, setupFaults>>

-----------------------------------------------------------------------------
\* plan(): the registry, then what is alive, then the name.
Decision(object, list, names) ==
  CASE object \in list \cap names  -> [step |-> "ok", from |-> {object}]
    [] object \in list \ names     -> [step |-> "updating", from |-> {object}]
    [] object \in Things \ list    -> [step |-> "creating", from |-> {"none"}]
    [] object = "none" /\ names # {} -> [step |-> "adopting", from |-> names]
    [] OTHER -> [step |-> "creating", from |-> {"none"}]

Plans(r) ==
  /\ At(r, "plan") /\ setup[r].got # "nothing"
  /\ LET d == Decision(Object(r), List(r), Names(r)) IN
       \E o \in d.from :
         GoesOn(r, [Resting EXCEPT !.step = d.step, !.object = o,
                                   !.crossed = setup[r].crossed,
                                   !.disturbed = setup[r].disturbed])
  /\ UNCHANGED <<discord, row, ledger, trouble>>

\* A guild that cannot be read, or a right the bot lacks: every step blocked.
IsBlocked(r) ==
  /\ At(r, "plan") /\ setupFaults < MaxSetupFaults
  /\ setupFaults' = setupFaults + 1 /\ GoesOn(r, Resting)
  /\ UNCHANGED <<discord, row, ledger, lost, hands>>

\* registry.upsert(): on conflict the row keeps its owner.
Upserted(o, ours) ==
  IF row.open THEN [row EXCEPT !.object = o]
  ELSE [open |-> TRUE, no |-> row.no + 1, object |-> o, ours |-> ours]

Adopts(r) ==
  /\ At(r, "adopting") /\ (row.open \/ row.no < MaxRows)
  /\ row' = Upserted(setup[r].object, FALSE)
  /\ inherited' = IF row.open /\ row.ours THEN inherited \cup {setup[r].object} ELSE inherited
  /\ RowIsWritten(r)
  /\ Writes(r, To(r, "ok"))
  /\ UNCHANGED <<discord, ticket, erased, hands, setupFaults>>

Updates(r) ==
  /\ At(r, "updating")
  /\ IF setup[r].object \in alive
     THEN named' = named \cup {setup[r].object} /\ Changes(r, To(r, "ok"))
     ELSE named' = named /\ GoesOn(r, Resting)
  /\ UNCHANGED <<maker, alive, row, ledger, trouble>>

\* createChannel() ...
Creates(r) ==
  /\ At(r, "creating")
  /\ \E o \in Fresh :
       /\ maker' = [maker EXCEPT ![o] = "yume"]
       /\ alive' = alive \cup {o} /\ named' = named \cup {o}
       /\ Changes(r, [To(r, "created") EXCEPT !.object = o])
  /\ UNCHANGED <<row, ledger, trouble>>

\* ... and then the registry row.
Registers(r) ==
  /\ At(r, "created") /\ (row.open \/ row.no < MaxRows)
  /\ row' = Upserted(setup[r].object, TRUE)
  /\ RowIsWritten(r)
  /\ Writes(r, To(r, "ok"))
  /\ UNCHANGED <<discord, ledger, hands, setupFaults>>

\* finishRun() with status ok.
Answers(r) ==
  /\ At(r, "ok") /\ GoesOn(r, Resting)
  /\ UNCHANGED <<discord, row, ledger, trouble>>

-----------------------------------------------------------------------------
\* What targetsHash() stands for: the object of a row YUME made, or none.
Target == IF row.open /\ row.ours THEN row.object ELSE "nothing"

\* reset/prepare.
Prepares(t) ==
  /\ ticket' = [ticket EXCEPT ![t] = Target]
  /\ UNCHANGED <<discord, row, setup, erased, inherited, trouble>>

TicketExpires(t) ==
  /\ ticket[t] # "invalid" /\ ticket' = [ticket EXCEPT ![t] = "invalid"]
  /\ UNCHANGED <<discord, row, setup, erased, inherited, trouble>>

\* setup/reset: the targets as they are now ...
AsksReset(r, t) ==
  /\ At(r, "idle")
  /\ GoesOn(r, [Resting EXCEPT !.step = "checking", !.ticket = t,
                               !.object = Target])
  /\ UNCHANGED <<discord, row, ledger, trouble>>

\* Mutant of Consumes: the ticket must be valid, its hash is not compared.
ConsumesAny(r) ==
  LET t == setup[r].ticket IN
  /\ At(r, "checking")
  /\ ticket' = [ticket EXCEPT ![t] = "invalid"]
  /\ GoesOn(r, IF ticket[t] # "invalid"
                THEN [To(r, "relisting") EXCEPT !.ticket = "none", !.shown = ticket[t]]
                ELSE Resting)
  /\ UNCHANGED <<discord, row, erased, inherited, trouble>>

\* ... DELETE RETURNING: the ticket is gone either way, and must name them.
Consumes(r) ==
  LET t == setup[r].ticket IN
  /\ At(r, "checking")
  /\ ticket' = [ticket EXCEPT ![t] = "invalid"]
  /\ GoesOn(r, IF ticket[t] = setup[r].object
                THEN [To(r, "relisting") EXCEPT !.ticket = "none", !.shown = ticket[t]]
                ELSE Resting)
  /\ UNCHANGED <<discord, row, erased, inherited, trouble>>

\* factoryReset() reads the targets once more, and asks no ticket about them.
Relists(r) ==
  /\ At(r, "relisting")
  /\ GoesOn(r, CASE Target = "nothing" -> Resting
                 [] Target = "none"    -> [To(r, "deleted") EXCEPT !.object = "none"]
                 [] OTHER -> [To(r, "deleting") EXCEPT !.object = Target])
  /\ UNCHANGED <<discord, row, ledger, trouble>>

\* deleteChannel(): gone already counts as deleted.
Deletes(r) ==
  LET o == setup[r].object IN
  /\ At(r, "deleting")
  /\ alive' = alive \ {o}
  /\ erased' = erased \cup (alive \cap {o})
  /\ Changes(r, [To(r, "deleted") EXCEPT !.object = "none"])
  /\ UNCHANGED <<maker, named, row, ticket, inherited, trouble>>

\* registry.get() ...
GetsRow(r) ==
  /\ At(r, "deleted")
  /\ GoesOn(r, IF row.open THEN [To(r, "closing") EXCEPT !.no = row.no] ELSE Resting)
  /\ UNCHANGED <<discord, row, ledger, trouble>>

\* ... and close(), by the row's id.
Closes(r) ==
  /\ At(r, "closing")
  /\ row' = IF row.no = setup[r].no THEN [row EXCEPT !.open = FALSE] ELSE row
  /\ RowIsWritten(r)
  /\ Writes(r, Resting)
  /\ UNCHANGED <<discord, ledger, hands, setupFaults>>

-----------------------------------------------------------------------------
\* Discord refuses or does not answer; the run reports the step as failed.
CallFails(r) ==
  /\ setupFaults < MaxSetupFaults /\ setupFaults' = setupFaults + 1
  /\ setup[r].step \in {"creating", "updating", "deleting"} /\ GoesOn(r, Resting)
  /\ UNCHANGED <<discord, row, ledger, lost, hands>>

\* Discord has done it and the answer is lost, or the process dies.
AnswerLost(r) ==
  /\ setupFaults < MaxSetupFaults /\ setupFaults' = setupFaults + 1
  /\ \/ /\ At(r, "creating")
        /\ \E o \in Fresh : /\ maker' = [maker EXCEPT ![o] = "yume"]
                            /\ alive' = alive \cup {o} /\ named' = named \cup {o}
                            /\ lost' = lost \cup {o}
        /\ erased' = erased
     \/ /\ At(r, "deleting") /\ alive' = alive \ {setup[r].object}
        /\ erased' = erased \cup (alive \cap {setup[r].object})
        /\ UNCHANGED <<maker, named, lost>>
  /\ Changes(r, Resting)
  /\ UNCHANGED <<row, ticket, inherited, hands>>

Dies(r) ==
  /\ setupFaults < MaxSetupFaults /\ setupFaults' = setupFaults + 1
  /\ setup[r].step \notin {"idle", "ok"}
  /\ lost' = IF At(r, "created") THEN lost \cup {setup[r].object} ELSE lost
  /\ GoesOn(r, Resting)
  /\ UNCHANGED <<discord, row, ledger, hands>>

-----------------------------------------------------------------------------
\* What people do in Discord: delete, rename, make a channel of that name.
ByHand ==
  /\ hands < MaxHands /\ hands' = hands + 1
  /\ \/ \E o \in alive : alive' = alive \ {o} /\ UNCHANGED <<maker, named>>
     \/ \E o \in alive \cap named : named' = named \ {o} /\ UNCHANGED <<maker, alive>>
     \/ \E o \in Fresh : /\ maker' = [maker EXCEPT ![o] = "people"]
                         /\ alive' = alive \cup {o} /\ named' = named \cup {o}
  /\ setup' = [q \in AllRuns |-> [setup[q] EXCEPT !.disturbed = @ \/ setup[q].step # "idle"]]
  /\ UNCHANGED <<row, ledger, lost, setupFaults>>

RunSteps(r) ==
  \/ Begins(r) \/ FetchesList(r) \/ ReadsRow(r)
  \/ FindsGone(r) \/ FindsAllThere(r) \/ Orphans(r) \/ Plans(r) \/ IsBlocked(r)
  \/ Adopts(r) \/ Updates(r) \/ Creates(r) \/ Registers(r) \/ Answers(r)

ResetSteps(r) ==
  \/ \E t \in Tickets : AsksReset(r, t)
  \/ Consumes(r) \/ Relists(r) \/ Deletes(r) \/ GetsRow(r) \/ Closes(r)

SetupNext ==
  \/ \E r \in SetupRuns : RunSteps(r)
  \/ \E r \in ResetRuns : ResetSteps(r)
  \/ \E r \in AllRuns : CallFails(r) \/ AnswerLost(r) \/ Dies(r)
  \/ \E t \in Tickets : Prepares(t) \/ TicketExpires(t)
  \/ ByHand

SetupSpec == SetupInit /\ [][SetupNext]_setupVars

-----------------------------------------------------------------------------
\* "What we did not make we do not touch": a factory reset never deletes an
\* object people made.
ForeignIsNeverDeleted == \A o \in erased : maker[o] = "yume"

\* What holds of it: the objects of others it deletes are those a setup adopted
\* onto an orphaned row of YUME's own, whose owner upsert keeps.
ForeignIsSpared == \A o \in erased : maker[o] = "yume" \/ o \in inherited

\* Confirmed is what the ticket showed: a reset deletes nothing else, although people
\* change the guild and it reads the targets again after the ticket was accepted, unless
\* a run wrote the row between its two readings (OnlyShown).
OnlyConfirmed ==
  \A r \in ResetRuns :
    At(r, "deleting") => setup[r].object = setup[r].shown \/ setup[r].crossed

\* Each live object YUME made is the one its row knows, or about to be: no second channel,
\* none forgotten by a reset that failed, whatever people delete, rename or recreate.  The
\* exceptions are single objects: one whose creation was not answered or not recorded, one
\* that a run wrote out of the row after another had written it in.
NothingForgotten ==
  \A o \in alive : maker[o] = "yume" =>
    \/ RowObject = o
    \/ \E r \in SetupRuns : At(r, "created") /\ setup[r].object = o
    \/ o \in lost

\* A run that answers ok and was alone has left the channel in place, under its
\* name and in the registry.
OkMeansWell ==
  \A r \in SetupRuns : At(r, "ok") /\ ~setup[r].disturbed =>
    row.open /\ row.object \in alive \cap named /\ row.object = setup[r].object

\* What the code does not keep.  "If the list has changed since the preview, the deletion
\* stops" (setup.ts:557-558): it is read twice, and compared once.
OnlyShown ==
  \A r \in ResetRuns : At(r, "deleting") => setup[r].object = setup[r].shown

\* Two setups at once make two channels although the index excludes two rows
\* (registry.ts:75-78).
OneChannel ==
  setupFaults = 0 => \A o, p \in alive : maker[o] = "yume" /\ maker[p] = "yume" => o = p

\* Setup and factory reset of one guild at every moment: what is not ours is spared,
\* only what was confirmed is deleted, what was made is not forgotten, and "ok" is true.
SetupSafe ==
  /\ SetupTypeOK
  /\ ForeignIsSpared
  /\ OnlyConfirmed
  /\ NothingForgotten
  /\ OkMeansWell
=============================================================================
