--------------------------- MODULE MCDiscordSafe ---------------------------
(***************************************************************************)
(* The persistent message and the setup of a guild, checked in one run:    *)
(* they share nothing, the first state chooses which of them moves.        *)
(***************************************************************************)
EXTENDS PersistentMessage, GuildSetup

CONSTANT r2

\* Every process is pid 1 of its own container.
SamePid == [c \in Callers |-> "pid-1"]

VARIABLE active

\* Contents are interchangeable: it does not matter which of them is there first.
MCInit == /\ active \in {"message", "setup", "setups"}
          /\ Init /\ SetupInit
          /\ truth = CHOOSE c \in Contents : TRUE

\* The guild is run twice: one setup and one reset; two setups at once, and then people
\* change the guild once.
SetupScene ==
  \/ active = "setup" /\ setup'[r2].step = "idle"
  \/ active = "setups" /\ ticket' = ticket /\ hands' <= 1 /\ \A x \in ResetRuns : setup'[x].step = "idle"

\* The message: one call that is not answered, or dies, or one lock that expires.
MessageScene == faults' + expiries' <= 1

MCNext == /\ UNCHANGED active
          /\ \/ active = "message" /\ Next /\ MessageScene /\ UNCHANGED setupVars
             \/ active # "message" /\ SetupNext /\ SetupScene /\ UNCHANGED vars

SafeSpec == MCInit /\ [][MCNext]_<<active, vars, setupVars>>
=============================================================================
