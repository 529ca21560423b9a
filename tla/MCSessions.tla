----------------------------- MODULE MCSessions -----------------------------
\* Small instances of the sessions of one account for TLC.
EXTENDS Sessions, TLC

Symmetry == Permutations(Sessions) \cup Permutations(Requests) \cup Permutations(Sets)

(***************************************************************************)
(* One run for three sizes: requests run together, on two sessions; or     *)
(* they come in turn, each after the end of the one before, on all         *)
(* sessions; or two of them run together on all sessions, as two tabs of   *)
(* one browser that sign in, trade their refresh tokens and replay them,   *)
(* while anybody may end every session, and no access token is checked.    *)
(***************************************************************************)
VARIABLE mode

inTurn == mode = "inTurn"

MCInit == Init /\ mode \in {"together", "inTurn", "tabs"}

OpenedOrOpening == Cardinality({s \in Sessions : sess[s].state # "none"})
                   + Cardinality({r \in Requests : At(r, "opening") \/ call[r].reopen})

Tabs == {"idle", "opening", "signing", "lookup", "replayed", "bump", "forget"}

MCNext ==
  /\ UNCHANGED mode
  /\ Next
  /\ mode = "together" => OpenedOrOpening' <= 2
  /\ mode = "inTurn" => \A q, r \in Requests : q = r \/ At(q, "idle")' \/ At(r, "idle")'
  /\ mode = "tabs" => \A r \in Requests : call'[r].pc \in Tabs

MCSpec == MCInit /\ [][MCNext]_<<vars, mode>>

\* A sign-out of everybody, and a logout, keep what they promise as long as nothing
\* else is under way (NothingSurvives and LoggedOutIsRefused of Sessions).
NothingSurvivesInTurn == inTurn => NothingSurvives
LoggedOutInTurn == inTurn => LoggedOutIsRefused

\* How tokens are judged: one that is current is never refused, and where requests do
\* not overlap, ending sessions and signing out end what they say.
TokensJudged ==
  /\ NeverRefusesCurrent
  /\ NothingSurvivesInTurn
  /\ LoggedOutInTurn
=============================================================================
