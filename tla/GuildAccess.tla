----------------------------- MODULE GuildAccess -----------------------------
(***************************************************************************)
(* Who may open the dashboard of a Discord server: the link of a YUME      *)
(* account to a Discord account (discord/oauth.ts: createState,            *)
(* consumeStateTarget, completeLink, syncGuilds, unlink; the callback of   *)
(* discord/routes.ts), the membership copied from Discord, and its         *)
(* renewal when somebody asks with a copy older than five minutes          *)
(* (discord/guild-access.ts: guildAccess, refreshMembership).              *)
(*                                                                         *)
(* One server, one process; each statement and each answer of Discord is   *)
(* an action.  Time is abstract: a copy is fresh or stale, and `lately`    *)
(* remembers who had the right within the last five minutes.               *)
(***************************************************************************)
EXTENDS Naturals, FiniteSets

CONSTANTS
  Users, Accounts,        \* YUME accounts and Discord accounts
  Operators,              \* YUME accounts with the permission discord.manage
  NoAccount,
  Callbacks, StarterOf,   \* redirects back from Discord, and who started them
  StateOf,                \* the state each of them carries
  Checks, AskerOf,        \* requests to the dashboard, and who makes them
  MaxChanges,             \* bounds: changes of rights at Discord,
  MaxSilences             \* questions Discord does not answer

ASSUME AccessAssumption ==
  /\ NoAccount \notin Accounts /\ "" \notin Accounts
  /\ StarterOf \in [Callbacks -> Users] /\ AskerOf \in [Checks -> Users]
  /\ MaxChanges \in Nat /\ MaxSilences \in Nat

VARIABLES
  linkOf,        \* discord_links
  member,      \* discord_guild_members, of the one server
  truth,       \* what the account is at Discord
  lately,      \* history: it had the right within the last five minutes
  states,      \* discord_oauth_states
  callback,    \* per redirect: its step, its account, what Discord listed
  leaving,     \* accounts whose rows an unlink has still to delete
  check,       \* per request: its step and its account
  renewal,     \* inFlight: per account, the renewal under way
  failed,      \* failedAt: accounts not asked about for half a minute
  changes, silences

accessVars == <<linkOf, member, truth, lately, states, callback, leaving, check, renewal,
                failed, changes, silences>>

Standing == {"left", "member", "manager"}
NoRow == [there |-> FALSE, manages |-> FALSE, fresh |-> FALSE]
RowFor(standing) == [there |-> TRUE, manages |-> standing = "manager", fresh |-> TRUE]

\* The shape of the state; a check waits only for a renewal that is under way.
AccessTypeOK ==
  /\ linkOf \in [Users -> Accounts \cup {NoAccount}]
  /\ member \in [Accounts -> [there : BOOLEAN, manages : BOOLEAN, fresh : BOOLEAN]]
  /\ truth \in [Accounts -> Standing] /\ lately \in [Accounts -> BOOLEAN]
  /\ states \subseteq {StateOf[c] : c \in Callbacks}
  /\ callback \in [Callbacks -> [step : {"idle", "checking", "linking", "listing", "clearing",
                                         "filling", "done"},
                                 account : Accounts \cup {NoAccount}, seen : Standing,
                                 admitted : BOOLEAN]]
  /\ leaving \subseteq Accounts /\ failed \subseteq Accounts
  /\ check \in [Checks -> [step : {"idle", "linked", "waiting", "granted", "refused"},
                           account : Accounts \cup {NoAccount}]]
  /\ renewal \in [Accounts -> [step : {"none", "asking", "writing"}, seen : Standing]]
  /\ changes \in 0 .. MaxChanges /\ silences \in 0 .. MaxSilences
  /\ \A k \in Checks : check[k].step = "waiting" => renewal[check[k].account].step # "none"

AccessInit ==
  /\ linkOf = [u \in Users |-> NoAccount]
  /\ member = [d \in Accounts |-> NoRow]
  /\ truth \in [Accounts -> {"left", "manager"}]
  /\ lately = [d \in Accounts |-> truth[d] = "manager"]
  /\ states = {StateOf[c] : c \in Callbacks}
  /\ callback = [c \in Callbacks |-> [step |-> "idle", account |-> NoAccount,
                                      seen |-> "left", admitted |-> FALSE]]
  /\ leaving = {} /\ failed = {}
  /\ check = [k \in Checks |-> [step |-> "idle", account |-> NoAccount]]
  /\ renewal = [d \in Accounts |-> [step |-> "none", seen |-> "left"]]
  /\ changes = 0 /\ silences = 0

-----------------------------------------------------------------------------
On(c, step) == callback[c].step = step
StepsTo(c, step) == callback' = [callback EXCEPT ![c].step = step]

\* The callback: DELETE ... RETURNING the state; the person may have signed in at
\* Discord as anybody.
Consumes(c) ==
  /\ On(c, "idle")
  /\ IF StateOf[c] \in states
     THEN \E d \in Accounts :
            callback' = [callback EXCEPT ![c].step = "checking", ![c].account = d,
                                         ![c].admitted = TRUE]
     ELSE StepsTo(c, "done")
  /\ states' = states \ {StateOf[c]}
  /\ UNCHANGED <<linkOf, member, truth, lately, leaving, check, renewal, failed, changes,
                 silences>>

TakenByOther(c) == \E u \in Users \ {StarterOf[c]} : linkOf[u] = callback[c].account

\* completeLink: is the account somebody else's?
LooksForOther(c) ==
  /\ On(c, "checking")
  /\ StepsTo(c, IF TakenByOther(c) THEN "done" ELSE "linking")
  /\ UNCHANGED <<linkOf, member, truth, lately, states, leaving, check, renewal, failed,
                 changes, silences>>

\* Mutant of Links: what was found a moment ago is relied on.
LinksUnindexed(c) ==
  /\ On(c, "linking")
  /\ linkOf' = [linkOf EXCEPT ![StarterOf[c]] = callback[c].account]
  /\ StepsTo(c, "listing")
  /\ UNCHANGED <<member, truth, lately, states, leaving, check, renewal, failed, changes,
                 silences>>

\* The upsert, which the unique index refuses if it has become somebody else's.
Links(c) ==
  /\ On(c, "linking")
  /\ IF TakenByOther(c) THEN StepsTo(c, "done") /\ UNCHANGED linkOf
     ELSE /\ linkOf' = [linkOf EXCEPT ![StarterOf[c]] = callback[c].account]
          /\ StepsTo(c, "listing")
  /\ UNCHANGED <<member, truth, lately, states, leaving, check, renewal, failed, changes,
                 silences>>

\* syncGuilds: Discord lists the servers of the account, or does not answer.
Lists(c) ==
  /\ On(c, "listing")
  /\ \/ callback' = [callback EXCEPT ![c].step = "clearing",
                                     ![c].seen = truth[callback[c].account]]
        /\ UNCHANGED silences
     \/ silences < MaxSilences /\ silences' = silences + 1 /\ StepsTo(c, "done")
  /\ UNCHANGED <<linkOf, member, truth, lately, states, leaving, check, renewal, failed,
                 changes>>

\* The old rows go,
Clears(c) ==
  /\ On(c, "clearing")
  /\ member' = [member EXCEPT ![callback[c].account] = NoRow]
  /\ StepsTo(c, IF callback[c].seen = "left" THEN "done" ELSE "filling")
  /\ UNCHANGED <<linkOf, truth, lately, states, leaving, check, renewal, failed, changes,
                 silences>>

\* and the new ones come, unless another redirect has put some there (a duplicate key).
Fills(c) ==
  /\ On(c, "filling") /\ StepsTo(c, "done")
  /\ member' = IF member[callback[c].account].there THEN member
               ELSE [member EXCEPT ![callback[c].account] = RowFor(callback[c].seen)]
  /\ UNCHANGED <<linkOf, truth, lately, states, leaving, check, renewal, failed, changes,
                 silences>>

\* unlink: the link, and then the rows of its account.
Unlinks(u) ==
  /\ linkOf[u] # NoAccount /\ linkOf[u] \notin leaving
  /\ linkOf' = [linkOf EXCEPT ![u] = NoAccount]
  /\ leaving' = leaving \cup {linkOf[u]}
  /\ UNCHANGED <<member, truth, lately, states, callback, check, renewal, failed, changes,
                 silences>>

UnlinkClears(d) ==
  /\ d \in leaving /\ leaving' = leaving \ {d}
  /\ member' = [member EXCEPT ![d] = NoRow]
  /\ UNCHANGED <<linkOf, truth, lately, states, callback, check, renewal, failed, changes,
                 silences>>

-----------------------------------------------------------------------------
Decides(k, verdict) ==
  check' = [check EXCEPT ![k] = [step |-> IF verdict THEN "granted" ELSE "refused",
                                 account |-> NoAccount]]

\* guildAccess: who may manage every server is let in whatever Discord says; of the others,
\* who is this at Discord?
AsksLink(k) ==
  /\ check[k].step \in {"idle", "granted", "refused"}
  /\ IF AskerOf[k] \in Operators \/ linkOf[AskerOf[k]] = NoAccount
     THEN Decides(k, AskerOf[k] \in Operators)
     ELSE check' = [check EXCEPT ![k] = [step |-> "linked", account |-> linkOf[AskerOf[k]]]]
  /\ UNCHANGED <<linkOf, member, truth, lately, states, callback, leaving, renewal, failed,
                 changes, silences>>

\* Mutant of Usable: yesterday's administrator is one today.
UsableAlways(d) == TRUE

\* A copy is good for five minutes.
Usable(d) == member[d].fresh

\* The copy decides, or is renewed: by the renewal under way if there is one, and not
\* at all for half a minute after one that failed.
AsksMember(k) ==
  LET d == check[k].account IN
  /\ check[k].step = "linked"
  /\ IF member[d].there /\ ~Usable(d) /\ (renewal[d].step # "none" \/ d \notin failed)
     THEN /\ check' = [check EXCEPT ![k].step = "waiting"]
          /\ renewal' = IF renewal[d].step = "none"
                        THEN [renewal EXCEPT ![d].step = "asking"] ELSE renewal
     ELSE /\ Decides(k, member[d].there /\ Usable(d) /\ member[d].manages)
          /\ UNCHANGED renewal
  /\ UNCHANGED <<linkOf, member, truth, lately, states, callback, leaving, failed, changes,
                 silences>>

\* The renewal is over for all that wait for it.
Verdict(d, verdict) ==
  check' = [k \in Checks |->
    IF check[k].step = "waiting" /\ check[k].account = d
    THEN [step |-> IF verdict THEN "granted" ELSE "refused", account |-> NoAccount]
    ELSE check[k]]

\* memberAccess: Discord tells what the account is,
Answers(d) ==
  /\ renewal[d].step = "asking"
  /\ renewal' = [renewal EXCEPT ![d] = [step |-> "writing", seen |-> truth[d]]]
  /\ failed' = failed \ {d}
  /\ UNCHANGED <<linkOf, member, truth, lately, states, callback, leaving, check, changes,
                 silences>>

\* or nobody knows.
Silent(d) ==
  /\ renewal[d].step = "asking" /\ silences < MaxSilences /\ silences' = silences + 1
  /\ failed' = failed \cup {d}
  /\ renewal' = [renewal EXCEPT ![d].step = "none"] /\ Verdict(d, FALSE)
  /\ UNCHANGED <<linkOf, member, truth, lately, states, callback, leaving, changes>>

\* DELETE, or UPDATE: a row that is gone stays gone.
Renewed(d) ==
  IF renewal[d].seen = "left" \/ ~member[d].there THEN NoRow ELSE RowFor(renewal[d].seen)

Writes(d) ==
  /\ renewal[d].step = "writing"
  /\ member' = [member EXCEPT ![d] = Renewed(d)]
  /\ Verdict(d, member'[d].manages)
  /\ renewal' = [renewal EXCEPT ![d].step = "none"]
  /\ UNCHANGED <<linkOf, truth, lately, states, callback, leaving, failed, changes, silences>>

HalfMinute(d) ==
  /\ d \in failed /\ failed' = failed \ {d}
  /\ UNCHANGED <<linkOf, member, truth, lately, states, callback, leaving, check, renewal,
                 changes, silences>>

-----------------------------------------------------------------------------
\* Rights are given and taken at Discord.
Changes(d) ==
  /\ changes < MaxChanges /\ changes' = changes + 1
  /\ \E standing \in Standing \ {truth[d]} : truth' = [truth EXCEPT ![d] = standing]
  /\ lately' = [lately EXCEPT ![d] = @ \/ truth'[d] = "manager"]
  /\ UNCHANGED <<linkOf, member, states, callback, leaving, check, renewal, failed, silences>>

\* Five minutes, in which every answer of Discord has been written.
FiveMinutes ==
  /\ \A d \in Accounts : renewal[d].step # "writing"
  /\ \A c \in Callbacks : ~On(c, "clearing") /\ ~On(c, "filling")
  /\ member' = [d \in Accounts |-> [member[d] EXCEPT !.fresh = FALSE]]
  /\ lately' = [d \in Accounts |-> truth[d] = "manager"]
  /\ UNCHANGED <<linkOf, truth, states, callback, leaving, check, renewal, failed, changes,
                 silences>>

LinkSteps(c) == \/ Consumes(c) \/ LooksForOther(c) \/ Links(c) \/ Lists(c)
                \/ Clears(c) \/ Fills(c)
RenewalSteps(d) == Answers(d) \/ Silent(d) \/ Writes(d)

AccessNext ==
  \/ \E c \in Callbacks : LinkSteps(c)
  \/ \E u \in Users : Unlinks(u)
  \/ \E d \in Accounts : UnlinkClears(d) \/ RenewalSteps(d) \/ HalfMinute(d) \/ Changes(d)
  \/ \E k \in Checks : AsksLink(k) \/ AsksMember(k)
  \/ FiveMinutes

AccessSpec == AccessInit /\ [][AccessNext]_accessVars

-----------------------------------------------------------------------------
\* The dashboard opens only to an operator of YUME, or to an account that had the right
\* within the last five minutes, whatever was copied when, by a redirect or by a renewal
\* it waited for.
Entitled(k) ==
  AskerOf[k] \in Operators \/ (check[k].account \in Accounts /\ lately[check[k].account])

GrantedHadRight ==
  [][\A k \in Checks :
       check[k].step # "granted" /\ check'[k].step = "granted" => Entitled(k)]_accessVars

\* A Discord account belongs to one YUME account, although two redirects can both have
\* found it free.
AccountOfOne ==
  \A u, w \in Users : u # w /\ linkOf[u] # NoAccount => linkOf[u] # linkOf[w]

\* A state admits one redirect, however often it is presented.
StateAdmitsOne ==
  \A b, c \in Callbacks :
    b # c /\ StateOf[b] = StateOf[c] => ~callback[b].admitted \/ ~callback[c].admitted

\* A renewal that was under way when the link was undone brings no membership back:
\* a row appears only where a redirect puts it.
RenewalRevivesNothing ==
  [][\A d \in Accounts :
       ~member[d].there /\ member'[d].there
         => \E c \in Callbacks : On(c, "filling") /\ callback[c].account = d]_accessVars

\* Nobody waits for ever for a renewal, neither who started it nor who joined it.
EveryCheckEnds == []<>(\A k \in Checks : check[k].step # "waiting")

\* Links of Discord accounts at every moment: an account is linked once, a state admits
\* once.
AccessSafe ==
  /\ AccessTypeOK
  /\ AccountOfOne
  /\ StateAdmitsOne

\* Checks and renewals of guild rights: granted to who had the right, nothing revived,
\* and nobody left waiting.
AccessBehaves ==
  /\ GrantedHadRight
  /\ RenewalRevivesNothing
  /\ EveryCheckEnds
=============================================================================
