----------------------------- MODULE GuildNews -----------------------------
(* What the bot posts in a guild's channels by itself: each new episode
   (src/apps/api/src/modules/discord/episode-feed.ts) and each open report, with
   buttons to decide it (moderation-feed.ts, commands.ts,
   src/apps/api/src/modules/moderation/resolve.ts).

   A round of the periodic worker lists what is new, then claims, sends and records
   one item after the other; then it edits the messages of reports that were decided
   elsewhere.  Rounds overlap when a job is delivered twice. *)
EXTENDS Naturals, FiniteSets

CONSTANTS NewsRounds,
          OnDiscord, OnSite,     \* moderators with the button, with the admin page
          Episodes, Reports,     \* numbers, in the order of created_at
          NEWS_BATCH             \* KOTEG

\* Bound of the model, not of the code.
CONSTANT MaxNewsFaults  \* crashes, lost answers, failed statements and edits, together

News == Episodes \cup Reports
Moderators == OnDiscord \cup OnSite

ASSUME NewsAssumption ==
  /\ OnDiscord \cap OnSite = {}
  /\ Episodes \subseteq Nat /\ Reports \subseteq Nat /\ Episodes \cap Reports = {}
  /\ IsFiniteSet(News)
  /\ NEWS_BATCH \in Nat \ {0} /\ MaxNewsFaults \in Nat

VARIABLES standing,   \* "coming"; "current": public, open; "over": gone, decided
          verdicts,   \* rows of moderation_actions per report
          claims,     \* items with a row of their own in the feed's table
          noted,      \* of these, those whose row knows the message
          shown,      \* reports whose row says that the message shows the decision
          posts,      \* messages sent per item
          face,       \* what the message shows: "none", "open", "over"
          round,      \* what each round is doing
          press,      \* what each moderator is doing
          mislaid,    \* history: items with a lost id, a lost edit or a lost answer
          newsFaults

newsVars == <<standing, verdicts, claims, noted, shown, posts, face, round, press,
              mislaid, newsFaults>>

\* A round works off a list: "episodes", then "reports", then "decided" ones.
Lists == {"episodes", "reports", "decided"}
RoundRest == [pc |-> "idle", list |-> "episodes", todo |-> {}]
Hands == [pc |-> "free", on |-> 0]

NewsInit ==
  /\ standing = [i \in News |-> "coming"] /\ verdicts = [i \in Reports |-> 0]
  /\ claims = {} /\ noted = {} /\ shown = {}
  /\ posts = [i \in News |-> 0] /\ face = [i \in News |-> "none"]
  /\ round = [r \in NewsRounds |-> RoundRest] /\ press = [m \in Moderators |-> Hands]
  /\ mislaid = {} /\ newsFaults = 0

NewsFault == newsFaults < MaxNewsFaults /\ newsFaults' = newsFaults + 1

\* ORDER BY created_at LIMIT: the oldest of a set.
Oldest(is) == {i \in is : Cardinality({j \in is : j < i}) < NEWS_BATCH}
First(is) == CHOOSE i \in is : \A j \in is : i <= j
InHand(r) == First(round[r].todo)

Goes(r, pc) == round' = [round EXCEPT ![r].pc = pc]
\* The item in hand is done with.
NextItem(r) == round' = [round EXCEPT ![r].pc = "next", ![r].todo = @ \ {InHand(r)}]

----------------------------------------------------------------------------
\* An episode is published, a report comes in.
Appears(i) ==
  /\ standing[i] = "coming" /\ standing' = [standing EXCEPT ![i] = "current"]
  /\ UNCHANGED <<verdicts, claims, noted, shown, posts, face, round, press, mislaid, newsFaults>>

EpisodeGoes(i) ==
  /\ i \in Episodes /\ standing[i] = "current"
  /\ standing' = [standing EXCEPT ![i] = "over"]
  /\ UNCHANGED <<verdicts, claims, noted, shown, posts, face, round, press, mislaid, newsFaults>>

----------------------------------------------------------------------------
\* The three selections of a round.
Listed(list) ==
  CASE list = "episodes" -> Oldest({i \in Episodes \ claims : standing[i] = "current"})
    [] list = "reports" -> Oldest({i \in Reports \ claims : standing[i] = "current"})
    [] OTHER -> Oldest({i \in Reports \cap noted : i \notin shown /\ standing[i] = "over"})

RoundStarts(r) ==
  /\ round[r].pc = "idle"
  /\ round' = [round EXCEPT ![r] = [pc |-> "next", list |-> "episodes",
                                    todo |-> Listed("episodes")]]
  /\ UNCHANGED <<standing, verdicts, claims, noted, shown, posts, face, press, mislaid, newsFaults>>

\* A list is worked off; the next one is read, or the round is over.
NextList(r) ==
  /\ round[r].pc = "next" /\ round[r].todo = {}
  /\ LET after == IF round[r].list = "episodes" THEN "reports" ELSE "decided"
     IN round' = [round EXCEPT ![r] =
          IF round[r].list = "decided" THEN RoundRest
          ELSE [pc |-> "next", list |-> after, todo |-> Listed(after)]]
  /\ UNCHANGED <<standing, verdicts, claims, noted, shown, posts, face, press, mislaid, newsFaults>>

\* Mutant of Claims: the row is written again over what another round claimed.
ClaimsAnyway(r) ==
  /\ round[r].pc = "next" /\ round[r].list # "decided" /\ round[r].todo # {}
  /\ claims' = claims \cup {InHand(r)} /\ Goes(r, "send")
  /\ UNCHANGED <<standing, verdicts, noted, shown, posts, face, press, mislaid, newsFaults>>

\* INSERT ... ON CONFLICT DO NOTHING RETURNING: without a row of its own it skips.
\* Then episodeDetails, reportRow: what was deleted does not go out, a hidden episode
\* or a decided report still does.
Claims(r) ==
  /\ round[r].pc = "next" /\ round[r].list # "decided" /\ round[r].todo # {}
  /\ IF InHand(r) \in claims
     THEN NextItem(r) /\ UNCHANGED claims
     ELSE /\ claims' = claims \cup {InHand(r)}
          /\ \/ Goes(r, "send")
             \/ /\ InHand(r) \in Episodes /\ standing[InHand(r)] = "over"
                /\ NextItem(r)
  /\ UNCHANGED <<standing, verdicts, noted, shown, posts, face, press, mislaid, newsFaults>>

\* client.send.  Refused, or with its answer lost, it is not tried again.
Posts(r) ==
  /\ round[r].pc = "send"
  /\ \/ /\ posts' = [posts EXCEPT ![InHand(r)] = @ + 1]
        /\ face' = [face EXCEPT ![InHand(r)] = "open"]
        /\ \/ Goes(r, "note") /\ UNCHANGED <<mislaid, newsFaults>>
           \/ /\ NewsFault /\ NextItem(r)
              /\ mislaid' = mislaid \cup {InHand(r)}
     \/ NextItem(r) /\ UNCHANGED <<posts, face, mislaid, newsFaults>>
  /\ UNCHANGED <<standing, verdicts, claims, noted, shown, press>>

\* The message id; if the statement fails, the row gets an error instead.
Notes(r) ==
  /\ round[r].pc = "note"
  /\ NextItem(r)
  /\ \/ noted' = noted \cup {InHand(r)} /\ UNCHANGED <<mislaid, newsFaults>>
     \/ /\ NewsFault /\ UNCHANGED noted
        /\ mislaid' = mislaid \cup {InHand(r)}
  /\ UNCHANGED <<standing, verdicts, claims, shown, posts, face, press>>

\* The message of a report that was decided elsewhere loses its buttons.
Edits(r) ==
  /\ round[r].pc = "next" /\ round[r].list = "decided" /\ round[r].todo # {}
  /\ Goes(r, "edited")
  /\ \/ face' = [face EXCEPT ![InHand(r)] = "over"] /\ UNCHANGED <<mislaid, newsFaults>>
     \/ /\ NewsFault /\ UNCHANGED face
        /\ mislaid' = mislaid \cup {InHand(r)}
  /\ UNCHANGED <<standing, verdicts, claims, noted, shown, posts, press>>

\* shown_status, whether the edit succeeded or not.
Marks(r) ==
  /\ round[r].pc = "edited"
  /\ shown' = shown \cup {InHand(r)}
  /\ NextItem(r)
  /\ UNCHANGED <<standing, verdicts, claims, noted, posts, face, press, mislaid, newsFaults>>

\* The process dies, or a statement fails outside the try.  A message that was sent
\* is never recorded then.
RoundBreaks(r) ==
  /\ round[r].pc # "idle" /\ NewsFault
  /\ round' = [round EXCEPT ![r] = RoundRest]
  /\ mislaid' = IF round[r].pc = "note" THEN mislaid \cup {InHand(r)} ELSE mislaid
  /\ UNCHANGED <<standing, verdicts, claims, noted, shown, posts, face, press>>

----------------------------------------------------------------------------
\* resolveReport reads the report.  A button of a report that is closed by now only
\* shows it (closedState).
Looks(m, i) ==
  /\ press[m].pc = "free" /\ i \in Reports
  /\ m \in OnDiscord => face[i] = "open"
  /\ \/ /\ standing[i] = "current"
        /\ press' = [press EXCEPT ![m] = [pc |-> "deciding", on |-> i]]
     \/ /\ standing[i] = "over" /\ m \in OnDiscord
        /\ press' = [press EXCEPT ![m] = [pc |-> "marking", on |-> i]]
  /\ UNCHANGED <<standing, verdicts, claims, noted, shown, posts, face, round, mislaid, newsFaults>>

\* On Discord the message is to show the decision; on the site that is all.
Decided(m) == press' = [press EXCEPT ![m] = IF m \in OnSite THEN Hands
                                            ELSE [@ EXCEPT !.pc = "marking"]]

\* Mutant of Decides: the status is not looked at again in the transaction.
DecidesAgain(m) ==
  /\ press[m].pc = "deciding"
  /\ standing' = [standing EXCEPT ![press[m].on] = "over"]
  /\ verdicts' = [verdicts EXCEPT ![press[m].on] = @ + 1]
  /\ Decided(m)
  /\ UNCHANGED <<claims, noted, shown, posts, face, round, mislaid, newsFaults>>

\* The transaction: the status while it is still open, the subject and the row of
\* moderation_actions with it; otherwise somebody else was faster.
Decides(m) ==
  /\ press[m].pc = "deciding"
  /\ IF standing[press[m].on] = "current"
     THEN /\ standing' = [standing EXCEPT ![press[m].on] = "over"]
          /\ verdicts' = [verdicts EXCEPT ![press[m].on] = @ + 1]
     ELSE UNCHANGED <<standing, verdicts>>
  /\ Decided(m)
  /\ UNCHANGED <<claims, noted, shown, posts, face, round, mislaid, newsFaults>>

\* decidedMessage: the row first ...
MarksDecided(m) ==
  /\ press[m].pc = "marking"
  /\ shown' = shown \cup {press[m].on}
  /\ press' = [press EXCEPT ![m].pc = "answering"]
  /\ UNCHANGED <<standing, verdicts, claims, noted, posts, face, round, mislaid, newsFaults>>

\* ... then the answer to the interaction, which edits the message.
AnswersButton(m) ==
  /\ press[m].pc = "answering"
  /\ press' = [press EXCEPT ![m] = Hands]
  /\ \/ face' = [face EXCEPT ![press[m].on] = "over"] /\ UNCHANGED <<mislaid, newsFaults>>
     \/ /\ NewsFault /\ UNCHANGED face
        /\ mislaid' = mislaid \cup {press[m].on}
  /\ UNCHANGED <<standing, verdicts, claims, noted, shown, posts, round>>

----------------------------------------------------------------------------
RoundSteps(r) == \/ NextList(r) \/ Claims(r) \/ Posts(r) \/ Notes(r)
                 \/ Edits(r) \/ Marks(r)
PressSteps(m) == Decides(m) \/ MarksDecided(m) \/ AnswersButton(m)

NewsNext == \/ \E i \in News : Appears(i) \/ EpisodeGoes(i)
            \/ \E r \in NewsRounds : RoundStarts(r) \/ RoundSteps(r) \/ RoundBreaks(r)
            \/ \E m \in Moderators : PressSteps(m) \/ \E i \in Reports : Looks(m, i)

NewsSpec == NewsInit /\ [][NewsNext]_newsVars

----------------------------------------------------------------------------
\* The shape of the state.
NewsTypeOK ==
  /\ standing \in [News -> {"coming", "current", "over"}]
  /\ verdicts \in [Reports -> 0 .. 1]
  /\ claims \subseteq News /\ noted \subseteq claims /\ shown \subseteq claims \cap Reports
  /\ posts \in [News -> 0 .. 1]
  /\ face \in [News -> {"none", "open", "over"}]
  /\ round \in [NewsRounds -> [pc : {"idle", "next", "send", "note", "edited"},
                               list : Lists, todo : SUBSET News]]
  /\ press \in [Moderators ->
       [pc : {"free", "deciding", "marking", "answering"}, on : Reports \cup {0}]]
  /\ mislaid \subseteq News /\ newsFaults \in 0 .. MaxNewsFaults

\* What became of an item, in the terms of AtMostOnce.
Carried(i) == \E r \in NewsRounds : round[r].pc = "send" /\ InHand(r) = i
PostFate == [i \in News |-> IF posts[i] = 1 THEN "told" ELSE IF posts[i] > 1 THEN "twice"
                            ELSE IF i \notin claims THEN "waiting"
                            ELSE IF Carried(i) THEN "taken" ELSE "lost"]
Posting == INSTANCE AtMostOnce WITH Notices <- News, fate <- PostFate

\* An episode or a report is posted once or not at all, whatever rounds overlap,
\* break off, or lose Discord's answer (episode-feed.ts:208-213, 0078:15-20).
PostedAtMostOnce == Posting!Spec

\* Two moderators, on Discord and on the site, never both decide a report: one row of
\* moderation_actions for a closed report, none for an open one (resolve.ts:40-57).
OneVerdict == \A i \in Reports : verdicts[i] = IF standing[i] = "over" THEN 1 ELSE 0

\* No message says "decided" of a report that is open.
ShowsOnlyDecided == \A i \in Reports : face[i] = "over" \/ i \in shown => standing[i] = "over"

\* What stays current is claimed, episodes and reports alike: no list starves the next.
EveryNewsIsTaken ==
  \A i \in News : standing[i] = "current" ~> i \in claims \/ standing[i] = "over"

\* The message of a decided report ends up without buttons, wherever it was decided,
\* unless its id, its edit or the answer to the button was lost: shown_status is
\* written first or anyway, so nothing tries again.
DecidedLooksDecided ==
  \A i \in Reports : standing[i] = "over" /\ posts[i] > 0
                       ~> face[i] = "over" \/ i \in mislaid

\* The feeds at every moment: one verdict on a report, and shown only what is decided.
NewsSafe ==
  /\ NewsTypeOK
  /\ OneVerdict
  /\ ShowsOnlyDecided

\* What rounds make of the news: each posted at most once, each taken, and a decision
\* shown as one.
NewsBehaves ==
  /\ PostedAtMostOnce
  /\ EveryNewsIsTaken
  /\ DecidedLooksDecided
=============================================================================
