----------------------------- MODULE GuildProofs -----------------------------
(***************************************************************************)
(* Proofs about what the bot does on a guild: its news (GuildNews), its    *)
(* messages to members (DmNotices), the structure it sets up (GuildSetup)  *)
(* and the roles of its members (RoleSync).                                *)
(***************************************************************************)
EXTENDS GuildNews, DmNotices, GuildSetup, RoleSync, Integers, FiniteSetTheorems,
        WellFoundedInduction, TLAPS

----------------------------------------------------------------------------
(* GuildNews *)

\* Between the claim and the record of the message, an item is in the hand of one round.
Holds(r) == round[r].pc \in {"send", "note"}

\* What a round works off, and where it stands in it.
WorkInOrder ==
  \A r \in NewsRounds :
    /\ round[r].pc \in {"send", "note", "edited"} => round[r].todo # {}
    /\ Holds(r) => round[r].list # "decided"
    /\ round[r].pc = "edited" => round[r].list = "decided"
    /\ round[r].list = "decided" =>
         \A i \in round[r].todo : i \in Reports /\ i \in noted /\ standing[i] = "over"

\* Who holds an item has claimed it, has sent it once when there is its message to
\* record, and holds it alone.
HeldAlone ==
  /\ \A r \in NewsRounds : Holds(r) =>
       /\ InHand(r) \in claims
       /\ posts[InHand(r)] = IF round[r].pc = "send" THEN 0 ELSE 1
  /\ \A r, q \in NewsRounds : Holds(r) /\ Holds(q) /\ InHand(r) = InHand(q) => r = q

\* A message was claimed first and sent once; what it shows, it shows because of that.
SentOnce ==
  \A i \in News :
    /\ posts[i] \in 0 .. 1
    /\ posts[i] = 1 => i \in claims
    /\ i \in noted \/ face[i] # "none" => posts[i] = 1

\* A moderator at work has a report; from Discord, one that was posted, and to mark
\* it, one that is decided.
PressInOrder ==
  \A m \in Moderators : press[m].pc # "free" =>
    /\ press[m].on \in Reports
    /\ m \in OnDiscord => posts[press[m].on] = 1
    /\ press[m].pc = "deciding" => standing[press[m].on] # "coming"
    /\ press[m].pc \in {"marking", "answering"} => m \in OnDiscord /\ standing[press[m].on] = "over"

NewsInv ==
  /\ NewsTypeOK /\ OneVerdict /\ ShowsOnlyDecided
  /\ WorkInOrder /\ HeldAlone /\ SentOnce /\ PressInOrder

LEMMA FirstIsIn ==
  ASSUME NEW S \in SUBSET Nat, S # {}
  PROVE  First(S) \in S
<1> DEFINE R == {p \in Nat \X Nat : p[1] < p[2]}
<1>1. IsWellFoundedOn(R, Nat)
  BY NatLessThanWellFounded DEF OpToRel
<1>2. PICK n \in S : \A m \in S : ~(<<m, n>> \in R)
  BY <1>1, WFMin
<1>3. \A m \in S : n <= m
  <2> TAKE m \in S
  <2>1. m \in Nat /\ n \in Nat /\ ~(<<m, n>> \in R)
    BY <1>2, Zenon
  <2>2. ~(m < n)
    BY <2>1
  <2> QED
    BY <2>1, <2>2
<1> QED
  BY <1>3 DEF First

LEMMA NewsAreNumbers == News \subseteq Nat
BY NewsAssumption DEF News

LEMMA InHandIsNews ==
  ASSUME NewsInv, NEW r \in NewsRounds, round[r].todo # {}
  PROVE  InHand(r) \in round[r].todo /\ InHand(r) \in News
<1>1. round[r].todo \in SUBSET News
  BY DEF NewsInv, NewsTypeOK
<1> QED
  BY <1>1, NewsAreNumbers, FirstIsIn DEF InHand

\* An episode is published, a report comes in.
LEMMA AppearsKeeps ==
  ASSUME NewsInv, NEW i \in News, Appears(i)
  PROVE  NewsInv'
<1>1. /\ standing[i] = "coming" /\ standing' = [standing EXCEPT ![i] = "current"]
      /\ UNCHANGED <<verdicts, claims, noted, shown, posts, face, round, press, mislaid, newsFaults>>
  BY DEF Appears
<1>2. NewsTypeOK'
  BY <1>1, NewsAssumption
       DEF NewsInv, NewsTypeOK, OneVerdict, ShowsOnlyDecided, WorkInOrder, HeldAlone, SentOnce,
           PressInOrder, Holds, News, Moderators, InHand, Lists, RoundRest, Hands
<1>3. OneVerdict'
  BY <1>1, NewsAssumption
       DEF NewsInv, NewsTypeOK, OneVerdict, ShowsOnlyDecided, WorkInOrder, HeldAlone, SentOnce,
           PressInOrder, Holds, News, Moderators, InHand, Lists, RoundRest, Hands
<1>4. ShowsOnlyDecided'
  BY <1>1, NewsAssumption
       DEF NewsInv, NewsTypeOK, OneVerdict, ShowsOnlyDecided, WorkInOrder, HeldAlone, SentOnce,
           PressInOrder, Holds, News, Moderators, InHand, Lists, RoundRest, Hands
<1>5. WorkInOrder'
  BY <1>1, NewsAssumption
       DEF NewsInv, NewsTypeOK, OneVerdict, ShowsOnlyDecided, WorkInOrder, HeldAlone, SentOnce,
           PressInOrder, Holds, News, Moderators, InHand, Lists, RoundRest, Hands
<1>6. HeldAlone'
  BY <1>1, NewsAssumption
       DEF NewsInv, NewsTypeOK, OneVerdict, ShowsOnlyDecided, WorkInOrder, HeldAlone, SentOnce,
           PressInOrder, Holds, News, Moderators, InHand, Lists, RoundRest, Hands
<1>7. SentOnce'
  BY <1>1, NewsAssumption
       DEF NewsInv, NewsTypeOK, OneVerdict, ShowsOnlyDecided, WorkInOrder, HeldAlone, SentOnce,
           PressInOrder, Holds, News, Moderators, InHand, Lists, RoundRest, Hands
<1>8. PressInOrder'
  BY <1>1, NewsAssumption
       DEF NewsInv, NewsTypeOK, OneVerdict, ShowsOnlyDecided, WorkInOrder, HeldAlone, SentOnce,
           PressInOrder, Holds, News, Moderators, InHand, Lists, RoundRest, Hands
<1> QED
  BY <1>2, <1>3, <1>4, <1>5, <1>6, <1>7, <1>8 DEF NewsInv

\* An episode is taken down.
LEMMA EpisodeGoesKeeps ==
  ASSUME NewsInv, NEW i \in News, EpisodeGoes(i)
  PROVE  NewsInv'
<1>1. /\ i \in Episodes /\ i \notin Reports /\ standing' = [standing EXCEPT ![i] = "over"]
      /\ UNCHANGED <<verdicts, claims, noted, shown, posts, face, round, press, mislaid, newsFaults>>
  BY NewsAssumption DEF EpisodeGoes
<1>2. NewsTypeOK'
  BY <1>1, NewsAssumption
       DEF NewsInv, NewsTypeOK, OneVerdict, ShowsOnlyDecided, WorkInOrder, HeldAlone, SentOnce,
           PressInOrder, Holds, News, Moderators, InHand, Lists, RoundRest, Hands
<1>3. OneVerdict'
  BY <1>1, NewsAssumption
       DEF NewsInv, NewsTypeOK, OneVerdict, ShowsOnlyDecided, WorkInOrder, HeldAlone, SentOnce,
           PressInOrder, Holds, News, Moderators, InHand, Lists, RoundRest, Hands
<1>4. ShowsOnlyDecided'
  BY <1>1, NewsAssumption
       DEF NewsInv, NewsTypeOK, OneVerdict, ShowsOnlyDecided, WorkInOrder, HeldAlone, SentOnce,
           PressInOrder, Holds, News, Moderators, InHand, Lists, RoundRest, Hands
<1>5. WorkInOrder'
  BY <1>1, NewsAssumption
       DEF NewsInv, NewsTypeOK, OneVerdict, ShowsOnlyDecided, WorkInOrder, HeldAlone, SentOnce,
           PressInOrder, Holds, News, Moderators, InHand, Lists, RoundRest, Hands
<1>6. HeldAlone'
  BY <1>1, NewsAssumption
       DEF NewsInv, NewsTypeOK, OneVerdict, ShowsOnlyDecided, WorkInOrder, HeldAlone, SentOnce,
           PressInOrder, Holds, News, Moderators, InHand, Lists, RoundRest, Hands
<1>7. SentOnce'
  BY <1>1, NewsAssumption
       DEF NewsInv, NewsTypeOK, OneVerdict, ShowsOnlyDecided, WorkInOrder, HeldAlone, SentOnce,
           PressInOrder, Holds, News, Moderators, InHand, Lists, RoundRest, Hands
<1>8. PressInOrder'
  BY <1>1, NewsAssumption
       DEF NewsInv, NewsTypeOK, OneVerdict, ShowsOnlyDecided, WorkInOrder, HeldAlone, SentOnce,
           PressInOrder, Holds, News, Moderators, InHand, Lists, RoundRest, Hands
<1> QED
  BY <1>2, <1>3, <1>4, <1>5, <1>6, <1>7, <1>8 DEF NewsInv

\* A round begins.
LEMMA RoundStartsKeeps ==
  ASSUME NewsInv, NEW r \in NewsRounds, RoundStarts(r)
  PROVE  NewsInv'
<1>1. /\ round' = [round EXCEPT ![r] = [pc |-> "next", list |-> "episodes", todo |-> Listed("episodes")]]
      /\ Listed("episodes") \in SUBSET News
      /\ UNCHANGED <<standing, verdicts, claims, noted, shown, posts, face, press, mislaid, newsFaults>>
  BY DEF RoundStarts, Listed, Oldest, News
<1>2. NewsTypeOK'
  BY <1>1, NewsAssumption
       DEF NewsInv, NewsTypeOK, OneVerdict, ShowsOnlyDecided, WorkInOrder, HeldAlone, SentOnce,
           PressInOrder, Holds, News, Moderators, InHand, Lists, RoundRest, Hands
<1>3. OneVerdict'
  BY <1>1, NewsAssumption
       DEF NewsInv, NewsTypeOK, OneVerdict, ShowsOnlyDecided, WorkInOrder, HeldAlone, SentOnce,
           PressInOrder, Holds, News, Moderators, InHand, Lists, RoundRest, Hands
<1>4. ShowsOnlyDecided'
  BY <1>1, NewsAssumption
       DEF NewsInv, NewsTypeOK, OneVerdict, ShowsOnlyDecided, WorkInOrder, HeldAlone, SentOnce,
           PressInOrder, Holds, News, Moderators, InHand, Lists, RoundRest, Hands
<1>5. WorkInOrder'
  BY <1>1, NewsAssumption
       DEF NewsInv, NewsTypeOK, OneVerdict, ShowsOnlyDecided, WorkInOrder, HeldAlone, SentOnce,
           PressInOrder, Holds, News, Moderators, InHand, Lists, RoundRest, Hands
<1>6. HeldAlone'
  BY <1>1, NewsAssumption
       DEF NewsInv, NewsTypeOK, OneVerdict, ShowsOnlyDecided, WorkInOrder, HeldAlone, SentOnce,
           PressInOrder, Holds, News, Moderators, InHand, Lists, RoundRest, Hands
<1>7. SentOnce'
  BY <1>1, NewsAssumption
       DEF NewsInv, NewsTypeOK, OneVerdict, ShowsOnlyDecided, WorkInOrder, HeldAlone, SentOnce,
           PressInOrder, Holds, News, Moderators, InHand, Lists, RoundRest, Hands
<1>8. PressInOrder'
  BY <1>1, NewsAssumption
       DEF NewsInv, NewsTypeOK, OneVerdict, ShowsOnlyDecided, WorkInOrder, HeldAlone, SentOnce,
           PressInOrder, Holds, News, Moderators, InHand, Lists, RoundRest, Hands
<1> QED
  BY <1>2, <1>3, <1>4, <1>5, <1>6, <1>7, <1>8 DEF NewsInv

\* The next list is read.
LEMMA NextListKeeps ==
  ASSUME NewsInv, NEW r \in NewsRounds, NextList(r)
  PROVE  NewsInv'
<1>1. /\ \E l \in Lists, t \in SUBSET News, p \in {"idle", "next"} :
           /\ l = "decided" => \A i \in t : i \in Reports /\ i \in noted /\ standing[i] = "over"
           /\ round' = [round EXCEPT ![r] = [pc |-> p, list |-> l, todo |-> t]]
      /\ UNCHANGED <<standing, verdicts, claims, noted, shown, posts, face, press, mislaid, newsFaults>>
  <2>1. /\ Listed("reports") \in SUBSET News /\ Listed("decided") \in SUBSET News
        /\ \A i \in Listed("decided") : i \in Reports /\ i \in noted /\ standing[i] = "over"
    BY DEF Listed, Oldest, News
  <2>2. UNCHANGED <<standing, verdicts, claims, noted, shown, posts, face, press, mislaid, newsFaults>>
    BY DEF NextList
  <2>3. CASE round[r].list = "decided"
    <3>1. round' = [round EXCEPT ![r] = [pc |-> "idle", list |-> "episodes", todo |-> {}]]
      BY <2>3 DEF NextList, RoundRest
    <3> QED
      BY <2>2, <3>1 DEF Lists
  <2>4. CASE round[r].list = "episodes"
    <3>1. round' = [round EXCEPT ![r] = [pc |-> "next", list |-> "reports", todo |-> Listed("reports")]]
      BY <2>4 DEF NextList
    <3> QED
      BY <2>1, <2>2, <3>1 DEF Lists
  <2>5. CASE round[r].list = "reports"
    <3>1. round' = [round EXCEPT ![r] = [pc |-> "next", list |-> "decided", todo |-> Listed("decided")]]
      BY <2>5 DEF NextList
    <3> QED
      BY <2>1, <2>2, <3>1 DEF Lists
  <2> QED
    BY <2>3, <2>4, <2>5 DEF NewsInv, NewsTypeOK, Lists
<1>2. NewsTypeOK'
  BY <1>1, NewsAssumption
       DEF NewsInv, NewsTypeOK, OneVerdict, ShowsOnlyDecided, WorkInOrder, HeldAlone, SentOnce,
           PressInOrder, Holds, News, Moderators, InHand, Lists, RoundRest, Hands
<1>3. OneVerdict'
  BY <1>1, NewsAssumption
       DEF NewsInv, NewsTypeOK, OneVerdict, ShowsOnlyDecided, WorkInOrder, HeldAlone, SentOnce,
           PressInOrder, Holds, News, Moderators, InHand, Lists, RoundRest, Hands
<1>4. ShowsOnlyDecided'
  BY <1>1, NewsAssumption
       DEF NewsInv, NewsTypeOK, OneVerdict, ShowsOnlyDecided, WorkInOrder, HeldAlone, SentOnce,
           PressInOrder, Holds, News, Moderators, InHand, Lists, RoundRest, Hands
<1>5. WorkInOrder'
  BY <1>1, NewsAssumption
       DEF NewsInv, NewsTypeOK, OneVerdict, ShowsOnlyDecided, WorkInOrder, HeldAlone, SentOnce,
           PressInOrder, Holds, News, Moderators, InHand, Lists, RoundRest, Hands
<1>6. HeldAlone'
  BY <1>1, NewsAssumption
       DEF NewsInv, NewsTypeOK, OneVerdict, ShowsOnlyDecided, WorkInOrder, HeldAlone, SentOnce,
           PressInOrder, Holds, News, Moderators, InHand, Lists, RoundRest, Hands
<1>7. SentOnce'
  BY <1>1, NewsAssumption
       DEF NewsInv, NewsTypeOK, OneVerdict, ShowsOnlyDecided, WorkInOrder, HeldAlone, SentOnce,
           PressInOrder, Holds, News, Moderators, InHand, Lists, RoundRest, Hands
<1>8. PressInOrder'
  BY <1>1, NewsAssumption
       DEF NewsInv, NewsTypeOK, OneVerdict, ShowsOnlyDecided, WorkInOrder, HeldAlone, SentOnce,
           PressInOrder, Holds, News, Moderators, InHand, Lists, RoundRest, Hands
<1> QED
  BY <1>2, <1>3, <1>4, <1>5, <1>6, <1>7, <1>8 DEF NewsInv

\* A claim: the row decides which round sends.
LEMMA ClaimsKeeps ==
  ASSUME NewsInv, NEW r \in NewsRounds, Claims(r)
  PROVE  NewsInv'
<1>1. /\ round[r].pc = "next" /\ round[r].list # "decided" /\ round[r].todo # {}
      /\ InHand(r) \in round[r].todo /\ InHand(r) \in News
      /\ \/ claims' = claims /\ round' = [round EXCEPT ![r].pc = "next", ![r].todo = @ \ {InHand(r)}]
         \/ /\ InHand(r) \notin claims /\ claims' = claims \cup {InHand(r)}
            /\ \/ round' = [round EXCEPT ![r].pc = "send"]
               \/ round' = [round EXCEPT ![r].pc = "next", ![r].todo = @ \ {InHand(r)}]
      /\ UNCHANGED <<standing, verdicts, noted, shown, posts, face, press, mislaid, newsFaults>>
  <2>1. round[r].todo # {}
    BY DEF Claims, NewsInv, WorkInOrder
  <2> QED
    BY <2>1, InHandIsNews DEF Claims, NextItem, Goes, NewsFault
<1>2. NewsTypeOK'
  BY <1>1, NewsAssumption
       DEF NewsInv, NewsTypeOK, OneVerdict, ShowsOnlyDecided, WorkInOrder, HeldAlone, SentOnce,
           PressInOrder, Holds, News, Moderators, InHand, Lists, RoundRest, Hands
<1>3. OneVerdict'
  BY <1>1, NewsAssumption
       DEF NewsInv, NewsTypeOK, OneVerdict, ShowsOnlyDecided, WorkInOrder, HeldAlone, SentOnce,
           PressInOrder, Holds, News, Moderators, InHand, Lists, RoundRest, Hands
<1>4. ShowsOnlyDecided'
  BY <1>1, NewsAssumption
       DEF NewsInv, NewsTypeOK, OneVerdict, ShowsOnlyDecided, WorkInOrder, HeldAlone, SentOnce,
           PressInOrder, Holds, News, Moderators, InHand, Lists, RoundRest, Hands
<1>5. WorkInOrder'
  BY <1>1, NewsAssumption
       DEF NewsInv, NewsTypeOK, OneVerdict, ShowsOnlyDecided, WorkInOrder, HeldAlone, SentOnce,
           PressInOrder, Holds, News, Moderators, InHand, Lists, RoundRest, Hands
<1>6. HeldAlone'
  BY <1>1, NewsAssumption
       DEF NewsInv, NewsTypeOK, OneVerdict, ShowsOnlyDecided, WorkInOrder, HeldAlone, SentOnce,
           PressInOrder, Holds, News, Moderators, InHand, Lists, RoundRest, Hands
<1>7. SentOnce'
  BY <1>1, NewsAssumption
       DEF NewsInv, NewsTypeOK, OneVerdict, ShowsOnlyDecided, WorkInOrder, HeldAlone, SentOnce,
           PressInOrder, Holds, News, Moderators, InHand, Lists, RoundRest, Hands
<1>8. PressInOrder'
  BY <1>1, NewsAssumption
       DEF NewsInv, NewsTypeOK, OneVerdict, ShowsOnlyDecided, WorkInOrder, HeldAlone, SentOnce,
           PressInOrder, Holds, News, Moderators, InHand, Lists, RoundRest, Hands
<1> QED
  BY <1>2, <1>3, <1>4, <1>5, <1>6, <1>7, <1>8 DEF NewsInv

\* client.send: at most one message.
LEMMA PostsKeeps ==
  ASSUME NewsInv, NEW r \in NewsRounds, Posts(r)
  PROVE  NewsInv'
<1>1. /\ round[r].pc = "send" /\ InHand(r) \in round[r].todo /\ InHand(r) \in News
      /\ \/ /\ posts' = [posts EXCEPT ![InHand(r)] = @ + 1]
            /\ face' = [face EXCEPT ![InHand(r)] = "open"]
            /\ \/ round' = [round EXCEPT ![r].pc = "note"] /\ UNCHANGED <<mislaid, newsFaults>>
               \/ /\ round' = [round EXCEPT ![r].pc = "next", ![r].todo = @ \ {InHand(r)}]
                  /\ mislaid' = mislaid \cup {InHand(r)}
                  /\ newsFaults < MaxNewsFaults /\ newsFaults' = newsFaults + 1
         \/ round' = [round EXCEPT ![r].pc = "next", ![r].todo = @ \ {InHand(r)}] /\ UNCHANGED <<posts, face, mislaid, newsFaults>>
      /\ UNCHANGED <<standing, verdicts, claims, noted, shown, press>>
  <2>1. round[r].todo # {}
    BY DEF Posts, NewsInv, WorkInOrder
  <2> QED
    BY <2>1, InHandIsNews DEF Posts, NextItem, Goes, NewsFault
<1>2. NewsTypeOK'
  <2>1. posts' \in [News -> 0 .. 1]
    <3>1. posts[InHand(r)] = 0
      BY <1>1 DEF NewsInv, HeldAlone, Holds
    <3> QED
      BY <1>1, <3>1 DEF NewsInv, NewsTypeOK
  <2>2. face' \in [News -> {"none", "open", "over"}]
    BY <1>1 DEF NewsInv, NewsTypeOK
  <2>3. round' \in [NewsRounds -> [pc : {"idle", "next", "send", "note", "edited"},
                                   list : Lists, todo : SUBSET News]]
    BY <1>1 DEF NewsInv, NewsTypeOK
  <2>4. mislaid' \subseteq News /\ newsFaults' \in 0 .. MaxNewsFaults
    BY <1>1, NewsAssumption DEF NewsInv, NewsTypeOK
  <2> QED
    BY <1>1, <2>1, <2>2, <2>3, <2>4 DEF NewsInv, NewsTypeOK
<1>3. OneVerdict'
  BY <1>1, NewsAssumption
       DEF NewsInv, NewsTypeOK, OneVerdict, ShowsOnlyDecided, WorkInOrder, HeldAlone, SentOnce,
           PressInOrder, Holds, News, Moderators, InHand, Lists, RoundRest, Hands
<1>4. ShowsOnlyDecided'
  BY <1>1, NewsAssumption
       DEF NewsInv, NewsTypeOK, OneVerdict, ShowsOnlyDecided, WorkInOrder, HeldAlone, SentOnce,
           PressInOrder, Holds, News, Moderators, InHand, Lists, RoundRest, Hands
<1>5. WorkInOrder'
  BY <1>1, NewsAssumption
       DEF NewsInv, NewsTypeOK, OneVerdict, ShowsOnlyDecided, WorkInOrder, HeldAlone, SentOnce,
           PressInOrder, Holds, News, Moderators, InHand, Lists, RoundRest, Hands
<1>6. HeldAlone'
  <2>1. /\ \A q \in NewsRounds : q # r => round'[q] = round[q]
        /\ Holds(r)' => round'[r].todo = round[r].todo /\ round'[r].pc = "note"
                       /\ posts'[InHand(r)] = posts[InHand(r)] + 1
        /\ \A i \in News : i # InHand(r) => posts'[i] = posts[i]
    BY <1>1 DEF NewsInv, NewsTypeOK, Holds
  <2>2. ASSUME NEW q \in NewsRounds, Holds(q)'
        PROVE  Holds(q) /\ InHand(q)' = InHand(q)
    BY <1>1, <2>1, <2>2 DEF Holds, InHand
  <2>3. ASSUME NEW q \in NewsRounds, Holds(q)'
        PROVE  /\ InHand(q)' \in claims'
               /\ posts'[InHand(q)'] = IF round'[q].pc = "send" THEN 0 ELSE 1
    <3>1. /\ Holds(q) /\ InHand(q)' = InHand(q) /\ InHand(q) \in claims
          /\ posts[InHand(q)] = IF round[q].pc = "send" THEN 0 ELSE 1
      BY <2>2, <2>3 DEF NewsInv, HeldAlone
    <3>2. CASE q = r
      BY <1>1, <2>1, <2>3, <3>1, <3>2
    <3>3. CASE q # r
      <4>1. InHand(q) # InHand(r) /\ InHand(q) \in News
        BY <1>1, <3>1, <3>3 DEF NewsInv, HeldAlone, Holds, NewsTypeOK
      <4> QED
        BY <1>1, <2>1, <3>1, <3>3, <4>1
    <3> QED
      BY <3>2, <3>3
  <2>4. ASSUME NEW p \in NewsRounds, NEW q \in NewsRounds, Holds(p)', Holds(q)',
               InHand(p)' = InHand(q)'
        PROVE  p = q
    BY <2>2, <2>4 DEF NewsInv, HeldAlone
  <2> QED
    BY <2>3, <2>4 DEF HeldAlone
<1>7. SentOnce'
  BY <1>1, NewsAssumption
       DEF NewsInv, NewsTypeOK, OneVerdict, ShowsOnlyDecided, WorkInOrder, HeldAlone, SentOnce,
           PressInOrder, Holds, News, Moderators, InHand, Lists, RoundRest, Hands
<1>8. PressInOrder'
  BY <1>1, NewsAssumption
       DEF NewsInv, NewsTypeOK, OneVerdict, ShowsOnlyDecided, WorkInOrder, HeldAlone, SentOnce,
           PressInOrder, Holds, News, Moderators, InHand, Lists, RoundRest, Hands
<1> QED
  BY <1>2, <1>3, <1>4, <1>5, <1>6, <1>7, <1>8 DEF NewsInv

\* The message is recorded, or an error.
LEMMA NotesKeeps ==
  ASSUME NewsInv, NEW r \in NewsRounds, Notes(r)
  PROVE  NewsInv'
<1>1. /\ round[r].pc = "note" /\ InHand(r) \in round[r].todo /\ InHand(r) \in News
      /\ round' = [round EXCEPT ![r].pc = "next", ![r].todo = @ \ {InHand(r)}]
      /\ \/ noted' = noted \cup {InHand(r)} /\ UNCHANGED <<mislaid, newsFaults>>
         \/ /\ newsFaults < MaxNewsFaults /\ newsFaults' = newsFaults + 1 /\ noted' = noted
            /\ mislaid' = mislaid \cup {InHand(r)}
      /\ UNCHANGED <<standing, verdicts, claims, shown, posts, face, press>>
  <2>1. round[r].todo # {}
    BY DEF Notes, NewsInv, WorkInOrder
  <2> QED
    BY <2>1, InHandIsNews DEF Notes, NextItem, Goes, NewsFault
<1>2. NewsTypeOK'
  BY <1>1, NewsAssumption
       DEF NewsInv, NewsTypeOK, OneVerdict, ShowsOnlyDecided, WorkInOrder, HeldAlone, SentOnce,
           PressInOrder, Holds, News, Moderators, InHand, Lists, RoundRest, Hands
<1>3. OneVerdict'
  BY <1>1, NewsAssumption
       DEF NewsInv, NewsTypeOK, OneVerdict, ShowsOnlyDecided, WorkInOrder, HeldAlone, SentOnce,
           PressInOrder, Holds, News, Moderators, InHand, Lists, RoundRest, Hands
<1>4. ShowsOnlyDecided'
  BY <1>1, NewsAssumption
       DEF NewsInv, NewsTypeOK, OneVerdict, ShowsOnlyDecided, WorkInOrder, HeldAlone, SentOnce,
           PressInOrder, Holds, News, Moderators, InHand, Lists, RoundRest, Hands
<1>5. WorkInOrder'
  BY <1>1, NewsAssumption
       DEF NewsInv, NewsTypeOK, OneVerdict, ShowsOnlyDecided, WorkInOrder, HeldAlone, SentOnce,
           PressInOrder, Holds, News, Moderators, InHand, Lists, RoundRest, Hands
<1>6. HeldAlone'
  BY <1>1, NewsAssumption
       DEF NewsInv, NewsTypeOK, OneVerdict, ShowsOnlyDecided, WorkInOrder, HeldAlone, SentOnce,
           PressInOrder, Holds, News, Moderators, InHand, Lists, RoundRest, Hands
<1>7. SentOnce'
  BY <1>1, NewsAssumption
       DEF NewsInv, NewsTypeOK, OneVerdict, ShowsOnlyDecided, WorkInOrder, HeldAlone, SentOnce,
           PressInOrder, Holds, News, Moderators, InHand, Lists, RoundRest, Hands
<1>8. PressInOrder'
  BY <1>1, NewsAssumption
       DEF NewsInv, NewsTypeOK, OneVerdict, ShowsOnlyDecided, WorkInOrder, HeldAlone, SentOnce,
           PressInOrder, Holds, News, Moderators, InHand, Lists, RoundRest, Hands
<1> QED
  BY <1>2, <1>3, <1>4, <1>5, <1>6, <1>7, <1>8 DEF NewsInv

\* A message loses its buttons.
LEMMA EditsKeeps ==
  ASSUME NewsInv, NEW r \in NewsRounds, Edits(r)
  PROVE  NewsInv'
<1>1. /\ round[r].pc = "next" /\ round[r].list = "decided" /\ round[r].todo # {}
      /\ InHand(r) \in round[r].todo /\ InHand(r) \in News
      /\ round' = [round EXCEPT ![r].pc = "edited"]
      /\ \/ face' = [face EXCEPT ![InHand(r)] = "over"] /\ UNCHANGED <<mislaid, newsFaults>>
         \/ /\ newsFaults < MaxNewsFaults /\ newsFaults' = newsFaults + 1 /\ face' = face
            /\ mislaid' = mislaid \cup {InHand(r)}
      /\ UNCHANGED <<standing, verdicts, claims, noted, shown, posts, press>>
  <2>1. round[r].todo # {}
    BY DEF Edits, NewsInv, WorkInOrder
  <2> QED
    BY <2>1, InHandIsNews DEF Edits, NextItem, Goes, NewsFault
<1>2. NewsTypeOK'
  BY <1>1, NewsAssumption
       DEF NewsInv, NewsTypeOK, OneVerdict, ShowsOnlyDecided, WorkInOrder, HeldAlone, SentOnce,
           PressInOrder, Holds, News, Moderators, InHand, Lists, RoundRest, Hands
<1>3. OneVerdict'
  BY <1>1, NewsAssumption
       DEF NewsInv, NewsTypeOK, OneVerdict, ShowsOnlyDecided, WorkInOrder, HeldAlone, SentOnce,
           PressInOrder, Holds, News, Moderators, InHand, Lists, RoundRest, Hands
<1>4. ShowsOnlyDecided'
  BY <1>1, NewsAssumption
       DEF NewsInv, NewsTypeOK, OneVerdict, ShowsOnlyDecided, WorkInOrder, HeldAlone, SentOnce,
           PressInOrder, Holds, News, Moderators, InHand, Lists, RoundRest, Hands
<1>5. WorkInOrder'
  BY <1>1, NewsAssumption
       DEF NewsInv, NewsTypeOK, OneVerdict, ShowsOnlyDecided, WorkInOrder, HeldAlone, SentOnce,
           PressInOrder, Holds, News, Moderators, InHand, Lists, RoundRest, Hands
<1>6. HeldAlone'
  BY <1>1, NewsAssumption
       DEF NewsInv, NewsTypeOK, OneVerdict, ShowsOnlyDecided, WorkInOrder, HeldAlone, SentOnce,
           PressInOrder, Holds, News, Moderators, InHand, Lists, RoundRest, Hands
<1>7. SentOnce'
  BY <1>1, NewsAssumption
       DEF NewsInv, NewsTypeOK, OneVerdict, ShowsOnlyDecided, WorkInOrder, HeldAlone, SentOnce,
           PressInOrder, Holds, News, Moderators, InHand, Lists, RoundRest, Hands
<1>8. PressInOrder'
  BY <1>1, NewsAssumption
       DEF NewsInv, NewsTypeOK, OneVerdict, ShowsOnlyDecided, WorkInOrder, HeldAlone, SentOnce,
           PressInOrder, Holds, News, Moderators, InHand, Lists, RoundRest, Hands
<1> QED
  BY <1>2, <1>3, <1>4, <1>5, <1>6, <1>7, <1>8 DEF NewsInv

\* shown_status.
LEMMA MarksKeeps ==
  ASSUME NewsInv, NEW r \in NewsRounds, Marks(r)
  PROVE  NewsInv'
<1>1. /\ round[r].pc = "edited" /\ InHand(r) \in round[r].todo /\ InHand(r) \in News
      /\ shown' = shown \cup {InHand(r)} /\ round' = [round EXCEPT ![r].pc = "next", ![r].todo = @ \ {InHand(r)}]
      /\ UNCHANGED <<standing, verdicts, claims, noted, posts, face, press, mislaid, newsFaults>>
  <2>1. round[r].todo # {}
    BY DEF Marks, NewsInv, WorkInOrder
  <2> QED
    BY <2>1, InHandIsNews DEF Marks, NextItem, Goes, NewsFault
<1>2. NewsTypeOK'
  BY <1>1, NewsAssumption
       DEF NewsInv, NewsTypeOK, OneVerdict, ShowsOnlyDecided, WorkInOrder, HeldAlone, SentOnce,
           PressInOrder, Holds, News, Moderators, InHand, Lists, RoundRest, Hands
<1>3. OneVerdict'
  BY <1>1, NewsAssumption
       DEF NewsInv, NewsTypeOK, OneVerdict, ShowsOnlyDecided, WorkInOrder, HeldAlone, SentOnce,
           PressInOrder, Holds, News, Moderators, InHand, Lists, RoundRest, Hands
<1>4. ShowsOnlyDecided'
  BY <1>1, NewsAssumption
       DEF NewsInv, NewsTypeOK, OneVerdict, ShowsOnlyDecided, WorkInOrder, HeldAlone, SentOnce,
           PressInOrder, Holds, News, Moderators, InHand, Lists, RoundRest, Hands
<1>5. WorkInOrder'
  BY <1>1, NewsAssumption
       DEF NewsInv, NewsTypeOK, OneVerdict, ShowsOnlyDecided, WorkInOrder, HeldAlone, SentOnce,
           PressInOrder, Holds, News, Moderators, InHand, Lists, RoundRest, Hands
<1>6. HeldAlone'
  BY <1>1, NewsAssumption
       DEF NewsInv, NewsTypeOK, OneVerdict, ShowsOnlyDecided, WorkInOrder, HeldAlone, SentOnce,
           PressInOrder, Holds, News, Moderators, InHand, Lists, RoundRest, Hands
<1>7. SentOnce'
  BY <1>1, NewsAssumption
       DEF NewsInv, NewsTypeOK, OneVerdict, ShowsOnlyDecided, WorkInOrder, HeldAlone, SentOnce,
           PressInOrder, Holds, News, Moderators, InHand, Lists, RoundRest, Hands
<1>8. PressInOrder'
  BY <1>1, NewsAssumption
       DEF NewsInv, NewsTypeOK, OneVerdict, ShowsOnlyDecided, WorkInOrder, HeldAlone, SentOnce,
           PressInOrder, Holds, News, Moderators, InHand, Lists, RoundRest, Hands
<1> QED
  BY <1>2, <1>3, <1>4, <1>5, <1>6, <1>7, <1>8 DEF NewsInv

\* A round breaks off.
LEMMA RoundBreaksKeeps ==
  ASSUME NewsInv, NEW r \in NewsRounds, RoundBreaks(r)
  PROVE  NewsInv'
<1>1. /\ newsFaults < MaxNewsFaults /\ newsFaults' = newsFaults + 1
      /\ round' = [round EXCEPT ![r] = RoundRest] /\ mislaid' \in SUBSET News
      /\ UNCHANGED <<standing, verdicts, claims, noted, shown, posts, face, press>>
  <2>1. mislaid \in SUBSET News
    BY DEF NewsInv, NewsTypeOK
  <2>2. round[r].pc = "note" => InHand(r) \in News
    BY InHandIsNews DEF NewsInv, WorkInOrder
  <2> QED
    BY <2>1, <2>2 DEF RoundBreaks, NewsFault
<1>2. NewsTypeOK'
  BY <1>1, NewsAssumption
       DEF NewsInv, NewsTypeOK, OneVerdict, ShowsOnlyDecided, WorkInOrder, HeldAlone, SentOnce,
           PressInOrder, Holds, News, Moderators, InHand, Lists, RoundRest, Hands
<1>3. OneVerdict'
  BY <1>1, NewsAssumption
       DEF NewsInv, NewsTypeOK, OneVerdict, ShowsOnlyDecided, WorkInOrder, HeldAlone, SentOnce,
           PressInOrder, Holds, News, Moderators, InHand, Lists, RoundRest, Hands
<1>4. ShowsOnlyDecided'
  BY <1>1, NewsAssumption
       DEF NewsInv, NewsTypeOK, OneVerdict, ShowsOnlyDecided, WorkInOrder, HeldAlone, SentOnce,
           PressInOrder, Holds, News, Moderators, InHand, Lists, RoundRest, Hands
<1>5. WorkInOrder'
  BY <1>1, NewsAssumption
       DEF NewsInv, NewsTypeOK, OneVerdict, ShowsOnlyDecided, WorkInOrder, HeldAlone, SentOnce,
           PressInOrder, Holds, News, Moderators, InHand, Lists, RoundRest, Hands
<1>6. HeldAlone'
  BY <1>1, NewsAssumption
       DEF NewsInv, NewsTypeOK, OneVerdict, ShowsOnlyDecided, WorkInOrder, HeldAlone, SentOnce,
           PressInOrder, Holds, News, Moderators, InHand, Lists, RoundRest, Hands
<1>7. SentOnce'
  BY <1>1, NewsAssumption
       DEF NewsInv, NewsTypeOK, OneVerdict, ShowsOnlyDecided, WorkInOrder, HeldAlone, SentOnce,
           PressInOrder, Holds, News, Moderators, InHand, Lists, RoundRest, Hands
<1>8. PressInOrder'
  BY <1>1, NewsAssumption
       DEF NewsInv, NewsTypeOK, OneVerdict, ShowsOnlyDecided, WorkInOrder, HeldAlone, SentOnce,
           PressInOrder, Holds, News, Moderators, InHand, Lists, RoundRest, Hands
<1> QED
  BY <1>2, <1>3, <1>4, <1>5, <1>6, <1>7, <1>8 DEF NewsInv

\* resolveReport reads the report.
LEMMA LooksKeeps ==
  ASSUME NewsInv, NEW m \in Moderators, NEW i \in Reports, Looks(m, i)
  PROVE  NewsInv'
<1>1. /\ m \in OnDiscord => face[i] = "open"
      /\ \/ /\ standing[i] = "current"
            /\ press' = [press EXCEPT ![m] = [pc |-> "deciding", on |-> i]]
         \/ /\ standing[i] = "over" /\ m \in OnDiscord
            /\ press' = [press EXCEPT ![m] = [pc |-> "marking", on |-> i]]
      /\ UNCHANGED <<standing, verdicts, claims, noted, shown, posts, face, round, mislaid, newsFaults>>
  BY DEF Looks
<1>2. NewsTypeOK'
  BY <1>1, NewsAssumption
       DEF NewsInv, NewsTypeOK, OneVerdict, ShowsOnlyDecided, WorkInOrder, HeldAlone, SentOnce,
           PressInOrder, Holds, News, Moderators, InHand, Lists, RoundRest, Hands
<1>3. OneVerdict'
  BY <1>1, NewsAssumption
       DEF NewsInv, NewsTypeOK, OneVerdict, ShowsOnlyDecided, WorkInOrder, HeldAlone, SentOnce,
           PressInOrder, Holds, News, Moderators, InHand, Lists, RoundRest, Hands
<1>4. ShowsOnlyDecided'
  BY <1>1, NewsAssumption
       DEF NewsInv, NewsTypeOK, OneVerdict, ShowsOnlyDecided, WorkInOrder, HeldAlone, SentOnce,
           PressInOrder, Holds, News, Moderators, InHand, Lists, RoundRest, Hands
<1>5. WorkInOrder'
  BY <1>1, NewsAssumption
       DEF NewsInv, NewsTypeOK, OneVerdict, ShowsOnlyDecided, WorkInOrder, HeldAlone, SentOnce,
           PressInOrder, Holds, News, Moderators, InHand, Lists, RoundRest, Hands
<1>6. HeldAlone'
  BY <1>1, NewsAssumption
       DEF NewsInv, NewsTypeOK, OneVerdict, ShowsOnlyDecided, WorkInOrder, HeldAlone, SentOnce,
           PressInOrder, Holds, News, Moderators, InHand, Lists, RoundRest, Hands
<1>7. SentOnce'
  BY <1>1, NewsAssumption
       DEF NewsInv, NewsTypeOK, OneVerdict, ShowsOnlyDecided, WorkInOrder, HeldAlone, SentOnce,
           PressInOrder, Holds, News, Moderators, InHand, Lists, RoundRest, Hands
<1>8. PressInOrder'
  BY <1>1, NewsAssumption
       DEF NewsInv, NewsTypeOK, OneVerdict, ShowsOnlyDecided, WorkInOrder, HeldAlone, SentOnce,
           PressInOrder, Holds, News, Moderators, InHand, Lists, RoundRest, Hands
<1> QED
  BY <1>2, <1>3, <1>4, <1>5, <1>6, <1>7, <1>8 DEF NewsInv

\* The transaction of a decision.
LEMMA DecidesKeeps ==
  ASSUME NewsInv, NEW m \in Moderators, Decides(m)
  PROVE  NewsInv'
<1>1. /\ press[m].pc = "deciding" /\ press[m].on \in Reports
      /\ \/ /\ standing[press[m].on] = "current"
            /\ standing' = [standing EXCEPT ![press[m].on] = "over"]
            /\ verdicts' = [verdicts EXCEPT ![press[m].on] = @ + 1]
         \/ standing[press[m].on] = "over" /\ UNCHANGED <<standing, verdicts>>
      /\ \/ m \in OnSite /\ press' = [press EXCEPT ![m] = Hands]
         \/ m \in OnDiscord /\ press' = [press EXCEPT ![m] = [@ EXCEPT !.pc = "marking"]]
      /\ UNCHANGED <<claims, noted, shown, posts, face, round, mislaid, newsFaults>>
  BY DEF Decides, Decided, NewsInv, PressInOrder, NewsTypeOK, Moderators, News
<1>2. NewsTypeOK'
  BY <1>1, NewsAssumption
       DEF NewsInv, NewsTypeOK, OneVerdict, ShowsOnlyDecided, WorkInOrder, HeldAlone, SentOnce,
           PressInOrder, Holds, News, Moderators, InHand, Lists, RoundRest, Hands
<1>3. OneVerdict'
  BY <1>1, NewsAssumption
       DEF NewsInv, NewsTypeOK, OneVerdict, ShowsOnlyDecided, WorkInOrder, HeldAlone, SentOnce,
           PressInOrder, Holds, News, Moderators, InHand, Lists, RoundRest, Hands
<1>4. ShowsOnlyDecided'
  BY <1>1, NewsAssumption
       DEF NewsInv, NewsTypeOK, OneVerdict, ShowsOnlyDecided, WorkInOrder, HeldAlone, SentOnce,
           PressInOrder, Holds, News, Moderators, InHand, Lists, RoundRest, Hands
<1>5. WorkInOrder'
  BY <1>1, NewsAssumption
       DEF NewsInv, NewsTypeOK, OneVerdict, ShowsOnlyDecided, WorkInOrder, HeldAlone, SentOnce,
           PressInOrder, Holds, News, Moderators, InHand, Lists, RoundRest, Hands
<1>6. HeldAlone'
  BY <1>1, NewsAssumption
       DEF NewsInv, NewsTypeOK, OneVerdict, ShowsOnlyDecided, WorkInOrder, HeldAlone, SentOnce,
           PressInOrder, Holds, News, Moderators, InHand, Lists, RoundRest, Hands
<1>7. SentOnce'
  BY <1>1, NewsAssumption
       DEF NewsInv, NewsTypeOK, OneVerdict, ShowsOnlyDecided, WorkInOrder, HeldAlone, SentOnce,
           PressInOrder, Holds, News, Moderators, InHand, Lists, RoundRest, Hands
<1>8. PressInOrder'
  BY <1>1, NewsAssumption
       DEF NewsInv, NewsTypeOK, OneVerdict, ShowsOnlyDecided, WorkInOrder, HeldAlone, SentOnce,
           PressInOrder, Holds, News, Moderators, InHand, Lists, RoundRest, Hands
<1> QED
  BY <1>2, <1>3, <1>4, <1>5, <1>6, <1>7, <1>8 DEF NewsInv

\* decidedMessage: the row first.
LEMMA MarksDecidedKeeps ==
  ASSUME NewsInv, NEW m \in Moderators, MarksDecided(m)
  PROVE  NewsInv'
<1>1. /\ press[m].pc = "marking" /\ shown' = shown \cup {press[m].on}
      /\ press' = [press EXCEPT ![m].pc = "answering"]
      /\ UNCHANGED <<standing, verdicts, claims, noted, posts, face, round, mislaid, newsFaults>>
  BY DEF MarksDecided
<1>2. NewsTypeOK'
  BY <1>1, NewsAssumption
       DEF NewsInv, NewsTypeOK, OneVerdict, ShowsOnlyDecided, WorkInOrder, HeldAlone, SentOnce,
           PressInOrder, Holds, News, Moderators, InHand, Lists, RoundRest, Hands
<1>3. OneVerdict'
  BY <1>1, NewsAssumption
       DEF NewsInv, NewsTypeOK, OneVerdict, ShowsOnlyDecided, WorkInOrder, HeldAlone, SentOnce,
           PressInOrder, Holds, News, Moderators, InHand, Lists, RoundRest, Hands
<1>4. ShowsOnlyDecided'
  BY <1>1, NewsAssumption
       DEF NewsInv, NewsTypeOK, OneVerdict, ShowsOnlyDecided, WorkInOrder, HeldAlone, SentOnce,
           PressInOrder, Holds, News, Moderators, InHand, Lists, RoundRest, Hands
<1>5. WorkInOrder'
  BY <1>1, NewsAssumption
       DEF NewsInv, NewsTypeOK, OneVerdict, ShowsOnlyDecided, WorkInOrder, HeldAlone, SentOnce,
           PressInOrder, Holds, News, Moderators, InHand, Lists, RoundRest, Hands
<1>6. HeldAlone'
  BY <1>1, NewsAssumption
       DEF NewsInv, NewsTypeOK, OneVerdict, ShowsOnlyDecided, WorkInOrder, HeldAlone, SentOnce,
           PressInOrder, Holds, News, Moderators, InHand, Lists, RoundRest, Hands
<1>7. SentOnce'
  BY <1>1, NewsAssumption
       DEF NewsInv, NewsTypeOK, OneVerdict, ShowsOnlyDecided, WorkInOrder, HeldAlone, SentOnce,
           PressInOrder, Holds, News, Moderators, InHand, Lists, RoundRest, Hands
<1>8. PressInOrder'
  BY <1>1, NewsAssumption
       DEF NewsInv, NewsTypeOK, OneVerdict, ShowsOnlyDecided, WorkInOrder, HeldAlone, SentOnce,
           PressInOrder, Holds, News, Moderators, InHand, Lists, RoundRest, Hands
<1> QED
  BY <1>2, <1>3, <1>4, <1>5, <1>6, <1>7, <1>8 DEF NewsInv

\* The answer edits the message.
LEMMA AnswersButtonKeeps ==
  ASSUME NewsInv, NEW m \in Moderators, AnswersButton(m)
  PROVE  NewsInv'
<1>1. /\ press[m].pc = "answering" /\ press' = [press EXCEPT ![m] = Hands]
      /\ press[m].on \in Reports /\ press[m].on \in News
      /\ \/ face' = [face EXCEPT ![press[m].on] = "over"] /\ UNCHANGED <<mislaid, newsFaults>>
         \/ /\ newsFaults < MaxNewsFaults /\ newsFaults' = newsFaults + 1 /\ face' = face
            /\ mislaid' = mislaid \cup {press[m].on}
      /\ UNCHANGED <<standing, verdicts, claims, noted, shown, posts, round>>
  BY DEF AnswersButton, NewsFault, NewsInv, PressInOrder, News
<1>2. NewsTypeOK'
  <2> DEFINE Ps == [pc : {"free", "deciding", "marking", "answering"}, on : Reports \cup {0}]
  <2>1. Hands \in Ps
    BY DEF Hands
  <2>2. press' \in [Moderators -> Ps]
    BY <1>1, <2>1 DEF NewsInv, NewsTypeOK
  <2>3. face' \in [News -> {"none", "open", "over"}]
    BY <1>1 DEF NewsInv, NewsTypeOK
  <2>4. mislaid' \subseteq News /\ newsFaults' \in 0 .. MaxNewsFaults
    BY <1>1, NewsAssumption DEF NewsInv, NewsTypeOK
  <2> QED
    BY <1>1, <2>2, <2>3, <2>4 DEF NewsInv, NewsTypeOK
<1>3. OneVerdict'
  BY <1>1, NewsAssumption
       DEF NewsInv, NewsTypeOK, OneVerdict, ShowsOnlyDecided, WorkInOrder, HeldAlone, SentOnce,
           PressInOrder, Holds, News, Moderators, InHand, Lists, RoundRest, Hands
<1>4. ShowsOnlyDecided'
  BY <1>1, NewsAssumption
       DEF NewsInv, NewsTypeOK, OneVerdict, ShowsOnlyDecided, WorkInOrder, HeldAlone, SentOnce,
           PressInOrder, Holds, News, Moderators, InHand, Lists, RoundRest, Hands
<1>5. WorkInOrder'
  BY <1>1, NewsAssumption
       DEF NewsInv, NewsTypeOK, OneVerdict, ShowsOnlyDecided, WorkInOrder, HeldAlone, SentOnce,
           PressInOrder, Holds, News, Moderators, InHand, Lists, RoundRest, Hands
<1>6. HeldAlone'
  BY <1>1, NewsAssumption
       DEF NewsInv, NewsTypeOK, OneVerdict, ShowsOnlyDecided, WorkInOrder, HeldAlone, SentOnce,
           PressInOrder, Holds, News, Moderators, InHand, Lists, RoundRest, Hands
<1>7. SentOnce'
  BY <1>1, NewsAssumption
       DEF NewsInv, NewsTypeOK, OneVerdict, ShowsOnlyDecided, WorkInOrder, HeldAlone, SentOnce,
           PressInOrder, Holds, News, Moderators, InHand, Lists, RoundRest, Hands
<1>8. PressInOrder'
  BY <1>1, NewsAssumption
       DEF NewsInv, NewsTypeOK, OneVerdict, ShowsOnlyDecided, WorkInOrder, HeldAlone, SentOnce,
           PressInOrder, Holds, News, Moderators, InHand, Lists, RoundRest, Hands
<1> QED
  BY <1>2, <1>3, <1>4, <1>5, <1>6, <1>7, <1>8 DEF NewsInv

LEMMA NewsStarts ==
  ASSUME NewsInit
  PROVE  NewsInv
<1>1. \A r \in NewsRounds : round[r] = RoundRest
  BY DEF NewsInit
<1>2. \A m \in Moderators : press[m] = Hands
  BY DEF NewsInit
<1>3. NewsTypeOK
  BY NewsAssumption
     DEF NewsInit, NewsTypeOK, RoundRest, Hands, Lists
<1>4. OneVerdict /\ ShowsOnlyDecided /\ SentOnce
  BY DEF NewsInit, OneVerdict, ShowsOnlyDecided, SentOnce, News
<1>5. WorkInOrder /\ HeldAlone /\ PressInOrder
  BY <1>1, <1>2 DEF WorkInOrder, HeldAlone, PressInOrder, Holds, RoundRest, Hands
<1> QED
  BY <1>3, <1>4, <1>5 DEF NewsInv

LEMMA NewsStands ==
  ASSUME NewsInv, UNCHANGED newsVars
  PROVE  NewsInv'
<1>1. UNCHANGED <<standing, verdicts, claims, noted, shown, posts, face, round, press,
                  mislaid, newsFaults>>
  BY DEF newsVars
<1> QED
  BY <1>1 DEF NewsInv, NewsTypeOK, OneVerdict, ShowsOnlyDecided, WorkInOrder, HeldAlone,
              SentOnce, PressInOrder, Holds, InHand

\* Every step of the rounds, of the moderators and of the world keeps the invariant.
LEMMA NewsKeeps ==
  ASSUME NewsInv, [NewsNext]_newsVars
  PROVE  NewsInv'
<1>1. CASE UNCHANGED newsVars
  BY <1>1, NewsStands
<1>2. ASSUME NEW i \in News, Appears(i) \/ EpisodeGoes(i)
      PROVE  NewsInv'
  BY <1>2, AppearsKeeps, EpisodeGoesKeeps
<1>3. ASSUME NEW r \in NewsRounds, RoundStarts(r) \/ RoundSteps(r) \/ RoundBreaks(r)
      PROVE  NewsInv'
  BY <1>3, RoundStartsKeeps, NextListKeeps, ClaimsKeeps, PostsKeeps, NotesKeeps, EditsKeeps,
     MarksKeeps, RoundBreaksKeeps DEF RoundSteps
<1>4. ASSUME NEW m \in Moderators, PressSteps(m) \/ \E i \in Reports : Looks(m, i)
      PROVE  NewsInv'
  BY <1>4, LooksKeeps, DecidesKeeps, MarksDecidedKeeps, AnswersButtonKeeps DEF PressSteps
<1> QED
  BY <1>1, <1>2, <1>3, <1>4 DEF NewsNext

\* The feeds are safe whatever rounds overlap, break off or lose Discord's answer, and
\* whoever decides a report at the same time: one verdict on each, and no message or row
\* that shows a decision nobody took (resolve.ts:40-57, moderation-feed.ts).
THEOREM NewsIsSafe == NewsSpec => []NewsSafe
<1>1. NewsInit => NewsInv
  BY NewsStarts
<1>2. NewsInv /\ [NewsNext]_newsVars => NewsInv'
  BY NewsKeeps
<1>3. NewsInv => NewsSafe
  BY DEF NewsInv, NewsSafe
<1> QED
  BY <1>1, <1>2, <1>3, PTL DEF NewsSpec

----------------------------------------------------------------------------
(* The feeds implement AtMostOnce. *)

LEMMA FateAtStart ==
  ASSUME NewsInit
  PROVE  Posting!Init
<1>1. claims = {} /\ \A i \in News : posts[i] = 0
  BY DEF NewsInit
<1>2. ASSUME NEW i \in News
      PROVE  PostFate[i] = "waiting"
  <2>1. ~(posts[i] = 1) /\ ~(posts[i] > 1) /\ i \notin claims
    BY <1>1
  <2>2. PostFate[i] = IF posts[i] = 1 THEN "told" ELSE IF posts[i] > 1 THEN "twice"
                        ELSE IF i \notin claims THEN "waiting"
                        ELSE IF Carried(i) THEN "taken" ELSE "lost"
    BY DEF PostFate
  <2> QED
    BY <2>1, <2>2
<1>3. PostFate = [i \in News |-> PostFate[i]]
  BY DEF PostFate
<1> QED
  BY <1>2, <1>3 DEF Posting!Init

\* What became of an item, with SentOnce ruling out "twice".
LEMMA FateNow ==
  ASSUME NewsInv, NEW i \in News
  PROVE  PostFate[i] = IF posts[i] = 1 THEN "told"
                       ELSE IF i \notin claims THEN "waiting"
                       ELSE IF Carried(i) THEN "taken" ELSE "lost"
<1>1. posts[i] \in 0 .. 1
  BY DEF NewsInv, SentOnce
<1>2. PostFate[i] = IF posts[i] = 1 THEN "told" ELSE IF posts[i] > 1 THEN "twice"
                        ELSE IF i \notin claims THEN "waiting"
                        ELSE IF Carried(i) THEN "taken" ELSE "lost"
  BY DEF PostFate
<1> QED
  BY <1>1, <1>2

LEMMA FateNext ==
  ASSUME NewsInv', NEW i \in News
  PROVE  (PostFate')[i] = IF posts'[i] = 1 THEN "told"
                          ELSE IF i \notin claims' THEN "waiting"
                          ELSE IF Carried(i)' THEN "taken" ELSE "lost"
<1>1. posts'[i] \in 0 .. 1
  BY DEF NewsInv, SentOnce
<1>2. (PostFate')[i] = IF posts'[i] = 1 THEN "told" ELSE IF posts'[i] > 1 THEN "twice"
                        ELSE IF i \notin claims' THEN "waiting"
                        ELSE IF Carried(i)' THEN "taken" ELSE "lost"
  BY DEF PostFate
<1> QED
  BY <1>1, <1>2

\* A round that neither has an item to send nor gets one turns no fate.
LEMMA FateStands ==
  ASSUME NewsInv, UNCHANGED <<claims, posts>>,
         \A q \in NewsRounds : \/ round'[q] = round[q]
                               \/ round[q].pc # "send" /\ round'[q].pc # "send"
  PROVE  UNCHANGED PostFate
<1>1. \A i \in News : Carried(i) <=> Carried(i)'
  BY DEF Carried, InHand
<1>2. \A i \in News : PostFate[i] = (PostFate')[i]
  <2> TAKE i \in News
  <2>1. PostFate[i] = IF posts[i] = 1 THEN "told" ELSE IF posts[i] > 1 THEN "twice"
                        ELSE IF i \notin claims THEN "waiting"
                        ELSE IF Carried(i) THEN "taken" ELSE "lost"
    BY DEF PostFate
  <2>2. (PostFate')[i] = IF posts'[i] = 1 THEN "told" ELSE IF posts'[i] > 1 THEN "twice"
                        ELSE IF i \notin claims' THEN "waiting"
                        ELSE IF Carried(i)' THEN "taken" ELSE "lost"
    BY DEF PostFate
  <2> QED
    BY <1>1, <2>1, <2>2
<1>3. /\ PostFate = [i \in News |-> PostFate[i]]
      /\ PostFate' = [i \in News |-> (PostFate')[i]]
  BY DEF PostFate
<1> QED
  BY <1>2, <1>3

\* A round turns the fate of the item in its hand alone.
LEMMA OneFateTurns ==
  ASSUME NewsInv, NewsInv', NEW r \in NewsRounds, NEW i \in News,
         \A q \in NewsRounds : q # r => round'[q] = round[q],
         round[r].pc = "send" => InHand(r) = i,
         round'[r].pc = "send" => First(round'[r].todo) = i,
         \A j \in News : j # i => posts'[j] = posts[j] /\ (j \in claims' <=> j \in claims)
  PROVE  PostFate' = [j \in News |-> IF j \in {i} THEN (PostFate')[i] ELSE PostFate[j]]
<1>1. \A j \in News : j # i => (Carried(j) <=> Carried(j)')
  BY DEF Carried, InHand
<1>2. \A j \in News : j # i => (PostFate')[j] = PostFate[j]
  BY <1>1, FateNow, FateNext
<1>3. PostFate' = [j \in News |-> (PostFate')[j]]
  BY DEF PostFate
<1> QED
  BY <1>2, <1>3

\* In the terms of AtMostOnce: the fates it allows an item.
LEMMA OneTurnIsAStep ==
  ASSUME NEW i \in News,
         PostFate' = [j \in News |-> IF j \in {i} THEN (PostFate')[i] ELSE PostFate[j]],
         \/ PostFate[i] = "waiting" /\ (PostFate')[i] \in {"taken", "lost"}
         \/ PostFate[i] = "taken" /\ (PostFate')[i] \in {"told", "lost"}
  PROVE  Posting!Next
<1>1. CASE (PostFate')[i] = "taken"
  <2>1. Posting!Take({i})
    BY <1>1 DEF Posting!Take, Posting!Turn
  <2> QED
    BY <2>1 DEF Posting!Next
<1>2. CASE (PostFate')[i] = "told"
  <2>1. Posting!Tell(i)
    BY <1>2 DEF Posting!Tell, Posting!Turn
  <2> QED
    BY <2>1 DEF Posting!Next
<1>3. CASE (PostFate')[i] = "lost"
  <2>1. Posting!Lose({i})
    BY <1>3 DEF Posting!Lose, Posting!Turn
  <2> QED
    BY <2>1 DEF Posting!Next
<1> QED
  BY <1>1, <1>2, <1>3

\* Who carries an item: it is claimed, not sent, and in no other hand.
LEMMA CarriedFacts ==
  ASSUME NewsInv, NEW r \in NewsRounds, round[r].pc = "send"
  PROVE  /\ InHand(r) \in News /\ PostFate[InHand(r)] = "taken"
         /\ \A q \in NewsRounds : q # r => ~(round[q].pc = "send" /\ InHand(q) = InHand(r))
<1>1. InHand(r) \in News
  BY InHandIsNews DEF NewsInv, WorkInOrder
<1>2. InHand(r) \in claims /\ posts[InHand(r)] = 0
  BY DEF NewsInv, HeldAlone, Holds
<1>3. Carried(InHand(r))
  BY DEF Carried
<1>4. \A q \in NewsRounds : q # r => ~(round[q].pc = "send" /\ InHand(q) = InHand(r))
  BY DEF NewsInv, HeldAlone, Holds
<1>5. PostFate[InHand(r)] = "taken"
  BY <1>1, <1>2, <1>3, FateNow
<1> QED
  BY <1>1, <1>4, <1>5

\* The claim of a round takes an item, or finds it gone.
LEMMA ClaimsTurn ==
  ASSUME NewsInv, NewsInv', NEW r \in NewsRounds, Claims(r)
  PROVE  Posting!Next \/ UNCHANGED PostFate
<1>1. PICK i \in News : i = InHand(r)
  BY InHandIsNews DEF Claims
<1>2. /\ round[r].pc = "next" /\ posts' = posts
      /\ \A q \in NewsRounds : q # r => round'[q] = round[q]
  BY DEF Claims, Goes, NextItem, NewsInv, NewsTypeOK
<1>3. CASE i \in claims
  <2>1. claims' = claims /\ round'[r].pc = "next"
    BY <1>1, <1>3 DEF Claims, NextItem, NewsInv, NewsTypeOK
  <2> QED
    BY <1>2, <2>1, FateStands
<1>4. CASE i \notin claims
  <2>1. /\ claims' = claims \cup {i}
        /\ \/ round'[r].pc = "send" /\ round'[r].todo = round[r].todo
           \/ round'[r].pc = "next"
    BY <1>1, <1>4 DEF Claims, Goes, NextItem, NewsInv, NewsTypeOK
  <2>2. posts[i] = 0
    BY <1>1, <1>4 DEF NewsInv, SentOnce
  <2>3. PostFate[i] = "waiting"
    BY <1>1, <1>4, <2>2, FateNow
  <2>4. (PostFate')[i] \in {"taken", "lost"}
    BY <1>1, <1>2, <2>1, <2>2, FateNext
  <2>5. PostFate' = [j \in News |-> IF j \in {i} THEN (PostFate')[i] ELSE PostFate[j]]
    <3>1. round'[r].pc = "send" => First(round'[r].todo) = i
      BY <1>1, <2>1 DEF InHand
    <3>2. round[r].pc = "send" => InHand(r) = i
      BY <1>1
    <3>3. \A j \in News : j # i => posts'[j] = posts[j] /\ (j \in claims' <=> j \in claims)
      BY <1>2, <2>1
    <3> QED
      BY <1>1, <1>2, <3>1, <3>2, <3>3, OneFateTurns
  <2> QED
    BY <1>1, <2>3, <2>4, <2>5, OneTurnIsAStep
<1> QED
  BY <1>3, <1>4

\* A message is sent or not, or the round dies with the item in hand.
LEMMA HandTurns ==
  ASSUME NewsInv, NewsInv', NEW r \in NewsRounds, round[r].pc = "send",
         UNCHANGED claims,
         \A q \in NewsRounds : q # r => round'[q] = round[q],
         round'[r].pc # "send",
         \A j \in News : j # InHand(r) => posts'[j] = posts[j]
  PROVE  Posting!Next
<1>1. PICK i \in News : i = InHand(r) /\ PostFate[i] = "taken" /\ i \in claims
  BY CarriedFacts DEF NewsInv, HeldAlone, Holds
<1>2. \A q \in NewsRounds : q # r => ~(round[q].pc = "send" /\ InHand(q) = i)
  BY <1>1, CarriedFacts
<1>3. ~Carried(i)'
  <2>1. ASSUME NEW q \in NewsRounds, round'[q].pc = "send", First(round'[q].todo) = i
        PROVE  FALSE
    <3>1. q # r
      BY <2>1
    <3>2. round[q].pc = "send" /\ InHand(q) = i
      BY <2>1, <3>1 DEF InHand
    <3> QED
      BY <1>2, <3>1, <3>2
  <2> QED
    BY <2>1 DEF Carried, InHand
<1>4. (PostFate')[i] \in {"told", "lost"}
  BY <1>1, <1>3, FateNext
<1>5. PostFate' = [j \in News |-> IF j \in {i} THEN (PostFate')[i] ELSE PostFate[j]]
  BY <1>1, OneFateTurns
<1> QED
  BY <1>1, <1>4, <1>5, OneTurnIsAStep

\* Every step of the feeds is a step of AtMostOnce or none.
LEMMA NewsImplements ==
  ASSUME NewsInv, NewsInv', [NewsNext]_newsVars
  PROVE  [Posting!Next]_PostFate
<1>1. ASSUME UNCHANGED <<claims, posts, round>>
      PROVE  UNCHANGED PostFate
  BY <1>1, FateStands
<1>2. CASE UNCHANGED newsVars
  BY <1>1, <1>2 DEF newsVars
<1>3. ASSUME NEW i \in News, Appears(i) \/ EpisodeGoes(i)
      PROVE  UNCHANGED PostFate
  BY <1>1, <1>3 DEF Appears, EpisodeGoes
<1>4. ASSUME NEW m \in Moderators, PressSteps(m) \/ \E i \in Reports : Looks(m, i)
      PROVE  UNCHANGED PostFate
  BY <1>1, <1>4 DEF PressSteps, Looks, Decides, MarksDecided, AnswersButton
<1>5. ASSUME NEW r \in NewsRounds, RoundStarts(r) \/ NextList(r) \/ Notes(r) \/ Edits(r) \/ Marks(r)
      PROVE  UNCHANGED PostFate
  <2>1. UNCHANGED <<claims, posts>>
    BY <1>5 DEF RoundStarts, NextList, Notes, Edits, Marks
  <2>2. \A q \in NewsRounds : q # r => round'[q] = round[q]
    BY <1>5 DEF RoundStarts, NextList, Notes, Edits, Marks, Goes, NextItem, NewsInv, NewsTypeOK
  <2>3. round[r].pc # "send"
    BY <1>5 DEF RoundStarts, NextList, Notes, Edits, Marks
  <2>4. round'[r].pc # "send"
    <3>1. CASE RoundStarts(r)
      BY <3>1 DEF RoundStarts, NewsInv, NewsTypeOK
    <3>2. CASE NextList(r)
      BY <3>2 DEF NextList, RoundRest, NewsInv, NewsTypeOK
    <3>3. CASE Notes(r) \/ Edits(r) \/ Marks(r)
      BY <3>3 DEF Notes, Edits, Marks, Goes, NextItem, NewsInv, NewsTypeOK
    <3> QED
      BY <1>5, <3>1, <3>2, <3>3
  <2> QED
    BY <2>1, <2>2, <2>3, <2>4, FateStands
<1>6. ASSUME NEW r \in NewsRounds, Posts(r)
      PROVE  Posting!Next
  <2>1. InHand(r) \in News
    BY <1>6, CarriedFacts DEF Posts
  <2>2. /\ round[r].pc = "send" /\ UNCHANGED claims
        /\ \A q \in NewsRounds : q # r => round'[q] = round[q]
        /\ round'[r].pc # "send"
    BY <1>6 DEF Posts, Goes, NextItem, NewsInv, NewsTypeOK
  <2>3. \A j \in News : j # InHand(r) => posts'[j] = posts[j]
    BY <1>6, <2>1 DEF Posts, NewsInv, NewsTypeOK
  <2> QED
    BY <2>2, <2>3, HandTurns
<1>7. ASSUME NEW r \in NewsRounds, RoundBreaks(r)
      PROVE  Posting!Next \/ UNCHANGED PostFate
  <2>1. /\ UNCHANGED <<claims, posts>>
        /\ \A q \in NewsRounds : q # r => round'[q] = round[q]
        /\ round'[r].pc # "send"
    BY <1>7 DEF RoundBreaks, RoundRest, NewsInv, NewsTypeOK
  <2>2. CASE round[r].pc = "send"
    BY <2>1, <2>2, HandTurns
  <2>3. CASE round[r].pc # "send"
    BY <2>1, <2>3, FateStands
  <2> QED
    BY <2>2, <2>3
<1>8. ASSUME NEW r \in NewsRounds, RoundStarts(r) \/ RoundSteps(r) \/ RoundBreaks(r)
      PROVE  Posting!Next \/ UNCHANGED PostFate
  BY <1>5, <1>6, <1>7, <1>8, ClaimsTurn DEF RoundSteps
<1> QED
  BY <1>2, <1>3, <1>4, <1>8 DEF NewsNext

\* The feeds implement "claim first, then send": an episode or a report is posted once
\* or not at all, whatever rounds overlap, break off or lose Discord's answer
\* (episode-feed.ts:208-213).
THEOREM NewsArePostedAtMostOnce == NewsSpec => PostedAtMostOnce
<1>1. NewsInit => NewsInv /\ Posting!Init
  BY NewsStarts, FateAtStart
<1>2. NewsInv /\ [NewsNext]_newsVars => NewsInv'
  BY NewsKeeps
<1>3. NewsInv /\ NewsInv' /\ [NewsNext]_newsVars => [Posting!Next]_PostFate
  BY NewsImplements
<1> QED
  BY <1>1, <1>2, <1>3, PTL DEF NewsSpec, PostedAtMostOnce, Posting!Spec

----------------------------------------------------------------------------
(* DmNotices *)

\* What a round has taken on is claimed, not sent yet, and in no other round's list; a
\* message was claimed before it was sent, and sent once.
DmHeldAlone ==
  /\ \A n \in DmRounds, d \in Due : d \in dmRound[n].todo => d \in deliveries /\ dms[d] = 0
  /\ \A n, m \in DmRounds, d \in Due : d \in dmRound[n].todo /\ d \in dmRound[m].todo => n = m
  /\ \A d \in Due : dms[d] \in 0 .. 1 /\ (dms[d] = 1 => d \in deliveries)

\* The column counts what the history counts.
DmCounted == \A u \in Users : failures[u] = misses[u]

DmJob == [todo : SUBSET Due, now : SUBSET Due, got : {"none", "yes", "no"}]

DmShape ==
  /\ failures \in [Users -> Nat] /\ misses \in [Users -> Nat]
  /\ deliveries \in SUBSET Due /\ dms \in [Due -> Nat] /\ dmRound \in [DmRounds -> DmJob]

DmSwitch == switch \in [Users -> BOOLEAN]

DmInv == DmShape /\ DmSwitch /\ DmHeldAlone /\ DmCounted /\ OnWithAttemptsLeft

LEMMA DmStarts ==
  ASSUME DmInit
  PROVE  DmInv
<1>1. DmShape /\ DmHeldAlone /\ DmCounted
  BY DEF DmInit, DmShape, DmHeldAlone, DmCounted, DmJob, Asleep
<1>2. \A u \in Users : ~switch[u]
  BY DEF DmInit
<1>3. DmSwitch /\ OnWithAttemptsLeft
  BY <1>2, Zenon DEF DmInit, DmSwitch, OnWithAttemptsLeft
<1> QED
  BY <1>1, <1>3 DEF DmInv

LEMMA NotifyNewKeeps ==
  ASSUME DmInv, NEW n \in DmRounds, NotifyNew(n)
  PROVE  DmInv'
<1>1. PICK c \in SUBSET Due :
        /\ c \cap deliveries = {} /\ deliveries' = deliveries \cup c
        /\ dmRound' = [dmRound EXCEPT ![n].todo = c]
        /\ UNCHANGED <<switch, failures, dms, misses>>
  <2>1. \A c \in Candidates : c \in SUBSET Due /\ c \cap deliveries = {} /\ c \ deliveries = c
    BY DEF Candidates
  <2> QED
    BY <2>1 DEF NotifyNew
<1>2. DmShape'
  BY <1>1 DEF DmInv, DmShape, DmJob
<1>3. DmHeldAlone'
  BY <1>1 DEF DmInv, DmShape, DmHeldAlone, DmJob
<1>4. DmSwitch' /\ DmCounted' /\ OnWithAttemptsLeft'
  BY <1>1 DEF DmInv, DmSwitch, DmCounted, OnWithAttemptsLeft
<1> QED
  BY <1>2, <1>3, <1>4 DEF DmInv

LEMMA SendsKeeps ==
  ASSUME DmInv, NEW n \in DmRounds, Sends(n)
  PROVE  DmInv'
<1>1. PICK d \in dmRound[n].todo, got \in {"yes", "no"} :
        /\ dmRound' = [dmRound EXCEPT ![n] = [todo |-> dmRound[n].todo \ {d}, now |-> {d}, got |-> got]]
        /\ dms' = [dms EXCEPT ![d] = @ + 1] \/ dms' = dms
        /\ UNCHANGED <<switch, failures, deliveries, misses>>
  BY DEF Sends
<1>2. d \in Due
  BY DEF DmInv, DmShape, DmJob
<1>3. DmShape'
  <2>1. [todo |-> dmRound[n].todo \ {d}, now |-> {d}, got |-> got] \in DmJob
    BY <1>2 DEF DmInv, DmShape, DmJob
  <2> QED
    BY <1>1, <1>2, <2>1 DEF DmInv, DmShape
<1>4. DmHeldAlone'
  BY <1>1, <1>2 DEF DmInv, DmShape, DmHeldAlone, DmJob
<1>5. DmSwitch' /\ DmCounted' /\ OnWithAttemptsLeft'
  BY <1>1 DEF DmInv, DmSwitch, DmCounted, OnWithAttemptsLeft
<1> QED
  BY <1>3, <1>4, <1>5 DEF DmInv

\* A round lets go of some of its list: a message whose episode is gone, or all of it.
LEMMA ListShrinks ==
  ASSUME DmInv, NEW n \in DmRounds, NEW j \in DmJob,
         j.todo \subseteq dmRound[n].todo,
         dmRound' = [dmRound EXCEPT ![n] = j],
         UNCHANGED <<dms, deliveries>>
  PROVE  DmHeldAlone'
BY DEF DmInv, DmShape, DmHeldAlone, DmJob

LEMMA VanishedKeeps ==
  ASSUME DmInv, NEW n \in DmRounds, Vanished(n)
  PROVE  DmInv'
<1>1. PICK d \in dmRound[n].todo : dmRound' = [dmRound EXCEPT ![n].todo = @ \ {d}]
  BY DEF Vanished
<1>2. UNCHANGED <<switch, failures, dms, deliveries, misses>>
  BY DEF Vanished
<1> DEFINE j == [dmRound[n] EXCEPT !.todo = dmRound[n].todo \ {d}]
<1>3. dmRound' = [dmRound EXCEPT ![n] = j]
  BY <1>1
<1>4. j \in DmJob /\ j.todo \subseteq dmRound[n].todo
  <2>1. dmRound[n] \in DmJob
    BY DEF DmInv, DmShape
  <2> QED
    BY <2>1 DEF DmJob
<1> HIDE DEF j
<1>5. DmHeldAlone'
  BY <1>2, <1>3, <1>4, ListShrinks
<1>6. DmShape' /\ DmSwitch' /\ DmCounted' /\ OnWithAttemptsLeft'
  BY <1>2, <1>3, <1>4 DEF DmInv, DmShape, DmSwitch, DmCounted, OnWithAttemptsLeft
<1> QED
  BY <1>5, <1>6 DEF DmInv

LEMMA DmRoundBreaksKeeps ==
  ASSUME DmInv, NEW n \in DmRounds, DmRoundBreaks(n)
  PROVE  DmInv'
<1>1. /\ dmRound' = [dmRound EXCEPT ![n] = Asleep]
      /\ UNCHANGED <<switch, failures, dms, deliveries, misses>>
  BY DEF DmRoundBreaks
<1>2. Asleep \in DmJob /\ Asleep.todo \subseteq dmRound[n].todo
  BY DEF Asleep, DmJob
<1>3. DmHeldAlone'
  BY <1>1, <1>2, ListShrinks
<1>4. DmShape' /\ DmSwitch' /\ DmCounted' /\ OnWithAttemptsLeft'
  BY <1>1, <1>2 DEF DmInv, DmShape, DmSwitch, DmCounted, OnWithAttemptsLeft
<1> QED
  BY <1>3, <1>4 DEF DmInv

\* The outcome of a message is written down.
LEMMA OutcomeKeeps ==
  ASSUME DmInv, NEW n \in DmRounds, NEW got \in {"yes", "no"}, Outcome(n, got),
         UNCHANGED <<dms, deliveries>>
  PROVE  /\ dmRound' \in [DmRounds -> DmJob] /\ DmHeldAlone'
         /\ \A m \in DmRounds : (dmRound'[m]).todo = dmRound[m].todo
<1> DEFINE j == [Asleep EXCEPT !.todo = dmRound[n].todo]
<1>1. j \in DmJob /\ j.todo = dmRound[n].todo
  <2>1. dmRound[n].todo \in SUBSET Due
    BY DEF DmInv, DmShape, DmJob
  <2> QED
    BY <2>1 DEF Asleep, DmJob
<1>2. dmRound' = [dmRound EXCEPT ![n] = j]
  BY DEF Outcome
<1> HIDE DEF j
<1>3. DmHeldAlone'
  BY <1>1, <1>2, ListShrinks
<1> QED
  BY <1>1, <1>2, <1>3 DEF DmInv, DmShape

LEMMA SucceedsKeeps ==
  ASSUME DmInv, NEW n \in DmRounds, Succeeds(n)
  PROVE  DmInv'
<1>1. /\ Outcome(n, "yes") /\ UNCHANGED <<switch, deliveries, dms>>
      /\ \E u \in Users : failures' = [failures EXCEPT ![u] = 0] /\ misses' = [misses EXCEPT ![u] = 0]
  <2>1. \A d \in dmRound[n].now : d[1] \in Users
    BY DEF DmInv, DmShape, DmJob, Due
  <2> QED
    BY <2>1 DEF Succeeds
<1>2. dmRound' \in [DmRounds -> DmJob] /\ DmHeldAlone'
  BY <1>1, OutcomeKeeps
<1>3. DmShape' /\ DmCounted'
  BY <1>1, <1>2 DEF DmInv, DmShape, DmCounted
<1>4. DmSwitch' /\ OnWithAttemptsLeft'
  BY <1>1, DmAssumption DEF DmInv, DmShape, DmSwitch, OnWithAttemptsLeft
<1> QED
  BY <1>2, <1>3, <1>4 DEF DmInv

\* The statement that counts a failure decides the switch from the new count.
LEMMA FailsFacts ==
  ASSUME DmInv, NEW n \in DmRounds, Fails(n)
  PROVE  /\ Outcome(n, "no") /\ UNCHANGED <<deliveries, dms>>
         /\ \E u \in Users, b \in BOOLEAN :
              /\ failures' = [failures EXCEPT ![u] = @ + 1]
              /\ misses' = [misses EXCEPT ![u] = @ + 1]
              /\ switch' = [switch EXCEPT ![u] = b]
              /\ b <=> failures[u] + 1 < MAX_HIBA
<1>1. \A d \in dmRound[n].now : d[1] \in Users
  BY DEF DmInv, DmShape, DmJob, Due
<1>2. Outcome(n, "no") /\ UNCHANGED <<deliveries, dms>>
  BY DEF Fails
<1>3. PICK d \in dmRound[n].now :
        /\ failures' = [failures EXCEPT ![d[1]] = @ + 1]
        /\ misses' = [misses EXCEPT ![d[1]] = @ + 1]
        /\ switch' = [switch EXCEPT ![d[1]] = failures[d[1]] + 1 < MAX_HIBA]
  BY DEF Fails
<1>4. PICK b \in BOOLEAN : b = (failures[d[1]] + 1 < MAX_HIBA)
  <2>1. (failures[d[1]] + 1 < MAX_HIBA) \in BOOLEAN
    OBVIOUS
  <2> QED
    BY <2>1, Zenon
<1>5. PICK u \in Users : u = d[1]
  BY <1>1, <1>3
<1>6. switch' = [switch EXCEPT ![u] = b]
  BY <1>3, <1>4, <1>5, Zenon
<1> QED
  BY <1>2, <1>3, <1>4, <1>5, <1>6

LEMMA FailsKeeps ==
  ASSUME DmInv, NEW n \in DmRounds, Fails(n)
  PROVE  DmInv'
<1>1. Outcome(n, "no") /\ UNCHANGED <<deliveries, dms>>
  BY FailsFacts
<1>2. PICK u \in Users, b \in BOOLEAN :
        /\ failures' = [failures EXCEPT ![u] = @ + 1] /\ misses' = [misses EXCEPT ![u] = @ + 1]
        /\ switch' = [switch EXCEPT ![u] = b] /\ (b <=> failures[u] + 1 < MAX_HIBA)
  BY FailsFacts
<1>3. dmRound' \in [DmRounds -> DmJob] /\ DmHeldAlone'
  BY <1>1, OutcomeKeeps
<1>4. DmShape' /\ DmCounted'
  BY <1>1, <1>2, <1>3 DEF DmInv, DmShape, DmCounted
<1>5. DmSwitch' /\ OnWithAttemptsLeft'
  BY <1>2 DEF DmInv, DmShape, DmSwitch, OnWithAttemptsLeft
<1> QED
  BY <1>3, <1>4, <1>5 DEF DmInv

LEMMA SetDmKeeps ==
  ASSUME DmInv, NEW u \in Users, NEW on \in BOOLEAN, SetDm(u, on)
  PROVE  DmInv'
<1>1. /\ switch' = [switch EXCEPT ![u] = on]
      /\ failures' = [failures EXCEPT ![u] = 0] /\ misses' = [misses EXCEPT ![u] = 0]
      /\ UNCHANGED <<deliveries, dms, dmRound>>
  BY DEF SetDm
<1>2. DmShape' /\ DmHeldAlone' /\ DmCounted'
  BY <1>1 DEF DmInv, DmShape, DmHeldAlone, DmCounted
<1>3. DmSwitch' /\ OnWithAttemptsLeft'
  BY <1>1, DmAssumption DEF DmInv, DmShape, DmSwitch, OnWithAttemptsLeft
<1> QED
  BY <1>2, <1>3 DEF DmInv

LEMMA DmKeeps ==
  ASSUME DmInv, [DmNext]_dmVars
  PROVE  DmInv'
<1>1. ASSUME UNCHANGED <<switch, failures, deliveries, dms, dmRound, misses>>
      PROVE  DmInv'
  BY <1>1 DEF DmInv, DmShape, DmSwitch, DmHeldAlone, DmCounted, OnWithAttemptsLeft
<1>2. CASE UNCHANGED dmVars
  BY <1>1, <1>2 DEF dmVars
<1>3. ASSUME NEW e \in Parts, ComesOut(e)
      PROVE  DmInv'
  BY <1>1, <1>3 DEF ComesOut
<1>4. ASSUME NEW n \in DmRounds, DmSteps(n) \/ DmRoundBreaks(n)
      PROVE  DmInv'
  BY <1>4, NotifyNewKeeps, VanishedKeeps, SendsKeeps, SucceedsKeeps, FailsKeeps,
     DmRoundBreaksKeeps DEF DmSteps
<1> QED
  BY <1>2, <1>3, <1>4, SetDmKeeps DEF DmNext

----------------------------------------------------------------------------
(* The messages to members implement AtMostOnce. *)

LEMMA DmFateAtStart ==
  ASSUME DmInit
  PROVE  Telling!Init
<1>1. deliveries = {} /\ \A d \in Due : dms[d] = 0
  BY DEF DmInit
<1>2. \A d \in Due : DmFate[d] = "waiting"
  BY <1>1 DEF DmFate
<1>3. DmFate = [d \in Due |-> DmFate[d]]
  BY DEF DmFate
<1> QED
  BY <1>2, <1>3 DEF Telling!Init

LEMMA DmFateNow ==
  ASSUME DmInv, NEW d \in Due
  PROVE  DmFate[d] = IF dms[d] = 1 THEN "told"
                     ELSE IF d \notin deliveries THEN "waiting"
                     ELSE IF DmCarried(d) THEN "taken" ELSE "lost"
<1>1. dms[d] \in 0 .. 1
  BY DEF DmInv, DmHeldAlone
<1> QED
  BY <1>1 DEF DmFate

LEMMA DmFateNext ==
  ASSUME DmInv', NEW d \in Due
  PROVE  (DmFate')[d] = IF dms'[d] = 1 THEN "told"
                        ELSE IF d \notin deliveries' THEN "waiting"
                        ELSE IF DmCarried(d)' THEN "taken" ELSE "lost"
<1>1. dms'[d] \in 0 .. 1
  BY DEF DmInv, DmHeldAlone
<1> QED
  BY <1>1 DEF DmFate

LEMMA DmFateStands ==
  ASSUME DmInv, UNCHANGED <<deliveries, dms>>,
         \A n \in DmRounds : (dmRound'[n]).todo = dmRound[n].todo
  PROVE  UNCHANGED DmFate
<1>1. \A d \in Due : DmCarried(d) <=> DmCarried(d)'
  BY DEF DmCarried
<1> QED
  BY <1>1 DEF DmFate

\* A round selects and claims a batch: all of it is taken.
LEMMA BatchIsTaken ==
  ASSUME DmInv, DmInv', NEW n \in DmRounds, NotifyNew(n)
  PROVE  Telling!Next
<1>1. PICK c \in SUBSET Due :
        /\ c \cap deliveries = {} /\ deliveries' = deliveries \cup c
        /\ dmRound' = [dmRound EXCEPT ![n].todo = c] /\ dms' = dms /\ dmRound[n].todo = {}
  <2>1. \A c \in Candidates : c \in SUBSET Due /\ c \cap deliveries = {} /\ c \ deliveries = c
    BY DEF Candidates
  <2>2. dmRound[n].todo = {}
    BY DEF NotifyNew, Asleep
  <2> QED
    BY <2>1, <2>2 DEF NotifyNew
<1>2. /\ \A m \in DmRounds : m # n => (dmRound'[m]).todo = dmRound[m].todo
      /\ (dmRound'[n]).todo = c
  BY <1>1 DEF DmInv, DmShape, DmJob
<1>3. ASSUME NEW d \in c
      PROVE  DmFate[d] = "waiting" /\ (DmFate')[d] = "taken"
  <2>1. d \in Due /\ d \notin deliveries /\ d \in deliveries' /\ dms[d] # 1 /\ dms'[d] # 1
    BY <1>1 DEF DmInv, DmHeldAlone
  <2>2. DmCarried(d)'
    BY <1>2 DEF DmCarried
  <2> QED
    BY <2>1, <2>2, DmFateNow, DmFateNext
<1>4. ASSUME NEW d \in Due, d \notin c
      PROVE  (DmFate')[d] = DmFate[d]
  <2>1. DmCarried(d) <=> DmCarried(d)'
    BY <1>1, <1>2, <1>4 DEF DmCarried
  <2>2. dms'[d] = dms[d] /\ (d \in deliveries' <=> d \in deliveries)
    BY <1>1, <1>4
  <2> QED
    BY <2>1, <2>2, DmFateNow, DmFateNext
<1>5. DmFate' = [d \in Due |-> (DmFate')[d]]
  BY DEF DmFate
<1>6. Telling!Take(c)
  BY <1>3, <1>4, <1>5 DEF Telling!Take, Telling!Turn
<1> QED
  BY <1>6 DEF Telling!Next

\* A round lets go of the messages s of its list: one is sent, the others are lost.
LEMMA LetGo ==
  ASSUME DmInv, DmInv', NEW n \in DmRounds, NEW s \in SUBSET Due,
         s \subseteq dmRound[n].todo, UNCHANGED deliveries,
         (dmRound'[n]).todo = dmRound[n].todo \ s,
         \A m \in DmRounds : m # n => (dmRound'[m]).todo = dmRound[m].todo,
         \A d \in Due : d \notin s => dms'[d] = dms[d]
  PROVE  /\ \A d \in s : DmFate[d] = "taken" /\ (DmFate')[d] = IF dms'[d] = 1 THEN "told" ELSE "lost"
         /\ DmFate' = [d \in Due |-> IF d \in s THEN (DmFate')[d] ELSE DmFate[d]]
<1>1. ASSUME NEW d \in s
      PROVE  DmFate[d] = "taken" /\ (DmFate')[d] = IF dms'[d] = 1 THEN "told" ELSE "lost"
  <2>1. d \in Due /\ d \in deliveries /\ d \in deliveries' /\ dms[d] # 1
    BY DEF DmInv, DmHeldAlone
  <2>2. DmCarried(d)
    BY DEF DmCarried
  <2>3. ~DmCarried(d)'
    BY <2>1 DEF DmCarried, DmInv, DmHeldAlone
  <2> QED
    BY <2>1, <2>2, <2>3, DmFateNow, DmFateNext
<1>2. ASSUME NEW d \in Due, d \notin s
      PROVE  (DmFate')[d] = DmFate[d]
  <2>1. DmCarried(d) <=> DmCarried(d)'
    BY <1>2 DEF DmCarried
  <2> QED
    BY <1>2, <2>1, DmFateNow, DmFateNext
<1>3. DmFate' = [d \in Due |-> (DmFate')[d]]
  BY DEF DmFate
<1> QED
  BY <1>1, <1>2, <1>3

LEMMA AllLost ==
  ASSUME NEW s \in SUBSET Due,
         \A d \in s : DmFate[d] = "taken" /\ (DmFate')[d] = "lost",
         DmFate' = [d \in Due |-> IF d \in s THEN (DmFate')[d] ELSE DmFate[d]]
  PROVE  Telling!Next
<1>1. Telling!Lose(s)
  BY DEF Telling!Lose, Telling!Turn
<1> QED
  BY <1>1 DEF Telling!Next

LEMMA DmImplements ==
  ASSUME DmInv, DmInv', [DmNext]_dmVars
  PROVE  [Telling!Next]_DmFate
<1>1. ASSUME UNCHANGED <<deliveries, dms, dmRound>>
      PROVE  UNCHANGED DmFate
  BY <1>1, DmFateStands
<1>2. CASE UNCHANGED dmVars
  BY <1>1, <1>2 DEF dmVars
<1>3. ASSUME NEW e \in Parts, ComesOut(e)
      PROVE  UNCHANGED DmFate
  BY <1>1, <1>3 DEF ComesOut
<1>4. ASSUME NEW u \in Users, NEW on \in BOOLEAN, SetDm(u, on)
      PROVE  UNCHANGED DmFate
  BY <1>1, <1>4 DEF SetDm
<1>5. ASSUME NEW n \in DmRounds, Succeeds(n) \/ Fails(n)
      PROVE  UNCHANGED DmFate
  <2>1. UNCHANGED <<deliveries, dms>> /\ (Outcome(n, "yes") \/ Outcome(n, "no"))
    BY <1>5 DEF Succeeds, Fails
  <2>2. \A m \in DmRounds : (dmRound'[m]).todo = dmRound[m].todo
    BY <2>1, OutcomeKeeps
  <2> QED
    BY <2>1, <2>2, DmFateStands
<1>6. ASSUME NEW n \in DmRounds, Sends(n)
      PROVE  Telling!Next
  <2>1. PICK d \in dmRound[n].todo, got \in {"yes", "no"} :
          /\ dmRound' = [dmRound EXCEPT ![n] = [todo |-> dmRound[n].todo \ {d}, now |-> {d}, got |-> got]]
          /\ dms' = [dms EXCEPT ![d] = @ + 1] \/ dms' = dms
          /\ UNCHANGED deliveries
    BY <1>6 DEF Sends
  <2>2. d \in Due
    BY DEF DmInv, DmShape, DmJob
  <2>3. /\ (dmRound'[n]).todo = dmRound[n].todo \ {d}
        /\ \A m \in DmRounds : m # n => (dmRound'[m]).todo = dmRound[m].todo
        /\ \A e \in Due : e \notin {d} => dms'[e] = dms[e]
    BY <2>1, <2>2 DEF DmInv, DmShape
  <2>4. /\ DmFate[d] = "taken" /\ (DmFate')[d] = IF dms'[d] = 1 THEN "told" ELSE "lost"
        /\ DmFate' = [e \in Due |-> IF e \in {d} THEN (DmFate')[e] ELSE DmFate[e]]
    <3>1. {d} \in SUBSET Due /\ {d} \subseteq dmRound[n].todo
      BY <2>2
    <3>2. UNCHANGED deliveries
      BY <2>1
    <3>3. /\ \A e \in {d} : DmFate[e] = "taken" /\ (DmFate')[e] = IF dms'[e] = 1 THEN "told" ELSE "lost"
          /\ DmFate' = [e \in Due |-> IF e \in {d} THEN (DmFate')[e] ELSE DmFate[e]]
      BY <2>3, <3>1, <3>2, LetGo
    <3> QED
      BY <3>3
  <2>5. CASE (DmFate')[d] = "told"
    <3>1. Telling!Tell(d)
      BY <2>4, <2>5 DEF Telling!Tell, Telling!Turn
    <3> QED
      BY <2>2, <3>1 DEF Telling!Next
  <2>6. CASE (DmFate')[d] = "lost"
    BY <2>2, <2>4, <2>6, AllLost
  <2> QED
    BY <2>4, <2>5, <2>6
<1>7. ASSUME NEW n \in DmRounds, NEW s \in SUBSET Due, s \subseteq dmRound[n].todo,
             (dmRound'[n]).todo = dmRound[n].todo \ s, UNCHANGED <<deliveries, dms>>,
             \A m \in DmRounds : m # n => (dmRound'[m]).todo = dmRound[m].todo
      PROVE  Telling!Next
  <2>1. /\ \A d \in s : DmFate[d] = "taken" /\ (DmFate')[d] = IF dms'[d] = 1 THEN "told" ELSE "lost"
        /\ DmFate' = [d \in Due |-> IF d \in s THEN (DmFate')[d] ELSE DmFate[d]]
    BY <1>7, LetGo
  <2>2. \A d \in s : dms'[d] # 1
    BY <1>7 DEF DmInv, DmHeldAlone
  <2> QED
    BY <2>1, <2>2, AllLost
<1>8. ASSUME NEW n \in DmRounds, Vanished(n)
      PROVE  Telling!Next
  <2>1. PICK d \in dmRound[n].todo : dmRound' = [dmRound EXCEPT ![n].todo = @ \ {d}]
    BY <1>8 DEF Vanished
  <2>2. UNCHANGED <<deliveries, dms>>
    BY <1>8 DEF Vanished
  <2>3. {d} \in SUBSET Due /\ {d} \subseteq dmRound[n].todo
    BY DEF DmInv, DmShape, DmJob
  <2>4. /\ (dmRound'[n]).todo = dmRound[n].todo \ {d}
        /\ \A m \in DmRounds : m # n => (dmRound'[m]).todo = dmRound[m].todo
    BY <2>1 DEF DmInv, DmShape, DmJob
  <2> QED
    BY <1>7, <2>2, <2>3, <2>4
<1>9. ASSUME NEW n \in DmRounds, DmRoundBreaks(n)
      PROVE  Telling!Next
  <2>1. dmRound' = [dmRound EXCEPT ![n] = Asleep] /\ UNCHANGED <<deliveries, dms>>
    BY <1>9 DEF DmRoundBreaks
  <2>2. dmRound[n].todo \in SUBSET Due
    BY DEF DmInv, DmShape, DmJob
  <2>3. /\ (dmRound'[n]).todo = dmRound[n].todo \ dmRound[n].todo
        /\ \A m \in DmRounds : m # n => (dmRound'[m]).todo = dmRound[m].todo
    BY <2>1 DEF DmInv, DmShape, Asleep
  <2> QED
    BY <1>7, <2>1, <2>2, <2>3
<1> QED
  BY <1>2, <1>3, <1>4, <1>5, <1>6, <1>8, <1>9, BatchIsTaken DEF DmNext, DmSteps

\* A user is told of an episode once or not at all, whatever rounds overlap, break off or
\* lose Discord's answer: the selection claims in the same statement (dm-notify.ts:11-14).
THEOREM MembersAreToldAtMostOnce == DmSpec => ToldAtMostOnce
<1>1. DmInit => DmInv /\ Telling!Init
  BY DmStarts, DmFateAtStart
<1>2. DmInv /\ [DmNext]_dmVars => DmInv'
  BY DmKeeps
<1>3. DmInv /\ DmInv' /\ [DmNext]_dmVars => [Telling!Next]_DmFate
  BY DmImplements
<1> QED
  BY <1>1, <1>2, <1>3, PTL DEF DmSpec, ToldAtMostOnce, Telling!Spec

\* The switch is never on with the failures used up (dm-notify.ts:16-18).
THEOREM OnMeansAttemptsLeft == DmSpec => []OnWithAttemptsLeft
<1>1. DmInit => DmInv
  BY DmStarts
<1>2. DmInv /\ [DmNext]_dmVars => DmInv'
  BY DmKeeps
<1>3. DmInv => OnWithAttemptsLeft
  BY DEF DmInv
<1> QED
  BY <1>1, <1>2, <1>3, PTL DEF DmSpec

FlipsCounted == flips \in Nat

\* The switch turns itself off only after MAX_HIBA failures in a row, whichever rounds
\* count them and whatever the settings page writes between (dm-notify.ts:16-18).
THEOREM SwitchedOffForCause == DmSpec => OffForCause
<1>1. DmInit => DmInv /\ FlipsCounted
  BY DmStarts DEF DmInit, FlipsCounted
<1>2. DmInv /\ FlipsCounted /\ [DmNext]_dmVars => DmInv' /\ FlipsCounted'
  BY DmKeeps DEF FlipsCounted, DmNext, dmVars, ComesOut, SetDm, DmSteps, NotifyNew, Vanished, Sends, Succeeds,
                 Fails, DmRoundBreaks
<1>3. DmInv /\ FlipsCounted /\ [DmNext]_dmVars =>
       [\A u \in Users : switch[u] /\ ~switch'[u] /\ flips' = flips => misses'[u] >= MAX_HIBA]_dmVars
  <2> DEFINE Cause == \A u \in Users : switch[u] /\ ~switch'[u] /\ flips' = flips => misses'[u] >= MAX_HIBA
  <2> SUFFICES ASSUME DmInv, FlipsCounted, DmNext
               PROVE  Cause
    OBVIOUS
  <2>1. CASE switch' = switch
    BY <2>1
  <2>2. ASSUME NEW u \in Users, NEW on \in BOOLEAN, SetDm(u, on)
        PROVE  Cause
    <3>1. flips' # flips
      BY <2>2 DEF SetDm, FlipsCounted
    <3> QED
      BY <2>2, <3>1 DEF SetDm
  <2>3. ASSUME NEW n \in DmRounds, Fails(n)
        PROVE  Cause
    <3>1. PICK u \in Users, b \in BOOLEAN :
            /\ misses' = [misses EXCEPT ![u] = @ + 1]
            /\ switch' = [switch EXCEPT ![u] = b] /\ (b <=> failures[u] + 1 < MAX_HIBA)
      BY <2>3, FailsFacts
    <3>2. misses'[u] = failures[u] + 1 /\ failures[u] \in Nat
      BY <3>1 DEF DmInv, DmShape, DmCounted
    <3>3. \A v \in Users : switch[v] /\ ~switch'[v] => v = u /\ ~b
      BY <3>1 DEF DmInv, DmSwitch
    <3> QED
      BY <3>1, <3>2, <3>3, DmAssumption
  <2>4. ASSUME NEW n \in DmRounds, DmSteps(n) \/ DmRoundBreaks(n)
        PROVE  Cause
    BY <2>1, <2>3, <2>4 DEF DmSteps, NotifyNew, Vanished, Sends, Succeeds, DmRoundBreaks
  <2>5. ASSUME NEW e \in Parts, ComesOut(e)
        PROVE  Cause
    BY <2>1, <2>5 DEF ComesOut
  <2> QED
    BY <2>2, <2>4, <2>5 DEF DmNext
<1> QED
  BY <1>1, <1>2, <1>3, PTL DEF DmSpec, OffForCause

----------------------------------------------------------------------------
(* GuildSetup *)

Steps == {"idle", "resync", "orphaning", "plan", "adopting", "updating", "creating",
          "created", "ok", "checking", "relisting", "deleting", "deleted", "closing"}
Run == [step : Steps, list : SUBSET Things, names : SUBSET Things, got : {"nothing", "list", "row"},
        object : Targets, shown : Targets, no : 0 .. MaxRows, ticket : Tickets \cup {"none"},
        crossed : BOOLEAN, disturbed : BOOLEAN]
Row == [open : BOOLEAN, no : 0 .. MaxRows, object : Things \cup {"none"}, ours : BOOLEAN]

\* Whatever is spoken of was made; an object on a row that says YUME made it is YUME's,
\* or was adopted onto such a row; so was all that resets deleted.
Made == {o \in Things : maker[o] # "none"}
Ours(o) == maker[o] = "yume" \/ o \in inherited
WorldMade ==
  /\ alive \subseteq Made /\ named \subseteq Made /\ erased \subseteq Made /\ inherited \subseteq Made
  /\ row.object \in Made \cup {"none"} /\ \A o \in erased : Ours(o)
  /\ row.open /\ row.ours /\ row.object # "none" => Ours(row.object)

\* A run speaks of what was made; what it is about to delete is YUME's or was adopted,
\* what it has just made is YUME's.
Speaks(r) ==
  /\ setup[r].list \subseteq Made /\ setup[r].names \subseteq Made
  /\ setup[r].object \in Made \cup {"none", "nothing"}
  /\ setup[r].step \in {"adopting", "updating"} => setup[r].object \in Made
  /\ At(r, "deleting") => setup[r].object \in Things /\ Ours(setup[r].object)
  /\ At(r, "created") => setup[r].object \in Things /\ maker[setup[r].object] = "yume"

\* What a run that nobody disturbed takes for true, is true.
Knows(r) ==
  /\ setup[r].got = "list" /\ At(r, "plan") => setup[r].list = alive
  /\ setup[r].got = "list" /\ At(r, "plan") => setup[r].names = alive \cap named
  /\ setup[r].got = "row" /\ At(r, "plan") => setup[r].object = RowObject
  /\ At(r, "adopting") => setup[r].object \in alive \cap named
  /\ At(r, "updating") => RowObject = setup[r].object /\ setup[r].object \in alive
  /\ At(r, "created") => setup[r].object \in alive \cap named
  /\ At(r, "ok") => RowObject = setup[r].object /\ setup[r].object \in alive \cap named

\* What a run takes for true while nobody else writes the row, whatever becomes of the
\* guild: an object of the row that is gone stays gone, and a ticket shows what the row
\* still answers with.
Steady(r) ==
  /\ setup[r].got = "list" /\ setup[r].step \in {"resync", "plan"} =>
       (RowObject \in alive => RowObject \in setup[r].list)
  /\ setup[r].got = "row" /\ setup[r].step \in {"resync", "plan"} => setup[r].object = RowObject
  /\ setup[r].step \in {"orphaning", "adopting", "creating", "created", "deleted", "closing"} =>
       RowObject \notin alive
  /\ setup[r].step \in {"checking", "relisting"} => setup[r].object = Target
  /\ At(r, "relisting") => setup[r].shown = setup[r].object
  /\ At(r, "deleting") => setup[r].object = RowObject /\ setup[r].shown = setup[r].object

\* Which run takes which step.
InPlace(r) ==
  /\ r \in SetupRuns => setup[r].step \in {"idle", "resync", "orphaning", "plan", "adopting",
                                            "updating", "creating", "created", "ok"}
  /\ r \in ResetRuns => setup[r].step \in {"idle", "checking", "relisting", "deleting",
                                            "deleted", "closing"}

Fine(r) == /\ Speaks(r) /\ InPlace(r)
           /\ ~setup[r].disturbed => Knows(r)
           /\ ~setup[r].crossed => Steady(r)

SetupInv == /\ SetupTypeOK /\ WorldMade /\ NothingForgotten
            /\ \A r \in AllRuns : Fine(r)

LEMMA TypeOKMeans ==
  SetupTypeOK <=>
    /\ maker \in [Things -> {"none", "yume", "people"}]
    /\ alive \in SUBSET Things /\ named \in SUBSET Things
    /\ row \in Row
    /\ ticket \in [Tickets -> Targets \cup {"invalid"}]
    /\ setup \in [AllRuns -> Run]
    /\ erased \in SUBSET Things /\ inherited \in SUBSET Things /\ lost \in SUBSET Things
    /\ hands \in 0 .. MaxHands /\ setupFaults \in 0 .. MaxSetupFaults
BY Zenon DEF SetupTypeOK, Run, Row, Steps

\* The records a run goes on with.
LEMMA RestingRun ==
  /\ Resting \in Run /\ Resting.step = "idle" /\ Resting.list = {} /\ Resting.names = {}
  /\ Resting.got = "nothing" /\ Resting.object = "none" /\ Resting.no = 0
  /\ Resting.ticket = "none" /\ ~Resting.disturbed /\ ~Resting.crossed
<1>1. Resting \in Run /\ Resting.crossed = FALSE /\ Resting.disturbed = FALSE
  BY SetupAssumption DEF Resting, Run, Steps, Targets
<1>2. /\ Resting.step = "idle" /\ Resting.list = {} /\ Resting.names = {}
      /\ Resting.got = "nothing" /\ Resting.object = "none" /\ Resting.no = 0
      /\ Resting.ticket = "none"
  BY DEF Resting
<1> QED
  BY <1>1, <1>2

LEMMA TypeOKNext ==
  SetupTypeOK' <=>
    /\ maker' \in [Things -> {"none", "yume", "people"}]
    /\ alive' \in SUBSET Things /\ named' \in SUBSET Things
    /\ row' \in Row
    /\ ticket' \in [Tickets -> Targets \cup {"invalid"}]
    /\ setup' \in [AllRuns -> Run]
    /\ erased' \in SUBSET Things /\ inherited' \in SUBSET Things /\ lost' \in SUBSET Things
    /\ hands' \in 0 .. MaxHands /\ setupFaults' \in 0 .. MaxSetupFaults
BY Zenon DEF SetupTypeOK, Run, Row, Steps

\* A run goes on by itself: what it goes on with must be sound, the rest stands.
LEMMA QuietStep ==
  ASSUME SetupInv, NEW r \in AllRuns, NEW t \in Run, setup' = [setup EXCEPT ![r] = t],
         UNCHANGED <<maker, alive, named, row, erased, inherited, hands>>,
         ticket' \in [Tickets -> Targets \cup {"invalid"}],
         setupFaults' \in 0 .. MaxSetupFaults, lost' \in SUBSET Things, lost \subseteq lost',
         r \in SetupRuns /\ setup[r].step = "created" => setup[r].object \in lost',
         Fine(r)'
  PROVE  SetupInv'
<1>1. setup \in [AllRuns -> Run] /\ setup' \in [AllRuns -> Run]
  BY TypeOKMeans DEF SetupInv
<1>2. \A q \in AllRuns : q # r => setup'[q] = setup[q]
  BY <1>1
<1>3. SetupTypeOK'
  BY <1>1, TypeOKMeans, TypeOKNext DEF SetupInv
<1>4. WorldMade'
  BY DEF SetupInv, WorldMade, Made, Ours
<1>5. ASSUME NEW q \in AllRuns
      PROVE  Fine(q)'
  <2>1. CASE q # r
    <3>1. setup'[q] = setup[q] /\ Fine(q)
      BY <1>2, <2>1 DEF SetupInv
    <3>2. RowObject' = RowObject /\ Target' = Target /\ Made' = Made /\ \A o \in Things : Ours(o) <=> Ours(o)'
      BY DEF RowObject, Target, Made, Ours
    <3>3. Speaks(q)'
      BY <3>1, <3>2 DEF Fine, Speaks, At, Ours
    <3>4. InPlace(q)'
      BY <3>1 DEF Fine, InPlace
    <3>5. Knows(q) => Knows(q)'
      BY <3>1, <3>2 DEF Knows, At
    <3>6. Steady(q) => Steady(q)'
      BY <3>1, <3>2 DEF Steady, At
    <3> QED
      BY <3>1, <3>3, <3>4, <3>5, <3>6 DEF Fine
  <2> QED
    BY <2>1
<1>6. NothingForgotten'
  <2>1. ASSUME NEW o \in alive', maker'[o] = "yume", RowObject' # o, o \notin lost'
        PROVE  \E q \in SetupRuns : setup'[q].step = "created" /\ setup'[q].object = o
    <3>1. PICK q \in SetupRuns : setup[q].step = "created" /\ setup[q].object = o
      BY <2>1 DEF SetupInv, NothingForgotten, RowObject, At
    <3>2. q # r
      BY <2>1, <3>1
    <3> QED
      BY <1>2, <3>1, <3>2 DEF AllRuns
  <2> QED
    BY <2>1 DEF NothingForgotten, At
<1> QED
  BY <1>3, <1>4, <1>5, <1>6 DEF SetupInv

LEMMA SetupFacts ==
  ASSUME SetupInv, NEW r \in AllRuns
  PROVE  /\ setup[r] \in Run /\ Fine(r)
         /\ setup \in [AllRuns -> Run] /\ row \in Row /\ lost \in SUBSET Things
         /\ alive \in SUBSET Things /\ named \in SUBSET Things /\ Made \in SUBSET Things
         /\ erased \in SUBSET Things /\ inherited \in SUBSET Things
         /\ maker \in [Things -> {"none", "yume", "people"}]
         /\ ticket \in [Tickets -> Targets \cup {"invalid"}]
         /\ setupFaults \in 0 .. MaxSetupFaults
         /\ alive \subseteq Made /\ named \subseteq Made /\ "none" \notin Things
BY TypeOKMeans, SetupAssumption DEF SetupInv, WorldMade, Made

\* What is read of the registry: an object that was made, YUME's when it is a target.
LEMMA RowReads ==
  ASSUME SetupInv
  PROVE  /\ RowObject \in Made \cup {"none"} /\ RowObject \in Targets
         /\ Target \in Made \cup {"none", "nothing"} /\ Target \in Targets
         /\ Target # "none" /\ Target # "nothing" => Target \in Things /\ Ours(Target) /\ Target = RowObject
         /\ Target = "none" => RowObject = "none"
BY DEF SetupInv, WorldMade, Made, RowObject, Target, Targets

\* Who sees the guild change under it is disturbed and takes nothing of the guild for true
\* any more; what it knows of the row stands.
LEMMA OneDisturbed ==
  ASSUME SetupInv, NEW q \in AllRuns,
         setup'[q] = [setup[q] EXCEPT !.disturbed = @ \/ setup[q].step # "idle"],
         \A o \in Things : maker[o] # "none" => maker'[o] = maker[o],
         inherited \subseteq inherited', row' = row,
         alive' \in SUBSET Things, alive' \cap Made \subseteq alive
  PROVE  /\ setup'[q] \in Run /\ Fine(q)'
         /\ setup'[q].step = setup[q].step /\ setup'[q].object = setup[q].object
<1>1. setup[q] \in Run /\ Fine(q)
  BY TypeOKMeans DEF SetupInv
<1>2. PICK b \in BOOLEAN : b = (setup[q].disturbed \/ setup[q].step # "idle")
  <2>1. (setup[q].disturbed \/ setup[q].step # "idle") \in BOOLEAN
    OBVIOUS
  <2> QED
    BY <2>1, Zenon
<1>3. setup'[q] = [setup[q] EXCEPT !.disturbed = b]
  BY <1>2, Zenon
<1>4. /\ setup'[q] \in Run /\ setup'[q].step = setup[q].step /\ setup'[q].list = setup[q].list
      /\ setup'[q].names = setup[q].names /\ setup'[q].got = setup[q].got
      /\ setup'[q].object = setup[q].object /\ setup'[q].shown = setup[q].shown
      /\ (setup'[q].disturbed <=> b) /\ (setup'[q].crossed <=> setup[q].crossed)
  BY <1>1, <1>3 DEF Run
<1>5. ~setup'[q].disturbed => setup'[q].step = "idle"
  BY <1>2, <1>4
<1>6. Made \subseteq Made' /\ \A o \in Things : Ours(o) => Ours(o)'
  BY DEF Made, Ours
<1>7. Speaks(q)'
  BY <1>1, <1>4, <1>6 DEF Fine, Speaks, At, Ours
<1>8. InPlace(q)'
  BY <1>1, <1>4 DEF Fine, InPlace
<1>9. ~setup'[q].disturbed => Knows(q)'
  BY <1>5 DEF Knows, At
<1>10. ~setup'[q].crossed => Steady(q)'
  <2>1. RowObject' = RowObject /\ Target' = Target /\ RowObject \in Made \cup {"none"}
    BY RowReads DEF RowObject, Target
  <2>2. RowObject \in alive' => RowObject \in alive
    BY <2>1, SetupAssumption
  <2> QED
    BY <1>1, <1>4, <2>1, <2>2 DEF Fine, Steady, At
<1> QED
  BY <1>4, <1>7, <1>8, <1>9, <1>10 DEF Fine

\* Who sees the row change under it is disturbed and crossed, and takes nothing for true.
LEMMA OneCrossed ==
  ASSUME SetupInv, NEW q \in AllRuns,
         setup'[q] = [setup[q] EXCEPT !.disturbed = @ \/ setup[q].step # "idle",
                                      !.crossed = @ \/ setup[q].step # "idle"],
         \A o \in Things : maker[o] # "none" => maker'[o] = maker[o],
         inherited \subseteq inherited'
  PROVE  /\ setup'[q] \in Run /\ Fine(q)'
         /\ setup'[q].step = setup[q].step /\ setup'[q].object = setup[q].object
<1>1. setup[q] \in Run /\ Fine(q)
  BY TypeOKMeans DEF SetupInv
<1>2. PICK b \in BOOLEAN, c \in BOOLEAN : /\ b = (setup[q].disturbed \/ setup[q].step # "idle")
                                          /\ c = (setup[q].crossed \/ setup[q].step # "idle")
  <2>1. /\ (setup[q].disturbed \/ setup[q].step # "idle") \in BOOLEAN
        /\ (setup[q].crossed \/ setup[q].step # "idle") \in BOOLEAN
    OBVIOUS
  <2> QED
    BY <2>1, Zenon
<1>3. setup'[q] = [setup[q] EXCEPT !.disturbed = b, !.crossed = c]
  BY <1>2, Zenon
<1>4. /\ setup'[q] \in Run /\ setup'[q].step = setup[q].step /\ setup'[q].list = setup[q].list
      /\ setup'[q].names = setup[q].names /\ setup'[q].got = setup[q].got
      /\ setup'[q].object = setup[q].object
      /\ (setup'[q].disturbed <=> b) /\ (setup'[q].crossed <=> c)
  BY <1>1, <1>3 DEF Run
<1>5. ~setup'[q].disturbed \/ ~setup'[q].crossed => setup'[q].step = "idle"
  BY <1>2, <1>4
<1>6. Made \subseteq Made' /\ \A o \in Things : Ours(o) => Ours(o)'
  BY DEF Made, Ours
<1>7. Speaks(q)'
  BY <1>1, <1>4, <1>6 DEF Fine, Speaks, At, Ours
<1>8. InPlace(q)'
  BY <1>1, <1>4 DEF Fine, InPlace
<1>9. ~setup'[q].disturbed \/ ~setup'[q].crossed => Knows(q)' /\ Steady(q)'
  BY <1>5 DEF Knows, Steady, At
<1> QED
  BY <1>4, <1>7, <1>8, <1>9 DEF Fine

\* All runs but one are sound already, so is what that one goes on with: the whole is.
LEMMA AllFine ==
  ASSUME SetupInv, NEW r \in AllRuns, NEW t \in Run, setup'[r] = t,
         setup' = [q \in AllRuns |-> setup'[q]],
         \A q \in AllRuns : q # r => setup'[q] \in Run /\ Fine(q)',
         maker' \in [Things -> {"none", "yume", "people"}],
         alive' \in SUBSET Things, named' \in SUBSET Things, row' \in Row,
         erased' \in SUBSET Things, inherited' \in SUBSET Things,
         lost' \in SUBSET Things, setupFaults' \in 0 .. MaxSetupFaults,
         UNCHANGED <<ticket, hands>>,
         WorldMade', NothingForgotten', Fine(r)'
  PROVE  SetupInv'
<1>1. setup' \in [AllRuns -> Run]
  OBVIOUS
<1>2. SetupTypeOK'
  BY <1>1, TypeOKMeans, TypeOKNext DEF SetupInv
<1> QED
  BY <1>2 DEF SetupInv

\* A run changes the guild: what it goes on with and what it leaves behind must be sound.
LEMMA LoudStep ==
  ASSUME SetupInv, NEW r \in AllRuns, NEW t \in Run, Changes(r, t),
         \A o \in Things : maker[o] # "none" => maker'[o] = maker[o],
         inherited \subseteq inherited', alive' \cap Made \subseteq alive,
         maker' \in [Things -> {"none", "yume", "people"}],
         alive' \in SUBSET Things, named' \in SUBSET Things,
         erased' \in SUBSET Things, inherited' \in SUBSET Things,
         lost' \in SUBSET Things, setupFaults' \in 0 .. MaxSetupFaults,
         UNCHANGED <<row, ticket, hands>>,
         WorldMade', NothingForgotten', Fine(r)'
  PROVE  SetupInv'
<1>1. \A q \in AllRuns : q # r => setup'[q] \in Run /\ Fine(q)'
  <2> TAKE q \in AllRuns
  <2> HAVE q # r
  <2>1. setup'[q] = [setup[q] EXCEPT !.disturbed = @ \/ setup[q].step # "idle"]
    BY Zenon DEF Changes
  <2> QED
    BY <2>1, OneDisturbed
<1>2. setup'[r] = t /\ setup' = [q \in AllRuns |-> setup'[q]]
  BY Zenon DEF Changes
<1>3. row' \in Row
  BY SetupFacts
<1> QED
  BY <1>1, <1>2, <1>3, AllFine

\* A run writes the row.
LEMMA WritesStep ==
  ASSUME SetupInv, NEW r \in AllRuns, NEW t \in Run, Writes(r, t),
         inherited \subseteq inherited',
         UNCHANGED <<maker, alive, named, erased, ticket, hands, setupFaults>>, row' \in Row,
         inherited' \in SUBSET Things, lost' \in SUBSET Things,
         WorldMade', NothingForgotten', Fine(r)'
  PROVE  SetupInv'
<1>1. \A q \in AllRuns : q # r => setup'[q] \in Run /\ Fine(q)'
  <2> TAKE q \in AllRuns
  <2> HAVE q # r
  <2>1. setup'[q] = [setup[q] EXCEPT !.disturbed = @ \/ setup[q].step # "idle",
                                     !.crossed = @ \/ setup[q].step # "idle"]
    BY Zenon DEF Writes
  <2> QED
    BY <2>1, OneCrossed
<1>2. setup'[r] = t /\ setup' = [q \in AllRuns |-> setup'[q]]
  BY Zenon DEF Writes
<1> QED
  BY <1>1, <1>2, SetupFacts, AllFine

LEMMA LoudFacts ==
  ASSUME SetupInv, NEW r \in AllRuns, NEW t, Changes(r, t)
  PROVE  /\ setup'[r] = t
         /\ \A q \in AllRuns : q # r =>
              setup'[q].step = setup[q].step /\ setup'[q].object = setup[q].object
<1>1. setup'[r] = t
  BY Zenon DEF Changes
<1>2. ASSUME NEW q \in AllRuns, q # r
      PROVE  setup'[q].step = setup[q].step /\ setup'[q].object = setup[q].object
  <2>1. setup'[q] = [setup[q] EXCEPT !.disturbed = @ \/ setup[q].step # "idle"]
    BY <1>2, Zenon DEF Changes
  <2>2. setup[q] \in Run
    BY TypeOKMeans DEF SetupInv
  <2> QED
    BY <2>1, <2>2 DEF Run
<1> QED
  BY <1>1, <1>2

LEMMA WritesFacts ==
  ASSUME SetupInv, NEW r \in AllRuns, NEW t, Writes(r, t)
  PROVE  /\ setup'[r] = t
         /\ \A q \in AllRuns : q # r =>
              setup'[q].step = setup[q].step /\ setup'[q].object = setup[q].object
<1>1. setup'[r] = t
  BY Zenon DEF Writes
<1>2. ASSUME NEW q \in AllRuns, q # r
      PROVE  setup'[q].step = setup[q].step /\ setup'[q].object = setup[q].object
  <2>1. setup'[q] = [setup[q] EXCEPT !.disturbed = @ \/ setup[q].step # "idle",
                                     !.crossed = @ \/ setup[q].step # "idle"]
    BY <1>2, Zenon DEF Writes
  <2>2. setup[q] \in Run
    BY TypeOKMeans DEF SetupInv
  <2> QED
    BY <2>1, <2>2 DEF Run
<1> QED
  BY <1>1, <1>2

\* What a run knows when both answers are in: the guild and the registry as they are,
\* unless it was disturbed; what the row answers with, and that it is in the list if it is
\* alive, unless it was crossed.
LEMMA BothAnswers ==
  ASSUME SetupInv, NEW r \in AllRuns
  PROVE  /\ List(r) \subseteq Made /\ Names(r) \subseteq Made /\ Object(r) \in Made \cup {"none", "nothing"}
         /\ ~setup[r].disturbed /\ setup[r].step = "plan" /\ setup[r].got # "nothing" =>
              List(r) = alive /\ Object(r) = RowObject /\ Names(r) = alive \cap named
         /\ ~setup[r].crossed /\ setup[r].step \in {"resync", "plan"} /\ setup[r].got # "nothing" =>
              Object(r) = RowObject /\ (RowObject \in alive => RowObject \in List(r))
<1>1. Fine(r) /\ setup[r] \in Run /\ alive \subseteq Made /\ named \subseteq Made
  BY SetupFacts
<1>2. RowObject \in Made \cup {"none"}
  BY RowReads
<1>3. setup[r].got \in {"nothing", "list", "row"}
  BY <1>1 DEF Run
<1>4. /\ List(r) \subseteq Made /\ Names(r) \subseteq Made /\ Object(r) \in Made \cup {"none", "nothing"}
  BY <1>1, <1>2 DEF List, Names, Object, Fine, Speaks
<1>5. ASSUME ~setup[r].disturbed, setup[r].step = "plan", setup[r].got # "nothing"
      PROVE  List(r) = alive /\ Object(r) = RowObject /\ Names(r) = alive \cap named
  BY <1>1, <1>3, <1>5 DEF List, Names, Object, Fine, Knows, At
<1>6. ASSUME ~setup[r].crossed, setup[r].step \in {"resync", "plan"}, setup[r].got # "nothing"
      PROVE  Object(r) = RowObject /\ (RowObject \in alive => RowObject \in List(r))
  BY <1>1, <1>3, <1>6 DEF List, Object, Fine, Steady, At
<1> QED
  BY <1>4, <1>5, <1>6

LEMMA FetchesListKeeps ==
  ASSUME SetupInv, NEW r \in AllRuns, FetchesList(r)
  PROVE  SetupInv'
<1>1. setup[r] \in Run /\ Fine(r) /\ setup \in [AllRuns -> Run]
  BY SetupFacts
<1>2. PICK t : t = [setup[r] EXCEPT !.list = alive, !.got = "list",
                                    !.names = IF At(r, "plan") THEN alive \cap named ELSE {}]
  OBVIOUS
<1>3. /\ setup[r].step \in {"resync", "plan"} /\ setup' = [setup EXCEPT ![r] = t]
      /\ UNCHANGED <<maker, alive, named, row, ticket, erased, inherited, lost, hands, setupFaults>>
  BY <1>2 DEF FetchesList, GoesOn, discord, ledger, trouble
<1>4. /\ t \in Run /\ t.step = setup[r].step /\ t.list = alive /\ t.got = "list"
      /\ t.names = IF setup[r].step = "plan" THEN alive \cap named ELSE {}
      /\ t.object = setup[r].object /\ (t.disturbed <=> setup[r].disturbed)
      /\ (t.crossed <=> setup[r].crossed)
  <2>1. alive \in SUBSET Things /\ named \in SUBSET Things
    BY SetupFacts
  <2> QED
    BY <1>1, <1>2, <2>1 DEF Run, At
<1>5. Fine(r)'
  <2>1. setup'[r] = t
    BY <1>1, <1>3
  <2>2. alive \subseteq Made /\ named \subseteq Made
    BY SetupFacts
  <2> QED
    BY <1>1, <1>3, <1>4, <2>1, <2>2 DEF Fine, Speaks, Knows, Steady, InPlace, At, Made
<1> QED
  BY <1>3, <1>4, <1>5, SetupFacts, QuietStep

LEMMA ReadsRowKeeps ==
  ASSUME SetupInv, NEW r \in AllRuns, ReadsRow(r)
  PROVE  SetupInv'
<1>1. setup[r] \in Run /\ Fine(r) /\ setup \in [AllRuns -> Run]
  BY SetupFacts
<1>2. PICK t : t = [setup[r] EXCEPT !.object = RowObject, !.got = "row",
                                    !.no = IF At(r, "resync") THEN row.no ELSE 0]
  OBVIOUS
<1>3. /\ setup[r].step \in {"resync", "plan"} /\ setup' = [setup EXCEPT ![r] = t]
      /\ UNCHANGED <<maker, alive, named, row, ticket, erased, inherited, lost, hands, setupFaults>>
  BY <1>2 DEF ReadsRow, GoesOn, discord, ledger, trouble
<1>4. /\ t \in Run /\ t.step = setup[r].step /\ t.list = setup[r].list /\ t.got = "row"
      /\ t.names = setup[r].names
      /\ t.object = RowObject /\ (t.disturbed <=> setup[r].disturbed)
      /\ (t.crossed <=> setup[r].crossed)
  <2>1. RowObject \in Targets
    BY RowReads
  <2>2. (IF At(r, "resync") THEN row.no ELSE 0) \in 0 .. MaxRows
    BY SetupFacts, SetupAssumption DEF Row
  <2> QED
    BY <1>1, <1>2, <2>1, <2>2 DEF Run
<1>5. Fine(r)'
  <2>1. setup'[r] = t
    BY <1>1, <1>3
  <2>2. RowObject \in Made \cup {"none"} /\ RowObject' = RowObject /\ Made' = Made
    BY <1>3, RowReads DEF RowObject, Made
  <2> QED
    BY <1>1, <1>3, <1>4, <2>1, <2>2 DEF Fine, Speaks, Knows, Steady, InPlace, At
<1> QED
  BY <1>3, <1>4, <1>5, SetupFacts, QuietStep

\* A run is over, and the rest stands.
LEMMA RestsKeeps ==
  ASSUME SetupInv, NEW r \in AllRuns, setup' = [setup EXCEPT ![r] = Resting],
         UNCHANGED <<maker, alive, named, row, erased, inherited, hands>>,
         ticket' \in [Tickets -> Targets \cup {"invalid"}],
         setupFaults' \in 0 .. MaxSetupFaults, lost' \in SUBSET Things, lost \subseteq lost',
         setup[r].step = "created" => setup[r].object \in lost'
  PROVE  SetupInv'
<1>1. setup'[r] = Resting
  BY SetupFacts
<1>2. Fine(r)'
  BY <1>1, RestingRun DEF Fine, Speaks, Knows, Steady, InPlace, At
<1> QED
  BY <1>2, RestingRun, QuietStep

LEMMA AnswersKeeps ==
  ASSUME SetupInv, NEW r \in SetupRuns, Answers(r)
  PROVE  SetupInv'
<1>1. /\ r \in AllRuns /\ setup[r].step = "ok" /\ setup' = [setup EXCEPT ![r] = Resting]
      /\ UNCHANGED <<maker, alive, named, row, ticket, erased, inherited, lost, hands, setupFaults>>
  BY DEF Answers, GoesOn, At, AllRuns, discord, ledger, trouble
<1> QED
  BY <1>1, SetupFacts, RestsKeeps

LEMMA OneFaultMore ==
  ASSUME SetupInv, setupFaults < MaxSetupFaults, setupFaults' = setupFaults + 1
  PROVE  setupFaults' \in 0 .. MaxSetupFaults
<1>1. setupFaults \in 0 .. MaxSetupFaults
  BY TypeOKMeans DEF SetupInv
<1> QED
  BY <1>1, SetupAssumption

LEMMA IsBlockedKeeps ==
  ASSUME SetupInv, NEW r \in SetupRuns, IsBlocked(r)
  PROVE  SetupInv'
<1>1. /\ r \in AllRuns /\ setup[r].step = "plan" /\ setup' = [setup EXCEPT ![r] = Resting]
      /\ UNCHANGED <<maker, alive, named, row, ticket, erased, inherited, lost, hands>>
      /\ setupFaults < MaxSetupFaults /\ setupFaults' = setupFaults + 1
  BY DEF IsBlocked, GoesOn, At, AllRuns, discord, ledger
<1> QED
  BY <1>1, SetupFacts, OneFaultMore, RestsKeeps

LEMMA CallFailsKeeps ==
  ASSUME SetupInv, NEW r \in AllRuns, CallFails(r)
  PROVE  SetupInv'
<1>1. /\ setup[r].step # "created" /\ setup' = [setup EXCEPT ![r] = Resting]
      /\ UNCHANGED <<maker, alive, named, row, ticket, erased, inherited, lost, hands>>
      /\ setupFaults < MaxSetupFaults /\ setupFaults' = setupFaults + 1
  BY DEF CallFails, GoesOn, discord, ledger
<1> QED
  BY <1>1, SetupFacts, OneFaultMore, RestsKeeps

LEMMA DiesKeeps ==
  ASSUME SetupInv, NEW r \in AllRuns, Dies(r)
  PROVE  SetupInv'
<1>1. /\ setup' = [setup EXCEPT ![r] = Resting]
      /\ lost' = IF setup[r].step = "created" THEN lost \cup {setup[r].object} ELSE lost
      /\ UNCHANGED <<maker, alive, named, row, ticket, erased, inherited, hands>>
      /\ setupFaults < MaxSetupFaults /\ setupFaults' = setupFaults + 1
  BY DEF Dies, GoesOn, At, discord, ledger
<1>2. setup[r].step = "created" => setup[r].object \in Things
  BY SetupFacts DEF Fine, Speaks, At
<1> QED
  BY <1>1, <1>2, SetupFacts, OneFaultMore, RestsKeeps

LEMMA BeginsKeeps ==
  ASSUME SetupInv, NEW r \in SetupRuns, Begins(r)
  PROVE  SetupInv'
<1>1. setup[r] \in Run /\ Fine(r) /\ setup \in [AllRuns -> Run] /\ r \in AllRuns
  BY SetupFacts DEF AllRuns
<1>2. PICK step \in {"plan", "resync"} : setup' = [setup EXCEPT ![r] = [Resting EXCEPT !.step = step]]
  BY DEF Begins, GoesOn
<1>3. PICK t : t = [Resting EXCEPT !.step = step]
  OBVIOUS
<1>4. /\ setup[r].step = "idle" /\ setup' = [setup EXCEPT ![r] = t]
      /\ UNCHANGED <<maker, alive, named, row, ticket, erased, inherited, lost, hands, setupFaults>>
  BY <1>2, <1>3 DEF Begins, At, discord, ledger, trouble
<1>5. t \in Run /\ t.step = step /\ t.list = {} /\ t.names = {} /\ t.got = "nothing" /\ t.object = "none"
  BY <1>3, RestingRun DEF Run, Steps
<1>6. Fine(r)'
  <2>1. setup'[r] = t /\ r \notin ResetRuns
    BY <1>1, <1>4, SetupAssumption
  <2> QED
    BY <1>4, <1>5, <2>1 DEF Fine, Speaks, Knows, Steady, InPlace, At
<1> QED
  BY <1>1, <1>4, <1>5, <1>6, SetupFacts, QuietStep

LEMMA FindsGoneKeeps ==
  ASSUME SetupInv, NEW r \in SetupRuns, FindsGone(r)
  PROVE  SetupInv'
<1>1. setup[r] \in Run /\ Fine(r) /\ setup \in [AllRuns -> Run] /\ r \in AllRuns
  BY SetupFacts DEF AllRuns
<1>2. PICK t : t = [To(r, "orphaning") EXCEPT !.no = RowNo(r), !.got = "nothing", !.list = {},
                                              !.object = "none"]
  OBVIOUS
<1>3. /\ setup[r].step = "resync" /\ setup' = [setup EXCEPT ![r] = t]
      /\ UNCHANGED <<maker, alive, named, row, ticket, erased, inherited, lost, hands, setupFaults>>
      /\ setup[r].got # "nothing" /\ Object(r) \in Things \ List(r)
  BY <1>2 DEF FindsGone, GoesOn, At, discord, ledger, trouble
<1>4. /\ t \in Run /\ t.step = "orphaning" /\ t.list = {} /\ t.names = setup[r].names /\ t.got = "nothing"
      /\ t.object = "none" /\ (t.disturbed <=> setup[r].disturbed) /\ (t.crossed <=> setup[r].crossed)
  <2>1. RowNo(r) \in 0 .. MaxRows
    BY <1>1, SetupFacts DEF RowNo, Run, Row
  <2> QED
    BY <1>1, <1>2, <2>1 DEF To, Run, Steps, Targets
<1>5. Fine(r)'
  <2>1. setup'[r] = t /\ RowObject' = RowObject /\ Made' = Made
    BY <1>1, <1>3 DEF RowObject, Made
  <2>2. ~setup[r].crossed => RowObject \notin alive
    BY <1>1, <1>3, BothAnswers
  <2>3. r \notin ResetRuns
    BY SetupAssumption
  <2> QED
    BY <1>1, <1>3, <1>4, <2>1, <2>2, <2>3 DEF Fine, Speaks, Knows, Steady, InPlace, At
<1> QED
  BY <1>1, <1>3, <1>4, <1>5, SetupFacts, QuietStep

\* After a resync a run is over, or it plans.
LEMMA ResyncedRun ==
  ASSUME NEW t \in Resynced
  PROVE  /\ t \in Run /\ t.step \in {"idle", "plan"} /\ t.list = {} /\ t.names = {} /\ t.got = "nothing"
         /\ t.object = "none"
<1>1. CASE t = Resting
  BY <1>1, RestingRun
<1>2. CASE t = [Resting EXCEPT !.step = "plan"]
  BY <1>2, RestingRun DEF Run, Steps
<1> QED
  BY <1>1, <1>2 DEF Resynced

LEMMA FindsAllThereKeeps ==
  ASSUME SetupInv, NEW r \in SetupRuns, FindsAllThere(r)
  PROVE  SetupInv'
<1>1. setup[r] \in Run /\ Fine(r) /\ setup \in [AllRuns -> Run] /\ r \in AllRuns
  BY SetupFacts DEF AllRuns
<1>2. PICK t \in Resynced : setup' = [setup EXCEPT ![r] = t]
  BY DEF FindsAllThere, GoesOn
<1>3. /\ setup[r].step = "resync"
      /\ UNCHANGED <<maker, alive, named, row, ticket, erased, inherited, lost, hands, setupFaults>>
  BY DEF FindsAllThere, At, discord, ledger, trouble
<1>4. Fine(r)'
  <2>1. setup'[r] = t /\ r \notin ResetRuns
    BY <1>1, <1>2, SetupAssumption
  <2> QED
    BY <1>1, <1>3, <2>1, ResyncedRun DEF Fine, Speaks, Knows, Steady, InPlace, At
<1> QED
  BY <1>1, <1>2, <1>3, <1>4, ResyncedRun, SetupFacts, QuietStep

LEMMA GetsRowKeeps ==
  ASSUME SetupInv, NEW r \in ResetRuns, GetsRow(r)
  PROVE  SetupInv'
<1>1. setup[r] \in Run /\ Fine(r) /\ setup \in [AllRuns -> Run] /\ r \in AllRuns
  BY SetupFacts DEF AllRuns
<1>2. /\ setup[r].step = "deleted"
      /\ UNCHANGED <<maker, alive, named, row, ticket, erased, inherited, lost, hands, setupFaults>>
  BY DEF GetsRow, At, discord, ledger, trouble
<1>3. CASE ~row.open
  <2>1. setup' = [setup EXCEPT ![r] = Resting]
    BY <1>3 DEF GetsRow, GoesOn
  <2> QED
    BY <1>1, <1>2, <2>1, SetupFacts, RestsKeeps
<1>4. CASE row.open
  <2>1. PICK t : t = [To(r, "closing") EXCEPT !.no = row.no]
    OBVIOUS
  <2>2. setup' = [setup EXCEPT ![r] = t]
    BY <1>4, <2>1 DEF GetsRow, GoesOn
  <2>3. /\ t \in Run /\ t.step = "closing" /\ t.list = setup[r].list /\ t.names = setup[r].names
        /\ t.object = setup[r].object /\ (t.disturbed <=> setup[r].disturbed)
      /\ (t.crossed <=> setup[r].crossed)
    <3>1. row.no \in 0 .. MaxRows
      BY <1>1, SetupFacts DEF Row
    <3> QED
      BY <1>1, <2>1, <3>1 DEF To, Run, Steps
  <2>4. Fine(r)'
    <3>1. setup'[r] = t /\ RowObject' = RowObject /\ Made' = Made /\ r \notin SetupRuns
      BY <1>1, <1>2, <2>2, SetupAssumption DEF RowObject, Made
    <3> QED
      BY <1>1, <1>2, <2>3, <3>1 DEF Fine, Speaks, Knows, Steady, InPlace, At
  <2> QED
    BY <1>1, <1>2, <2>2, <2>3, <2>4, SetupFacts, QuietStep
<1> QED
  BY <1>3, <1>4

\* The decision of plan(): what it does, and with which object.
LEMMA DecisionFacts ==
  ASSUME NEW object, NEW list \in SUBSET Things, NEW names, "none" \notin Things,
         NEW d, d = Decision(object, list, names)
  PROVE  \/ d.step = "ok" /\ d.from = {object} /\ object \in list \cap names
         \/ d.step = "updating" /\ d.from = {object} /\ object \in list
         \/ d.step = "adopting" /\ d.from = names /\ object = "none"
         \/ d.step = "creating" /\ d.from = {"none"} /\ object \notin list
<1>1. CASE object \in list \cap names
  <2>1. Decision(object, list, names) = [step |-> "ok", from |-> {object}]
    BY <1>1 DEF Decision
  <2> QED
    BY <1>1, <2>1
<1>2. CASE object \in list \ names
  <2>1. Decision(object, list, names) = [step |-> "updating", from |-> {object}]
    BY <1>2 DEF Decision
  <2> QED
    BY <1>2, <2>1
<1>3. CASE object \notin list /\ object = "none" /\ names # {}
  <2>1. Decision(object, list, names) = [step |-> "adopting", from |-> names]
    BY <1>3 DEF Decision
  <2> QED
    BY <1>3, <2>1
<1>4. CASE object \notin list /\ ~(object = "none" /\ names # {})
  <2>1. Decision(object, list, names) = [step |-> "creating", from |-> {"none"}]
    BY <1>4 DEF Decision
  <2> QED
    BY <1>4, <2>1
<1> QED
  BY <1>1, <1>2, <1>3, <1>4

LEMMA PlansKeeps ==
  ASSUME SetupInv, NEW r \in SetupRuns, Plans(r)
  PROVE  SetupInv'
<1>1. setup[r] \in Run /\ Fine(r) /\ setup \in [AllRuns -> Run] /\ r \in AllRuns
  BY SetupFacts DEF AllRuns
<1>2. PICK d : d = Decision(Object(r), List(r), Names(r))
  OBVIOUS
<1>3. PICK o \in d.from :
        setup' = [setup EXCEPT ![r] = [Resting EXCEPT !.step = d.step, !.object = o,
                                                      !.crossed = setup[r].crossed,
                                                      !.disturbed = setup[r].disturbed]]
  BY <1>2 DEF Plans, GoesOn
<1>4. PICK t : t = [Resting EXCEPT !.step = d.step, !.object = o, !.crossed = setup[r].crossed,
                                   !.disturbed = setup[r].disturbed]
  OBVIOUS
<1>5. /\ setup[r].step = "plan" /\ setup[r].got # "nothing" /\ setup' = [setup EXCEPT ![r] = t]
      /\ UNCHANGED <<maker, alive, named, row, ticket, erased, inherited, lost, hands, setupFaults>>
  BY <1>3, <1>4 DEF Plans, At, discord, ledger, trouble
<1>6. /\ List(r) \subseteq Made /\ Names(r) \subseteq Made /\ Object(r) \in Made \cup {"none", "nothing"}
      /\ ~setup[r].disturbed =>
           List(r) = alive /\ Object(r) = RowObject /\ Names(r) = alive \cap named
      /\ ~setup[r].crossed =>
           Object(r) = RowObject /\ (RowObject \in alive => RowObject \in List(r))
  BY <1>1, <1>5, BothAnswers
<1>7. Made \in SUBSET Things /\ "none" \notin Things
  BY <1>1, SetupFacts
<1>8. \/ d.step = "ok" /\ o = Object(r) /\ o \in List(r) \cap Names(r)
      \/ d.step = "updating" /\ o = Object(r) /\ o \in List(r)
      \/ d.step = "adopting" /\ o \in Names(r) /\ Object(r) = "none"
      \/ d.step = "creating" /\ o = "none" /\ Object(r) \notin List(r)
  <2>1. List(r) \in SUBSET Things
    BY <1>6, <1>7
  <2>2. \/ d.step = "ok" /\ d.from = {Object(r)} /\ Object(r) \in List(r) \cap Names(r)
        \/ d.step = "updating" /\ d.from = {Object(r)} /\ Object(r) \in List(r)
        \/ d.step = "adopting" /\ d.from = Names(r) /\ Object(r) = "none"
        \/ d.step = "creating" /\ d.from = {"none"} /\ Object(r) \notin List(r)
    <3>1. \A object, names, e : \A list \in SUBSET Things : e = Decision(object, list, names) =>
            \/ e.step = "ok" /\ e.from = {object} /\ object \in list \cap names
            \/ e.step = "updating" /\ e.from = {object} /\ object \in list
            \/ e.step = "adopting" /\ e.from = names /\ object = "none"
            \/ e.step = "creating" /\ e.from = {"none"} /\ object \notin list
      BY <1>7, DecisionFacts
    <3> QED
      BY <1>2, <2>1, <3>1
  <2> QED
    BY <1>3, <2>2
<1>9. /\ t \in Run /\ t.step = d.step /\ t.list = {} /\ t.names = {} /\ t.got = "nothing"
      /\ t.object = o /\ (t.disturbed <=> setup[r].disturbed)
      /\ (t.crossed <=> setup[r].crossed)
  <2>1. setup[r].disturbed \in BOOLEAN /\ setup[r].crossed \in BOOLEAN
    BY <1>1 DEF Run
  <2>2. o \in Targets /\ d.step \in Steps
    BY <1>6, <1>7, <1>8 DEF Targets, Steps
  <2> QED
    BY <1>4, <2>1, <2>2, RestingRun DEF Run
<1>10. Fine(r)'
  <2>1. setup'[r] = t /\ RowObject' = RowObject /\ Made' = Made /\ r \notin ResetRuns
    BY <1>1, <1>5, SetupAssumption DEF RowObject, Made
  <2>2. o \in Made \cup {"none", "nothing"}
    BY <1>6, <1>8
  <2>3. Speaks(r)'
    BY <1>6, <1>8, <1>9, <2>1, <2>2 DEF Speaks, At
  <2>4. InPlace(r)'
    BY <1>8, <1>9, <2>1 DEF InPlace
  <2>5. ~setup[r].disturbed => Knows(r)'
    BY <1>5, <1>6, <1>8, <1>9, <2>1 DEF Knows, At
  <2>6. ~setup[r].crossed => Steady(r)'
    <3>1. "none" \notin alive
      BY <1>1, <1>7, SetupFacts
    <3> QED
      BY <1>5, <1>6, <1>8, <1>9, <2>1, <3>1 DEF Steady, At
  <2> QED
    BY <1>9, <2>1, <2>3, <2>4, <2>5, <2>6 DEF Fine
<1> QED
  BY <1>1, <1>5, <1>9, <1>10, SetupFacts, QuietStep

LEMMA AsksResetKeeps ==
  ASSUME SetupInv, NEW r \in ResetRuns, NEW k \in Tickets, AsksReset(r, k)
  PROVE  SetupInv'
<1>1. setup[r] \in Run /\ Fine(r) /\ setup \in [AllRuns -> Run] /\ r \in AllRuns
  BY SetupFacts DEF AllRuns
<1>2. PICK t : t = [Resting EXCEPT !.step = "checking", !.ticket = k, !.object = Target]
  OBVIOUS
<1>3. /\ setup[r].step = "idle" /\ setup' = [setup EXCEPT ![r] = t]
      /\ UNCHANGED <<maker, alive, named, row, ticket, erased, inherited, lost, hands, setupFaults>>
  BY <1>2 DEF AsksReset, GoesOn, At, discord, ledger, trouble
<1>4. t \in Run /\ t.step = "checking" /\ t.list = {} /\ t.names = {} /\ t.got = "nothing" /\ t.object = Target
  BY <1>2, RestingRun, RowReads DEF Run, Steps
<1>5. Fine(r)'
  <2>1. setup'[r] = t /\ Target' = Target /\ Made' = Made /\ r \notin SetupRuns
    BY <1>1, <1>3, SetupAssumption DEF Target, Made
  <2> QED
    BY <1>3, <1>4, <2>1, RowReads DEF Fine, Speaks, Knows, Steady, InPlace, At
<1> QED
  BY <1>1, <1>3, <1>4, <1>5, SetupFacts, QuietStep

LEMMA ConsumesKeeps ==
  ASSUME SetupInv, NEW r \in ResetRuns, Consumes(r)
  PROVE  SetupInv'
<1>1. setup[r] \in Run /\ Fine(r) /\ setup \in [AllRuns -> Run] /\ r \in AllRuns
  BY SetupFacts DEF AllRuns
<1>2. /\ setup[r].step = "checking"
      /\ UNCHANGED <<maker, alive, named, row, erased, inherited, lost, hands, setupFaults>>
      /\ ticket' \in [Tickets -> Targets \cup {"invalid"}]
  BY <1>1, SetupFacts DEF Consumes, At, discord, trouble
<1>3. CASE setup' = [setup EXCEPT ![r] = Resting]
  BY <1>1, <1>2, <1>3, SetupFacts, RestsKeeps
<1>4. CASE setup' = [setup EXCEPT ![r] = [To(r, "relisting") EXCEPT !.ticket = "none",
                                                                    !.shown = setup[r].object]]
  <2>1. PICK t : t = [To(r, "relisting") EXCEPT !.ticket = "none", !.shown = setup[r].object]
    OBVIOUS
  <2>2. /\ t \in Run /\ t.step = "relisting" /\ t.list = setup[r].list /\ t.names = setup[r].names
        /\ t.object = setup[r].object /\ (t.disturbed <=> setup[r].disturbed)
      /\ (t.crossed <=> setup[r].crossed)
        /\ t.shown = setup[r].object
    BY <1>1, <2>1 DEF To, Run, Steps
  <2>3. Fine(r)'
    <3>1. setup'[r] = t /\ Target' = Target /\ Made' = Made /\ r \notin SetupRuns
      BY <1>1, <1>2, <1>4, <2>1, SetupAssumption DEF Target, Made
    <3> QED
      BY <1>1, <1>2, <2>2, <3>1 DEF Fine, Speaks, Knows, Steady, InPlace, At
  <2> QED
    BY <1>1, <1>2, <1>4, <2>1, <2>2, <2>3, SetupFacts, QuietStep
<1> QED
  BY <1>3, <1>4 DEF Consumes, GoesOn

\* factoryReset() reads the targets again: what it goes on with is the target of now,
\* and the one its ticket showed as long as no other run wrote the row.
LEMMA RelistsKeeps ==
  ASSUME SetupInv, NEW r \in ResetRuns, Relists(r)
  PROVE  SetupInv'
<1>1. setup[r] \in Run /\ Fine(r) /\ setup \in [AllRuns -> Run] /\ r \in AllRuns
  BY SetupFacts DEF AllRuns
<1>2. /\ setup[r].step = "relisting"
      /\ UNCHANGED <<maker, alive, named, row, ticket, erased, inherited, lost, hands, setupFaults>>
  BY DEF Relists, At, discord, ledger, trouble
<1>3. CASE Target = "nothing"
  <2>1. setup' = [setup EXCEPT ![r] = Resting]
    BY <1>3 DEF Relists, GoesOn
  <2> QED
    BY <1>1, <1>2, <2>1, SetupFacts, RestsKeeps
<1>4. CASE Target = "none"
  <2>1. PICK t : t = [To(r, "deleted") EXCEPT !.object = "none"]
    OBVIOUS
  <2>2. setup' = [setup EXCEPT ![r] = t]
    BY <1>4, <2>1 DEF Relists, GoesOn
  <2>3. /\ t \in Run /\ t.step = "deleted" /\ t.list = setup[r].list /\ t.names = setup[r].names
        /\ t.object = "none"
    BY <1>1, <2>1 DEF To, Run, Steps, Targets
  <2>4. Fine(r)'
    <3>1. setup'[r] = t /\ RowObject' = RowObject /\ Made' = Made /\ r \notin SetupRuns
      BY <1>1, <1>2, <2>2, SetupAssumption DEF RowObject, Made
    <3>2. RowObject = "none" /\ "none" \notin alive
      BY <1>1, <1>4, RowReads, SetupFacts
    <3> QED
      BY <1>1, <1>2, <2>3, <3>1, <3>2 DEF Fine, Speaks, Knows, Steady, InPlace, At
  <2> QED
    BY <1>1, <1>2, <2>2, <2>3, <2>4, SetupFacts, QuietStep
<1>5. CASE Target # "nothing" /\ Target # "none"
  <2>2. PICK t : t = [To(r, "deleting") EXCEPT !.object = Target]
    OBVIOUS
  <2>3. setup' = [setup EXCEPT ![r] = t]
    BY <1>5, <2>2 DEF Relists, GoesOn
  <2>4. /\ t \in Run /\ t.step = "deleting" /\ t.list = setup[r].list /\ t.names = setup[r].names
        /\ t.object = Target /\ t.shown = setup[r].shown
        /\ (t.disturbed <=> setup[r].disturbed) /\ (t.crossed <=> setup[r].crossed)
    <3>1. Target \in Targets
      BY RowReads
    <3> QED
      BY <1>1, <2>2, <3>1 DEF To, Run, Steps
  <2>5. Fine(r)'
    <3>1. /\ setup'[r] = t /\ RowObject' = RowObject /\ Made' = Made /\ r \notin SetupRuns
          /\ \A o \in Things : Ours(o) <=> Ours(o)'
      BY <1>1, <1>2, <2>3, SetupAssumption DEF RowObject, Made, Ours
    <3>2. Target \in Things /\ Ours(Target) /\ Target = RowObject /\ Target \in Made \cup {"none", "nothing"}
      BY <1>5, RowReads
    <3>3. Speaks(r)'
      <4>1. \A o \in Things : o = Target => (Ours(o))'
        BY <3>1, <3>2
      <4>2. (setup[r].object)' = Target
        BY <2>4, <3>1
      <4> QED
        BY <1>1, <2>4, <3>1, <3>2, <4>1, <4>2 DEF Fine, Speaks, At, Ours
    <3>4. InPlace(r)'
      BY <2>4, <3>1 DEF InPlace
    <3>5. Knows(r)'
      BY <2>4, <3>1 DEF Knows, At
    <3>6. ~setup[r].crossed => Steady(r)'
      BY <1>1, <1>2, <2>4, <3>1, <3>2 DEF Fine, Steady, At
    <3> QED
      BY <2>4, <3>1, <3>3, <3>4, <3>5, <3>6 DEF Fine
  <2> QED
    BY <1>1, <1>2, <2>3, <2>4, <2>5, SetupFacts, QuietStep
<1> QED
  BY <1>3, <1>4, <1>5

\* ---- what changes the registry or the guild

\* A run writes the row: if no other crossed it, what it writes out of the row is gone.
LEMMA WrittenKeeps ==
  ASSUME SetupInv, NEW r \in AllRuns, RowIsWritten(r), UNCHANGED <<maker, alive>>,
         ~setup[r].crossed => RowObject \notin alive,
         setup[r].step = "created" => RowObject' = setup[r].object,
         \A q \in AllRuns : q # r =>
           setup'[q].step = setup[q].step /\ setup'[q].object = setup[q].object
  PROVE  NothingForgotten' /\ lost' \in SUBSET Things
<1>1. /\ lost \in SUBSET Things /\ alive \in SUBSET Things /\ "none" \notin Things
      /\ RowObject \in Things \cup {"none"}
  BY SetupFacts, RowReads
<1>2. lost' = (IF setup[r].crossed THEN lost \cup {RowObject} ELSE lost) \ {RowObject', "none"}
  BY DEF RowIsWritten
<1>3. lost' \in SUBSET Things
  BY <1>1, <1>2
<1>4. NothingForgotten'
  <2> SUFFICES ASSUME NEW p \in alive, maker[p] = "yume", RowObject' # p, p \notin lost'
               PROVE  \E q \in SetupRuns : setup'[q].step = "created" /\ setup'[q].object = p
    BY DEF NothingForgotten, At
  <2>1. p \notin lost /\ RowObject # p
    BY <1>1, <1>2
  <2>2. PICK q \in SetupRuns : setup[q].step = "created" /\ setup[q].object = p
    BY <2>1 DEF SetupInv, NothingForgotten, At
  <2>3. q # r
    BY <2>2
  <2> QED
    BY <2>2, <2>3 DEF AllRuns
<1> QED
  BY <1>3, <1>4

LEMMA OrphansKeeps ==
  ASSUME SetupInv, NEW r \in SetupRuns, Orphans(r)
  PROVE  SetupInv'
<1>1. setup[r] \in Run /\ Fine(r) /\ r \in AllRuns /\ row \in Row /\ alive \in SUBSET Things
  BY SetupFacts DEF AllRuns
<1>2. PICK t \in Resynced : Writes(r, t)
  BY DEF Orphans
<1>3. /\ setup[r].step = "orphaning" /\ RowIsWritten(r)
      /\ row' = [row EXCEPT !.object = "none"] \/ row' = row
      /\ UNCHANGED <<maker, alive, named, ticket, erased, inherited, hands, setupFaults>>
  BY DEF Orphans, At, discord, ledger
<1>4. /\ setup'[r] = t
      /\ \A q \in AllRuns : q # r =>
           setup'[q].step = setup[q].step /\ setup'[q].object = setup[q].object
  BY <1>1, <1>2, WritesFacts
<1>5. ~setup[r].crossed => RowObject \notin alive
  BY <1>1, <1>3 DEF Fine, Steady, At
<1>6. row' \in Row
  BY <1>1, <1>3 DEF Row
<1>7. WorldMade'
  BY <1>1, <1>3 DEF SetupInv, WorldMade, Made, Ours, Row
<1>8. Fine(r)'
  BY <1>1, <1>2, <1>3, <1>4, ResyncedRun, SetupAssumption DEF Fine, Speaks, Knows, Steady, InPlace, At
<1>9. NothingForgotten' /\ lost' \in SUBSET Things
  BY <1>3, <1>1, <1>4, <1>5, WrittenKeeps
<1> QED
  BY <1>1, <1>2, <1>3, <1>5, <1>6, <1>7, <1>8, <1>9, ResyncedRun, SetupFacts, WritesStep

\* registry.upsert(): the row lists the object, and keeps its owner if it was there.
LEMMA UpsertedRow ==
  ASSUME SetupInv, NEW o \in Things, NEW b \in BOOLEAN, row' = Upserted(o, b),
         row.open \/ row.no < MaxRows
  PROVE  /\ row' \in Row /\ row'.open /\ row'.object = o
         /\ row'.ours => (row.open /\ row.ours) \/ (~row.open /\ b)
<1>1. row \in Row
  BY TypeOKMeans DEF SetupInv
<1>2. CASE row.open
  <2>1. row' = [row EXCEPT !.object = o]
    BY <1>2 DEF Upserted
  <2> QED
    BY <1>1, <1>2, <2>1 DEF Row
<1>3. CASE ~row.open
  <2>2. row' = [open |-> TRUE, no |-> row.no + 1, object |-> o, ours |-> b]
    BY <1>3 DEF Upserted
  <2>3. row.no + 1 \in 0 .. MaxRows
    BY <1>1, <1>3, SetupAssumption DEF Row
  <2>4. row' \in Row
    BY <2>2, <2>3 DEF Row
  <2>5. row'.open = TRUE /\ row'.object = o /\ row'.ours = b
    BY <2>2
  <2> QED
    BY <1>3, <2>4, <2>5
<1> QED
  BY <1>2, <1>3

LEMMA OkRun ==
  ASSUME SetupInv, NEW r \in AllRuns, NEW t, t = To(r, "ok")
  PROVE  /\ t \in Run /\ t.step = "ok" /\ t.list = setup[r].list /\ t.names = setup[r].names
         /\ t.object = setup[r].object /\ (t.disturbed <=> setup[r].disturbed)
      /\ (t.crossed <=> setup[r].crossed)
<1>1. setup[r] \in Run
  BY SetupFacts
<1> QED
  BY <1>1 DEF To, Run, Steps

LEMMA AdoptsKeeps ==
  ASSUME SetupInv, NEW r \in SetupRuns, Adopts(r)
  PROVE  SetupInv'
<1>1. setup[r] \in Run /\ Fine(r) /\ r \in AllRuns /\ row \in Row /\ alive \in SUBSET Things
      /\ "none" \notin Things
  BY SetupFacts DEF AllRuns
<1>2. PICK t : t = To(r, "ok") /\ Writes(r, t)
  BY DEF Adopts
<1>3. /\ setup[r].step = "adopting" /\ RowIsWritten(r)
      /\ row.open \/ row.no < MaxRows
      /\ row' = Upserted(setup[r].object, FALSE)
      /\ inherited' = IF row.open /\ row.ours THEN inherited \cup {setup[r].object} ELSE inherited
      /\ UNCHANGED <<maker, alive, named, ticket, erased, hands, setupFaults>>
  BY DEF Adopts, At, discord
<1>4. PICK o \in Things : o = setup[r].object /\ o \in Made
  BY <1>1, <1>3 DEF Fine, Speaks, Made
<1>5. /\ row' \in Row /\ row'.open /\ row'.object = o
      /\ row'.ours => row.open /\ row.ours
  BY <1>3, <1>4, UpsertedRow
<1>6. /\ setup'[r] = t
      /\ \A q \in AllRuns : q # r =>
           setup'[q].step = setup[q].step /\ setup'[q].object = setup[q].object
  BY <1>1, <1>2, WritesFacts
<1>7. /\ t \in Run /\ t.step = "ok" /\ t.list = setup[r].list /\ t.names = setup[r].names
      /\ t.object = o /\ (t.disturbed <=> setup[r].disturbed)
      /\ (t.crossed <=> setup[r].crossed)
  BY <1>1, <1>2, <1>4, OkRun
<1>8. ~setup[r].crossed => RowObject \notin alive
  BY <1>1, <1>3 DEF Fine, Steady, At
<1>9. WorldMade'
  <2>1. Made' = Made /\ inherited \subseteq inherited' /\ inherited' \subseteq inherited \cup {o}
        /\ (row.open /\ row.ours => o \in inherited')
    BY <1>3, <1>4 DEF Made
  <2> QED
    BY <1>3, <1>4, <1>5, <2>1 DEF SetupInv, WorldMade, Ours
<1>10. Fine(r)'
  <2>1. RowObject' = o /\ Made' = Made
    BY <1>3, <1>5 DEF RowObject, Made
  <2>2. r \notin ResetRuns
    BY SetupAssumption
  <2> QED
    BY <1>1, <1>3, <1>4, <1>6, <1>7, <2>1, <2>2 DEF Fine, Speaks, Knows, Steady, InPlace, At
<1>11. NothingForgotten' /\ lost' \in SUBSET Things
  BY <1>3, <1>1, <1>6, <1>8, WrittenKeeps
<1>12. inherited \subseteq inherited' /\ inherited' \in SUBSET Things
  BY <1>1, <1>3, <1>4, SetupFacts
<1> QED
  BY <1>1, <1>2, <1>3, <1>5, <1>7, <1>8, <1>9, <1>10, <1>11, <1>12, SetupFacts, WritesStep

LEMMA RegistersKeeps ==
  ASSUME SetupInv, NEW r \in SetupRuns, Registers(r)
  PROVE  SetupInv'
<1>1. setup[r] \in Run /\ Fine(r) /\ r \in AllRuns /\ row \in Row /\ alive \in SUBSET Things
      /\ "none" \notin Things
  BY SetupFacts DEF AllRuns
<1>2. PICK t : t = To(r, "ok") /\ Writes(r, t)
  BY DEF Registers
<1>3. /\ setup[r].step = "created" /\ RowIsWritten(r)
      /\ row.open \/ row.no < MaxRows
      /\ row' = Upserted(setup[r].object, TRUE)
      /\ UNCHANGED <<maker, alive, named, ticket, erased, inherited, hands, setupFaults>>
  BY DEF Registers, At, discord, ledger
<1>4. PICK o \in Things : o = setup[r].object /\ maker[o] = "yume"
  BY <1>1, <1>3 DEF Fine, Speaks, At
<1>5. row' \in Row /\ row'.open /\ row'.object = o
  BY <1>3, <1>4, UpsertedRow
<1>6. /\ setup'[r] = t
      /\ \A q \in AllRuns : q # r =>
           setup'[q].step = setup[q].step /\ setup'[q].object = setup[q].object
  BY <1>1, <1>2, WritesFacts
<1>7. /\ t \in Run /\ t.step = "ok" /\ t.list = setup[r].list /\ t.names = setup[r].names
      /\ t.object = o /\ (t.disturbed <=> setup[r].disturbed)
      /\ (t.crossed <=> setup[r].crossed)
  BY <1>1, <1>2, <1>4, OkRun
<1>8. ~setup[r].crossed => RowObject \notin alive
  BY <1>1, <1>3 DEF Fine, Steady, At
<1>9. WorldMade'
  BY <1>3, <1>4, <1>5 DEF SetupInv, WorldMade, Ours, Made
<1>10. Fine(r)'
  <2>1. RowObject' = o /\ Made' = Made
    BY <1>3, <1>5 DEF RowObject, Made
  <2>2. r \notin ResetRuns
    BY SetupAssumption
  <2> QED
    BY <1>1, <1>3, <1>4, <1>6, <1>7, <2>1, <2>2 DEF Fine, Speaks, Knows, Steady, InPlace, At
<1>11. NothingForgotten' /\ lost' \in SUBSET Things
  BY <1>3, <1>1, <1>4, <1>5, <1>6, <1>8, WrittenKeeps DEF RowObject
<1> QED
  BY <1>1, <1>2, <1>3, <1>5, <1>7, <1>8, <1>9, <1>10, <1>11, SetupFacts, WritesStep

LEMMA UpdatesKeeps ==
  ASSUME SetupInv, NEW r \in SetupRuns, Updates(r)
  PROVE  SetupInv'
<1>1. setup[r] \in Run /\ Fine(r) /\ r \in AllRuns
      /\ alive \in SUBSET Things /\ named \in SUBSET Things
  BY SetupFacts DEF AllRuns
<1>2. /\ setup[r].step = "updating"
      /\ UNCHANGED <<maker, alive, row, ticket, erased, inherited, lost, hands, setupFaults>>
  BY DEF Updates, At, ledger, trouble
<1>3. CASE setup[r].object \in alive
  <2>1. PICK t : t = To(r, "ok") /\ Changes(r, t) /\ named' = named \cup {setup[r].object}
    BY <1>3 DEF Updates
  <2>2. PICK o \in Things : o = setup[r].object /\ o \in alive /\ o \in Made
    BY <1>1, <1>2, <1>3 DEF Fine, Speaks, Made
  <2>3. /\ setup'[r] = t
        /\ \A q \in AllRuns : q # r =>
             setup'[q].step = setup[q].step /\ setup'[q].object = setup[q].object
    BY <1>1, <2>1, LoudFacts
  <2>4. /\ t \in Run /\ t.step = "ok" /\ t.list = setup[r].list /\ t.names = setup[r].names
        /\ t.object = o /\ (t.disturbed <=> setup[r].disturbed)
      /\ (t.crossed <=> setup[r].crossed)
    BY <1>1, <2>1, <2>2, OkRun
  <2>5. WorldMade'
    BY <1>2, <2>1, <2>2 DEF SetupInv, WorldMade, Ours, Made
  <2>6. Fine(r)'
    <3>1. RowObject' = RowObject /\ Made' = Made /\ r \notin ResetRuns
      BY <1>2, SetupAssumption DEF RowObject, Made
    <3> QED
      BY <1>1, <1>2, <2>1, <2>2, <2>3, <2>4, <3>1 DEF Fine, Speaks, Knows, Steady, InPlace, At
  <2>7. NothingForgotten'
    <3> SUFFICES ASSUME NEW p \in alive, maker[p] = "yume", RowObject # p, p \notin lost
                 PROVE  \E q \in SetupRuns : setup'[q].step = "created" /\ setup'[q].object = p
      BY <1>2 DEF NothingForgotten, RowObject, At
    <3>1. PICK q \in SetupRuns : setup[q].step = "created" /\ setup[q].object = p
      BY DEF SetupInv, NothingForgotten, At
    <3> QED
      BY <1>2, <2>3, <3>1 DEF AllRuns
  <2> QED
    BY <1>1, <1>2, <2>1, <2>2, <2>4, <2>5, <2>6, <2>7, SetupFacts, LoudStep
<1>4. CASE setup[r].object \notin alive
  <2>1. setup' = [setup EXCEPT ![r] = Resting] /\ named' = named
    BY <1>4 DEF Updates, GoesOn
  <2> QED
    BY <1>1, <1>2, <2>1, SetupFacts, RestsKeeps
<1> QED
  BY <1>3, <1>4

LEMMA FreshIsNew ==
  ASSUME SetupInv, NEW o \in Fresh
  PROVE  o \in Things /\ maker[o] = "none"
<1>1. Unmade # {}
  BY DEF Fresh
<1>2. (CHOOSE x \in Unmade : TRUE) \in Unmade
  BY <1>1
<1>3. o \in Unmade
  BY <1>1, <1>2 DEF Fresh
<1> QED
  BY <1>3 DEF Unmade

\* A new object appears: what was made before is as it was.
LEMMA OneMore ==
  ASSUME SetupInv, NEW o \in Things, maker[o] = "none", NEW by \in {"yume", "people"},
         maker' = [maker EXCEPT ![o] = by], alive' = alive \cup {o}, named' = named \cup {o},
         UNCHANGED <<row, erased, inherited>>
  PROVE  /\ maker' \in [Things -> {"none", "yume", "people"}] /\ maker'[o] = by
         /\ alive' \in SUBSET Things /\ named' \in SUBSET Things
         /\ \A x \in Things : x # o => maker'[x] = maker[x]
         /\ \A x \in Things : maker[x] # "none" => maker'[x] = maker[x]
         /\ Made' = Made \cup {o} /\ o \notin Made
         /\ WorldMade' /\ RowObject' = RowObject /\ RowObject # o
<1>1. /\ maker \in [Things -> {"none", "yume", "people"}]
      /\ alive \in SUBSET Things /\ named \in SUBSET Things /\ "none" \notin Things
  BY TypeOKMeans, SetupAssumption DEF SetupInv
<1>2. /\ maker' \in [Things -> {"none", "yume", "people"}] /\ maker'[o] = by
      /\ alive' \in SUBSET Things /\ named' \in SUBSET Things
      /\ \A x \in Things : x # o => maker'[x] = maker[x]
      /\ \A x \in Things : maker[x] # "none" => maker'[x] = maker[x]
  BY <1>1
<1>3. Made' = Made \cup {o} /\ o \notin Made
  BY <1>2 DEF Made
<1>4. WorldMade'
  <2>1. row.object # o
    BY <1>1, <1>3 DEF SetupInv, WorldMade
  <2>2. \A x \in Made : Ours(x) => Ours(x)'
    BY <1>2 DEF Made, Ours
  <2> QED
    BY <1>3, <2>1, <2>2 DEF SetupInv, WorldMade, Ours
<1>5. RowObject' = RowObject /\ RowObject # o
  BY <1>1, <1>3, RowReads DEF RowObject
<1> QED
  BY <1>2, <1>3, <1>4, <1>5

LEMMA CreatesKeeps ==
  ASSUME SetupInv, NEW r \in SetupRuns, Creates(r)
  PROVE  SetupInv'
<1>1. setup[r] \in Run /\ Fine(r) /\ r \in AllRuns /\ alive \in SUBSET Things
  BY SetupFacts DEF AllRuns
<1>2. PICK o \in Fresh : /\ maker' = [maker EXCEPT ![o] = "yume"]
                         /\ alive' = alive \cup {o} /\ named' = named \cup {o}
                         /\ Changes(r, [To(r, "created") EXCEPT !.object = o])
  BY DEF Creates
<1>3. PICK t : t = [To(r, "created") EXCEPT !.object = o]
  OBVIOUS
<1>4. /\ setup[r].step = "creating" /\ Changes(r, t)
      /\ UNCHANGED <<row, ticket, erased, inherited, lost, hands, setupFaults>>
  BY <1>2, <1>3 DEF Creates, At, ledger, trouble
<1>5. o \in Things /\ maker[o] = "none"
  BY FreshIsNew
<1>6. /\ maker' \in [Things -> {"none", "yume", "people"}] /\ maker'[o] = "yume"
      /\ alive' \in SUBSET Things /\ named' \in SUBSET Things
      /\ \A x \in Things : x # o => maker'[x] = maker[x]
      /\ \A x \in Things : maker[x] # "none" => maker'[x] = maker[x]
      /\ Made' = Made \cup {o} /\ WorldMade' /\ RowObject' = RowObject /\ RowObject # o
  BY <1>2, <1>4, <1>5, OneMore
<1>7. /\ t \in Run /\ t.step = "created" /\ t.list = setup[r].list /\ t.names = setup[r].names
      /\ t.object = o /\ (t.disturbed <=> setup[r].disturbed)
      /\ (t.crossed <=> setup[r].crossed)
  <2>1. o \in Targets
    BY <1>5 DEF Targets
  <2> QED
    BY <1>1, <1>3, <2>1 DEF To, Run, Steps
<1>8. /\ setup'[r] = t
      /\ \A q \in AllRuns : q # r =>
           setup'[q].step = setup[q].step /\ setup'[q].object = setup[q].object
  BY <1>1, <1>4, LoudFacts
<1>9. alive' \cap Made \subseteq alive
  BY <1>2, <1>5 DEF Made
<1>10. Fine(r)'
  <2>1. r \notin ResetRuns
    BY SetupAssumption
  <2> QED
    BY <1>1, <1>2, <1>4, <1>5, <1>6, <1>7, <1>8, <2>1 DEF Fine, Speaks, Knows, Steady, InPlace, At
<1>11. NothingForgotten'
  <2>1. setup'[r].step = "created" /\ setup'[r].object = o
    BY <1>7, <1>8
  <2>2. ASSUME NEW p \in alive, p # o, maker[p] = "yume", RowObject # p, p \notin lost
        PROVE  \E q \in SetupRuns : setup'[q].step = "created" /\ setup'[q].object = p
    <3>1. PICK q \in SetupRuns : setup[q].step = "created" /\ setup[q].object = p
      BY <2>2 DEF SetupInv, NothingForgotten, At
    <3> QED
      BY <1>4, <1>8, <3>1 DEF AllRuns
  <2> QED
    BY <1>1, <1>2, <1>4, <1>6, <2>1, <2>2 DEF NothingForgotten, At
<1> QED
  BY <1>1, <1>4, <1>6, <1>7, <1>9, <1>10, <1>11, SetupFacts, LoudStep

\* A run deletes its object: what it leaves behind.
LEMMA OneLess ==
  ASSUME SetupInv, NEW r \in AllRuns, setup[r].step = "deleting",
         alive' = alive \ {setup[r].object}, erased' = erased \cup (alive \cap {setup[r].object}),
         UNCHANGED <<maker, named, row, inherited, lost>>,
         NEW t, Changes(r, t)
  PROVE  /\ alive' \in SUBSET Things /\ erased' \in SUBSET Things
         /\ WorldMade' /\ NothingForgotten' /\ RowObject' = RowObject /\ Made' = Made
         /\ ~setup[r].crossed => RowObject \notin alive'
<1>1. setup[r] \in Run /\ Fine(r) /\ alive \in SUBSET Things /\ erased \in SUBSET Things
  BY SetupFacts
<1>2. RowObject' = RowObject /\ Made' = Made
  BY DEF RowObject, Made
<1>3. setup[r].object \in Things /\ Ours(setup[r].object)
  BY <1>1 DEF Fine, Speaks, At
<1>4. WorldMade'
  BY <1>1, <1>2, <1>3 DEF SetupInv, WorldMade, Ours
<1>5. NothingForgotten'
  <2> SUFFICES ASSUME NEW p \in alive, maker[p] = "yume", RowObject # p, p \notin lost
               PROVE  \E q \in SetupRuns : setup'[q].step = "created" /\ setup'[q].object = p
    BY <1>2 DEF NothingForgotten, At
  <2>1. PICK q \in SetupRuns : setup[q].step = "created" /\ setup[q].object = p
    BY DEF SetupInv, NothingForgotten, At
  <2> QED
    BY <2>1, LoudFacts DEF AllRuns
<1>6. ~setup[r].crossed => RowObject \notin alive'
  BY <1>1 DEF Fine, Steady, At
<1> QED
  BY <1>1, <1>2, <1>4, <1>5, <1>6

LEMMA DeletesKeeps ==
  ASSUME SetupInv, NEW r \in ResetRuns, Deletes(r)
  PROVE  SetupInv'
<1>1. setup[r] \in Run /\ Fine(r) /\ r \in AllRuns
  BY SetupFacts DEF AllRuns
<1>2. PICK t : t = [To(r, "deleted") EXCEPT !.object = "none"]
  OBVIOUS
<1>3. /\ setup[r].step = "deleting" /\ Changes(r, t) /\ alive' = alive \ {setup[r].object}
      /\ erased' = erased \cup (alive \cap {setup[r].object})
      /\ UNCHANGED <<maker, named, row, ticket, inherited, lost, hands, setupFaults>>
  BY <1>2 DEF Deletes, At, trouble
<1>4. /\ t \in Run /\ t.step = "deleted" /\ t.list = setup[r].list /\ t.names = setup[r].names
      /\ t.object = "none" /\ (t.disturbed <=> setup[r].disturbed)
      /\ (t.crossed <=> setup[r].crossed)
  BY <1>1, <1>2 DEF To, Run, Steps, Targets
<1>5. setup'[r] = t
  BY <1>1, <1>3, LoudFacts
<1>6. /\ alive' \in SUBSET Things /\ erased' \in SUBSET Things
      /\ WorldMade' /\ NothingForgotten' /\ RowObject' = RowObject /\ Made' = Made
      /\ ~setup[r].crossed => RowObject \notin alive'
  BY <1>1, <1>3, OneLess
<1>7. Fine(r)'
  <2>1. r \notin SetupRuns
    BY SetupAssumption
  <2> QED
    BY <1>1, <1>3, <1>4, <1>5, <1>6, <2>1 DEF Fine, Speaks, Knows, Steady, InPlace, At
<1> QED
  BY <1>1, <1>3, <1>4, <1>6, <1>7, SetupFacts, LoudStep

LEMMA RestingIsFine ==
  ASSUME NEW r \in AllRuns, setup'[r] = Resting
  PROVE  Fine(r)'
BY RestingRun DEF Fine, Speaks, Knows, Steady, InPlace, At

LEMMA ClosesKeeps ==
  ASSUME SetupInv, NEW r \in ResetRuns, Closes(r)
  PROVE  SetupInv'
<1>1. setup[r] \in Run /\ Fine(r) /\ r \in AllRuns /\ row \in Row
  BY SetupFacts DEF AllRuns
<1>2. /\ setup[r].step = "closing" /\ RowIsWritten(r) /\ Writes(r, Resting)
      /\ row' = [row EXCEPT !.open = FALSE] \/ row' = row
      /\ UNCHANGED <<maker, alive, named, ticket, erased, inherited, hands, setupFaults>>
  BY DEF Closes, At, discord, ledger
<1>3. /\ row' \in Row /\ row'.object = row.object /\ (row'.ours <=> row.ours)
      /\ row'.open => row.open
  <2>1. CASE row' = row
    BY <1>1, <2>1
  <2>2. CASE row' = [row EXCEPT !.open = FALSE]
    <3>1. row' \in Row /\ row'.object = row.object /\ (row'.ours <=> row.ours)
      BY <1>1, <2>2 DEF Row
    <3>2. row'.open = FALSE
      BY <1>1, <2>2 DEF Row
    <3> QED
      BY <3>1, <3>2
  <2> QED
    BY <1>2, <2>1, <2>2
<1>4. /\ setup'[r] = Resting
      /\ \A q \in AllRuns : q # r =>
           setup'[q].step = setup[q].step /\ setup'[q].object = setup[q].object
  BY <1>1, <1>2, WritesFacts
<1>5. ~setup[r].crossed => RowObject \notin alive
  BY <1>1, <1>2 DEF Fine, Steady, At
<1>6. WorldMade'
  BY <1>2, <1>3 DEF SetupInv, WorldMade, Made, Ours
<1>7. NothingForgotten' /\ lost' \in SUBSET Things
  BY <1>2, <1>1, <1>4, <1>5, WrittenKeeps
<1> QED
  BY <1>1, <1>2, <1>3, <1>4, <1>5, <1>6, <1>7, RestingRun, RestingIsFine, SetupFacts, WritesStep

LEMMA AnswerLostKeeps ==
  ASSUME SetupInv, NEW r \in AllRuns, AnswerLost(r)
  PROVE  SetupInv'
<1>1. /\ Changes(r, Resting) /\ UNCHANGED <<row, ticket, inherited, hands>>
      /\ setupFaults' \in 0 .. MaxSetupFaults
  BY OneFaultMore DEF AnswerLost
<1>2. Fine(r)' /\ Resting \in Run
  BY <1>1, LoudFacts, RestingIsFine, RestingRun
<1>3. CASE setup[r].step = "creating"
  <2>1. PICK o \in Fresh : /\ maker' = [maker EXCEPT ![o] = "yume"]
                           /\ alive' = alive \cup {o} /\ named' = named \cup {o}
                           /\ lost' = lost \cup {o}
    BY <1>3 DEF AnswerLost, At
  <2>2. erased' = erased
    BY <1>3 DEF AnswerLost, At
  <2>3. o \in Things /\ maker[o] = "none"
    BY FreshIsNew
  <2>4. /\ maker' \in [Things -> {"none", "yume", "people"}]
        /\ alive' \in SUBSET Things /\ named' \in SUBSET Things
        /\ \A x \in Things : maker[x] # "none" => maker'[x] = maker[x]
        /\ \A x \in Things : x # o => maker'[x] = maker[x]
        /\ WorldMade' /\ RowObject' = RowObject
    BY <1>1, <2>1, <2>2, <2>3, OneMore
  <2>5. NothingForgotten'
    <3>1. ASSUME NEW p \in alive, p # o, maker[p] = "yume", RowObject # p, p \notin lost
          PROVE  \E q \in SetupRuns : setup'[q].step = "created" /\ setup'[q].object = p
      <4>1. PICK q \in SetupRuns : setup[q].step = "created" /\ setup[q].object = p
        BY <3>1 DEF SetupInv, NothingForgotten, At
      <4> QED
        BY <1>1, <1>3, <4>1, LoudFacts DEF AllRuns
    <3> QED
      BY <2>1, <2>4, <3>1, SetupFacts DEF NothingForgotten, At
  <2>6. lost' \in SUBSET Things /\ alive' \cap Made \subseteq alive
    BY <2>1, <2>3, SetupFacts DEF Made
  <2> QED
    BY <1>1, <1>2, <2>2, <2>4, <2>5, <2>6, SetupFacts, LoudStep
<1>4. CASE setup[r].step = "deleting"
  <2>1. /\ alive' = alive \ {setup[r].object} /\ erased' = erased \cup (alive \cap {setup[r].object})
        /\ UNCHANGED <<maker, named, lost>>
    BY <1>4 DEF AnswerLost, At
  <2>2. alive' \in SUBSET Things /\ erased' \in SUBSET Things /\ WorldMade' /\ NothingForgotten'
    BY <1>1, <1>4, <2>1, OneLess
  <2> QED
    BY <1>1, <1>2, <2>1, <2>2, SetupFacts, LoudStep
<1> QED
  BY <1>3, <1>4 DEF AnswerLost, At

\* Nothing that a run knows or the history records is touched.
LEMMA SetupStands ==
  ASSUME SetupInv,
         UNCHANGED <<maker, alive, named, row, setup, erased, inherited, lost, hands, setupFaults>>,
         ticket' \in [Tickets -> Targets \cup {"invalid"}]
  PROVE  SetupInv'
<1>1. SetupTypeOK'
  BY TypeOKMeans, TypeOKNext DEF SetupInv
<1>2. WorldMade' /\ NothingForgotten'
  BY DEF SetupInv, WorldMade, Made, Ours, NothingForgotten, RowObject, At
<1>3. ASSUME NEW r \in AllRuns
      PROVE  Fine(r)'
  <2>1. Fine(r) /\ RowObject' = RowObject /\ Target' = Target /\ Made' = Made
        /\ \A o \in Things : Ours(o) <=> Ours(o)'
    BY DEF SetupInv, RowObject, Target, Made, Ours
  <2>2. Speaks(r)'
    BY <2>1 DEF Fine, Speaks, At
  <2>3. InPlace(r)'
    BY <2>1 DEF Fine, InPlace
  <2>4. Knows(r) => Knows(r)'
    BY <2>1 DEF Knows, At
  <2>5. Steady(r) => Steady(r)'
    BY <2>1 DEF Steady, At
  <2> QED
    BY <2>1, <2>2, <2>3, <2>4, <2>5 DEF Fine
<1> QED
  BY <1>1, <1>2, <1>3 DEF SetupInv

LEMMA TicketsKeep ==
  ASSUME SetupInv, NEW k \in Tickets, Prepares(k) \/ TicketExpires(k)
  PROVE  SetupInv'
<1>1. UNCHANGED <<maker, alive, named, row, setup, erased, inherited, lost, hands, setupFaults>>
  BY DEF Prepares, TicketExpires, discord, trouble
<1>2. ticket \in [Tickets -> Targets \cup {"invalid"}]
  BY TypeOKMeans DEF SetupInv
<1>3. ticket' \in [Tickets -> Targets \cup {"invalid"}]
  BY <1>2, RowReads DEF Prepares, TicketExpires
<1> QED
  BY <1>1, <1>3, SetupStands

\* People delete, rename, and make what YUME did not make.
LEMMA ByHandKeeps ==
  ASSUME SetupInv, ByHand
  PROVE  SetupInv'
<1>1. /\ setup' = [q \in AllRuns |-> [setup[q] EXCEPT !.disturbed = @ \/ setup[q].step # "idle"]]
      /\ UNCHANGED <<row, ticket, erased, inherited, lost, setupFaults>>
      /\ hands < MaxHands /\ hands' = hands + 1
  BY DEF ByHand, ledger
<1>2. /\ alive \in SUBSET Things /\ named \in SUBSET Things /\ hands \in 0 .. MaxHands
      /\ maker \in [Things -> {"none", "yume", "people"}]
  BY TypeOKMeans DEF SetupInv
<1>3. /\ maker' \in [Things -> {"none", "yume", "people"}]
      /\ alive' \in SUBSET Things /\ named' \in SUBSET Things /\ WorldMade'
      /\ \A x \in Things : maker[x] # "none" => maker'[x] = maker[x]
      /\ \A p \in alive' : maker'[p] = "yume" => p \in alive /\ maker[p] = "yume"
  <2>1. CASE \E o \in alive : alive' = alive \ {o} /\ UNCHANGED <<maker, named>>
    <3>1. WorldMade'
      BY <1>1, <2>1 DEF SetupInv, WorldMade, Made, Ours
    <3> QED
      BY <1>2, <2>1, <3>1
  <2>2. CASE \E o \in alive \cap named : named' = named \ {o} /\ UNCHANGED <<maker, alive>>
    <3>1. WorldMade'
      BY <1>1, <2>2 DEF SetupInv, WorldMade, Made, Ours
    <3> QED
      BY <1>2, <2>2, <3>1
  <2>3. ASSUME NEW o \in Fresh, maker' = [maker EXCEPT ![o] = "people"],
               alive' = alive \cup {o}, named' = named \cup {o}
        PROVE  /\ maker' \in [Things -> {"none", "yume", "people"}]
               /\ alive' \in SUBSET Things /\ named' \in SUBSET Things /\ WorldMade'
               /\ \A x \in Things : maker[x] # "none" => maker'[x] = maker[x]
               /\ \A p \in alive' : maker'[p] = "yume" => p \in alive /\ maker[p] = "yume"
    <3>1. o \in Things /\ maker[o] = "none"
      BY FreshIsNew
    <3>2. UNCHANGED <<row, erased, inherited>>
      BY <1>1
    <3>3. /\ maker' \in [Things -> {"none", "yume", "people"}] /\ maker'[o] = "people"
          /\ alive' \in SUBSET Things /\ named' \in SUBSET Things /\ WorldMade'
          /\ \A x \in Things : x # o => maker'[x] = maker[x]
          /\ \A x \in Things : maker[x] # "none" => maker'[x] = maker[x]
      BY <2>3, <3>1, <3>2, OneMore
    <3> QED
      BY <1>2, <2>3, <3>3
  <2> QED
    BY <2>1, <2>2, <2>3 DEF ByHand
<1>8. alive' \cap Made \subseteq alive
  BY <1>2, FreshIsNew DEF ByHand, Made
<1>4. ASSUME NEW q \in AllRuns
      PROVE  /\ setup'[q] \in Run /\ Fine(q)'
             /\ setup'[q].step = setup[q].step /\ setup'[q].object = setup[q].object
  <2>1. setup'[q] = [setup[q] EXCEPT !.disturbed = @ \/ setup[q].step # "idle"]
    BY <1>1, Zenon
  <2>2. inherited \subseteq inherited' /\ row' = row /\ alive' \cap Made \subseteq alive
    BY <1>1, <1>8
  <2> QED
    BY <1>3, <2>1, <2>2, OneDisturbed
<1>5. setup' \in [AllRuns -> Run]
  <2>1. setup' = [q \in AllRuns |-> setup'[q]]
    BY <1>1, Zenon
  <2> QED
    BY <1>4, <2>1
<1>6. SetupTypeOK'
  <2>1. hands' \in 0 .. MaxHands
    BY <1>1, <1>2, SetupAssumption
  <2> QED
    BY <1>1, <1>3, <1>5, <2>1, TypeOKMeans, TypeOKNext DEF SetupInv
<1>7. NothingForgotten'
  <2> SUFFICES ASSUME NEW p \in alive, maker[p] = "yume", RowObject # p, p \notin lost
               PROVE  \E q \in SetupRuns : setup'[q].step = "created" /\ setup'[q].object = p
    BY <1>1, <1>3 DEF NothingForgotten, RowObject, At
  <2>1. PICK q \in SetupRuns : setup[q].step = "created" /\ setup[q].object = p
    BY DEF SetupInv, NothingForgotten, At
  <2> QED
    BY <1>4, <2>1 DEF AllRuns
<1> QED
  BY <1>3, <1>4, <1>6, <1>7 DEF SetupInv

LEMMA SetupStarts ==
  ASSUME SetupInit
  PROVE  SetupInv
<1>1. /\ maker \in [Things -> {"none", "yume", "people"}] /\ \A o \in Things : maker[o] = "none"
      /\ alive = {} /\ named = {} /\ erased = {} /\ inherited = {} /\ hands = 0 /\ setupFaults = 0
      /\ ticket \in [Tickets -> Targets \cup {"invalid"}]
  BY DEF SetupInit
<1>2. row \in Row /\ row.object = "none" /\ ~row.open
  <2>1. NoRow \in Row /\ NoRow.object = "none" /\ NoRow.open = FALSE
    BY SetupAssumption DEF NoRow, Row
  <2> QED
    BY <2>1 DEF SetupInit
<1>3. setup \in [AllRuns -> Run] /\ \A r \in AllRuns : setup[r] = Resting
  BY RestingRun DEF SetupInit
<1>4. lost \in SUBSET Things
  BY DEF SetupInit
<1>5. SetupTypeOK
  <2>1. hands \in 0 .. MaxHands /\ setupFaults \in 0 .. MaxSetupFaults
    BY <1>1, SetupAssumption
  <2>2. /\ alive \in SUBSET Things /\ named \in SUBSET Things
        /\ erased \in SUBSET Things /\ inherited \in SUBSET Things
    BY <1>1
  <2> QED
    BY <1>1, <1>2, <1>3, <1>4, <2>1, <2>2, TypeOKMeans
<1>6. WorldMade /\ NothingForgotten
  BY <1>1, <1>2 DEF WorldMade, NothingForgotten, Made
<1>7. \A r \in AllRuns : Fine(r)
  BY <1>3, RestingRun DEF Fine, Speaks, Knows, Steady, InPlace, At
<1> QED
  BY <1>5, <1>6, <1>7 DEF SetupInv

\* Every step of the runs, of the resets and of people keeps the invariant.
LEMMA SetupKeeps ==
  ASSUME SetupInv, [SetupNext]_setupVars
  PROVE  SetupInv'
<1>1. CASE UNCHANGED setupVars
  <2>1. UNCHANGED <<maker, alive, named, row, ticket, setup, erased, inherited, lost, hands,
                    setupFaults>>
    BY <1>1 DEF setupVars
  <2>2. ticket' \in [Tickets -> Targets \cup {"invalid"}]
    BY <2>1, TypeOKMeans DEF SetupInv
  <2> QED
    BY <2>1, <2>2, SetupStands
<1>2. ASSUME NEW r \in SetupRuns, RunSteps(r)
      PROVE  SetupInv'
  <2>1. CASE Begins(r) \/ FetchesList(r) \/ ReadsRow(r) \/ FindsGone(r) \/ FindsAllThere(r) \/ Plans(r)
    BY <2>1, BeginsKeeps, FetchesListKeeps, ReadsRowKeeps, FindsGoneKeeps, FindsAllThereKeeps,
       PlansKeeps DEF AllRuns
  <2>2. CASE Orphans(r) \/ IsBlocked(r) \/ Adopts(r) \/ Updates(r) \/ Creates(r) \/ Registers(r)
             \/ Answers(r)
    BY <2>2, OrphansKeeps, IsBlockedKeeps, AdoptsKeeps, UpdatesKeeps, CreatesKeeps, RegistersKeeps,
       AnswersKeeps
  <2> QED
    BY <1>2, <2>1, <2>2 DEF RunSteps
<1>3. ASSUME NEW r \in ResetRuns, ResetSteps(r)
      PROVE  SetupInv'
  BY <1>3, AsksResetKeeps, ConsumesKeeps, RelistsKeeps, DeletesKeeps, GetsRowKeeps, ClosesKeeps
     DEF ResetSteps
<1>4. ASSUME NEW r \in AllRuns, CallFails(r) \/ AnswerLost(r) \/ Dies(r)
      PROVE  SetupInv'
  BY <1>4, CallFailsKeeps, AnswerLostKeeps, DiesKeeps
<1> QED
  BY <1>1, <1>2, <1>3, <1>4, TicketsKeep, ByHandKeeps DEF SetupNext

\* Setup and factory reset are safe for any number of runs, objects and tickets: what
\* people made is spared unless it was adopted onto a row of YUME's, what is deleted was
\* confirmed, nothing YUME made is forgotten, and "ok" means in place (setup.ts, registry.ts).
THEOREM SetupIsSafe == SetupSpec => []SetupSafe
<1>1. SetupInit => SetupInv
  BY SetupStarts
<1>2. SetupInv /\ [SetupNext]_setupVars => SetupInv'
  BY SetupKeeps
<1>3. SetupInv => SetupSafe
  <2> SUFFICES ASSUME SetupInv
               PROVE  SetupSafe
    OBVIOUS
  <2>1. ForeignIsSpared
    BY DEF SetupInv, WorldMade, Ours, ForeignIsSpared
  <2>2. OnlyConfirmed
    BY DEF SetupInv, Fine, Steady, OnlyConfirmed, At, AllRuns
  <2>3. OkMeansWell
    <3> SUFFICES ASSUME NEW r \in SetupRuns, setup[r].step = "ok", ~setup[r].disturbed
                 PROVE  row.open /\ row.object \in alive \cap named /\ row.object = setup[r].object
      BY DEF OkMeansWell, At
    <3>1. r \in AllRuns
      BY DEF AllRuns
    <3>2. RowObject = setup[r].object /\ setup[r].object \in alive \cap named
      BY <3>1 DEF SetupInv, Fine, Knows, At
    <3>3. alive \in SUBSET Things /\ "none" \notin Things
      BY <3>1, SetupFacts
    <3> QED
      BY <3>2, <3>3 DEF RowObject
  <2> QED
    BY <2>1, <2>2, <2>3 DEF SetupInv, SetupSafe
<1> QED
  BY <1>1, <1>2, <1>3, PTL DEF SetupSpec
----------------------------------------------------------------------------
(* RoleSync.  A role the bot gave is remembered by a row as soon as the pass that gave it
   has gone on; between the two only that pass knows. *)
PassRecords == [pc : {"idle", "next", "repair", "record"}, todo : SUBSET Members,
                due : SUBSET Members, unlinking : BOOLEAN]

RoleShape ==
  /\ linked \subseteq Members /\ given \subseteq Members
  /\ turn \in [Members -> Nat]
  /\ pass \in [Passes -> PassRecords]

\* The second half of a pass only takes roles.
UnlinkingGivesNothing == \A p \in Passes : pass[p].unlinking => pass[p].due = {}

RoleInv == RoleShape /\ UnlinkingGivesNothing /\ GivenIsRemembered

\* One pass moves, the others keep what they have in hand.
LEMMA OthersKeepTheirs ==
  ASSUME NEW p \in Passes,
         \A q \in Passes \ {p} : pass'[q] = pass[q],
         NEW m, ToBeRecorded(m), ~(pass[p].pc = "record" /\ ~pass[p].unlinking /\ InTurn(p) = m)
  PROVE  ToBeRecorded(m)'
<1>1. PICK q \in Passes \ {p} : pass[q].pc = "record" /\ ~pass[q].unlinking /\ InTurn(q) = m
  BY DEF ToBeRecorded
<1>2. pass'[q] = pass[q]
  OBVIOUS
<1>3. InTurn(q)' = InTurn(q)
  BY <1>2, Zenon DEF InTurn
<1>4. pass'[q].pc = "record" /\ ~pass'[q].unlinking /\ InTurn(q)' = m
  BY <1>1, <1>2, <1>3
<1> QED
  BY <1>4 DEF ToBeRecorded

\* A pass goes on from where it has nothing in hand, and gives nothing.
LEMMA PassGoesOn ==
  ASSUME RoleInv, NEW p \in Passes, NEW new \in PassRecords,
         pass' = [pass EXCEPT ![p] = new], new.unlinking => new.due = {},
         pass[p].pc # "record", given' \subseteq given, UNCHANGED <<linked, turn, slipped>>
  PROVE  RoleInv'
<1>1. /\ \A q \in Passes \ {p} : pass'[q] = pass[q]
      /\ pass'[p] = new /\ pass' \in [Passes -> PassRecords]
  BY DEF RoleInv, RoleShape
<1>2. RoleShape' /\ UnlinkingGivesNothing'
  BY <1>1 DEF RoleInv, RoleShape, UnlinkingGivesNothing
<1>3. \A m : ToBeRecorded(m) => ToBeRecorded(m)'
  BY <1>1, OthersKeepTheirs
<1>4. GivenIsRemembered'
  BY <1>3 DEF RoleInv, GivenIsRemembered
<1> QED
  BY <1>2, <1>4 DEF RoleInv

\* Whose turn it is stays the same.
LEMMA StaysInTurn ==
  ASSUME RoleInv, NEW p \in Passes, NEW pc \in {"next", "repair", "record"},
         pass' = [pass EXCEPT ![p].pc = pc]
  PROVE  \E todo \in SUBSET Members :
           pass' = [pass EXCEPT ![p] = [pass[p] EXCEPT !.pc = pc, !.todo = todo]]
<1>1. pass[p] \in PassRecords /\ pass[p].todo \in SUBSET Members
  BY DEF RoleInv, RoleShape, PassRecords
<1>2. [pass[p] EXCEPT !.pc = pc] = [pass[p] EXCEPT !.pc = pc, !.todo = pass[p].todo]
  BY <1>1 DEF PassRecords
<1> QED
  BY <1>1, <1>2

LEMMA RoleSteps == RoleInv /\ [RoleNext]_roleVars => RoleInv'
<1> SUFFICES ASSUME RoleInv, [RoleNext]_roleVars PROVE RoleInv'
  OBVIOUS
<1>1. /\ DOMAIN pass = Passes /\ \A p \in Passes : pass[p] \in PassRecords
      /\ \A p \in Passes : pass[p].unlinking => pass[p].due = {}
      /\ given \subseteq Members /\ linked \subseteq Members
  BY DEF RoleInv, RoleShape, UnlinkingGivesNothing
<1>2. ASSUME NEW m \in Members, Links(m) \/ Entitles(m) \/ RoleByHand(m) PROVE RoleInv'
  <2>1. UNCHANGED <<turn, pass, slipped>> /\ given' \subseteq given /\ linked' \subseteq Members
    BY <1>1, <1>2 DEF Links, Entitles, RoleByHand
  <2>2. \A n : ToBeRecorded(n)' <=> ToBeRecorded(n)
    BY <2>1 DEF ToBeRecorded, InTurn
  <2> QED
    BY <2>1, <2>2 DEF RoleInv, RoleShape, UnlinkingGivesNothing, GivenIsRemembered
<1>3. ASSUME NEW p \in Passes, SyncBegins(p) PROVE RoleInv'
  <2>1. PICK t \in SUBSET Members :
          pass' = [pass EXCEPT ![p] = [pc |-> "next", todo |-> t, due |-> t \cap entitled,
                                       unlinking |-> FALSE]]
    BY <1>1, <1>3 DEF SyncBegins, Turns
  <2> DEFINE new == [pc |-> "next", todo |-> t, due |-> t \cap entitled, unlinking |-> FALSE]
  <2>2. new \in PassRecords /\ (new.unlinking => new.due = {})
    BY DEF PassRecords
  <2>3. UNCHANGED <<linked, turn, given, slipped>> /\ pass[p].pc = "idle"
    BY <1>3 DEF SyncBegins
  <2> HIDE DEF new
  <2> QED
    BY <2>1, <2>2, <2>3, PassGoesOn DEF new
<1>4. ASSUME NEW p \in Passes, HalfDone(p) PROVE RoleInv'
  <2>1. UNCHANGED <<linked, turn, given, slipped>> /\ pass[p].pc = "next"
    BY <1>4 DEF HalfDone
  <2>2. CASE pass[p].unlinking
    <3>1. pass' = [pass EXCEPT ![p] = NoPass]
      BY <1>4, <2>2 DEF HalfDone
    <3>2. NoPass \in PassRecords /\ (NoPass.unlinking => NoPass.due = {})
      BY DEF NoPass, PassRecords
    <3> QED
      BY <2>1, <3>1, <3>2, PassGoesOn
  <2>3. CASE ~pass[p].unlinking
    <3>1. PICK t \in SUBSET Members :
            pass' = [pass EXCEPT ![p] = [pc |-> "next", todo |-> t, due |-> {},
                                         unlinking |-> TRUE]]
      BY <1>4, <2>3 DEF HalfDone, UnlinkedTurns, Unlinked
    <3> DEFINE new == [pc |-> "next", todo |-> t, due |-> {}, unlinking |-> TRUE]
    <3>2. new \in PassRecords /\ (new.unlinking => new.due = {})
      BY DEF PassRecords
    <3> HIDE DEF new
    <3> QED
      BY <2>1, <3>1, <3>2, PassGoesOn DEF new
  <2> QED
    BY <2>2, <2>3
<1>5. ASSUME NEW p \in Passes, NEW pc \in {"next", "repair", "record"}, NEW todo \in SUBSET Members
      PROVE  LET new == [pass[p] EXCEPT !.pc = pc, !.todo = todo] IN
               /\ new \in PassRecords /\ new.pc = pc /\ new.todo = todo
               /\ new.due = pass[p].due /\ new.unlinking = pass[p].unlinking
               /\ (new.unlinking => new.due = {})
  BY <1>1 DEF PassRecords
<1>6. ASSUME NEW p \in Passes, Asks(p) PROVE RoleInv'
  <2>1. UNCHANGED <<linked, turn, given, slipped>> /\ pass[p].pc = "next"
    BY <1>6 DEF Asks
  <2>2. PICK pc \in {"next", "repair", "record"}, todo \in SUBSET Members :
          pass' = [pass EXCEPT ![p] = [pass[p] EXCEPT !.pc = pc, !.todo = todo]]
    <3>1. CASE Onwards(p)
      BY <1>1, <3>1 DEF Onwards, PassRecords
    <3>2. ASSUME NEW pc \in {"repair", "record"}, pass' = [pass EXCEPT ![p].pc = pc]
          PROVE  \E todo \in SUBSET Members :
                   pass' = [pass EXCEPT ![p] = [pass[p] EXCEPT !.pc = pc, !.todo = todo]]
      <4>1. pc \in {"next", "repair", "record"}
        OBVIOUS
      <4> QED
        BY <3>2, <4>1, StaysInTurn, ZenonT(40)
    <3> QED
      BY <1>6, <3>1, <3>2 DEF Asks
  <2> DEFINE new == [pass[p] EXCEPT !.pc = pc, !.todo = todo]
  <2>3. new \in PassRecords /\ (new.unlinking => new.due = {})
    BY <1>5, ZenonT(40)
  <2> HIDE DEF new
  <2> QED
    BY <2>1, <2>2, <2>3, PassGoesOn DEF new
<1>7. ASSUME NEW p \in Passes, Repairs(p) PROVE RoleInv'
  <2>1. UNCHANGED <<linked, turn, slipped>> /\ pass[p].pc = "repair"
    BY <1>7 DEF Repairs
  <2>2. CASE given' \subseteq given
    <3>1. PICK pc \in {"next", "repair", "record"}, todo \in SUBSET Members :
            pass' = [pass EXCEPT ![p] = [pass[p] EXCEPT !.pc = pc, !.todo = todo]]
      <4>1. CASE Onwards(p)
        BY <1>1, <4>1 DEF Onwards, PassRecords
      <4>2. CASE pass' = [pass EXCEPT ![p].pc = "record"]
        BY <4>2, StaysInTurn
      <4> QED
        BY <1>7, <4>1, <4>2 DEF Repairs
    <3> DEFINE new == [pass[p] EXCEPT !.pc = pc, !.todo = todo]
    <3>2. new \in PassRecords /\ (new.unlinking => new.due = {})
      BY <1>5, ZenonT(40)
    <3> HIDE DEF new
    <3> QED
      BY <2>1, <2>2, <3>1, <3>2, PassGoesOn DEF new
  <2>3. CASE ~(given' \subseteq given)
    <3>1. /\ given' = given \cup {InTurn(p)} /\ InTurn(p) \in pass[p].due
      BY <1>7, <2>3 DEF Repairs, Put
    <3>2. ~pass[p].unlinking
      BY <1>1, <3>1
    <3>3. pass' = [pass EXCEPT ![p].pc = "record"]
      BY <1>7, <2>3, <3>2 DEF Repairs
    <3>4. /\ pass' \in [Passes -> PassRecords]
          /\ pass'[p].pc = "record" /\ pass'[p].todo = pass[p].todo
          /\ pass'[p].due = pass[p].due /\ (pass'[p].unlinking <=> pass[p].unlinking)
          /\ \A q \in Passes \ {p} : pass'[q] = pass[q]
      BY <1>1, <3>3 DEF RoleInv, RoleShape, PassRecords
    <3>5. InTurn(p)' = InTurn(p)
      BY <3>4, Zenon DEF InTurn
    <3>6. PICK m \in Members : m = InTurn(p)
      BY <1>1, <3>1 DEF PassRecords
    <3>10. ToBeRecorded(m)'
      BY <3>2, <3>4, <3>5, <3>6 DEF ToBeRecorded
    <3>7. \A n : ToBeRecorded(n) => ToBeRecorded(n)'
      BY <2>1, <3>4, OthersKeepTheirs
    <3>8. GivenIsRemembered'
      BY <2>1, <3>1, <3>6, <3>7, <3>10 DEF RoleInv, GivenIsRemembered
    <3>9. RoleShape' /\ UnlinkingGivesNothing'
      BY <1>1, <2>1, <3>1, <3>4 DEF RoleInv, RoleShape, UnlinkingGivesNothing, PassRecords
    <3> QED
      BY <3>8, <3>9 DEF RoleInv
  <2> QED
    BY <2>2, <2>3
<1>8. ASSUME NEW p \in Passes, Records(p) PROVE RoleInv'
  <2>1. /\ UNCHANGED <<linked, given>> /\ pass[p].pc = "record" /\ Onwards(p)
        /\ slipped \ {InTurn(p)} \subseteq slipped'
        /\ pass[p].unlinking /\ InTurn(p) \in given => InTurn(p) \in slipped'
    BY <1>8 DEF Records
  <2> DEFINE todo == pass[p].todo \ {InTurn(p)}
             new == [pass[p] EXCEPT !.pc = "next", !.todo = todo]
  <2>2. new \in PassRecords /\ (new.unlinking => new.due = {})
    BY <1>1 DEF PassRecords
  <2>3. pass' = [pass EXCEPT ![p] = new]
    BY <2>1 DEF Onwards
  <2> HIDE DEF new
  <2>4. /\ pass' \in [Passes -> PassRecords] /\ pass'[p] = new
        /\ \A q \in Passes \ {p} : pass'[q] = pass[q]
    BY <1>1, <2>2, <2>3 DEF RoleInv, RoleShape
  <2>5. /\ turn' \in [Members -> Nat]
        /\ \A n \in Members : n # InTurn(p) /\ turn[n] # 0 => turn'[n] # 0
        /\ InTurn(p) \in Members /\ ~pass[p].unlinking => turn'[InTurn(p)] # 0
    <3> DEFINE m == InTurn(p)
               others == {n \in Members \ {m} : turn[n] # 0}
               before(n) == {k \in others : turn[k] < turn[n]}
    <3>1. Cardinality(others) \in Nat /\ \A n : Cardinality(before(n)) \in Nat
      <4>1. others \subseteq Members /\ \A n : before(n) \subseteq Members
        OBVIOUS
      <4> HIDE DEF others, before
      <4> QED
        BY <4>1, RoleAssumption, FS_Subset, FS_CardinalityType
    <3>2. turn' = [n \in Members |->
                     IF n \in others THEN 1 + Cardinality(before(n))
                     ELSE IF n = m /\ ~pass[p].unlinking THEN 1 + Cardinality(others)
                     ELSE 0]
      BY <1>8 DEF Records
    <3>3. \A n \in Members : n \in others <=> n # m /\ turn[n] # 0
      OBVIOUS
    <3> HIDE DEF others, before, m
    <3>4. /\ turn' \in [Members -> Nat]
          /\ \A n \in Members : n # m /\ turn[n] # 0 => turn'[n] # 0
          /\ m \in Members /\ ~pass[p].unlinking => turn'[m] # 0
      BY <3>1, <3>2, <3>3
    <3> QED
      BY <3>4 DEF m
  <2>6. RoleShape' /\ UnlinkingGivesNothing'
    BY <1>1, <2>1, <2>2, <2>4, <2>5 DEF RoleInv, RoleShape, UnlinkingGivesNothing
  <2>7. ASSUME NEW n \in given PROVE turn'[n] # 0 \/ ToBeRecorded(n)' \/ n \in slipped'
    <3>1. CASE n = InTurn(p)
      BY <1>1, <2>1, <2>5, <3>1
    <3>2. CASE n # InTurn(p)
      BY <1>1, <2>1, <2>4, <2>5, <3>2, OthersKeepTheirs DEF RoleInv, GivenIsRemembered
    <3> QED
      BY <3>1, <3>2
  <2> QED
    BY <2>1, <2>6, <2>7 DEF RoleInv, GivenIsRemembered
<1>9. ASSUME NEW p \in Passes, PassBreaks(p) PROVE RoleInv'
  <2>1. /\ pass' = [pass EXCEPT ![p] = NoPass]
        /\ UNCHANGED <<linked, turn, given>>
        /\ slipped \subseteq slipped'
        /\ pass[p].pc = "record" => InTurn(p) \in slipped'
    BY <1>9 DEF PassBreaks
  <2>2. NoPass \in PassRecords /\ (NoPass.unlinking => NoPass.due = {})
    BY DEF NoPass, PassRecords
  <2>3. /\ pass' \in [Passes -> PassRecords] /\ pass'[p] = NoPass
        /\ \A q \in Passes \ {p} : pass'[q] = pass[q]
    BY <2>1, <2>2 DEF RoleInv, RoleShape
  <2>4. RoleShape' /\ UnlinkingGivesNothing'
    BY <2>1, <2>2, <2>3 DEF RoleInv, RoleShape, UnlinkingGivesNothing
  <2>5. \A m : ToBeRecorded(m) => ToBeRecorded(m)' \/ m \in slipped'
    BY <2>1, <2>3, OthersKeepTheirs
  <2>6. GivenIsRemembered'
    BY <2>1, <2>5 DEF RoleInv, GivenIsRemembered
  <2> QED
    BY <2>4, <2>6 DEF RoleInv
<1>10. CASE UNCHANGED roleVars
  <2>1. \A n : ToBeRecorded(n)' <=> ToBeRecorded(n)
    BY <1>10 DEF roleVars, ToBeRecorded, InTurn
  <2> QED
    BY <1>10, <2>1 DEF roleVars, RoleInv, RoleShape, UnlinkingGivesNothing, GivenIsRemembered
<1> QED
  BY <1>2, <1>3, <1>4, <1>6, <1>7, <1>8, <1>9, <1>10 DEF RoleNext, PassSteps

\* However many passes overlap and whatever fails, a role the bot gave has the row that
\* gets it taken back, or is about to; the exceptions are named (role-sync.ts).
THEOREM RolesAreRemembered == RoleSpec => []GivenIsRemembered
<1>1. RoleInit => RoleInv
  <2> SUFFICES ASSUME RoleInit PROVE RoleInv
    OBVIOUS
  <2>1. NoPass \in PassRecords /\ NoPass.unlinking = FALSE
    BY DEF NoPass, PassRecords
  <2> QED
    BY <2>1 DEF RoleInit, RoleInv, RoleShape, UnlinkingGivesNothing, GivenIsRemembered
<1>2. RoleInv => GivenIsRemembered
  BY DEF RoleInv
<1> QED
  BY <1>1, <1>2, RoleSteps, PTL DEF RoleSpec
----------------------------------------------------------------------------
(* The shape of what the role sync keeps: places in the queue are numbers of members,
   and the role is given to members only. *)

\* A pass at a member has a member.
HandsAreFull == \A p \in Passes : pass[p].pc \in {"repair", "record"} => pass[p].todo # {}

RoleShapeInv == RoleTypeOK /\ HandsAreFull

LEMMA InTurnIsIn ==
  ASSUME RoleTypeOK, NEW p \in Passes, pass[p].todo # {}
  PROVE  InTurn(p) \in pass[p].todo /\ InTurn(p) \in Members
<1>1. pass[p].todo \in SUBSET Members
  BY DEF RoleTypeOK
<1>2. pass[p].todo \in SUBSET Nat
  BY <1>1, RoleAssumption
<1>3. InTurn(p) = First(pass[p].todo)
  BY DEF InTurn, First
<1>4. First(pass[p].todo) \in pass[p].todo
  BY <1>2, FirstIsIn
<1> QED
  BY <1>1, <1>3, <1>4

LEMMA PassKeepsShape ==
  ASSUME RoleShapeInv, NEW p \in Passes, NEW new \in PassRecords,
         pass' = [pass EXCEPT ![p] = new],
         new.pc \in {"repair", "record"} => new.todo # {}
  PROVE  pass' \in [Passes -> PassRecords] /\ HandsAreFull'
BY DEF RoleShapeInv, RoleTypeOK, HandsAreFull, PassRecords

\* A pass turns to another step, with the member in hand or past it.
LEMMA StepKeepsShape ==
  ASSUME RoleShapeInv, NEW p \in Passes,
         \/ Onwards(p)
         \/ pass[p].todo # {} /\ \E pc \in {"repair", "record"} : pass' = [pass EXCEPT ![p].pc = pc]
  PROVE  pass' \in [Passes -> PassRecords] /\ HandsAreFull'
<1>1. pass[p] \in PassRecords
  BY DEF RoleShapeInv, RoleTypeOK, PassRecords
<1>2. CASE Onwards(p)
  <2> DEFINE new == [pass[p] EXCEPT !.pc = "next", !.todo = @ \ {InTurn(p)}]
  <2>1. new \in PassRecords /\ new.pc = "next"
    BY <1>1 DEF PassRecords
  <2>2. pass' = [pass EXCEPT ![p] = new]
    BY <1>2 DEF Onwards
  <2> HIDE DEF new
  <2> QED
    BY <2>1, <2>2, PassKeepsShape
<1>3. ASSUME NEW pc \in {"repair", "record"}, pass' = [pass EXCEPT ![p].pc = pc], pass[p].todo # {}
      PROVE  pass' \in [Passes -> PassRecords] /\ HandsAreFull'
  <2> DEFINE new == [pass[p] EXCEPT !.pc = pc]
  <2>1. new \in PassRecords /\ new.todo # {}
    BY <1>1, <1>3 DEF PassRecords
  <2>2. pass' = [pass EXCEPT ![p] = new]
    BY <1>3
  <2> HIDE DEF new
  <2> QED
    BY <2>1, <2>2, PassKeepsShape
<1> QED
  BY <1>2, <1>3

\* The places of the others are counted anew: none is beyond the number of members.
LEMMA PlacesAreFew ==
  ASSUME NEW m \in Members, NEW t \in [Members -> Nat],
         NEW others, others = {n \in Members \ {m} : t[n] # 0}
  PROVE  /\ 1 + Cardinality(others) \in 0 .. Cardinality(Members)
         /\ \A n \in others :
              1 + Cardinality({k \in others : t[k] < t[n]}) \in 0 .. Cardinality(Members)
<1>1. IsFiniteSet(Members) /\ Cardinality(Members) \in Nat
  BY RoleAssumption, FS_CardinalityType
<1>2. IsFiniteSet(Members \ {m}) /\ Cardinality(Members \ {m}) = Cardinality(Members) - 1
  BY <1>1, FS_RemoveElement
<1>3. others \subseteq Members \ {m}
  OBVIOUS
<1>4. IsFiniteSet(others) /\ Cardinality(others) <= Cardinality(Members) - 1
  BY <1>2, <1>3, FS_Subset
<1>5. Cardinality(others) \in Nat
  BY <1>4, FS_CardinalityType
<1>6. ASSUME NEW n \in others
      PROVE  1 + Cardinality({k \in others : t[k] < t[n]}) \in 0 .. Cardinality(Members)
  <2> DEFINE before == {k \in others : t[k] < t[n]}
  <2>1. before \subseteq others
    OBVIOUS
  <2> HIDE DEF before
  <2>2. IsFiniteSet(before) /\ Cardinality(before) <= Cardinality(others)
    BY <1>4, <2>1, FS_Subset
  <2>3. Cardinality(before) \in Nat
    BY <2>2, FS_CardinalityType
  <2>4. 1 + Cardinality(before) \in 0 .. Cardinality(Members)
    BY <1>1, <1>4, <1>5, <2>2, <2>3
  <2> QED
    BY <2>4 DEF before
<1>7. 1 + Cardinality(others) \in 0 .. Cardinality(Members)
  BY <1>1, <1>4, <1>5
<1> QED
  BY <1>6, <1>7

LEMMA RoleShapeKeeps ==
  ASSUME RoleShapeInv, [RoleNext]_roleVars
  PROVE  RoleShapeInv'
<1>1. /\ pass \in [Passes -> PassRecords] /\ HandsAreFull
      /\ turn \in [Members -> 0 .. Cardinality(Members)]
      /\ linked \subseteq Members /\ entitled \subseteq Members /\ has \subseteq Members
      /\ unknown \subseteq Members /\ given \subseteq has /\ slipped \subseteq Members
      /\ swaps \in 0 .. MaxSwaps /\ syncFaults \in 0 .. MaxSyncFaults
      /\ MaxSwaps \in Nat /\ MaxSyncFaults \in Nat
  BY RoleAssumption DEF RoleShapeInv, RoleTypeOK, PassRecords
<1>2. SyncFault => syncFaults' \in 0 .. MaxSyncFaults
  BY <1>1 DEF SyncFault
<1>3. ASSUME NEW m \in Members, Links(m) \/ Entitles(m) \/ RoleByHand(m)
      PROVE  RoleShapeInv'
  <2>1. swaps' \in 0 .. MaxSwaps /\ UNCHANGED <<turn, unknown, pass, slipped, syncFaults>>
    BY <1>1, <1>3 DEF Links, Entitles, RoleByHand, Swap
  <2>2. /\ linked' \subseteq Members /\ entitled' \subseteq Members /\ has' \subseteq Members
        /\ given' \subseteq has'
    BY <1>1, <1>3 DEF Links, Entitles, RoleByHand
  <2> QED
    BY <1>1, <2>1, <2>2 DEF RoleShapeInv, RoleTypeOK, HandsAreFull, PassRecords
<1>4. ASSUME NEW p \in Passes, SyncBegins(p) PROVE RoleShapeInv'
  <2>1. PICK t \in SUBSET Members :
          pass' = [pass EXCEPT ![p] = [pc |-> "next", todo |-> t, due |-> t \cap entitled,
                                       unlinking |-> FALSE]]
    BY <1>1, <1>4 DEF SyncBegins, Turns
  <2> DEFINE new == [pc |-> "next", todo |-> t, due |-> t \cap entitled, unlinking |-> FALSE]
  <2>2. new \in PassRecords /\ new.pc = "next"
    BY DEF PassRecords
  <2> HIDE DEF new
  <2>3. pass' \in [Passes -> PassRecords] /\ HandsAreFull'
    BY <2>1, <2>2, PassKeepsShape DEF new
  <2> QED
    BY <1>1, <1>4, <2>3 DEF SyncBegins, RoleShapeInv, RoleTypeOK, PassRecords
<1>5. ASSUME NEW p \in Passes, HalfDone(p) PROVE RoleShapeInv'
  <2>1. NoPass \in PassRecords /\ NoPass.pc = "idle"
    BY DEF NoPass, PassRecords
  <2>2. \E new \in PassRecords : new.pc \in {"idle", "next"} /\ pass' = [pass EXCEPT ![p] = new]
    <3>1. CASE pass[p].unlinking
      BY <1>5, <2>1, <3>1 DEF HalfDone
    <3>2. CASE ~pass[p].unlinking
      <4>1. PICK t \in SUBSET Members :
              pass' = [pass EXCEPT ![p] = [pc |-> "next", todo |-> t, due |-> {},
                                           unlinking |-> TRUE]]
        BY <1>5, <3>2 DEF HalfDone, UnlinkedTurns, Unlinked
      <4>2. [pc |-> "next", todo |-> t, due |-> {}, unlinking |-> TRUE] \in PassRecords
        BY DEF PassRecords
      <4> QED
        BY <4>1, <4>2
    <3> QED
      BY <3>1, <3>2
  <2>3. pass' \in [Passes -> PassRecords] /\ HandsAreFull'
    BY <2>2, PassKeepsShape
  <2> QED
    BY <1>1, <1>5, <2>3 DEF HalfDone, RoleShapeInv, RoleTypeOK, PassRecords
<1>6. ASSUME NEW p \in Passes, Asks(p) PROVE RoleShapeInv'
  <2>1. \/ Onwards(p)
        \/ pass[p].todo # {} /\ \E pc \in {"repair", "record"} : pass' = [pass EXCEPT ![p].pc = pc]
    BY <1>6 DEF Asks
  <2>2. pass' \in [Passes -> PassRecords] /\ HandsAreFull'
    BY <2>1, StepKeepsShape
  <2>3. syncFaults' \in 0 .. MaxSyncFaults
    BY <1>1, <1>2, <1>6 DEF Asks
  <2> QED
    BY <1>1, <1>6, <2>2, <2>3 DEF Asks, RoleShapeInv, RoleTypeOK, PassRecords
<1>7. ASSUME NEW p \in Passes, Repairs(p) PROVE RoleShapeInv'
  <2>1. pass[p].todo # {} /\ InTurn(p) \in Members
    BY <1>1, <1>7, InTurnIsIn DEF Repairs, HandsAreFull, RoleShapeInv
  <2>2. \/ Onwards(p)
        \/ pass[p].todo # {} /\ \E pc \in {"repair", "record"} : pass' = [pass EXCEPT ![p].pc = pc]
    BY <1>7, <2>1 DEF Repairs
  <2>3. pass' \in [Passes -> PassRecords] /\ HandsAreFull'
    BY <2>2, StepKeepsShape
  <2>4. has' \subseteq Members /\ given' \subseteq has'
    BY <1>1, <1>7, <2>1 DEF Repairs, Put
  <2>5. syncFaults' \in 0 .. MaxSyncFaults
    BY <1>1, <1>2, <1>7 DEF Repairs
  <2> QED
    BY <1>1, <1>7, <2>3, <2>4, <2>5 DEF Repairs, RoleShapeInv, RoleTypeOK, PassRecords
<1>8. ASSUME NEW p \in Passes, Records(p) PROVE RoleShapeInv'
  <2>1. Onwards(p) /\ pass[p].pc = "record"
    BY <1>8 DEF Records
  <2>2. InTurn(p) \in Members
    BY <1>1, <2>1, InTurnIsIn DEF HandsAreFull, RoleShapeInv
  <2>3. pass' \in [Passes -> PassRecords] /\ HandsAreFull'
    BY <2>1, StepKeepsShape
  <2>4. turn' \in [Members -> 0 .. Cardinality(Members)]
    <3> DEFINE m == InTurn(p)
               others == {n \in Members \ {m} : turn[n] # 0}
               place(n) == 1 + Cardinality({k \in others : turn[k] < turn[n]})
    <3>1. Cardinality(Members) \in Nat /\ turn \in [Members -> Nat]
      BY <1>1, RoleAssumption, FS_CardinalityType
    <3>2. /\ 1 + Cardinality(others) \in 0 .. Cardinality(Members)
          /\ \A n \in others : place(n) \in 0 .. Cardinality(Members)
      BY <2>2, <3>1, PlacesAreFew
    <3>3. turn' = [n \in Members |->
                     IF n \in others THEN place(n)
                     ELSE IF n = m /\ ~pass[p].unlinking THEN 1 + Cardinality(others)
                     ELSE 0]
      BY <1>8 DEF Records
    <3> HIDE DEF m, others, place
    <3> QED
      BY <3>1, <3>2, <3>3
  <2>5. slipped' \subseteq Members
    BY <1>1, <1>8 DEF Records
  <2> QED
    BY <1>1, <1>8, <2>3, <2>4, <2>5 DEF Records, RoleShapeInv, RoleTypeOK, PassRecords
<1>9. ASSUME NEW p \in Passes, PassBreaks(p) PROVE RoleShapeInv'
  <2>1. NoPass \in PassRecords /\ NoPass.pc = "idle"
    BY DEF NoPass, PassRecords
  <2>2. pass' \in [Passes -> PassRecords] /\ HandsAreFull'
    BY <1>9, <2>1, PassKeepsShape DEF PassBreaks
  <2>3. pass[p].pc = "record" => InTurn(p) \in Members
    BY <1>1, InTurnIsIn DEF HandsAreFull, RoleShapeInv
  <2>4. slipped' \subseteq Members
    BY <1>1, <1>9, <2>3 DEF PassBreaks
  <2> QED
    BY <1>1, <1>2, <1>9, <2>2, <2>4 DEF PassBreaks, RoleShapeInv, RoleTypeOK, PassRecords
<1>10. CASE UNCHANGED roleVars
  BY <1>10 DEF roleVars, RoleShapeInv, RoleTypeOK, HandsAreFull
<1> QED
  BY <1>3, <1>4, <1>5, <1>6, <1>7, <1>8, <1>9, <1>10 DEF RoleNext, PassSteps

\* Roles, places and passes keep their shape: a place in the order of synced_at is never
\* beyond the number of members, and the bot's gifts are roles that members have
\* (role-sync.ts).
THEOREM RolesKeepTheirShape == RoleSpec => []RoleTypeOK
<1>1. RoleInit => RoleShapeInv
  <2> SUFFICES ASSUME RoleInit PROVE RoleShapeInv
    OBVIOUS
  <2>1. Cardinality(Members) \in Nat /\ MaxSwaps \in Nat /\ MaxSyncFaults \in Nat
    BY RoleAssumption, FS_CardinalityType
  <2>2. NoPass \in PassRecords /\ NoPass.pc = "idle"
    BY DEF NoPass, PassRecords
  <2> QED
    BY <2>1, <2>2 DEF RoleInit, RoleShapeInv, RoleTypeOK, HandsAreFull, PassRecords
<1>2. RoleShapeInv /\ [RoleNext]_roleVars => RoleShapeInv'
  BY RoleShapeKeeps
<1>3. RoleShapeInv => RoleTypeOK
  BY DEF RoleShapeInv
<1> QED
  BY <1>1, <1>2, <1>3, PTL DEF RoleSpec
----------------------------------------------------------------------------
(* The counter of failures never passes the number of episodes: a message that failed is
   out of every round's hands and is never taken up again. *)

InHands(n) == dmRound[n].todo \cup dmRound[n].now
SettledFor(u) == {e \in Parts : <<u, e>> \in deliveries /\ \A n \in DmRounds : <<u, e>> \notin InHands(n)}

DmHands ==
  /\ \A n \in DmRounds : InHands(n) \subseteq deliveries /\ dmRound[n].todo \cap dmRound[n].now = {}
  /\ \A n, m \in DmRounds : n # m => InHands(n) \cap InHands(m) = {}
MissesFit == \A u \in Users : misses[u] <= Cardinality(SettledFor(u))
DmRest ==
  /\ out \subseteq Parts /\ wish \in [Users -> BOOLEAN] /\ since \in [Users -> SUBSET Parts]
  /\ flips \in 0 .. MaxFlips /\ dmCrashes \in 0 .. MaxDmCrashes

LEMMA SettledIsFinite ==
  ASSUME NEW u
  PROVE  /\ IsFiniteSet(SettledFor(u)) /\ Cardinality(SettledFor(u)) \in Nat
         /\ Cardinality(SettledFor(u)) <= Cardinality(Parts)
<1>1. IsFiniteSet(Parts) /\ SettledFor(u) \subseteq Parts
  BY DmAssumption DEF SettledFor
<1>2. IsFiniteSet(SettledFor(u)) /\ Cardinality(SettledFor(u)) <= Cardinality(Parts)
  BY <1>1, FS_Subset
<1> QED
  BY <1>2, FS_CardinalityType

LEMMA SettledNextIsFinite ==
  ASSUME NEW u
  PROVE  IsFiniteSet(SettledFor(u)') /\ Cardinality(SettledFor(u)') \in Nat
<1>1. IsFiniteSet(Parts) /\ SettledFor(u)' \subseteq Parts
  BY DmAssumption DEF SettledFor
<1>2. IsFiniteSet(SettledFor(u)')
  BY <1>1, FS_Subset
<1> QED
  BY <1>2, FS_CardinalityType

\* Nothing that was settled is taken up, and no failure is counted.
LEMMA NoMissIsAdded ==
  ASSUME DmInv, DmInv', MissesFit, deliveries \subseteq deliveries',
         \A n \in DmRounds : InHands(n)' \cap deliveries \subseteq InHands(n),
         \A u \in Users : misses'[u] <= misses[u]
  PROVE  MissesFit'
<1> SUFFICES ASSUME NEW u \in Users PROVE misses'[u] <= Cardinality(SettledFor(u)')
  BY DEF MissesFit
<1>1. SettledFor(u) \subseteq SettledFor(u)'
  BY DEF SettledFor
<1>2. Cardinality(SettledFor(u)) <= Cardinality(SettledFor(u)')
  BY <1>1, SettledNextIsFinite, FS_Subset
<1>3. misses[u] \in Nat /\ misses'[u] \in Nat /\ misses[u] <= Cardinality(SettledFor(u))
  BY DEF DmInv, DmShape, MissesFit
<1> QED
  BY <1>2, <1>3, SettledIsFinite, SettledNextIsFinite

\* A round's hands hold less than before.
LEMMA HandsShrink ==
  ASSUME DmInv, DmHands, NEW n \in DmRounds, NEW j \in DmJob,
         j.todo \subseteq dmRound[n].todo, j.now \subseteq InHands(n), j.todo \cap j.now = {},
         dmRound' = [dmRound EXCEPT ![n] = j], UNCHANGED deliveries
  PROVE  /\ DmHands'
         /\ InHands(n)' = j.todo \cup j.now
         /\ \A m \in DmRounds : InHands(m)' \cap deliveries \subseteq InHands(m)
<1>1. InHands(n)' = j.todo \cup j.now /\ dmRound'[n] = j
  BY DEF DmInv, DmShape, InHands
<1>2. \A m \in DmRounds : m # n => InHands(m)' = InHands(m) /\ dmRound'[m] = dmRound[m]
  BY DEF DmInv, DmShape, InHands
<1>3. \A m \in DmRounds : InHands(m)' \subseteq InHands(m)
  BY <1>1, <1>2 DEF InHands
<1>4. \A m \in DmRounds : dmRound'[m].todo \cap dmRound'[m].now = {}
  BY <1>1, <1>2 DEF DmHands
<1>5. DmHands'
  BY <1>3, <1>4 DEF DmHands
<1> QED
  BY <1>1, <1>3, <1>5

\* Only a failure is counted, and it is of a message that is settled by that.
LEMMA MissIsSettled ==
  ASSUME DmInv, DmInv', DmHands, MissesFit, NEW n \in DmRounds, Fails(n)
  PROVE  DmHands' /\ MissesFit'
<1>1. PICK d \in dmRound[n].now : misses' = [misses EXCEPT ![d[1]] = @ + 1]
  BY DEF Fails
<1>2. UNCHANGED deliveries /\ dmRound' = [dmRound EXCEPT ![n] = [Asleep EXCEPT !.todo = dmRound[n].todo]]
  BY DEF Fails, Outcome
<1> DEFINE j == [Asleep EXCEPT !.todo = dmRound[n].todo]
<1>3. dmRound[n].todo \in SUBSET Due /\ d \in Due /\ d \in InHands(n) /\ d \notin dmRound[n].todo
  BY <1>1 DEF DmInv, DmShape, DmJob, InHands, DmHands
<1>4. j \in DmJob /\ j.todo = dmRound[n].todo /\ j.now = {}
  BY <1>3 DEF Asleep, DmJob
<1>5. dmRound' = [dmRound EXCEPT ![n] = j]
  BY <1>2
<1> HIDE DEF j
<1>6. /\ DmHands' /\ InHands(n)' = dmRound[n].todo
      /\ \A m \in DmRounds : InHands(m)' \cap deliveries \subseteq InHands(m)
  <2>1. /\ j.todo \subseteq dmRound[n].todo /\ j.now \subseteq InHands(n)
        /\ j.todo \cap j.now = {} /\ j.todo \cup j.now = dmRound[n].todo
    BY <1>4
  <2> QED
    BY <1>2, <1>4, <1>5, <2>1, HandsShrink
<1>7. PICK u \in Users, e \in Parts : d = <<u, e>>
  BY <1>3 DEF Due
<1>8. \A m \in DmRounds : d \notin InHands(m)'
  <2>1. ASSUME NEW m \in DmRounds, m # n PROVE InHands(m)' = InHands(m) /\ d \notin InHands(m)
    BY <1>3, <1>5, <2>1 DEF DmInv, DmShape, InHands, DmHands
  <2> QED
    BY <1>3, <1>6, <2>1
<1>9. SettledFor(u) \cup {e} \subseteq SettledFor(u)' /\ e \notin SettledFor(u)
  BY <1>2, <1>3, <1>6, <1>7, <1>8 DEF SettledFor, DmHands
<1>10. Cardinality(SettledFor(u)) + 1 <= Cardinality(SettledFor(u)')
  <2>1. Cardinality(SettledFor(u) \cup {e}) = Cardinality(SettledFor(u)) + 1
    BY <1>9, SettledIsFinite, FS_AddElement
  <2> QED
    BY <1>9, <2>1, SettledNextIsFinite, FS_Subset
<1>11. misses' = [misses EXCEPT ![u] = misses[u] + 1]
  BY <1>1, <1>7
<1>12. ASSUME NEW v \in Users PROVE misses'[v] <= Cardinality(SettledFor(v)')
  <2>1. misses[v] \in Nat /\ misses[v] <= Cardinality(SettledFor(v)) /\ misses \in [Users -> Nat]
    BY DEF DmInv, DmShape, MissesFit
  <2>2. CASE v = u
    BY <1>10, <1>11, <2>1, <2>2, SettledIsFinite, SettledNextIsFinite
  <2>3. CASE v # u
    <3>1. SettledFor(v) \subseteq SettledFor(v)'
      BY <1>2, <1>6 DEF SettledFor
    <3>2. Cardinality(SettledFor(v)) <= Cardinality(SettledFor(v)')
      BY <3>1, SettledNextIsFinite, FS_Subset
    <3> QED
      BY <1>11, <2>1, <2>3, <3>2, SettledIsFinite, SettledNextIsFinite
  <2> QED
    BY <2>2, <2>3
<1> QED
  BY <1>6, <1>12 DEF MissesFit

LEMMA HandsKeep ==
  ASSUME DmInv, DmInv', DmHands, MissesFit, [DmNext]_dmVars
  PROVE  DmHands' /\ MissesFit'
<1>1. misses \in [Users -> Nat] /\ dmRound \in [DmRounds -> DmJob]
  BY DEF DmInv, DmShape
<1>2. ASSUME UNCHANGED <<deliveries, dmRound>>, \A u \in Users : misses'[u] <= misses[u]
      PROVE  DmHands' /\ MissesFit'
  <2>1. \A n \in DmRounds : InHands(n)' = InHands(n)
    BY <1>2 DEF InHands
  <2> QED
    BY <1>2, <2>1, NoMissIsAdded DEF DmHands
<1>3. CASE UNCHANGED dmVars \/ \E e \in Parts : ComesOut(e)
  <2>1. UNCHANGED <<deliveries, dmRound, misses>>
    BY <1>3 DEF dmVars, ComesOut
  <2> QED
    BY <1>1, <1>2, <2>1
<1>4. ASSUME NEW u \in Users, NEW on \in BOOLEAN, SetDm(u, on)
      PROVE  DmHands' /\ MissesFit'
  <2>1. UNCHANGED <<deliveries, dmRound>> /\ misses' = [misses EXCEPT ![u] = 0]
    BY <1>4 DEF SetDm
  <2> QED
    BY <1>1, <1>2, <2>1
<1>5. ASSUME NEW n \in DmRounds, NEW j \in DmJob,
             j.todo \subseteq dmRound[n].todo, j.now \subseteq InHands(n), j.todo \cap j.now = {},
             dmRound' = [dmRound EXCEPT ![n] = j], UNCHANGED deliveries,
             \A u \in Users : misses'[u] <= misses[u]
      PROVE  DmHands' /\ MissesFit'
  <2>1. DmHands' /\ \A m \in DmRounds : InHands(m)' \cap deliveries \subseteq InHands(m)
    BY <1>5, HandsShrink
  <2> QED
    BY <1>5, <2>1, NoMissIsAdded
<1>6. ASSUME NEW n \in DmRounds, NotifyNew(n)
      PROVE  DmHands' /\ MissesFit'
  <2>1. PICK c \in SUBSET Due :
          /\ c \cap deliveries = {} /\ deliveries' = deliveries \cup c
          /\ dmRound' = [dmRound EXCEPT ![n].todo = c] /\ dmRound[n] = Asleep /\ misses' = misses
    <3>1. \A c \in Candidates : c \in SUBSET Due /\ c \cap deliveries = {} /\ c \ deliveries = c
      BY DEF Candidates
    <3> QED
      BY <1>6, <3>1 DEF NotifyNew
  <2>2. /\ dmRound'[n].todo = c /\ dmRound'[n].now = {}
        /\ \A m \in DmRounds : m # n => dmRound'[m] = dmRound[m]
    BY <1>1, <2>1 DEF Asleep, DmJob
  <2>3. InHands(n)' = c /\ \A m \in DmRounds : m # n => InHands(m)' = InHands(m)
    BY <2>2 DEF InHands
  <2>4. DmHands'
    BY <2>1, <2>2, <2>3 DEF DmHands
  <2>5. /\ \A m \in DmRounds : InHands(m)' \cap deliveries \subseteq InHands(m)
        /\ deliveries \subseteq deliveries' /\ \A u \in Users : misses'[u] <= misses[u]
    BY <1>1, <2>1, <2>3
  <2> QED
    BY <2>4, <2>5, NoMissIsAdded
<1>7. ASSUME NEW n \in DmRounds, Sends(n)
      PROVE  DmHands' /\ MissesFit'
  <2>1. PICK d \in dmRound[n].todo, got \in {"yes", "no"} :
          dmRound' = [dmRound EXCEPT ![n] = [todo |-> dmRound[n].todo \ {d}, now |-> {d}, got |-> got]]
    BY <1>7 DEF Sends
  <2> DEFINE j == [todo |-> dmRound[n].todo \ {d}, now |-> {d}, got |-> got]
  <2>2. /\ j \in DmJob /\ j.todo \subseteq dmRound[n].todo /\ j.now \subseteq InHands(n)
        /\ j.todo \cap j.now = {}
    BY <1>1, <2>1 DEF DmJob, InHands
  <2>3. UNCHANGED <<deliveries, misses>>
    BY <1>7 DEF Sends
  <2>4. dmRound' = [dmRound EXCEPT ![n] = j]
    BY <2>1
  <2>5. \A u \in Users : misses'[u] <= misses[u]
    BY <1>1, <2>3
  <2> HIDE DEF j
  <2> QED
    BY <1>5, <2>2, <2>3, <2>4, <2>5
<1>8. ASSUME NEW n \in DmRounds, Vanished(n)
      PROVE  DmHands' /\ MissesFit'
  <2>1. PICK d \in dmRound[n].todo : dmRound' = [dmRound EXCEPT ![n].todo = @ \ {d}]
    BY <1>8 DEF Vanished
  <2> DEFINE j == [dmRound[n] EXCEPT !.todo = dmRound[n].todo \ {d}]
  <2>2. /\ j \in DmJob /\ j.todo \subseteq dmRound[n].todo /\ j.now \subseteq InHands(n)
        /\ j.todo \cap j.now = {}
    BY <1>1, <2>1 DEF DmJob, InHands, DmHands
  <2>3. UNCHANGED <<deliveries, misses>> /\ dmRound' = [dmRound EXCEPT ![n] = j]
    BY <1>8, <2>1 DEF Vanished
  <2>4. \A u \in Users : misses'[u] <= misses[u]
    BY <1>1, <2>3
  <2> HIDE DEF j
  <2> QED
    BY <1>5, <2>2, <2>3, <2>4
<1>9. ASSUME NEW n \in DmRounds, Succeeds(n)
      PROVE  DmHands' /\ MissesFit'
  <2>1. PICK u \in Users : misses' = [misses EXCEPT ![u] = 0]
    <3>1. \A d \in dmRound[n].now : d[1] \in Users
      BY <1>1 DEF DmJob, Due
    <3> QED
      BY <1>9, <3>1 DEF Succeeds
  <2> DEFINE j == [Asleep EXCEPT !.todo = dmRound[n].todo]
  <2>2. /\ j \in DmJob /\ j.todo \subseteq dmRound[n].todo /\ j.now \subseteq InHands(n)
        /\ j.todo \cap j.now = {}
    BY <1>1 DEF DmJob, InHands, Asleep
  <2>3. UNCHANGED deliveries /\ dmRound' = [dmRound EXCEPT ![n] = j]
    BY <1>9 DEF Succeeds, Outcome
  <2>4. \A v \in Users : misses'[v] <= misses[v]
    BY <1>1, <2>1
  <2> HIDE DEF j
  <2> QED
    BY <1>5, <2>2, <2>3, <2>4
<1>10. ASSUME NEW n \in DmRounds, DmRoundBreaks(n)
       PROVE  DmHands' /\ MissesFit'
  <2>1. Asleep \in DmJob /\ Asleep.todo = {} /\ Asleep.now = {}
    BY DEF Asleep, DmJob
  <2>2. UNCHANGED <<deliveries, misses>> /\ dmRound' = [dmRound EXCEPT ![n] = Asleep]
    BY <1>10 DEF DmRoundBreaks
  <2>3. \A u \in Users : misses'[u] <= misses[u]
    BY <1>1, <2>2
  <2>4. /\ Asleep.todo \subseteq dmRound[n].todo /\ Asleep.now \subseteq InHands(n)
        /\ Asleep.todo \cap Asleep.now = {}
    BY <2>1
  <2> QED
    BY <1>5, <2>1, <2>2, <2>3, <2>4
<1> QED
  BY <1>3, <1>4, <1>6, <1>7, <1>8, <1>9, <1>10, MissIsSettled DEF DmNext, DmSteps

LEMMA RestKeeps ==
  ASSUME DmRest, [DmNext]_dmVars
  PROVE  DmRest'
<1>1. MaxFlips \in Nat /\ MaxDmCrashes \in Nat
  BY DmAssumption
<1>2. ASSUME NEW e \in Parts, ComesOut(e) PROVE DmRest'
  BY <1>2 DEF ComesOut, DmRest
<1>3. ASSUME NEW u \in Users, NEW on \in BOOLEAN, SetDm(u, on) PROVE DmRest'
  <2>1. flips' \in 0 .. MaxFlips
    BY <1>1, <1>3 DEF SetDm, DmRest
  <2> QED
    BY <1>3, <2>1 DEF SetDm, DmRest
<1>4. ASSUME NEW n \in DmRounds, DmSteps(n) PROVE DmRest'
  BY <1>4 DEF DmSteps, NotifyNew, Vanished, Sends, Succeeds, Fails, DmRest
<1>5. ASSUME NEW n \in DmRounds, DmRoundBreaks(n) PROVE DmRest'
  BY <1>1, <1>5 DEF DmRoundBreaks, DmRest
<1>6. CASE UNCHANGED dmVars
  BY <1>6 DEF dmVars, DmRest
<1> QED
  BY <1>2, <1>3, <1>4, <1>5, <1>6 DEF DmNext

\* What the notices keep has its shape; the failures counted are of different episodes,
\* whichever rounds overlap, so the counter stays below their number (dm-notify.ts).
THEOREM NoticesKeepTheirShape == DmSpec => []DmTypeOK
<1> DEFINE Inv == DmInv /\ DmHands /\ MissesFit /\ DmRest
<1>1. DmInit => Inv
  <2> SUFFICES ASSUME DmInit PROVE Inv
    OBVIOUS
  <2>1. MaxFlips \in Nat /\ MaxDmCrashes \in Nat
    BY DmAssumption
  <2>2. DmRest /\ \A u \in Users : misses[u] = 0
    BY <2>1 DEF DmInit, DmRest
  <2>3. DmHands
    BY DEF DmInit, DmHands, InHands, Asleep
  <2>4. MissesFit
    BY <2>2, SettledIsFinite DEF MissesFit
  <2> QED
    BY <2>2, <2>3, <2>4, DmStarts
<1>2. Inv /\ [DmNext]_dmVars => Inv'
  BY DmKeeps, HandsKeep, RestKeeps
<1>3. Inv => DmTypeOK
  <2> SUFFICES ASSUME Inv PROVE DmTypeOK
    OBVIOUS
  <2>1. \A u \in Users : misses[u] \in 0 .. Cardinality(Parts) /\ failures[u] = misses[u]
    <3>1. Cardinality(Parts) \in Nat
      BY DmAssumption, FS_CardinalityType
    <3> TAKE u \in Users
    <3>2. misses[u] \in Nat /\ misses[u] <= Cardinality(SettledFor(u)) /\ failures[u] = misses[u]
      BY DEF DmInv, DmShape, DmCounted, MissesFit
    <3> QED
      BY <3>1, <3>2, SettledIsFinite
  <2> QED
    BY <2>1 DEF DmInv, DmShape, DmSwitch, DmHeldAlone, DmJob, DmRest, DmTypeOK
<1> QED
  BY <1>1, <1>2, <1>3, PTL DEF DmSpec
=============================================================================
