---------------------------- MODULE MarketingProofs ----------------------------
(***************************************************************************)
(* Theorems about Marketing for any links, recommendations, experiments,   *)
(* visitors and sessions; none assumes that requests do not overlap.       *)
(*                                                                         *)
(* The argument.  A click holds its link from the lock to the commit, so   *)
(* that the counter it read and the search for duplicates still hold when  *)
(* it writes; only time passes meanwhile, and that makes no duplicate.     *)
(* Every change of a row's text or status has a version of its own: an     *)
(* UPDATE that finds the version of the page finds the row as the page     *)
(* showed it, and as the view in between showed it.  A recommendation that *)
(* was confirmed never changes, so that a view can only be too old to show *)
(* it as confirmed.                                                        *)
(***************************************************************************)
EXTENDS Marketing, FiniteSetTheorems, SequenceTheorems, TLAPS

(***************************************************************************)
(* The inductive invariant.                                                *)
(***************************************************************************)

Holding(s) == s.at \in {"locked", "decided"}

(* What a click has read of its link is as it read it.                      *)
ClickSound(s) ==
    Holding(s) =>
        /\ link[s.link].status # "absent"
        /\ s.read = link[s.link].click_count
        /\ s.at = "decided" /\ s.counted => ~Duplicate(s.visitor, clicks[s.link])

OneHolds ==
    \A s, t \in Sessions :
        Holding(session[s]) /\ Holding(session[t]) /\ session[s].link = session[t].link => s = t

LinkSound(row) ==
    /\ row.status = "absent" => row.click_count = 0
    /\ row.status # "absent" => row.lock_version >= 1

LinksSafe ==
    /\ \A l \in Links : LinkSound(link[l])
    /\ OneHolds
    /\ \A s \in Sessions : ClickSound(session[s])
    /\ CountersMatch
    /\ CountedOnce

(* What a user has seen of a recommendation is what it was at the version   *)
(* on the page; what a view showed as confirmed is so for good.             *)
RecommendationSeen(s) ==
    s.at \in {"recommendation_page", "recommendation_open"} =>
        LET row == recommendation[s.of] IN
        /\ row.confirm_status # "absent"
        /\ s.expected <= row.version_no
        /\ s.expected = row.version_no => s.seen = row.content
        /\ s.at = "recommendation_open" /\ s.status = "confirmed" =>
            row.confirm_status = "confirmed" /\ s.content = row.content

RecommendationsSafe ==
    /\ \A r \in Recommendations :
        LET row == recommendation[r] IN
        /\ row.confirm_status # "absent" => row.version_no >= 1 /\ row.content # NoContent
        /\ row.confirm_status \in {"confirmed", "rejected"} => row.content = row.agreed
    /\ \A s \in Sessions : RecommendationSeen(session[s])

ExperimentSeen(s) ==
    s.at \in {"experiment_page", "experiment_open"} =>
        LET row == experiment[s.of] IN
        /\ row.experiment_status # "absent"
        /\ s.expected <= row.version_no
        /\ s.expected = row.version_no =>
            /\ s.seen = row.content
            /\ s.at = "experiment_open" => s.status = row.experiment_status

ExperimentsSafe ==
    /\ \A x \in Experiments :
        LET row == experiment[x] IN
        /\ row.experiment_status # "absent" =>
            row.version_no >= 1 /\ row.content # NoContent /\ row.of \in Recommendations
        /\ row.experiment_status \in {"confirmed", "running", "finished"} =>
            row.content = row.agreed
    /\ \A s \in Sessions : ExperimentSeen(session[s])
    /\ DraftedFromAgreed

IInv == TypeOK /\ LinksSafe /\ RecommendationsSafe /\ ExperimentsSafe

(***************************************************************************)
(* Types and frames.                                                       *)
(***************************************************************************)

LEMMA SessionShape ==
    ASSUME NEW s \in SessionStates
    PROVE  /\ Holding(s) =>
                /\ s.link \in Links /\ s.visitor \in Visitors \cup {Unknown}
                /\ s.read \in 0..MaxClicks /\ s.counted \in BOOLEAN
           /\ s.at = "link_page" => s.link \in Links
           /\ s.at \in {"recommendation_page", "recommendation_open"} =>
                /\ s.of \in Recommendations
                /\ s.expected \in 1..MaxVersion /\ s.seen \in Contents
           /\ s.at = "recommendation_open" => s.content \in Contents
           /\ s.at \in {"experiment_page", "experiment_open"} =>
                /\ s.of \in Experiments
                /\ s.expected \in 1..MaxVersion /\ s.seen \in Contents
           /\ s.at = "experiment_open" => s.status \in ExperimentStatuses
<1>1. CASE s = Idle
  BY <1>1 DEF Idle, Holding
<1>2. CASE s \in [at: {"locked", "decided"}, link: Links, visitor: Visitors \cup {Unknown},
                  read: 0..MaxClicks, counted: BOOLEAN]
  BY <1>2 DEF Holding
<1>3. CASE s \in [at: {"link_page"}, link: Links, expected: 1..MaxLinkVersion]
  BY <1>3 DEF Holding
<1>4. CASE s \in [at: {"recommendation_page"}, of: Recommendations,
                  expected: 1..MaxVersion, seen: Contents]
  BY <1>4 DEF Holding
<1>5. CASE s \in [at: {"recommendation_open"}, of: Recommendations,
                  expected: 1..MaxVersion, seen: Contents,
                  status: {"pending", "confirmed", "rejected"}, content: Contents, usable: BOOLEAN]
  BY <1>5 DEF Holding
<1>6. CASE s \in [at: {"experiment_page"}, of: Experiments, expected: 1..MaxVersion, seen: Contents]
  BY <1>6 DEF Holding
<1>7. CASE s \in [at: {"experiment_open"}, of: Experiments, expected: 1..MaxVersion,
                  seen: Contents, status: ExperimentStatuses]
  BY <1>7 DEF Holding
<1>8. CASE s \in [at: {"generating"}]
  BY <1>8 DEF Holding
<1> QED
  BY <1>1, <1>2, <1>3, <1>4, <1>5, <1>6, <1>7, <1>8 DEF SessionStates

(* Between its steps a session is at a place that claims nothing.           *)
Neutral(s) ==
    /\ s \in SessionStates
    /\ ~Holding(s)
    /\ s.at \notin {"recommendation_page", "recommendation_open", "experiment_page", "experiment_open"}

LEMMA IdleNeutral == Neutral(Idle)
  BY DEF Neutral, SessionStates, Idle, Holding

LEMMA Moved ==
    ASSUME TypeOK, NEW q \in Sessions, NEW s, Goto(q, s)
    PROVE  session'[q] = s /\ \A p \in Sessions \ {q} : session'[p] = session[p]
  BY DEF TypeOK, Goto

LEMMA TypesMoved ==
    ASSUME TypeOK, NEW q \in Sessions, NEW s \in SessionStates, Goto(q, s),
           link' \in [Links -> LinkRows], clicks' \in [Links -> Seq(Clicks)],
           assetUsable' \in BOOLEAN,
           recommendation' \in [Recommendations -> RecommendationRows],
           experiment' \in [Experiments -> ExperimentRows]
    PROVE  TypeOK'
  BY DEF TypeOK, Goto

(* No click begins or ends, and no link changes.                            *)
LEMMA LinksQuiet ==
    ASSUME TypeOK, LinksSafe, NEW q \in Sessions, NEW s, Goto(q, s), ~Holding(s),
           UNCHANGED <<link, clicks>>
    PROVE  LinksSafe'
<1>1. session'[q] = s /\ \A p \in Sessions \ {q} : session'[p] = session[p]
  BY Moved
<1>2. OneHolds'
  BY <1>1 DEF LinksSafe, OneHolds
<1>3. \A p \in Sessions : ClickSound(session[p])'
  BY <1>1 DEF LinksSafe, ClickSound
<1>4. CountersMatch' /\ CountedOnce'
  BY DEF LinksSafe, CountersMatch, CountedOnce, Statistics, CountedClicks
<1> QED
  BY <1>2, <1>3, <1>4 DEF LinksSafe

(* A session goes on, and no recommendation changes.                        *)
LEMMA RecommendationsQuiet ==
    ASSUME TypeOK, RecommendationsSafe, NEW q \in Sessions, NEW s, Goto(q, s),
           RecommendationSeen(s), UNCHANGED recommendation
    PROVE  RecommendationsSafe'
<1>1. session'[q] = s /\ \A p \in Sessions \ {q} : session'[p] = session[p]
  BY Moved
<1>2. \A p \in Sessions : RecommendationSeen(session[p])'
  BY <1>1 DEF RecommendationsSafe, RecommendationSeen
<1> QED
  BY <1>2 DEF RecommendationsSafe

(* What was confirmed never changes.                                        *)
ConfirmedKept ==
    \A r \in Recommendations : recommendation[r].confirm_status = "confirmed" =>
        recommendation'[r] = recommendation[r]

LEMMA ExperimentsQuiet ==
    ASSUME TypeOK, ExperimentsSafe, NEW q \in Sessions, NEW s, Goto(q, s),
           ExperimentSeen(s), UNCHANGED experiment, ConfirmedKept
    PROVE  ExperimentsSafe'
<1>1. session'[q] = s /\ \A p \in Sessions \ {q} : session'[p] = session[p]
  BY Moved
<1>2. \A p \in Sessions : ExperimentSeen(session[p])'
  BY <1>1 DEF ExperimentsSafe, ExperimentSeen
<1>3. DraftedFromAgreed'
  BY DEF ExperimentsSafe, DraftedFromAgreed, ConfirmedKept
<1> QED
  BY <1>2, <1>3 DEF ExperimentsSafe

(* A session moves on with all tables as they were.                         *)
LEMMA OnlyMoves ==
    ASSUME IInv, NEW q \in Sessions, NEW s \in SessionStates, Goto(q, s), ~Holding(s),
           RecommendationSeen(s), ExperimentSeen(s),
           UNCHANGED <<link, clicks, assetUsable, recommendation, experiment>>
    PROVE  IInv'
<1>1. TypeOK'
  BY TypesMoved DEF IInv, TypeOK
<1>2. ConfirmedKept
  BY DEF ConfirmedKept
<1> QED
  BY <1>1, <1>2, LinksQuiet, RecommendationsQuiet, ExperimentsQuiet DEF IInv

LEMMA MovesNeutrally ==
    ASSUME IInv, NEW q \in Sessions, NEW s, Neutral(s), Goto(q, s),
           UNCHANGED <<link, clicks, assetUsable, recommendation, experiment>>
    PROVE  IInv'
  BY OnlyMoves DEF Neutral, RecommendationSeen, ExperimentSeen

(***************************************************************************)
(* Links and clicks.                                                       *)
(***************************************************************************)

LEMMA CountedFinite ==
    ASSUME TypeOK, NEW l \in Links
    PROVE  /\ DOMAIN clicks[l] = 1..Len(clicks[l]) /\ Len(clicks[l]) \in Nat
           /\ IsFiniteSet(CountedClicks(l))
           /\ Cardinality(CountedClicks(l)) \in Nat
           /\ Cardinality(CountedClicks(l)) <= Len(clicks[l])
<1>1. clicks[l] \in Seq(Clicks)
  BY DEF TypeOK
<1>2. DOMAIN clicks[l] = 1..Len(clicks[l]) /\ Len(clicks[l]) \in Nat
  BY <1>1, LenProperties
<1>3. IsFiniteSet(1..Len(clicks[l])) /\ Cardinality(1..Len(clicks[l])) = Len(clicks[l])
  BY <1>2, FS_Interval
<1>4. CountedClicks(l) \in SUBSET (1..Len(clicks[l]))
  BY <1>2 DEF CountedClicks
<1>5. IsFiniteSet(CountedClicks(l)) /\ Cardinality(CountedClicks(l)) <= Len(clicks[l])
  BY <1>3, <1>4, FS_Subset
<1> QED
  BY <1>2, <1>5, FS_CardinalityType

(* Recommendations and experiments do not notice links, clicks and time.    *)
LEMMA OthersStill ==
    ASSUME RecommendationsSafe, ExperimentsSafe,
           UNCHANGED <<recommendation, experiment, session>>
    PROVE  RecommendationsSafe' /\ ExperimentsSafe'
<1>1. RecommendationsSafe'
  BY DEF RecommendationsSafe, RecommendationSeen
<1>2. ExperimentsSafe'
  BY DEF ExperimentsSafe, ExperimentSeen, DraftedFromAgreed
<1> QED
  BY <1>1, <1>2

LEMMA CreateLinkSafe ==
    ASSUME IInv, NEW l \in Links, CreateLink(l)
    PROVE  IInv'
<1>1. link \in [Links -> LinkRows] /\ link[l].click_count = 0
  BY DEF IInv, TypeOK, LinksSafe, LinkSound, CreateLink
<1>2. [status |-> "active", lock_version |-> 1, click_count |-> 0] \in LinkRows
  BY BoundAssumption DEF LinkRows
<1>3. TypeOK'
  BY <1>1, <1>2 DEF IInv, TypeOK, CreateLink
<1>4. \A k \in Links : link'[k].click_count = link[k].click_count
  BY <1>1 DEF CreateLink
<1>5. CountersMatch' /\ CountedOnce'
  BY <1>4 DEF IInv, LinksSafe, CountersMatch, CountedOnce, Statistics, CountedClicks, CreateLink
<1>6. \A s \in Sessions : ClickSound(session[s])'
  BY <1>1, <1>4, SessionShape DEF IInv, TypeOK, LinksSafe, ClickSound, CreateLink
<1>7. \A k \in Links : LinkSound(link'[k])
  BY <1>1 DEF IInv, LinksSafe, LinkSound, CreateLink
<1>8. OneHolds'
  BY DEF IInv, LinksSafe, OneHolds, CreateLink
<1>9. LinksSafe'
  BY <1>5, <1>6, <1>7, <1>8 DEF LinksSafe
<1> QED
  BY <1>3, <1>9, OthersStill DEF IInv, CreateLink

LEMMA SwitchedRow ==
    ASSUME NEW row \in LinkRows, row.lock_version < MaxLinkVersion,
           NEW status \in {"active", "inactive"}
    PROVE  /\ Switched(row, status) \in LinkRows
           /\ Switched(row, status).click_count = row.click_count
           /\ Switched(row, status).status = status
           /\ Switched(row, status).lock_version >= 1
<1>1. \A n \in 0..MaxLinkVersion : n < MaxLinkVersion => n + 1 \in 0..MaxLinkVersion
  BY BoundAssumption
<1>2. Switched(row, status) \in LinkRows
  BY <1>1 DEF LinkRows, Switched
<1> QED
  BY <1>2, BoundAssumption DEF LinkRows, Switched

LEMMA UpdateLinkSafe ==
    ASSUME IInv, NEW q \in Sessions, NEW status \in {"active", "inactive"}, UpdateLink(q, status)
    PROVE  IInv'
<1> DEFINE l == session[q].link
<1>1. TypeOK /\ l \in Links
  BY SessionShape DEF IInv, TypeOK, UpdateLink
<1>2. link[l] \in LinkRows /\ link[l].lock_version < MaxLinkVersion
  BY <1>1 DEF TypeOK, UpdateLink
<1>3. PICK n : n = Switched(link[l], status)
  OBVIOUS
<1>4. /\ n \in LinkRows
      /\ n.click_count = link[l].click_count /\ n.status # "absent" /\ n.lock_version >= 1
  BY <1>2, <1>3, SwitchedRow
<1>5. link' = [link EXCEPT ![l] = n]
  BY <1>3 DEF UpdateLink
<1>6. link' \in [Links -> LinkRows]
  BY <1>1, <1>4, <1>5 DEF TypeOK
<1>7. TypeOK'
  BY <1>1, <1>6, TypesMoved, IdleNeutral DEF UpdateLink, Neutral, TypeOK
<1>8. session'[q] = Idle /\ \A p \in Sessions \ {q} : session'[p] = session[p]
  BY <1>1, Moved DEF UpdateLink
<1>9. \A k \in Links :
        /\ link'[k].click_count = link[k].click_count
        /\ link'[k].status = "absent" => link[k].status = "absent"
  BY <1>1, <1>4, <1>5 DEF TypeOK
<1>10. OneHolds'
  BY <1>8, IdleNeutral DEF IInv, LinksSafe, OneHolds, Neutral
<1>11. \A p \in Sessions : ClickSound(session[p])'
  <2>1. \A p \in Sessions : Holding(session[p]) => session[p].link \in Links
    BY <1>1, SessionShape DEF TypeOK
  <2> QED
    BY <1>8, <1>9, <2>1, IdleNeutral DEF IInv, LinksSafe, ClickSound, UpdateLink, Neutral
<1>12. CountersMatch' /\ CountedOnce'
  BY <1>9 DEF IInv, LinksSafe, CountersMatch, CountedOnce, Statistics, CountedClicks, UpdateLink
<1>13. \A k \in Links : LinkSound(link'[k])
  BY <1>1, <1>4, <1>5 DEF IInv, LinksSafe, LinkSound, TypeOK
<1>14. LinksSafe'
  BY <1>10, <1>11, <1>12, <1>13 DEF LinksSafe
<1>15. RecommendationSeen(Idle) /\ ExperimentSeen(Idle) /\ ConfirmedKept
  BY IdleNeutral DEF Neutral, RecommendationSeen, ExperimentSeen, ConfirmedKept, UpdateLink
<1> QED
  BY <1>1, <1>7, <1>14, <1>15, RecommendationsQuiet, ExperimentsQuiet DEF IInv, UpdateLink

(* A click goes on holding its link, and only remembers more.               *)
LEMMA HoldsOn ==
    ASSUME IInv, NEW q \in Sessions, NEW s \in SessionStates, Goto(q, s), Holding(s),
           \A p \in Sessions \ {q} : Holding(session[p]) => session[p].link # s.link,
           ClickSound(s),
           UNCHANGED <<link, clicks, assetUsable, recommendation, experiment>>
    PROVE  IInv'
<1>1. session'[q] = s /\ \A p \in Sessions \ {q} : session'[p] = session[p]
  BY Moved DEF IInv
<1>2. TypeOK'
  BY TypesMoved DEF IInv, TypeOK
<1>3. OneHolds'
  BY <1>1 DEF IInv, LinksSafe, OneHolds
<1>4. \A p \in Sessions : ClickSound(session[p])'
  BY <1>1 DEF IInv, LinksSafe, ClickSound
<1>5. CountersMatch' /\ CountedOnce'
  BY DEF IInv, LinksSafe, CountersMatch, CountedOnce, Statistics, CountedClicks
<1>6. LinksSafe'
  BY <1>3, <1>4, <1>5 DEF IInv, LinksSafe
<1>7. RecommendationSeen(s) /\ ExperimentSeen(s) /\ ConfirmedKept
  BY DEF Holding, RecommendationSeen, ExperimentSeen, ConfirmedKept
<1> QED
  BY <1>2, <1>6, <1>7, RecommendationsQuiet, ExperimentsQuiet DEF IInv

LEMMA LockLinkSafe ==
    ASSUME IInv, NEW q \in Sessions, NEW l \in Links, NEW visitor \in Visitors \cup {Unknown},
           NEW bot \in BOOLEAN, LockLink(q, l, visitor, bot)
    PROVE  IInv'
<1>1. PICK s : s = [at |-> "locked", link |-> l, visitor |-> visitor,
                    read |-> link[l].click_count, counted |-> ~bot]
  OBVIOUS
<1>2. link[l].click_count \in 0..MaxClicks
  BY DEF IInv, TypeOK, LinkRows
<1>3. s \in [at: {"locked", "decided"}, link: Links, visitor: Visitors \cup {Unknown},
             read: 0..MaxClicks, counted: BOOLEAN]
  BY <1>1, <1>2
<1>4. s \in SessionStates
  BY <1>3 DEF SessionStates
<1>5. Holding(s) /\ s.link = l
  BY <1>1 DEF Holding
<1>6. \A p \in Sessions : Holding(session[p]) => session[p].link # s.link
  BY <1>5 DEF LockLink, LinkFree, Holding
<1>7. ClickSound(s)
  BY <1>1 DEF ClickSound, LockLink
<1>8. Goto(q, s) /\ UNCHANGED <<link, clicks, assetUsable, recommendation, experiment>>
  BY <1>1 DEF LockLink
<1> QED
  BY <1>4, <1>5, <1>6, <1>7, <1>8, HoldsOn

LEMMA DecideClickSafe ==
    ASSUME IInv, NEW q \in Sessions, DecideClick(q)
    PROVE  IInv'
<1> DEFINE click == session[q]
<1>1. /\ click \in SessionStates /\ Holding(click) /\ ClickSound(click)
      /\ click.link \in Links /\ click.visitor \in Visitors \cup {Unknown}
      /\ click.read \in 0..MaxClicks /\ click.counted \in BOOLEAN
  BY SessionShape DEF IInv, TypeOK, LinksSafe, DecideClick, Holding
<1>2. PICK s : s = [at |-> "decided", link |-> click.link, visitor |-> click.visitor,
                    read |-> click.read,
                    counted |-> click.counted /\ ~Duplicate(click.visitor, clicks[click.link])]
  OBVIOUS
<1>3. s \in [at: {"locked", "decided"}, link: Links, visitor: Visitors \cup {Unknown},
             read: 0..MaxClicks, counted: BOOLEAN]
  BY <1>1, <1>2
<1>4. s \in SessionStates
  BY <1>3 DEF SessionStates
<1>5. Holding(s) /\ s.link = click.link
  BY <1>2 DEF Holding
<1>6. \A p \in Sessions \ {q} : Holding(session[p]) => session[p].link # s.link
  BY <1>1, <1>5 DEF IInv, LinksSafe, OneHolds
<1>7. ClickSound(s)
  BY <1>1, <1>2 DEF ClickSound
<1>8. Goto(q, s) /\ UNCHANGED <<link, clicks, assetUsable, recommendation, experiment>>
  BY <1>2 DEF DecideClick
<1> QED
  BY <1>4, <1>5, <1>6, <1>7, <1>8, HoldsOn

(* The click is numbered next; it is counted only if it is no duplicate.    *)
LEMMA RecordClickSafe ==
    ASSUME IInv, NEW q \in Sessions, RecordClick(q)
    PROVE  IInv'
<1> DEFINE click == session[q]
<1>1. /\ TypeOK /\ click \in SessionStates /\ Holding(click) /\ ClickSound(click)
      /\ click.at = "decided" /\ click.link \in Links
      /\ click.visitor \in Visitors \cup {Unknown} /\ click.counted \in BOOLEAN
  BY SessionShape DEF IInv, TypeOK, LinksSafe, RecordClick, Holding
<1>2. PICK l \in Links : l = click.link
  BY <1>1
<1>3. PICK next : next = Len(clicks[l]) + 1
  OBVIOUS
<1>4. /\ clicks[l] \in Seq(Clicks) /\ DOMAIN clicks[l] = 1..Len(clicks[l])
      /\ Len(clicks[l]) \in Nat /\ Len(clicks[l]) < MaxClicks
      /\ IsFiniteSet(CountedClicks(l)) /\ Cardinality(CountedClicks(l)) \in Nat
      /\ Cardinality(CountedClicks(l)) <= Len(clicks[l])
  BY <1>1, <1>2, <1>3, CountedFinite DEF TypeOK, RecordClick
<1>5. PICK e : e = [visitor |-> click.visitor, counted |-> click.counted, within |-> TRUE]
  OBVIOUS
<1>6. e \in Clicks
  BY <1>1, <1>2, <1>3, <1>5 DEF Clicks
<1>7. clicks' = [clicks EXCEPT ![l] = Append(clicks[l], e)]
  BY <1>2, <1>3, <1>5 DEF RecordClick
<1>8. /\ clicks' \in [Links -> Seq(Clicks)]
      /\ clicks'[l] = Append(clicks[l], e)
      /\ \A k \in Links \ {l} : clicks'[k] = clicks[k]
  BY <1>1, <1>2, <1>3, <1>4, <1>6, <1>7, AppendProperties DEF TypeOK
<1>9. /\ DOMAIN clicks'[l] = 1..next
      /\ \A i \in 1..Len(clicks[l]) : clicks'[l][i] = clicks[l][i]
      /\ clicks'[l][next] = e
  BY <1>2, <1>3, <1>4, <1>6, <1>8, AppendProperties, LenProperties
<1>10. next \notin CountedClicks(l)
  BY <1>2, <1>3, <1>4 DEF CountedClicks
<1>11. /\ click.counted => CountedClicks(l)' = CountedClicks(l) \cup {next}
       /\ ~click.counted => CountedClicks(l)' = CountedClicks(l)
  <2>1. CountedClicks(l)' = {i \in 1..next : clicks'[l][i].counted}
    BY <1>1, <1>2, <1>3, <1>9 DEF CountedClicks
  <2>2. CountedClicks(l) = {i \in 1..Len(clicks[l]) : clicks[l][i].counted}
    BY <1>2, <1>3, <1>4 DEF CountedClicks
  <2>3. 1..next = (1..Len(clicks[l])) \cup {next}
    BY <1>2, <1>3, <1>4
  <2>4. clicks'[l][next].counted = click.counted
    BY <1>5, <1>9
  <2>5. ASSUME click.counted PROVE CountedClicks(l)' = CountedClicks(l) \cup {next}
    BY <1>9, <2>1, <2>2, <2>3, <2>4, <2>5
  <2>6. ASSUME ~click.counted PROVE CountedClicks(l)' = CountedClicks(l)
    BY <1>9, <2>1, <2>2, <2>3, <2>4, <2>6
  <2> QED
    BY <2>5, <2>6
<1>12. PICK c : c = IF click.counted THEN click.read + 1 ELSE link[l].click_count
  OBVIOUS
<1>13. link' = [link EXCEPT ![l].click_count = c]
  BY <1>2, <1>3, <1>12 DEF RecordClick
<1>14. Cardinality(CountedClicks(l)) = link[l].click_count /\ click.read = link[l].click_count
  BY <1>1, <1>2, <1>3 DEF IInv, LinksSafe, CountersMatch, Statistics, ClickSound
<1>15. c = Cardinality(CountedClicks(l)') /\ c \in 0..MaxClicks
  <2>1. Cardinality(CountedClicks(l) \cup {next}) = Cardinality(CountedClicks(l)) + 1
    BY <1>4, <1>10, FS_AddElement
  <2>2. CASE click.counted
    <3>1. c = Cardinality(CountedClicks(l)) + 1
      BY <1>12, <1>14, <2>2
    <3>2. c \in 0..MaxClicks
      BY <1>4, <3>1, BoundAssumption
    <3> QED
      BY <1>11, <2>1, <2>2, <3>1, <3>2
  <2>3. CASE ~click.counted
    <3>1. c = Cardinality(CountedClicks(l))
      BY <1>12, <1>14, <2>3
    <3>2. c \in 0..MaxClicks
      BY <1>4, <3>1, BoundAssumption
    <3> QED
      BY <1>11, <2>3, <3>1, <3>2
  <2> QED
    BY <2>2, <2>3
<1>16. link' \in [Links -> LinkRows]
  BY <1>1, <1>2, <1>3, <1>13, <1>15 DEF TypeOK, LinkRows
<1>17. /\ link'[l].click_count = c /\ link'[l].status = link[l].status
       /\ link'[l].lock_version = link[l].lock_version
       /\ \A k \in Links \ {l} : link'[k] = link[k]
  BY <1>1, <1>2, <1>3, <1>13 DEF TypeOK, LinkRows
<1>18. session'[q] = Idle /\ \A p \in Sessions \ {q} : session'[p] = session[p]
  BY <1>1, <1>2, <1>3, Moved DEF RecordClick
<1>19. TypeOK'
  BY <1>1, <1>2, <1>3, <1>8, <1>16, TypesMoved, IdleNeutral DEF RecordClick, Neutral, TypeOK
<1>20. OneHolds'
  BY <1>2, <1>3, <1>18, IdleNeutral DEF IInv, LinksSafe, OneHolds, Neutral
<1>21. \A p \in Sessions : ClickSound(session[p])'
  <2>1. \A p \in Sessions \ {q} : Holding(session[p]) => session[p].link \in Links \ {l}
    BY <1>1, <1>2, <1>3, SessionShape DEF IInv, LinksSafe, OneHolds, TypeOK
  <2> QED
    BY <1>2, <1>3, <1>8, <1>17, <1>18, <2>1, IdleNeutral DEF IInv, LinksSafe, ClickSound, Neutral
<1>22. CountersMatch'
  <2>1. \A k \in Links \ {l} : CountedClicks(k)' = CountedClicks(k)
    BY <1>2, <1>3, <1>8 DEF CountedClicks
  <2> QED
    BY <1>2, <1>3, <1>15, <1>17, <2>1 DEF IInv, LinksSafe, CountersMatch, Statistics
<1>23. CountedOnce'
  <2>1. ASSUME NEW k \in Links \ {l} PROVE CountedClicks(k)' = CountedClicks(k) /\ clicks'[k] = clicks[k]
    BY <1>2, <1>3, <1>8 DEF CountedClicks
  <2>2. ASSUME NEW i \in CountedClicks(l), NEW j \in CountedClicks(l)
        PROVE  /\ clicks'[l][i] = clicks[l][i] /\ clicks'[l][j] = clicks[l][j]
               /\ /\ clicks[l][i].visitor = clicks[l][j].visitor
                  /\ clicks[l][i].visitor # Unknown
                  /\ clicks[l][i].within /\ clicks[l][j].within
                  => i = j
    BY <1>1, <1>2, <1>3, <1>4, <1>9 DEF IInv, LinksSafe, CountedOnce, CountedClicks
  <2>3. ASSUME click.counted, NEW i \in CountedClicks(l)
        PROVE  ~(/\ clicks'[l][i].visitor = clicks'[l][next].visitor
                 /\ clicks'[l][i].visitor # Unknown /\ clicks'[l][i].within)
    <3>1. ~Duplicate(click.visitor, clicks[l])
      BY <1>1, <1>2, <1>3, <2>3 DEF ClickSound
    <3>2. i \in DOMAIN clicks[l] /\ clicks[l][i].counted /\ clicks'[l][i] = clicks[l][i]
      BY <1>4, <1>9 DEF CountedClicks
    <3>3. clicks'[l][next].visitor = click.visitor
      BY <1>5, <1>9
    <3> QED
      BY <3>1, <3>2, <3>3 DEF Duplicate
  <2> SUFFICES ASSUME NEW k \in Links, NEW i \in CountedClicks(k)', NEW j \in CountedClicks(k)',
                      clicks'[k][i].visitor = clicks'[k][j].visitor,
                      clicks'[k][i].visitor # Unknown, clicks'[k][i].within, clicks'[k][j].within
               PROVE  i = j
    BY DEF CountedOnce
  <2>4. CASE k # l
    BY <2>1, <2>4 DEF IInv, LinksSafe, CountedOnce
  <2>5. CASE k = l /\ i \in CountedClicks(l) /\ j \in CountedClicks(l)
    BY <2>2, <2>5
  <2>6. CASE k = l /\ click.counted
    BY <1>11, <2>2, <2>3, <2>6
  <2> QED
    BY <1>1, <1>11, <2>4, <2>5, <2>6
<1>24. \A k \in Links : LinkSound(link'[k])
  BY <1>1, <1>2, <1>3, <1>17 DEF IInv, LinksSafe, LinkSound, ClickSound
<1>25. LinksSafe'
  BY <1>2, <1>3, <1>20, <1>21, <1>22, <1>23, <1>24 DEF LinksSafe
<1>26. RecommendationSeen(Idle) /\ ExperimentSeen(Idle) /\ ConfirmedKept
  BY <1>2, <1>3, IdleNeutral DEF Neutral, RecommendationSeen, ExperimentSeen, ConfirmedKept, RecordClick
<1> QED
  BY <1>1, <1>2, <1>3, <1>19, <1>25, <1>26, RecommendationsQuiet, ExperimentsQuiet DEF IInv, RecordClick

LEMMA TenMinutesPassSafe ==
    ASSUME IInv, NEW l \in Links, TenMinutesPass(l)
    PROVE  IInv'
<1>1. TypeOK /\ clicks[l] \in Seq(Clicks) /\ DOMAIN clicks[l] = 1..Len(clicks[l])
  BY LenProperties DEF IInv, TypeOK
<1>2. PICK i \in 1..Len(clicks[l]) : clicks' = [clicks EXCEPT ![l][i].within = FALSE]
  BY <1>1 DEF TenMinutesPass
<1>3. PICK e : e = [clicks[l][i] EXCEPT !.within = FALSE]
  OBVIOUS
<1>4. clicks[l][i] \in Clicks
  BY <1>1, ElementOfSeq
<1>5. /\ e \in Clicks /\ e.visitor = clicks[l][i].visitor
      /\ e.counted = clicks[l][i].counted /\ ~e.within
  BY <1>3, <1>4 DEF Clicks
<1>6. PICK after : after = [clicks[l] EXCEPT ![i] = e]
  OBVIOUS
<1>7. /\ after \in Seq(Clicks) /\ Len(after) = Len(clicks[l])
      /\ \A j \in 1..Len(clicks[l]) : after[j] = IF j = i THEN e ELSE clicks[l][j]
  BY <1>1, <1>2, <1>5, <1>6, ExceptSeq
<1>8. DOMAIN after = DOMAIN clicks[l]
  BY <1>1, <1>7, LenProperties
<1>9. clicks' = [clicks EXCEPT ![l] = after]
  BY <1>2, <1>3, <1>6
<1>10. /\ clicks' \in [Links -> Seq(Clicks)] /\ clicks'[l] = after
       /\ \A k \in Links \ {l} : clicks'[k] = clicks[k]
  BY <1>1, <1>7, <1>9 DEF TypeOK
<1>11. TypeOK'
  BY <1>1, <1>10 DEF TypeOK, TenMinutesPass
<1>12. \A k \in Links :
        /\ DOMAIN clicks'[k] = DOMAIN clicks[k]
        /\ \A j \in DOMAIN clicks[k] :
            /\ clicks'[k][j].visitor = clicks[k][j].visitor
            /\ clicks'[k][j].counted = clicks[k][j].counted
            /\ clicks'[k][j].within => clicks[k][j].within
  BY <1>1, <1>5, <1>7, <1>8, <1>10
<1>13. \A k \in Links : CountedClicks(k)' = CountedClicks(k)
  BY <1>12 DEF CountedClicks
<1>14. CountersMatch'
  BY <1>13 DEF IInv, LinksSafe, CountersMatch, Statistics, TenMinutesPass
<1>15. CountedOnce'
  BY <1>12, <1>13 DEF IInv, LinksSafe, CountedOnce, CountedClicks
<1>16. \A s \in Sessions : ClickSound(session[s])'
  <2>1. ASSUME NEW k \in Links, NEW visitor, ~Duplicate(visitor, clicks[k])
        PROVE  ~Duplicate(visitor, clicks'[k])
    BY <1>12, <2>1 DEF Duplicate
  <2> QED
    BY <2>1, <1>1, SessionShape DEF IInv, LinksSafe, ClickSound, TenMinutesPass, TypeOK
<1>17. LinksSafe'
  BY <1>14, <1>15, <1>16 DEF IInv, LinksSafe, OneHolds, TenMinutesPass
<1> QED
  BY <1>11, <1>17, OthersStill DEF IInv, TenMinutesPass

(***************************************************************************)
(* Recommendations.                                                        *)
(***************************************************************************)

LEMMA VersionsGrow ==
    /\ 1 \in 0..MaxVersion
    /\ \A n \in 0..MaxVersion : n < MaxVersion => n + 1 \in 0..MaxVersion /\ n + 1 >= 1
  BY BoundAssumption

(* A row becomes n, which has a version of its own and is decided as seen.  *)
LEMMA RecommendationChanges ==
    ASSUME IInv, NEW q \in Sessions, Goto(q, Idle),
           NEW r \in Recommendations, NEW n \in RecommendationRows,
           recommendation' = [recommendation EXCEPT ![r] = n],
           n.confirm_status # "absent", n.version_no >= 1, n.content # NoContent,
           n.confirm_status \in {"confirmed", "rejected"} => n.content = n.agreed,
           recommendation[r].confirm_status # "absent" =>
                /\ n.version_no = recommendation[r].version_no + 1
                /\ recommendation[r].confirm_status # "confirmed",
           UNCHANGED <<link, clicks, assetUsable, experiment>>
    PROVE  IInv'
<1>1. TypeOK /\ recommendation[r].version_no \in 0..MaxVersion
  BY DEF IInv, TypeOK, RecommendationRows
<1>2. session'[q] = Idle /\ \A p \in Sessions \ {q} : session'[p] = session[p]
  BY <1>1, Moved
<1>3. recommendation'[r] = n /\ \A k \in Recommendations \ {r} : recommendation'[k] = recommendation[k]
  BY <1>1 DEF TypeOK
<1>4. TypeOK'
  BY <1>1, TypesMoved, IdleNeutral DEF Neutral, TypeOK
<1>5. ConfirmedKept
  <2>1. recommendation[r].confirm_status # "confirmed"
    OBVIOUS
  <2> QED
    BY <1>3, <2>1 DEF ConfirmedKept
<1>6. ASSUME NEW p \in Sessions PROVE RecommendationSeen(session[p])'
  <2>1. CASE p = q
    BY <1>2, <2>1, IdleNeutral DEF RecommendationSeen, Neutral
  <2>2. CASE p # q
    <3>1. RecommendationSeen(session[p]) /\ session'[p] = session[p]
      BY <1>2, <2>2 DEF IInv, RecommendationsSafe
    <3>2. session[p].at \in {"recommendation_page", "recommendation_open"} =>
            session[p].of \in Recommendations /\ session[p].expected \in 1..MaxVersion
      BY <1>1, SessionShape DEF TypeOK
    <3>3. CASE session[p].at \in {"recommendation_page", "recommendation_open"} /\ session[p].of = r
      <4>1. /\ recommendation[r].confirm_status # "absent"
            /\ session[p].expected <= recommendation[r].version_no
            /\ session[p].expected \in 1..MaxVersion
            /\ ~(session[p].at = "recommendation_open" /\ session[p].status = "confirmed")
        BY <3>1, <3>2, <3>3 DEF RecommendationSeen
      <4>2. session[p].expected <= n.version_no /\ session[p].expected # n.version_no
        BY <1>1, <4>1, BoundAssumption
      <4> QED
        BY <1>3, <3>1, <3>3, <4>1, <4>2 DEF RecommendationSeen
    <3>4. CASE ~(session[p].at \in {"recommendation_page", "recommendation_open"} /\ session[p].of = r)
      BY <1>3, <3>1, <3>2, <3>4 DEF RecommendationSeen
    <3> QED
      BY <3>3, <3>4
  <2> QED
    BY <2>1, <2>2
<1>7. RecommendationsSafe'
  BY <1>3, <1>6 DEF IInv, RecommendationsSafe
<1> QED
  BY <1>1, <1>4, <1>5, <1>7, IdleNeutral, LinksQuiet, ExperimentsQuiet
  DEF IInv, Neutral, ExperimentSeen

LEMMA GenerateRecommendationSafe ==
    ASSUME IInv, NEW q \in Sessions, NEW r \in Recommendations, NEW content \in Contents,
           GenerateRecommendation(q, r, content)
    PROVE  IInv'
<1>1. PICK n : n = [confirm_status |-> "pending", version_no |-> 1,
                    content |-> content, agreed |-> NoContent]
  OBVIOUS
<1>2. n \in RecommendationRows /\ n.content # NoContent /\ n.version_no >= 1
  BY <1>1, VersionsGrow, NullAssumption DEF RecommendationRows
<1>3. recommendation[r].confirm_status = "absent"
      /\ recommendation' = [recommendation EXCEPT ![r] = n]
  BY <1>1 DEF GenerateRecommendation
<1> QED
  BY <1>1, <1>2, <1>3, RecommendationChanges DEF GenerateRecommendation

(* Whoever decides or edits has seen the row that is there.                 *)
LEMMA SeenPending ==
    ASSUME IInv, NEW q \in Sessions, session[q].at = "recommendation_open", StillPending(q),
           NEW r, r = session[q].of
    PROVE  /\ r \in Recommendations /\ recommendation[r] \in RecommendationRows
           /\ recommendation[r].confirm_status = "pending"
           /\ recommendation[r].content = session[q].seen
           /\ session[q].seen \in Contents /\ session[q].seen # NoContent
<1>1. r \in Recommendations /\ session[q].seen \in Contents
  BY SessionShape DEF IInv, TypeOK
<1>2. RecommendationSeen(session[q])
  BY DEF IInv, RecommendationsSafe
<1> QED
  BY <1>1, <1>2, NullAssumption DEF RecommendationSeen, StillPending, IInv, TypeOK

LEMMA ConfirmRecommendationSafe ==
    ASSUME IInv, NEW q \in Sessions, NEW status \in {"confirmed", "rejected"},
           ConfirmRecommendation(q, status)
    PROVE  IInv'
<1>1. PICK r : r = session[q].of
  OBVIOUS
<1>2. /\ r \in Recommendations /\ recommendation[r] \in RecommendationRows
      /\ recommendation[r].confirm_status = "pending"
      /\ recommendation[r].content = session[q].seen
      /\ session[q].seen \in Contents /\ session[q].seen # NoContent
      /\ recommendation[r].version_no < MaxVersion
  BY <1>1, SeenPending DEF ConfirmRecommendation
<1>3. PICK n : n = Decided(recommendation[r], status, session[q].seen)
  OBVIOUS
<1>4. /\ n \in RecommendationRows
      /\ n.confirm_status = status /\ n.content = recommendation[r].content
      /\ n.agreed = session[q].seen /\ n.version_no = recommendation[r].version_no + 1
  BY <1>2, <1>3, VersionsGrow DEF Decided, RecommendationRows
<1>5. /\ n.version_no >= 1 /\ n.content # NoContent /\ n.content = n.agreed
      /\ n.confirm_status # "absent" /\ recommendation[r].confirm_status # "confirmed"
  BY <1>2, <1>4, VersionsGrow DEF RecommendationRows
<1>6. recommendation' = [recommendation EXCEPT ![r] = n]
  BY <1>1, <1>3 DEF ConfirmRecommendation
<1> QED
  BY <1>2, <1>4, <1>5, <1>6, RecommendationChanges DEF ConfirmRecommendation

LEMMA UpdateRecommendationSafe ==
    ASSUME IInv, NEW q \in Sessions, NEW content \in Contents, UpdateRecommendation(q, content)
    PROVE  IInv'
<1>1. PICK r : r = session[q].of
  OBVIOUS
<1>2. /\ r \in Recommendations /\ recommendation[r] \in RecommendationRows
      /\ recommendation[r].confirm_status = "pending"
      /\ recommendation[r].version_no < MaxVersion
  BY <1>1, SeenPending DEF UpdateRecommendation
<1>3. PICK n : n = Edited(recommendation[r], content)
  OBVIOUS
<1>4. /\ n \in RecommendationRows
      /\ n.confirm_status = "pending" /\ n.content = content
      /\ n.version_no = recommendation[r].version_no + 1
  BY <1>2, <1>3, VersionsGrow DEF Edited, RecommendationRows
<1>5. n.version_no >= 1 /\ n.content # NoContent
  BY <1>2, <1>4, VersionsGrow, NullAssumption DEF RecommendationRows
<1>6. recommendation' = [recommendation EXCEPT ![r] = n]
  BY <1>1, <1>3 DEF UpdateRecommendation
<1> QED
  BY <1>2, <1>4, <1>5, <1>6, RecommendationChanges DEF UpdateRecommendation

(***************************************************************************)
(* Experiments.                                                            *)
(***************************************************************************)

LEMMA Transitions ==
    /\ ExperimentStatuses = {"draft", "confirmed", "running", "finished", "cancelled"}
    /\ "absent" \notin ExperimentStatuses /\ "unset" \notin ExperimentStatuses
    /\ \A from \in ExperimentStatuses : \A to \in EXPERIMENT_TRANSITIONS[from] :
        /\ to \in ExperimentStatuses
        /\ to = "running" => from = "confirmed"
        /\ to = "finished" => from = "running"
<1>1. ExperimentStatuses = {"draft", "confirmed", "running", "finished", "cancelled"}
  BY DEF ExperimentStatuses, EXPERIMENT_TRANSITIONS
<1>2. /\ EXPERIMENT_TRANSITIONS["draft"] = {"confirmed", "cancelled"}
      /\ EXPERIMENT_TRANSITIONS["confirmed"] = {"running", "cancelled"}
      /\ EXPERIMENT_TRANSITIONS["running"] = {"finished", "cancelled"}
      /\ EXPERIMENT_TRANSITIONS["finished"] = {}
      /\ EXPERIMENT_TRANSITIONS["cancelled"] = {}
  BY DEF EXPERIMENT_TRANSITIONS
<1> QED
  BY <1>1, <1>2

LEMMA ExperimentChanges ==
    ASSUME IInv, NEW q \in Sessions, Goto(q, Idle),
           NEW x \in Experiments, NEW n \in ExperimentRows,
           experiment' = [experiment EXCEPT ![x] = n],
           n.experiment_status # "absent", n.version_no >= 1, n.content # NoContent,
           n.experiment_status \in {"confirmed", "running", "finished"} => n.content = n.agreed,
           n.of \in Recommendations, recommendation[n.of].confirm_status = "confirmed",
           n.draftedFrom = recommendation[n.of].agreed,
           experiment[x].experiment_status # "absent" =>
                n.version_no = experiment[x].version_no + 1,
           UNCHANGED <<link, clicks, assetUsable, recommendation>>
    PROVE  IInv'
<1>1. TypeOK /\ experiment[x].version_no \in 0..MaxVersion
  BY DEF IInv, TypeOK, ExperimentRows
<1>2. session'[q] = Idle /\ \A p \in Sessions \ {q} : session'[p] = session[p]
  BY <1>1, Moved
<1>3. experiment'[x] = n /\ \A k \in Experiments \ {x} : experiment'[k] = experiment[k]
  BY <1>1 DEF TypeOK
<1>4. TypeOK'
  BY <1>1, TypesMoved, IdleNeutral DEF Neutral, TypeOK
<1>5. ASSUME NEW p \in Sessions PROVE ExperimentSeen(session[p])'
  <2>1. CASE p = q
    BY <1>2, <2>1, IdleNeutral DEF ExperimentSeen, Neutral
  <2>2. CASE p # q
    <3>1. ExperimentSeen(session[p]) /\ session'[p] = session[p]
      BY <1>2, <2>2 DEF IInv, ExperimentsSafe
    <3>2. session[p].at \in {"experiment_page", "experiment_open"} =>
            session[p].of \in Experiments /\ session[p].expected \in 1..MaxVersion
      BY <1>1, SessionShape DEF TypeOK
    <3>3. CASE session[p].at \in {"experiment_page", "experiment_open"} /\ session[p].of = x
      <4>1. /\ experiment[x].experiment_status # "absent"
            /\ session[p].expected <= experiment[x].version_no
            /\ session[p].expected \in 1..MaxVersion
        BY <3>1, <3>2, <3>3 DEF ExperimentSeen
      <4>2. session[p].expected <= n.version_no /\ session[p].expected # n.version_no
        BY <1>1, <4>1, BoundAssumption
      <4> QED
        BY <1>3, <3>1, <3>3, <4>1, <4>2 DEF ExperimentSeen
    <3>4. CASE ~(session[p].at \in {"experiment_page", "experiment_open"} /\ session[p].of = x)
      BY <1>3, <3>1, <3>2, <3>4 DEF ExperimentSeen
    <3> QED
      BY <3>3, <3>4
  <2> QED
    BY <2>1, <2>2
<1>6. DraftedFromAgreed'
  BY <1>3 DEF IInv, ExperimentsSafe, DraftedFromAgreed
<1>7. ExperimentsSafe'
  BY <1>3, <1>5, <1>6 DEF IInv, ExperimentsSafe
<1> QED
  BY <1>1, <1>4, <1>7, IdleNeutral, LinksQuiet, RecommendationsQuiet
  DEF IInv, Neutral, RecommendationSeen

(* What a view showed as confirmed still is, in the words that were agreed. *)
LEMMA GenerateExperimentSafe ==
    ASSUME IInv, NEW q \in Sessions, NEW x \in Experiments, GenerateExperiment(q, x)
    PROVE  IInv'
<1>1. PICK r : r = session[q].of
  OBVIOUS
<1>2. PICK read : read = session[q].content
  OBVIOUS
<1>3. r \in Recommendations /\ read \in Contents
  BY <1>1, <1>2, SessionShape DEF IInv, TypeOK, GenerateExperiment
<1>4. recommendation[r].confirm_status = "confirmed" /\ recommendation[r].content = read
  BY <1>1, <1>2 DEF IInv, RecommendationsSafe, RecommendationSeen, GenerateExperiment, MayDraftFrom
<1>5. recommendation[r].agreed = read
  BY <1>3, <1>4 DEF IInv, RecommendationsSafe
<1>6. PICK n : n = [experiment_status |-> "draft", version_no |-> 1, content |-> read,
                    of |-> r, draftedFrom |-> read, agreed |-> NoContent]
  OBVIOUS
<1>7. n \in ExperimentRows
  BY <1>3, <1>6, VersionsGrow, Transitions DEF ExperimentRows
<1>8. experiment[x].experiment_status = "absent" /\ experiment' = [experiment EXCEPT ![x] = n]
  BY <1>1, <1>2, <1>6 DEF GenerateExperiment
<1>9. n.version_no >= 1 /\ n.content # NoContent
  BY <1>3, <1>6, NullAssumption
<1>10. n.experiment_status = "draft" /\ n.of = r /\ n.draftedFrom = read
  BY <1>6
<1>11. Goto(q, Idle) /\ UNCHANGED <<link, clicks, assetUsable, recommendation>>
  BY DEF GenerateExperiment
<1> QED
  BY <1>3, <1>4, <1>5, <1>7, <1>8, <1>9, <1>10, <1>11, ExperimentChanges

(* The version of the page is that of the row, so that the row is as it was *)
(* seen, and has the status whose rules were applied.                       *)
LEMMA SeenExperiment ==
    ASSUME IInv, NEW q \in Sessions, session[q].at = "experiment_open", ExperimentFound(q),
           NEW x, x = session[q].of
    PROVE  /\ x \in Experiments /\ experiment[x] \in ExperimentRows
           /\ experiment[x].experiment_status \in ExperimentStatuses
           /\ session[q].status = experiment[x].experiment_status
           /\ session[q].seen = experiment[x].content
           /\ session[q].seen \in Contents
<1>1. x \in Experiments /\ session[q].seen \in Contents /\ session[q].status \in ExperimentStatuses
  BY SessionShape DEF IInv, TypeOK
<1>2. ExperimentSeen(session[q])
  BY DEF IInv, ExperimentsSafe
<1> QED
  BY <1>1, <1>2 DEF ExperimentSeen, ExperimentFound, IInv, TypeOK

(* What an UPDATE of an experiment makes of a row.                          *)
AmendedWell(row, n) ==
    /\ n \in ExperimentRows
    /\ n.experiment_status \in ExperimentStatuses
    /\ n.version_no = row.version_no + 1 /\ n.version_no >= 1
    /\ n.content \in Contents
    /\ n.experiment_status \in {"confirmed", "running", "finished"} => n.content = n.agreed
    /\ n.of = row.of /\ n.draftedFrom = row.draftedFrom
    /\ n.experiment_status # row.experiment_status =>
        n.experiment_status \in EXPERIMENT_TRANSITIONS[row.experiment_status]
    /\ n.content # row.content => row.experiment_status = "draft"

LEMMA AmendedRow ==
    ASSUME NEW row \in ExperimentRows, NEW seen \in Contents, row.content = seen,
           row.version_no < MaxVersion, row.experiment_status \in ExperimentStatuses,
           row.experiment_status \in {"confirmed", "running", "finished"} => row.content = row.agreed,
           NEW status \in ExperimentStatuses \cup {"unset"}, NEW content \in Contents \cup {NoContent},
           content # NoContent => row.experiment_status = "draft",
           status # "unset" => status \in EXPERIMENT_TRANSITIONS[row.experiment_status]
    PROVE  AmendedWell(row, Amended(row, status, content, seen))
<1> PICK n : n = Amended(row, status, content, seen)
  OBVIOUS
<1>1. n \in ExperimentRows
  BY VersionsGrow DEF Amended, ExperimentRows
<1>2. /\ n.experiment_status = IF status = "unset" THEN row.experiment_status ELSE status
      /\ n.content = IF content = NoContent THEN row.content ELSE content
      /\ n.agreed = IF status # "confirmed" THEN row.agreed
                    ELSE IF content = NoContent THEN seen ELSE content
      /\ n.version_no = row.version_no + 1
      /\ n.of = row.of /\ n.draftedFrom = row.draftedFrom
  BY DEF Amended, ExperimentRows
<1>3. n.version_no >= 1
  BY <1>2, VersionsGrow DEF ExperimentRows
<1>4. n.experiment_status \in {"confirmed", "running", "finished"} => n.content = n.agreed
  <2>1. CASE status = "unset"
    BY <1>2, <2>1
  <2>2. CASE status = "confirmed"
    BY <1>2, <2>2
  <2>3. CASE status \notin {"unset", "confirmed"}
    BY <1>2, <2>3, Transitions
  <2> QED
    BY <2>1, <2>2, <2>3
<1> QED
  BY <1>1, <1>2, <1>3, <1>4, Transitions DEF AmendedWell

LEMMA AmendedSafely ==
    ASSUME IInv, NEW q \in Sessions,
           NEW status \in ExperimentStatuses \cup {"unset"}, NEW content \in Contents \cup {NoContent},
           UpdateExperiment(q, status, content)
    PROVE  \E x \in Experiments, n \in ExperimentRows :
              /\ experiment' = [experiment EXCEPT ![x] = n]
              /\ experiment[x].experiment_status \in ExperimentStatuses
              /\ AmendedWell(experiment[x], n)
<1>1. PICK x : x = session[q].of
  OBVIOUS
<1>2. /\ x \in Experiments /\ experiment[x] \in ExperimentRows
      /\ experiment[x].experiment_status \in ExperimentStatuses
      /\ session[q].status = experiment[x].experiment_status
      /\ session[q].seen = experiment[x].content
      /\ session[q].seen \in Contents
  BY <1>1, SeenExperiment DEF UpdateExperiment
<1>3. PICK row \in ExperimentRows : row = experiment[x]
  BY <1>2
<1>4. PICK seen \in Contents : seen = session[q].seen
  BY <1>2
<1>5. /\ row.version_no < MaxVersion
      /\ content # NoContent => row.experiment_status = "draft"
      /\ status # "unset" => status \in EXPERIMENT_TRANSITIONS[row.experiment_status]
      /\ experiment' = [experiment EXCEPT ![x] = Amended(row, status, content, seen)]
  BY <1>1, <1>2, <1>3, <1>4 DEF UpdateExperiment
<1>6. /\ row.experiment_status \in {"confirmed", "running", "finished"} => row.content = row.agreed
      /\ row.content = seen /\ row.experiment_status \in ExperimentStatuses
  BY <1>2, <1>3, <1>4 DEF IInv, ExperimentsSafe
<1>7. AmendedWell(row, Amended(row, status, content, seen))
  BY <1>5, <1>6, AmendedRow
<1> QED
  BY <1>2, <1>3, <1>5, <1>7 DEF AmendedWell

LEMMA UpdateExperimentSafe ==
    ASSUME IInv, NEW q \in Sessions,
           NEW status \in ExperimentStatuses \cup {"unset"}, NEW content \in Contents \cup {NoContent},
           UpdateExperiment(q, status, content)
    PROVE  IInv'
<1>1. PICK x \in Experiments, n \in ExperimentRows :
        /\ experiment' = [experiment EXCEPT ![x] = n]
        /\ experiment[x].experiment_status \in ExperimentStatuses
        /\ AmendedWell(experiment[x], n)
  BY AmendedSafely
<1>2. /\ n \in ExperimentRows
      /\ experiment[x].experiment_status # "absent" /\ n.experiment_status # "absent"
      /\ n.version_no = experiment[x].version_no + 1 /\ n.version_no >= 1
      /\ n.content # NoContent
      /\ n.experiment_status \in {"confirmed", "running", "finished"} => n.content = n.agreed
      /\ n.of = experiment[x].of /\ n.draftedFrom = experiment[x].draftedFrom
  BY <1>1, Transitions, NullAssumption DEF AmendedWell
<1>3. /\ n.of \in Recommendations /\ recommendation[n.of].confirm_status = "confirmed"
      /\ n.draftedFrom = recommendation[n.of].agreed
  BY <1>2 DEF IInv, ExperimentsSafe, DraftedFromAgreed
<1> QED
  BY <1>1, <1>2, <1>3, ExperimentChanges DEF UpdateExperiment

(***************************************************************************)
(* What only sees.                                                         *)
(***************************************************************************)

LEMMA LookAtLinkSafe ==
    ASSUME IInv, NEW q \in Sessions, NEW l \in Links, LookAtLink(q, l)
    PROVE  IInv'
<1>1. PICK s : s = [at |-> "link_page", link |-> l, expected |-> link[l].lock_version]
  OBVIOUS
<1>2. link[l].lock_version \in 1..MaxLinkVersion
  BY BoundAssumption DEF IInv, TypeOK, LinksSafe, LinkSound, LinkRows, LookAtLink
<1>3. s \in [at: {"link_page"}, link: Links, expected: 1..MaxLinkVersion]
  BY <1>1, <1>2
<1>4. Neutral(s)
  BY <1>1, <1>3 DEF Neutral, SessionStates, Holding
<1> QED
  BY <1>1, <1>4, MovesNeutrally DEF LookAtLink

LEMMA AskProviderSafe ==
    ASSUME IInv, NEW q \in Sessions, NEW l \in Links, AskProvider(q, l)
    PROVE  IInv'
<1>1. PICK s : s = [at |-> "generating"]
  OBVIOUS
<1>2. Neutral(s)
  BY <1>1 DEF Neutral, SessionStates, Holding
<1> QED
  BY <1>1, <1>2, MovesNeutrally DEF AskProvider

LEMMA LookAtRecommendationSafe ==
    ASSUME IInv, NEW q \in Sessions, NEW r \in Recommendations, LookAtRecommendation(q, r)
    PROVE  IInv'
<1>1. PICK s : s = [at |-> "recommendation_page", of |-> r,
                    expected |-> recommendation[r].version_no, seen |-> recommendation[r].content]
  OBVIOUS
<1>2. recommendation[r] \in RecommendationRows /\ recommendation[r].confirm_status # "absent"
  BY DEF IInv, TypeOK, LookAtRecommendation
<1>3. recommendation[r].version_no \in 1..MaxVersion /\ recommendation[r].content \in Contents
  BY <1>2, BoundAssumption DEF IInv, RecommendationsSafe, RecommendationRows
<1>4. s \in [at: {"recommendation_page"}, of: Recommendations,
             expected: 1..MaxVersion, seen: Contents]
  BY <1>1, <1>3
<1>5. s \in SessionStates /\ ~Holding(s) /\ ExperimentSeen(s)
  BY <1>1, <1>4 DEF SessionStates, Holding, ExperimentSeen
<1>6. RecommendationSeen(s)
  BY <1>1, <1>2, <1>3 DEF RecommendationSeen
<1> QED
  BY <1>1, <1>5, <1>6, OnlyMoves DEF LookAtRecommendation

LEMMA OpenRecommendationSafe ==
    ASSUME IInv, NEW q \in Sessions, NEW l \in Links, OpenRecommendation(q, l)
    PROVE  IInv'
<1>1. PICK r : r = session[q].of
  OBVIOUS
<1>2. PICK s : s = [at |-> "recommendation_open", of |-> r,
                    expected |-> session[q].expected, seen |-> session[q].seen,
                    status |-> recommendation[r].confirm_status,
                    content |-> recommendation[r].content,
                    usable |-> assetUsable /\ link[l].status = "active"]
  OBVIOUS
<1>3. /\ r \in Recommendations /\ session[q].expected \in 1..MaxVersion
      /\ session[q].seen \in Contents
  BY <1>1, SessionShape DEF IInv, TypeOK, OpenRecommendation
<1>4. RecommendationSeen(session[q])
  BY DEF IInv, RecommendationsSafe
<1>5. recommendation[r] \in RecommendationRows /\ recommendation[r].confirm_status # "absent"
  BY <1>1, <1>3, <1>4 DEF IInv, TypeOK, RecommendationSeen, OpenRecommendation
<1>6. /\ recommendation[r].confirm_status \in {"pending", "confirmed", "rejected"}
      /\ recommendation[r].content \in Contents
  BY <1>3, <1>5 DEF IInv, RecommendationsSafe, RecommendationRows
<1>7. s \in [at: {"recommendation_open"}, of: Recommendations, expected: 1..MaxVersion,
             seen: Contents, status: {"pending", "confirmed", "rejected"},
             content: Contents, usable: BOOLEAN]
  BY <1>2, <1>3, <1>6
<1>8. s \in SessionStates /\ ~Holding(s) /\ ExperimentSeen(s)
  BY <1>2, <1>7 DEF SessionStates, Holding, ExperimentSeen
<1>9. RecommendationSeen(s)
  BY <1>1, <1>2, <1>4, <1>5 DEF RecommendationSeen, OpenRecommendation
<1>10. Goto(q, s) /\ UNCHANGED <<link, clicks, assetUsable, recommendation, experiment>>
  BY <1>1, <1>2 DEF OpenRecommendation
<1> QED
  BY <1>8, <1>9, <1>10, OnlyMoves

LEMMA LookAtExperimentSafe ==
    ASSUME IInv, NEW q \in Sessions, NEW x \in Experiments, LookAtExperiment(q, x)
    PROVE  IInv'
<1>1. PICK s : s = [at |-> "experiment_page", of |-> x,
                    expected |-> experiment[x].version_no, seen |-> experiment[x].content]
  OBVIOUS
<1>2. experiment[x] \in ExperimentRows /\ experiment[x].experiment_status # "absent"
  BY DEF IInv, TypeOK, LookAtExperiment
<1>3. experiment[x].version_no \in 1..MaxVersion /\ experiment[x].content \in Contents
  BY <1>2, BoundAssumption DEF IInv, ExperimentsSafe, ExperimentRows
<1>4. s \in [at: {"experiment_page"}, of: Experiments, expected: 1..MaxVersion, seen: Contents]
  BY <1>1, <1>3
<1>5. s \in SessionStates /\ ~Holding(s) /\ RecommendationSeen(s)
  BY <1>1, <1>4 DEF SessionStates, Holding, RecommendationSeen
<1>6. ExperimentSeen(s)
  BY <1>1, <1>2, <1>3 DEF ExperimentSeen
<1> QED
  BY <1>1, <1>5, <1>6, OnlyMoves DEF LookAtExperiment

LEMMA OpenExperimentSafe ==
    ASSUME IInv, NEW q \in Sessions, OpenExperiment(q)
    PROVE  IInv'
<1>1. PICK x : x = session[q].of
  OBVIOUS
<1>2. PICK s : s = [at |-> "experiment_open", of |-> x,
                    expected |-> session[q].expected, seen |-> session[q].seen,
                    status |-> experiment[x].experiment_status]
  OBVIOUS
<1>3. /\ x \in Experiments /\ session[q].expected \in 1..MaxVersion
      /\ session[q].seen \in Contents
  BY <1>1, SessionShape DEF IInv, TypeOK, OpenExperiment
<1>4. ExperimentSeen(session[q])
  BY DEF IInv, ExperimentsSafe
<1>5. experiment[x].experiment_status \in ExperimentStatuses
  BY <1>1, <1>3, <1>4 DEF IInv, TypeOK, ExperimentRows, ExperimentSeen, OpenExperiment
<1>6. s \in [at: {"experiment_open"}, of: Experiments, expected: 1..MaxVersion,
             seen: Contents, status: ExperimentStatuses]
  BY <1>2, <1>3, <1>5
<1>7. s \in SessionStates /\ ~Holding(s) /\ RecommendationSeen(s)
  BY <1>2, <1>6 DEF SessionStates, Holding, RecommendationSeen
<1>8. ExperimentSeen(s)
  BY <1>1, <1>2, <1>4 DEF ExperimentSeen, OpenExperiment
<1>9. Goto(q, s) /\ UNCHANGED <<link, clicks, assetUsable, recommendation, experiment>>
  BY <1>1, <1>2 DEF OpenExperiment
<1> QED
  BY <1>7, <1>8, <1>9, OnlyMoves

LEMMA ChangeAssetSafe ==
    ASSUME IInv, ChangeAsset
    PROVE  IInv'
<1>1. TypeOK'
  BY DEF IInv, TypeOK, ChangeAsset
<1>2. LinksSafe'
  BY DEF IInv, LinksSafe, OneHolds, ClickSound, CountersMatch, CountedOnce, Statistics,
         CountedClicks, ChangeAsset
<1> QED
  BY <1>1, <1>2, OthersStill DEF IInv, ChangeAsset

(***************************************************************************)
(* The invariant holds initially and after every step.                     *)
(***************************************************************************)

LEMMA InitInductive == Init => IInv
<1> SUFFICES ASSUME Init PROVE IInv
  OBVIOUS
<1>1. /\ AbsentLink \in LinkRows /\ <<>> \in Seq(Clicks)
      /\ AbsentRecommendation \in RecommendationRows /\ AbsentExperiment \in ExperimentRows
  BY BoundAssumption
  DEF AbsentLink, LinkRows, AbsentRecommendation, RecommendationRows, AbsentExperiment, ExperimentRows
<1>2. TypeOK
  BY <1>1, IdleNeutral DEF Init, TypeOK, Neutral
<1>3. \A l \in Links : CountedClicks(l) = {} /\ Statistics(l).counted_clicks = 0
  BY FS_EmptySet DEF Init, CountedClicks, Statistics
<1>4. LinksSafe
  BY <1>3, IdleNeutral
  DEF Init, LinksSafe, LinkSound, AbsentLink, OneHolds, ClickSound, CountersMatch, CountedOnce, Neutral
<1>5. RecommendationsSafe
  BY IdleNeutral DEF Init, RecommendationsSafe, AbsentRecommendation, RecommendationSeen, Neutral
<1>6. ExperimentsSafe
  BY IdleNeutral DEF Init, ExperimentsSafe, AbsentExperiment, ExperimentSeen, DraftedFromAgreed, Neutral
<1> QED
  BY <1>2, <1>4, <1>5, <1>6 DEF IInv

LEMMA ActsSafe == ASSUME IInv, NEW s \in Sessions, Acts(s) PROVE IInv'
<1>1. ASSUME NEW l \in Links, LookAtLink(s, l) \/ AskProvider(s, l) \/ OpenRecommendation(s, l)
      PROVE  IInv'
  BY <1>1, LookAtLinkSafe, AskProviderSafe, OpenRecommendationSafe
<1>2. ASSUME NEW l \in Links, NEW visitor \in Visitors \cup {Unknown}, NEW bot \in BOOLEAN,
             LockLink(s, l, visitor, bot)
      PROVE  IInv'
  BY <1>2, LockLinkSafe
<1>3. ASSUME NEW status \in {"active", "inactive"}, UpdateLink(s, status) PROVE IInv'
  BY <1>3, UpdateLinkSafe
<1>4. CASE DecideClick(s) \/ RecordClick(s)
  BY <1>4, DecideClickSafe, RecordClickSafe
<1>5. CASE ProviderFails(s) \/ Refuse(s)
  BY <1>5, IdleNeutral, MovesNeutrally DEF ProviderFails, Refuse
<1>6. ASSUME NEW r \in Recommendations, LookAtRecommendation(s, r) PROVE IInv'
  BY <1>6, LookAtRecommendationSafe
<1>7. ASSUME NEW r \in Recommendations, NEW content \in Contents, GenerateRecommendation(s, r, content)
      PROVE  IInv'
  BY <1>7, GenerateRecommendationSafe
<1>8. ASSUME NEW status \in {"confirmed", "rejected"}, ConfirmRecommendation(s, status) PROVE IInv'
  BY <1>8, ConfirmRecommendationSafe
<1>9. ASSUME NEW content \in Contents, UpdateRecommendation(s, content) PROVE IInv'
  BY <1>9, UpdateRecommendationSafe
<1>10. ASSUME NEW x \in Experiments, GenerateExperiment(s, x) \/ LookAtExperiment(s, x) PROVE IInv'
  BY <1>10, GenerateExperimentSafe, LookAtExperimentSafe
<1>11. CASE OpenExperiment(s)
  BY <1>11, OpenExperimentSafe
<1>12. ASSUME NEW status \in ExperimentStatuses \cup {"unset"}, NEW content \in Contents \cup {NoContent},
              UpdateExperiment(s, status, content)
       PROVE  IInv'
  BY <1>12, UpdateExperimentSafe
<1> QED
  BY <1>1, <1>2, <1>3, <1>4, <1>5, <1>6, <1>7, <1>8, <1>9, <1>10, <1>11, <1>12 DEF Acts

LEMMA NextInductive == IInv /\ [Next]_vars => IInv'
<1> SUFFICES ASSUME IInv, [Next]_vars PROVE IInv'
  OBVIOUS
<1>1. ASSUME NEW l \in Links, CreateLink(l) \/ TenMinutesPass(l) PROVE IInv'
  BY <1>1, CreateLinkSafe, TenMinutesPassSafe
<1>2. CASE ChangeAsset
  BY <1>2, ChangeAssetSafe
<1>3. ASSUME NEW s \in Sessions, Acts(s) PROVE IInv'
  BY <1>3, ActsSafe
<1>4. CASE UNCHANGED vars
  <2>1. TypeOK'
    BY <1>4 DEF vars, IInv, TypeOK
  <2>2. LinksSafe'
    BY <1>4 DEF vars, IInv, LinksSafe, OneHolds, ClickSound, CountersMatch, CountedOnce, Statistics,
                CountedClicks
  <2> QED
    BY <1>4, <2>1, <2>2, OthersStill DEF vars, IInv
<1> QED
  BY <1>1, <1>2, <1>3, <1>4 DEF Next

(* The inductive invariant holds in every reachable state.                  *)
THEOREM Invariance == Spec => []IInv
<1> QED
  BY InitInductive, NextInductive, PTL DEF Spec

(***************************************************************************)
(* The results.                                                            *)
(***************************************************************************)

(* Every row, click and session has its type, and no counter leaves its     *)
(* bounds.                                                                  *)
THEOREM TypeCorrect == Spec => []TypeOK
<1>1. IInv => TypeOK
  BY DEF IInv
<1> QED
  BY <1>1, Invariance, PTL

(* The counter of a link is the number of its counted clicks.               *)
THEOREM CountersExact == Spec => []CountersMatch
<1>1. IInv => CountersMatch
  BY DEF IInv, LinksSafe
<1> QED
  BY <1>1, Invariance, PTL

(* Within ten minutes a visitor counts once.                                *)
THEOREM VisitorsCountOnce == Spec => []CountedOnce
<1>1. IInv => CountedOnce
  BY DEF IInv, LinksSafe
<1> QED
  BY <1>1, Invariance, PTL

(* Decided recommendations and confirmed experiments say what the user who  *)
(* decided had seen or sent.                                                *)
THEOREM DecisionsInformed == Spec => []DecidedAsSeen
<1>1. IInv => DecidedAsSeen
  BY DEF IInv, RecommendationsSafe, ExperimentsSafe, DecidedAsSeen
<1> QED
  BY <1>1, Invariance, PTL

(* Every experiment was drafted from what a user had confirmed.             *)
THEOREM DraftsFounded == Spec => []DraftedFromAgreed
<1>1. IInv => DraftedFromAgreed
  BY DEF IInv, ExperimentsSafe
<1> QED
  BY <1>1, Invariance, PTL

(* What ExperimentRules says of a step.                                     *)
RulesKept ==
    \A x \in Experiments : experiment[x].experiment_status # "absent" =>
        LET from == experiment[x].experiment_status
            to == experiment'[x].experiment_status
        IN  /\ to # from => to \in EXPERIMENT_TRANSITIONS[from]
            /\ experiment'[x].content # experiment[x].content => from = "draft"

LEMMA StepKeepsRules == IInv /\ [Next]_vars => [RulesKept]_vars
<1> SUFFICES ASSUME IInv, Next PROVE RulesKept
  OBVIOUS
<1>1. CASE UNCHANGED experiment
  BY <1>1 DEF RulesKept
<1>2. ASSUME NEW s \in Sessions, NEW x \in Experiments, GenerateExperiment(s, x) PROVE RulesKept
  BY <1>2 DEF RulesKept, GenerateExperiment, IInv, TypeOK
<1>3. ASSUME NEW s \in Sessions, NEW status \in ExperimentStatuses \cup {"unset"},
             NEW content \in Contents \cup {NoContent}, UpdateExperiment(s, status, content)
      PROVE  RulesKept
  <2>1. PICK x \in Experiments, n \in ExperimentRows :
          /\ experiment' = [experiment EXCEPT ![x] = n]
          /\ experiment[x].experiment_status \in ExperimentStatuses
          /\ AmendedWell(experiment[x], n)
    BY <1>3, AmendedSafely
  <2>2. experiment'[x] = n /\ \A y \in Experiments \ {x} : experiment'[y] = experiment[y]
    BY <2>1 DEF IInv, TypeOK
  <2> QED
    BY <2>1, <2>2 DEF RulesKept, AmendedWell
<1> QED
  <2>1. ASSUME NEW l \in Links, CreateLink(l) \/ TenMinutesPass(l) PROVE UNCHANGED experiment
    BY <2>1 DEF CreateLink, TenMinutesPass
  <2>2. ChangeAsset => UNCHANGED experiment
    BY DEF ChangeAsset
  <2>3. ASSUME NEW s \in Sessions, Acts(s) PROVE RulesKept
    BY <1>1, <1>2, <1>3, <2>3
    DEF Acts, LookAtLink, AskProvider, OpenRecommendation, LockLink, UpdateLink, DecideClick,
        RecordClick, ProviderFails, Refuse, LookAtRecommendation, GenerateRecommendation,
        ConfirmRecommendation, UpdateRecommendation, LookAtExperiment, OpenExperiment
  <2> QED
    BY <1>1, <2>1, <2>2, <2>3 DEF Next

(* An experiment takes only the steps its status allows, and its texts      *)
(* change only in a draft.                                                  *)
THEOREM ExperimentsByRule == Spec => ExperimentRules
<1>1. IInv /\ [Next]_vars => [\A x \in Experiments : experiment[x].experiment_status # "absent" =>
        LET from == experiment[x].experiment_status
            to == experiment'[x].experiment_status
        IN  /\ to # from => to \in EXPERIMENT_TRANSITIONS[from]
            /\ experiment'[x].content # experiment[x].content => from = "draft"]_vars
  BY StepKeepsRules DEF RulesKept
<1> QED
  BY <1>1, Invariance, PTL DEF Spec, ExperimentRules
===============================================================================
