------------------------------ MODULE Marketing ------------------------------
(***************************************************************************)
(* Marketing, services/marketing.py: promotion links and the clicks the    *)
(* public redirect records, advertising recommendations, which a user      *)
(* confirms, and the experiments drafted from those that were confirmed.   *)
(*                                                                         *)
(* A user first has a page with what the program knows, and later sends a  *)
(* request with the version of that page.  The request reads under the     *)
(* view its first query fixed; its UPDATE acts on the row as it is by      *)
(* then, if that still has the version the user named.  The redirect       *)
(* knows no user: its first query locks the link, so that all it reads is  *)
(* as it is under the lock.                                                *)
(*                                                                         *)
(* The ten minutes in which a visitor counts once are one fact of a click, *)
(* whether they have passed.  The texts of a recommendation are one value, *)
(* and so are those of an experiment.  What a version was agreed to be,    *)
(* and what an experiment was drafted from, is recorded for the properties *)
(* alone.                                                                  *)
(*                                                                         *)
(* An operator whose name extends that of the next one is a slip of the    *)
(* code that the properties below must notice; no action uses it.          *)
(***************************************************************************)
EXTENDS Naturals, Sequences, FiniteSets

CONSTANTS
    Links,              \* promotion links that may be created
    Recommendations,    \* recommendations that may be generated
    Experiments,        \* experiments that may be drafted
    Sessions,           \* requests and clicks that may be under way at once
    Visitors,           \* visitors, as the hash of their address tells them apart
    Contents,           \* texts of a recommendation or an experiment
    MaxLinkVersion,     \* bound on the versions of a link
    MaxVersion,         \* bound on those of a recommendation or an experiment
    MaxClicks,          \* bound on the clicks of a link
    Unknown,            \* a visitor without an address
    NoContent, NoRecommendation

ASSUME BoundAssumption == {MaxLinkVersion, MaxVersion} \subseteq Nat \ {0} /\ MaxClicks \in Nat
ASSUME NullAssumption ==
    /\ Unknown \notin Visitors
    /\ NoContent \notin Contents
    /\ NoRecommendation \notin Recommendations

VARIABLES
    link,               \* promotion_links rows
    clicks,             \* promotion_link_clicks of each link
    assetUsable,        \* whether the asset is approved and its file available
    recommendation,     \* ad_recommendations rows
    experiment,         \* ad_experiments rows
    session             \* what each session has seen and read

vars == <<link, clicks, assetUsable, recommendation, experiment, session>>

(***************************************************************************)
(* Rows.                                                                   *)
(***************************************************************************)

LinkRows == [status: {"absent", "active", "inactive"},
             lock_version: 0..MaxLinkVersion, click_count: 0..MaxClicks]

AbsentLink == [status |-> "absent", lock_version |-> 0, click_count |-> 0]

(* within: it is less than ten minutes since the click.                     *)
Clicks == [visitor: Visitors \cup {Unknown}, counted: BOOLEAN, within: BOOLEAN]

RecommendationRows ==
    [confirm_status: {"absent", "pending", "confirmed", "rejected"},
     version_no: 0..MaxVersion, content: Contents \cup {NoContent},
     agreed: Contents \cup {NoContent}]

AbsentRecommendation == [confirm_status |-> "absent", version_no |-> 0,
                         content |-> NoContent, agreed |-> NoContent]

EXPERIMENT_TRANSITIONS ==
    [draft |-> {"confirmed", "cancelled"},
     confirmed |-> {"running", "cancelled"},
     running |-> {"finished", "cancelled"},
     finished |-> {},
     cancelled |-> {}]

ExperimentStatuses == DOMAIN EXPERIMENT_TRANSITIONS

ExperimentRows ==
    [experiment_status: ExperimentStatuses \cup {"absent"},
     version_no: 0..MaxVersion, content: Contents \cup {NoContent},
     of: Recommendations \cup {NoRecommendation}, draftedFrom: Contents \cup {NoContent},
     agreed: Contents \cup {NoContent}]

AbsentExperiment ==
    [experiment_status |-> "absent", version_no |-> 0, content |-> NoContent,
     of |-> NoRecommendation, draftedFrom |-> NoContent, agreed |-> NoContent]

(* A click goes from the lock through the search for duplicates to its      *)
(* commit; a request from the page of the user through its view to its      *)
(* commit, with a call of the provider in between where it needs one.       *)
Idle == [at |-> "idle"]

SessionStates ==
    {Idle}
    \cup [at: {"locked", "decided"}, link: Links, visitor: Visitors \cup {Unknown},
          read: 0..MaxClicks, counted: BOOLEAN]
    \cup [at: {"link_page"}, link: Links, expected: 1..MaxLinkVersion]
    \cup [at: {"recommendation_page"}, of: Recommendations,
          expected: 1..MaxVersion, seen: Contents]
    \cup [at: {"recommendation_open"}, of: Recommendations,
          expected: 1..MaxVersion, seen: Contents,
          status: {"pending", "confirmed", "rejected"}, content: Contents, usable: BOOLEAN]
    \cup [at: {"experiment_page"}, of: Experiments,
          expected: 1..MaxVersion, seen: Contents]
    \cup [at: {"experiment_open"}, of: Experiments,
          expected: 1..MaxVersion, seen: Contents, status: ExperimentStatuses]
    \cup [at: {"generating"}]

Init ==
    /\ link = [l \in Links |-> AbsentLink]
    /\ clicks = [l \in Links |-> <<>>]
    /\ assetUsable \in BOOLEAN
    /\ recommendation = [r \in Recommendations |-> AbsentRecommendation]
    /\ experiment = [x \in Experiments |-> AbsentExperiment]
    /\ session = [s \in Sessions |-> Idle]

Goto(s, state) == session' = [session EXCEPT ![s] = state]

AnyLinkFree(l) == TRUE

(* No transaction under way has locked the link.                            *)
LinkFree(l) ==
    \A s \in Sessions : session[s].at \in {"locked", "decided"} => session[s].link # l

(***************************************************************************)
(* Promotion links.                                                        *)
(***************************************************************************)

CreateLink(l) ==
    /\ link[l].status = "absent"
    /\ link' = [link EXCEPT ![l] = [status |-> "active", lock_version |-> 1, click_count |-> 0]]
    /\ UNCHANGED <<clicks, assetUsable, recommendation, experiment, session>>

LookAtLink(s, l) ==
    /\ session[s].at = "idle"
    /\ link[l].status # "absent"
    /\ Goto(s, [at |-> "link_page", link |-> l, expected |-> link[l].lock_version])
    /\ UNCHANGED <<link, clicks, assetUsable, recommendation, experiment>>

(* Target, parameters, scene and name are not told apart here; the status   *)
(* is.                                                                      *)
Switched(row, status) == [row EXCEPT !.status = status, !.lock_version = @ + 1]

(* The UPDATE waits for a click that holds the link.                        *)
UpdateLink(s, status) ==
    LET l == session[s].link IN
    /\ session[s].at = "link_page"
    /\ LinkFree(l)
    /\ link[l].lock_version = session[s].expected
    /\ link[l].lock_version < MaxLinkVersion
    /\ link' = [link EXCEPT ![l] = Switched(@, status)]
    /\ Goto(s, Idle)
    /\ UNCHANGED <<clicks, assetUsable, recommendation, experiment>>

(***************************************************************************)
(* Clicks.                                                                 *)
(***************************************************************************)

LockLink(s, l, visitor, bot) ==
    /\ session[s].at = "idle"
    /\ LinkFree(l)
    /\ link[l].status = "active"
    /\ Len(clicks[l]) < MaxClicks
    /\ Goto(s, [at |-> "locked", link |-> l, visitor |-> visitor,
                read |-> link[l].click_count, counted |-> ~bot])
    /\ UNCHANGED <<link, clicks, assetUsable, recommendation, experiment>>

DuplicateOfLast(visitor, earlier) ==
    /\ visitor # Unknown
    /\ \E i \in DOMAIN earlier :
        /\ earlier[i].visitor = visitor /\ earlier[i].counted /\ earlier[i].within
        /\ \A j \in (i + 1)..Len(earlier) : earlier[j].visitor # visitor

(* A visitor without an address is never a duplicate.                       *)
Duplicate(visitor, earlier) ==
    /\ visitor # Unknown
    /\ \E i \in DOMAIN earlier :
            earlier[i].visitor = visitor /\ earlier[i].counted /\ earlier[i].within

DecideClick(s) ==
    LET click == session[s] IN
    /\ click.at = "locked"
    /\ Goto(s, [at |-> "decided", link |-> click.link, visitor |-> click.visitor,
                read |-> click.read,
                counted |-> click.counted /\ ~Duplicate(click.visitor, clicks[click.link])])
    /\ UNCHANGED <<link, clicks, assetUsable, recommendation, experiment>>

RecordClick(s) ==
    LET l == session[s].link
        counted == session[s].counted
    IN  /\ session[s].at = "decided"
        /\ Len(clicks[l]) < MaxClicks
        /\ clicks' = [clicks EXCEPT ![l] =
                Append(@, [visitor |-> session[s].visitor, counted |-> counted, within |-> TRUE])]
        /\ link' = [link EXCEPT ![l].click_count =
                IF counted THEN session[s].read + 1 ELSE @]
        /\ Goto(s, Idle)
        /\ UNCHANGED <<assetUsable, recommendation, experiment>>

(* Ten minutes have passed since the oldest click they had not.             *)
TenMinutesPass(l) ==
    /\ \E i \in DOMAIN clicks[l] :
        /\ clicks[l][i].within
        /\ \A j \in 1..(i - 1) : ~clicks[l][j].within
        /\ clicks' = [clicks EXCEPT ![l][i].within = FALSE]
    /\ UNCHANGED <<link, assetUsable, recommendation, experiment, session>>

CountedClicks(l) == {i \in DOMAIN clicks[l] : clicks[l][i].counted}

(* The statistics of a period that covers all clicks.                       *)
Statistics(l) ==
    [counted_clicks |-> Cardinality(CountedClicks(l)),
     filtered_clicks |-> Len(clicks[l]) - Cardinality(CountedClicks(l)),
     unique_visitors |-> Cardinality({clicks[l][i].visitor : i \in CountedClicks(l)} \ {Unknown})]

(***************************************************************************)
(* Recommendations.                                                        *)
(***************************************************************************)

(* A user reviews the asset, or its file disappears or comes back.          *)
ChangeAsset ==
    /\ assetUsable' = ~assetUsable
    /\ UNCHANGED <<link, clicks, recommendation, experiment, session>>

(* The request's view shows usable assets and active links; the provider is *)
(* asked with what it shows.                                                *)
AskProvider(s, l) ==
    /\ session[s].at = "idle"
    /\ assetUsable
    /\ link[l].status = "active"
    /\ Goto(s, [at |-> "generating"])
    /\ UNCHANGED <<link, clicks, assetUsable, recommendation, experiment>>

(* The answer is unusable, or none comes: only the usage is logged.         *)
ProviderFails(s) ==
    /\ session[s].at = "generating"
    /\ Goto(s, Idle)
    /\ UNCHANGED <<link, clicks, assetUsable, recommendation, experiment>>

GenerateRecommendation(s, r, content) ==
    /\ session[s].at = "generating"
    /\ recommendation[r].confirm_status = "absent"
    /\ recommendation' = [recommendation EXCEPT ![r] =
            [confirm_status |-> "pending", version_no |-> 1,
             content |-> content, agreed |-> NoContent]]
    /\ Goto(s, Idle)
    /\ UNCHANGED <<link, clicks, assetUsable, experiment>>

LookAtRecommendation(s, r) ==
    /\ session[s].at = "idle"
    /\ recommendation[r].confirm_status # "absent"
    /\ Goto(s, [at |-> "recommendation_page", of |-> r,
                expected |-> recommendation[r].version_no, seen |-> recommendation[r].content])
    /\ UNCHANGED <<link, clicks, assetUsable, recommendation, experiment>>

(* The view shows the recommendation, and whether asset and link may be     *)
(* used for an experiment.                                                  *)
OpenRecommendation(s, l) ==
    LET r == session[s].of IN
    /\ session[s].at = "recommendation_page"
    /\ Goto(s, [at |-> "recommendation_open", of |-> r,
                expected |-> session[s].expected, seen |-> session[s].seen,
                status |-> recommendation[r].confirm_status,
                content |-> recommendation[r].content,
                usable |-> assetUsable /\ link[l].status = "active"])
    /\ UNCHANGED <<link, clicks, assetUsable, recommendation, experiment>>

(* What the UPDATE of a recommendation finds.                               *)
StillPending(s) ==
    LET row == recommendation[session[s].of] IN
    /\ row.confirm_status = "pending"
    /\ row.version_no = session[s].expected

Decided(row, status, seen) ==
    [row EXCEPT !.confirm_status = status, !.version_no = @ + 1, !.agreed = seen]

ConfirmRecommendation(s, status) ==
    LET r == session[s].of IN
    /\ session[s].at = "recommendation_open"
    /\ session[s].status = "pending"
    /\ StillPending(s)
    /\ recommendation[r].version_no < MaxVersion
    /\ recommendation' = [recommendation EXCEPT ![r] = Decided(@, status, session[s].seen)]
    /\ Goto(s, Idle)
    /\ UNCHANGED <<link, clicks, assetUsable, experiment>>

EditedUnversioned(row, content) == [row EXCEPT !.content = content]

Edited(row, content) == [row EXCEPT !.content = content, !.version_no = @ + 1]

UpdateRecommendation(s, content) ==
    LET r == session[s].of IN
    /\ session[s].at = "recommendation_open"
    /\ session[s].status = "pending"
    /\ StillPending(s)
    /\ recommendation[r].version_no < MaxVersion
    /\ recommendation' = [recommendation EXCEPT ![r] = Edited(@, content)]
    /\ Goto(s, Idle)
    /\ UNCHANGED <<link, clicks, assetUsable, experiment>>

(***************************************************************************)
(* Experiments.                                                            *)
(***************************************************************************)

MayDraftFromPending(status) == status # "rejected"

MayDraftFrom(status) == status = "confirmed"

(* Target, audience and hypothesis are the texts of the recommendation.     *)
GenerateExperiment(s, x) ==
    LET read == session[s].content IN
    /\ session[s].at = "recommendation_open"
    /\ MayDraftFrom(session[s].status)
    /\ session[s].usable
    /\ experiment[x].experiment_status = "absent"
    /\ experiment' = [experiment EXCEPT ![x] =
            [experiment_status |-> "draft", version_no |-> 1, content |-> read,
             of |-> session[s].of, draftedFrom |-> read, agreed |-> NoContent]]
    /\ Goto(s, Idle)
    /\ UNCHANGED <<link, clicks, assetUsable, recommendation>>

LookAtExperiment(s, x) ==
    /\ session[s].at = "idle"
    /\ experiment[x].experiment_status # "absent"
    /\ Goto(s, [at |-> "experiment_page", of |-> x,
                expected |-> experiment[x].version_no, seen |-> experiment[x].content])
    /\ UNCHANGED <<link, clicks, assetUsable, recommendation, experiment>>

OpenExperiment(s) ==
    LET x == session[s].of IN
    /\ session[s].at = "experiment_page"
    /\ Goto(s, [at |-> "experiment_open", of |-> x,
                expected |-> session[s].expected, seen |-> session[s].seen,
                status |-> experiment[x].experiment_status])
    /\ UNCHANGED <<link, clicks, assetUsable, recommendation, experiment>>

ExperimentFoundAnyVersion(s) ==
    experiment[session[s].of].version_no >= session[s].expected

(* What the UPDATE of an experiment finds; it looks at no status.           *)
ExperimentFound(s) ==
    experiment[session[s].of].version_no = session[s].expected

(* A request sets the texts, the status or both.  Who confirms agrees to    *)
(* the texts of the request, or else to those on the page.                  *)
Amended(row, status, content, seen) ==
    [row EXCEPT !.experiment_status = IF status = "unset" THEN @ ELSE status,
                !.content = IF content = NoContent THEN @ ELSE content,
                !.agreed = IF status # "confirmed" THEN @
                           ELSE IF content = NoContent THEN seen ELSE content,
                !.version_no = @ + 1]

(* The rules are those of the status that was read.                         *)
UpdateExperiment(s, status, content) ==
    LET x == session[s].of
        read == session[s].status
    IN  /\ session[s].at = "experiment_open"
        /\ status # "unset" \/ content # NoContent
        /\ content # NoContent => read = "draft"
        /\ status # "unset" => status \in EXPERIMENT_TRANSITIONS[read]
        /\ ExperimentFound(s)
        /\ experiment[x].version_no < MaxVersion
        /\ experiment' = [experiment EXCEPT ![x] = Amended(@, status, content, session[s].seen)]
        /\ Goto(s, Idle)
        /\ UNCHANGED <<link, clicks, assetUsable, recommendation>>

(* A check fails, a version is stale, or the user leaves the page.          *)
Refuse(s) ==
    /\ session[s].at \in {"link_page", "recommendation_page", "recommendation_open",
                          "experiment_page", "experiment_open"}
    /\ Goto(s, Idle)
    /\ UNCHANGED <<link, clicks, assetUsable, recommendation, experiment>>

(***************************************************************************)

Acts(s) ==
    \/ \E l \in Links :
        \/ LookAtLink(s, l) \/ AskProvider(s, l) \/ OpenRecommendation(s, l)
        \/ \E visitor \in Visitors \cup {Unknown}, bot \in BOOLEAN : LockLink(s, l, visitor, bot)
    \/ \E status \in {"active", "inactive"} : UpdateLink(s, status)
    \/ DecideClick(s)
    \/ RecordClick(s)
    \/ ProviderFails(s)
    \/ \E r \in Recommendations :
        \/ LookAtRecommendation(s, r)
        \/ \E content \in Contents : GenerateRecommendation(s, r, content)
    \/ \E status \in {"confirmed", "rejected"} : ConfirmRecommendation(s, status)
    \/ \E content \in Contents : UpdateRecommendation(s, content)
    \/ \E x \in Experiments : GenerateExperiment(s, x) \/ LookAtExperiment(s, x)
    \/ OpenExperiment(s)
    \/ \E status \in ExperimentStatuses \cup {"unset"}, content \in Contents \cup {NoContent} :
            UpdateExperiment(s, status, content)
    \/ Refuse(s)

Next ==
    \/ \E l \in Links : CreateLink(l) \/ TenMinutesPass(l)
    \/ ChangeAsset
    \/ \E s \in Sessions : Acts(s)

Spec == Init /\ [][Next]_vars

(***************************************************************************)
(* Properties.                                                             *)
(***************************************************************************)

(* Every row, click and session has its type, and counters stay in their    *)
(* bounds.                                                                  *)
TypeOK ==
    /\ link \in [Links -> LinkRows]
    /\ clicks \in [Links -> Seq(Clicks)]
    /\ assetUsable \in BOOLEAN
    /\ recommendation \in [Recommendations -> RecommendationRows]
    /\ experiment \in [Experiments -> ExperimentRows]
    /\ session \in [Sessions -> SessionStates]

(* The counter of a link is the number of its counted clicks, however many  *)
(* visitors follow it at once and whoever edits it meanwhile.               *)
CountersMatch ==
    \A l \in Links : link[l].click_count = Statistics(l).counted_clicks

(* Within ten minutes a visitor counts once.                                *)
CountedOnce ==
    \A l \in Links : \A i, j \in CountedClicks(l) :
        /\ clicks[l][i].visitor = clicks[l][j].visitor /\ clicks[l][i].visitor # Unknown
        /\ clicks[l][i].within /\ clicks[l][j].within
        => i = j

(* A recommendation says what the user who confirmed or rejected it had     *)
(* seen, and an experiment, once it is confirmed, what that user agreed to: *)
(* no edit slips between the page and the decision, and none follows it.    *)
DecidedAsSeen ==
    /\ \A r \in Recommendations :
        recommendation[r].confirm_status \in {"confirmed", "rejected"} =>
            recommendation[r].content = recommendation[r].agreed
    /\ \A x \in Experiments :
        experiment[x].experiment_status \in {"confirmed", "running", "finished"} =>
            experiment[x].content = experiment[x].agreed

(* Every experiment was drafted from a recommendation that is confirmed, in *)
(* the words its confirmer had seen, although the recommendation was read   *)
(* in a view that may be older than the draft.                              *)
DraftedFromAgreed ==
    \A x \in Experiments : experiment[x].experiment_status # "absent" =>
        LET r == recommendation[experiment[x].of] IN
        /\ r.confirm_status = "confirmed"
        /\ experiment[x].draftedFrom = r.agreed

(* The status of an experiment takes only the steps it is allowed, and its  *)
(* texts change only in a draft, although the rules are checked against     *)
(* what was read and the UPDATE compares nothing but the version.           *)
ExperimentRules ==
    [][\A x \in Experiments : experiment[x].experiment_status # "absent" =>
        LET from == experiment[x].experiment_status
            to == experiment'[x].experiment_status
        IN  /\ to # from => to \in EXPERIMENT_TRANSITIONS[from]
            /\ experiment'[x].content # experiment[x].content => from = "draft"]_vars
=============================================================================
