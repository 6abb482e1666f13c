---------------------------- MODULE LinkParseTasks ----------------------------
(***************************************************************************)
(* Public links: tasks that fetch and parse a page, and what users take    *)
(* over from a page into a competitor, services/competitors.py.            *)
(*                                                                         *)
(* A request reads under the view its first query fixed, and writes only   *)
(* attributes whose value differs from the one it read; the sources of all *)
(* fields are one attribute.  A run of a task commits twice, before and    *)
(* after it fetches the page, and does not read the row again in between.  *)
(* Snapshots of monitors are taken over like results of tasks; how they    *)
(* come about is the subject of CompetitorMonitors.                        *)
(*                                                                         *)
(* The page's title is what it offers for the name, its address what it    *)
(* offers for the URL.  The status of a competitor plays no part here.     *)
(* origin is a history variable: who gave each field the value it has.     *)
(*                                                                         *)
(* contested is one too: the tasks that two requests were running at once; *)
(* and so is crossed: the competitors written while another request, which *)
(* had read them, was still to write them.                                 *)
(*                                                                         *)
(* An operator whose name extends that of the next one is a slip of the    *)
(* code that the properties below must notice; no action uses it.          *)
(***************************************************************************)
EXTENDS CompetitorService, Naturals

CONSTANTS
    Tasks,          \* parse tasks that may be created
    Fields,         \* fields of a competitor, "name" is one of them
    Values,         \* values of a field
    MaxAttempts,    \* max_attempts of a task
    NoValue, NoPage

ASSUME FieldAssumption == "name" \in Fields
ASSUME AttemptAssumption == MaxAttempts \in Nat \ {0}
ASSUME ValueAssumption == NoValue \notin Values /\ NoCompetitor \notin Competitors

VARIABLES
    profile,        \* competitors rows, apart from their status
    origin,         \* where the value of each field comes from
    task,           \* public_link_parse_tasks rows
    fetches,        \* how often the page of each task was fetched
    visit,          \* what each request has read
    contested,      \* the tasks two requests ran at once
    crossed         \* the competitors written under another request's view

linkVars == <<profile, origin, task, fetches, visit, contested, crossed>>

(***************************************************************************)
(* Rows.                                                                   *)
(***************************************************************************)

Optional == Values \cup {NoValue}

(* At least one field is found on a page that was parsed.                   *)
Pages == {page \in [Fields -> Optional] : \E f \in Fields : page[f] # NoValue}

ASSUME PageAssumption == NoPage \notin Pages

Sources == {"none", "manual", "parsed", "monitor"}

ProfileRows == [present: BOOLEAN, value: [Fields -> Optional], source: [Fields -> Sources]]

AbsentProfile == [present |-> FALSE, value |-> [f \in Fields |-> NoValue],
                     source |-> [f \in Fields |-> "none"]]

TaskRows == [status: {"absent", "pending", "running", "succeeded", "failed"},
             attempts: 0..MaxAttempts, result: Pages \cup {NoPage}, error: BOOLEAN,
             competitor: Competitors \cup {NoCompetitor}]

AbsentTask == [status |-> "absent", attempts |-> 0, result |-> NoPage, error |-> FALSE,
               competitor |-> NoCompetitor]

NoVisit == [at |-> "idle"]

(* of: the competitor that is written, or a new one; page: the result.      *)
VisitStates ==
    {NoVisit}
    \cup [at: {"editing"}, of: Competitors, row: ProfileRows]
    \cup [at: {"applying"}, task: Tasks, page: Pages,
          of: Competitors \cup {NoCompetitor}, row: ProfileRows]
    \cup [at: {"starting"}, task: Tasks, row: TaskRows]
    \cup [at: {"fetching"}, task: Tasks]

LinkInit ==
    /\ profile = [c \in Competitors |-> AbsentProfile]
    /\ origin = [c \in Competitors |-> AbsentProfile.source]
    /\ task = [t \in Tasks |-> AbsentTask]
    /\ fetches = [t \in Tasks |-> 0]
    /\ visit = [q \in Requests |-> NoVisit]
    /\ contested = {}
    /\ crossed = {}

Visit(q, state) == visit' = [visit EXCEPT ![q] = state]

(* A request opens: its view is the state of the tables now.                *)
OpenVisit(q, state) ==
    /\ visit[q].at = "idle"
    /\ Visit(q, state)
    /\ UNCHANGED <<profile, origin, task, fetches>>

(***************************************************************************)
(* Competitors and the sources of their fields.                            *)
(***************************************************************************)

ToldOnlyFirst(sources, changed, by) ==
    [f \in Fields |-> IF f \in changed /\ sources[f] = "none" THEN by ELSE sources[f]]

(* The sources of the fields that are changed, next to those that were read. *)
Told(sources, changed, by) == [f \in Fields |-> IF f \in changed THEN by ELSE sources[f]]

(* The fields in changed are assigned, under a view that shows read.        *)
Written(read, r, changed, value, by) ==
    [present |-> TRUE,
     value |-> [f \in Fields |->
        IF f \in changed THEN Assigned(read.value[f], value[f], r.value[f]) ELSE r.value[f]],
     source |-> Assigned(read.source, Told(read.source, changed, by), r.source)]

(* A field whose value is now the one assigned has it from this request.    *)
Originated(c, changed, value, by) ==
    [f \in Fields |-> IF f \in changed /\ profile'[c].value[f] = value[f]
                      THEN by[f] ELSE origin[c][f]]

(* create_competitor                                                        *)
CreateProfile(value) ==
    LET given == {f \in Fields : value[f] # NoValue} IN
    /\ value["name"] # NoValue
    /\ \E c \in Competitors :
        /\ ~profile[c].present
        /\ profile' = [profile EXCEPT ![c] =
                Written(AbsentProfile, @, given, value, "manual")]
        /\ origin' = [origin EXCEPT ![c] = profile'[c].source]
    /\ UNCHANGED <<task, fetches, visit, contested>>

(* To edit the competitor, or to take over a snapshot of its monitor.       *)
OpenProfile(q, c) ==
    /\ profile[c].present
    /\ OpenVisit(q, [at |-> "editing", of |-> c, row |-> profile[c]])
    /\ UNCHANGED contested

ChangeProfile(q, changed, value, by) ==
    LET c == visit[q].of IN
    /\ visit[q].at = "editing"
    /\ changed # {}
    /\ profile' = [profile EXCEPT ![c] = Written(visit[q].row, @, changed, value, by)]
    /\ origin' = [origin EXCEPT ![c] = Originated(c, changed, value, [f \in Fields |-> by])]
    /\ Visit(q, NoVisit)
    /\ UNCHANGED <<task, fetches, contested>>

(* update_competitor                                                        *)
UpdateProfile(q, changed, value) ==
    /\ value["name"] # NoValue
    /\ ChangeProfile(q, changed, value, "manual")

(* What the page shows nothing for is left alone.                           *)
Found(fields, page) == {f \in fields : page[f] # NoValue}

(* A monitor's snapshot offers neither name nor URL.                        *)
ApplySnapshot(q, fields, page) ==
    ChangeProfile(q, Found(fields \ {"name"}, page), page, "monitor")

(***************************************************************************)
(* Tasks.                                                                  *)
(***************************************************************************)

CreateTask(t, c) ==
    /\ task[t].status = "absent"
    /\ c # NoCompetitor => profile[c].present
    /\ task' = [task EXCEPT ![t] = [AbsentTask EXCEPT !.status = "pending", !.competitor = c]]
    /\ UNCHANGED <<profile, origin, fetches, visit, contested>>

RunsTask(q, t) == visit[q].at \in {"starting", "fetching"} /\ visit[q].task = t

Runnable(t) == task[t].status \notin {"absent", "running"} /\ task[t].attempts < MaxAttempts

(* No guard reads contested: it only tells what the runs have met.          *)
OpenRun(q, t) ==
    /\ Runnable(t)
    /\ OpenVisit(q, [at |-> "starting", task |-> t, row |-> task[t]])
    /\ contested' = IF \E r \in Requests : RunsTask(r, t) THEN contested \cup {t} ELSE contested

StartedKeepingResult(read, r) ==
    [r EXCEPT !.status = "running", !.attempts = read.attempts + 1,
              !.error = Assigned(read.error, FALSE, @)]

(* The status and the attempts differ from what was read.                   *)
Started(read, r) ==
    [r EXCEPT !.status = "running", !.attempts = read.attempts + 1,
              !.result = Assigned(read.result, NoPage, @),
              !.error = Assigned(read.error, FALSE, @)]

StartRun(q) ==
    LET t == visit[q].task IN
    /\ visit[q].at = "starting"
    /\ task' = [task EXCEPT ![t] = Started(visit[q].row, @)]
    /\ fetches' = [fetches EXCEPT ![t] = @ + 1]
    /\ Visit(q, [at |-> "fetching", task |-> t])
    /\ UNCHANGED <<profile, origin, contested>>

FinishRun(q, finished) ==
    /\ visit[q].at = "fetching"
    /\ task' = [task EXCEPT ![visit[q].task] = finished]
    /\ Visit(q, NoVisit)
    /\ UNCHANGED <<profile, origin, fetches, contested>>

(* The page is found within the limits of the settings and parsed.          *)
ParseSucceeds(q, page) ==
    FinishRun(q, [task[visit[q].task] EXCEPT !.status = "succeeded", !.result = page])

(* A ParseFailure: the link may not be followed, the page can not be read,  *)
(* asks for a login or shows nothing.                                       *)
ParseFails(q) ==
    FinishRun(q, [task[visit[q].task] EXCEPT !.status = "failed", !.error = TRUE])

(* Fetching or parsing raises anything else (a meta element with neither    *)
(* property nor name is enough), or the process dies.                       *)
ParseBreaks(q) ==
    /\ visit[q].at = "fetching"
    /\ Visit(q, NoVisit)
    /\ UNCHANGED <<profile, origin, task, fetches, contested>>

(* The user may name another competitor than the task's.                    *)
OpenApply(q, t, c) ==
    /\ task[t].status = "succeeded"
    /\ task[t].result # NoPage
    /\ IF c = NoCompetitor THEN task[t].competitor = NoCompetitor
                           ELSE profile[c].present
    /\ OpenVisit(q, [at |-> "applying", task |-> t, page |-> task[t].result, of |-> c,
                row |-> IF c = NoCompetitor THEN AbsentProfile ELSE profile[c]])
    /\ UNCHANGED contested

(* What is offered when the user gives a name, or NoValue.                  *)
Offered(page, name) == [page EXCEPT !["name"] = IF name # NoValue THEN name ELSE @]

(* A new competitor has its name first, with its source, and then the       *)
(* fields, of which the name may be one.                                    *)
NewProfile(name, given) ==
    [AbsentProfile EXCEPT !.present = TRUE, !.value["name"] = name,
                             !.source["name"] = IF given THEN "manual" ELSE "parsed"]

ApplyTask(q, fields, name) ==
    LET offer == Offered(visit[q].page, name)
        changed == Found(fields, offer)
        by == [f \in Fields |-> IF f = "name" /\ name # NoValue THEN "manual" ELSE "parsed"]
        t == visit[q].task
    IN  /\ visit[q].at = "applying"
        /\ changed # {}
        /\ \/ LET c == visit[q].of IN
              /\ c # NoCompetitor
              /\ profile' = [profile EXCEPT ![c] =
                    Written(visit[q].row, @, changed, offer, "parsed")]
              /\ origin' = [origin EXCEPT ![c] = Originated(c, changed, offer, by)]
              /\ UNCHANGED task
           \/ /\ visit[q].of = NoCompetitor
              /\ offer["name"] # NoValue
              /\ \E c \in Competitors :
                    LET new == NewProfile(offer["name"], name # NoValue) IN
                    /\ ~profile[c].present
                    /\ profile' = [profile EXCEPT ![c] =
                            Written(new, new, changed, offer, "parsed")]
                    /\ origin' = [origin EXCEPT ![c] =
                            Originated(c, changed \cup {"name"}, offer, by)]
                    /\ task' = [task EXCEPT ![t].competitor = c]
        /\ Visit(q, NoVisit)
        /\ UNCHANGED <<fetches, contested>>

(* A check fails, or the request only reads.                                *)
RefuseVisit(q) ==
    /\ visit[q].at \in {"editing", "applying"}
    /\ Visit(q, NoVisit)
    /\ UNCHANGED <<profile, origin, task, fetches, contested>>

(***************************************************************************)

VisitActs(q) ==
    \/ \E c \in Competitors : OpenProfile(q, c)
    \/ \E fields \in SUBSET Fields :
        \/ \E value \in [Fields -> Optional] : UpdateProfile(q, fields, value)
        \/ \E page \in Pages : ApplySnapshot(q, fields, page)
        \/ \E name \in Optional : ApplyTask(q, fields, name)
    \/ \E t \in Tasks : OpenRun(q, t) \/ \E c \in Competitors \cup {NoCompetitor} : OpenApply(q, t, c)
    \/ StartRun(q)
    \/ \E page \in Pages : ParseSucceeds(q, page)
    \/ ParseFails(q) \/ ParseBreaks(q)
    \/ RefuseVisit(q)

LinkStep ==
    \/ \E value \in [Fields -> Optional] : CreateProfile(value)
    \/ \E t \in Tasks, c \in Competitors \cup {NoCompetitor} : CreateTask(t, c)
    \/ \E q \in Requests : VisitActs(q)

(* Whoever is still to write the competitor has read what it is no more.    *)
HasRead(s, c) == s.at \in {"editing", "applying"} /\ s.of = c

Overwritten(c) ==
    /\ profile'[c] # profile[c]
    /\ \E q \in Requests : HasRead(visit[q], c) /\ HasRead(visit'[q], c)

LinkNext ==
    /\ LinkStep
    /\ crossed' = crossed \cup {c \in Competitors : Overwritten(c)}

LinkSpec == LinkInit /\ [][LinkNext]_linkVars

(***************************************************************************)
(* Properties.                                                             *)
(***************************************************************************)

LinkRowsOK ==
    /\ profile \in [Competitors -> ProfileRows]
    /\ origin \in [Competitors -> [Fields -> Sources]]
    /\ task \in [Tasks -> TaskRows]
    /\ fetches \in [Tasks -> Nat]
    /\ visit \in [Requests -> VisitStates]
    /\ contested \in SUBSET Tasks

LinkTypeOK == LinkRowsOK /\ crossed \in SUBSET Competitors

(* The source shown for a field is where its value comes from, whatever is  *)
(* edited and taken over, from tasks and from snapshots, unless a request   *)
(* that had read the competitor was overtaken by another one that wrote it: *)
(* the sources are one attribute, and are written from those that were read *)
(* (update_competitor, apply_parse_task, apply_snapshot).  A name the user  *)
(* gives while he takes over the field is shown as parsed.                  *)
UncrossedSourcesTold ==
    \A c \in Competitors \ crossed, f \in Fields \ {"name"} :
        profile[c].source[f] = origin[c][f]

(* The same of every competitor: the code loses sources.                    *)
SourcesTold ==
    \A c \in Competitors, f \in Fields \ {"name"} : profile[c].source[f] = origin[c][f]

(* No page is fetched more often than its task allows.  The code lets it:   *)
(* the attempts are counted from the ones that were read, without a lock.   *)
FetchesLimited == \A t \in Tasks : fetches[t] <= MaxAttempts

(* The result of a task is there exactly while it says so, and so is the    *)
(* error: nothing of an earlier run is left over, whatever failed, broke    *)
(* down or was taken over since, unless two requests once ran the task      *)
(* together.                                                                *)
UncontestedOutcomesMatch ==
    \A t \in Tasks \ contested :
        /\ (task[t].result # NoPage) = (task[t].status = "succeeded")
        /\ task[t].error = (task[t].status = "failed")

(* A task that says it is running is being run, so that it settles and may  *)
(* be retried.                                                              *)
NoTaskStranded ==
    \A t \in Tasks : task[t].status = "running" => \E q \in Requests : RunsTask(q, t)
=============================================================================
