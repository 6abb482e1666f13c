------------------------- MODULE CompetitorMonitors -------------------------
(***************************************************************************)
(* Monitors of competitors, services/competitors.py: users configure and   *)
(* run them, the sweep of due monitors runs those that are scheduled, and  *)
(* each run leaves a snapshot.                                             *)
(*                                                                         *)
(* A request reads under the view its first query fixed, and writes only   *)
(* attributes whose value differs from the one it read.  A run goes        *)
(* through four steps: the view, the claim (an UPDATE that is committed),  *)
(* the refreshed row, and after the page was fetched the record.  The      *)
(* sweep runs one due monitor after the other, each like a request that    *)
(* does not force; what it selects beforehand only narrows its choice.     *)
(*                                                                         *)
(* Time is what the code compares: whether five minutes have passed since  *)
(* the claim; a run that is scheduled may be due at any time.  "inactive"  *)
(* stands also for a competitor without a URL, which every operation here  *)
(* treats like an inactive one.                                            *)
(*                                                                         *)
(* An operator whose name extends that of the next one is a slip of the    *)
(* code that the properties below must notice; no action uses it.          *)
(***************************************************************************)
EXTENDS CompetitorService, Naturals, Sequences

CONSTANTS
    Results,        \* what a page may show
    MaxSnapshots,   \* bound on the snapshots of a monitor
    PromptRuns,     \* TRUE: a live run is recorded before its claim lapses
    NoResult, NoOne

ASSUME SnapshotAssumption == MaxSnapshots \in Nat
ASSUME PromptAssumption == PromptRuns \in BOOLEAN
ASSUME NullAssumption ==
    /\ NoResult \notin Results
    /\ NoOne \notin Requests
    /\ NoCompetitor \notin Competitors

VARIABLES
    competitor,     \* the status of each competitor
    monitor,        \* competitor_monitors rows, without their claims
    claim,          \* lock_token and locked_until of each row
    snapshots,      \* competitor_monitor_snapshots of each monitor
    request         \* what each request has read

vars == <<competitor, monitor, claim, snapshots, request>>

(***************************************************************************)
(* Rows.                                                                   *)
(***************************************************************************)

(* Consecutive failures are compared with three, never otherwise: three     *)
(* stands for every higher number.                                          *)
FailureLimit == 3

CompetitorStatuses == {"active", "inactive"}

MonitorRows == [status: {"absent", "active", "paused", "failed"},
                failures: 0..FailureLimit, scheduled: BOOLEAN]

AbsentMonitor == [status |-> "absent", failures |-> 0, scheduled |-> FALSE]

Claims == [by: Requests \cup {NoOne}, lapsed: BOOLEAN]

NoClaim == [by |-> NoOne, lapsed |-> FALSE]

Snapshots == [value: Results \cup {NoResult}, changed: BOOLEAN]

FailedSnapshot == [value |-> NoResult, changed |-> FALSE]

RequestStates == [at: {"idle", "open", "claimed", "running"},
                  of: Competitors \cup {NoCompetitor},
                  competitor: CompetitorStatuses \cup {"absent"},
                  row: MonitorRows, previous: Results \cup {NoResult}, held: BOOLEAN]

Idle == [at |-> "idle", of |-> NoCompetitor, competitor |-> "absent",
         row |-> AbsentMonitor, previous |-> NoResult, held |-> FALSE]

Init ==
    /\ competitor = [c \in Competitors |-> "absent"]
    /\ monitor = [c \in Competitors |-> AbsentMonitor]
    /\ claim = [c \in Competitors |-> NoClaim]
    /\ snapshots = [c \in Competitors |-> <<>>]
    /\ request = [q \in Requests |-> Idle]

Goto(q, state) == request' = [request EXCEPT ![q] = state]

(***************************************************************************)
(* Competitors and the configuration of their monitors.                    *)
(***************************************************************************)

CreateCompetitor(c, status) ==
    /\ competitor[c] = "absent"
    /\ competitor' = [competitor EXCEPT ![c] = status]
    /\ UNCHANGED <<monitor, claim, snapshots, request>>

(* A request reads the competitor and its monitor.                          *)
Open(q, c) ==
    /\ request[q].at = "idle"
    /\ competitor[c] # "absent"
    /\ Goto(q, [at |-> "open", of |-> c, competitor |-> competitor[c],
                row |-> monitor[c], previous |-> NoResult, held |-> FALSE])
    /\ UNCHANGED <<competitor, monitor, claim, snapshots>>

(* A check fails, the monitor is busy, or the request only reads.           *)
Refuse(q) ==
    /\ request[q].at = "open"
    /\ Goto(q, Idle)
    /\ UNCHANGED <<competitor, monitor, claim, snapshots>>

UpdateCompetitor(q, status) ==
    LET c == request[q].of IN
    /\ request[q].at = "open"
    /\ competitor' = [competitor EXCEPT ![c] = Assigned(request[q].competitor, status, @)]
    /\ Goto(q, Idle)
    /\ UNCHANGED <<monitor, claim, snapshots>>

(* A monitor the view does not show is left alone.                          *)
ArchiveCompetitor(q) ==
    LET c == request[q].of
        read == request[q].row
    IN  /\ request[q].at = "open"
        /\ competitor' = [competitor EXCEPT ![c] = Assigned(request[q].competitor, "inactive", @)]
        /\ monitor' = IF read.status = "absent" THEN monitor
                      ELSE [monitor EXCEPT
                        ![c].status = Assigned(read.status, "paused", @),
                        ![c].scheduled = Assigned(read.scheduled, FALSE, @)]
        /\ Goto(q, Idle)
        /\ UNCHANGED <<claim, snapshots>>

EnabledMonitor(read, r) ==
    [status |-> Assigned(read.status, "active", r.status),
     failures |-> Assigned(read.failures, 0, r.failures),
     scheduled |-> TRUE]

PausedMonitor(read, r) ==
    [r EXCEPT !.status = Assigned(read.status, "paused", @),
              !.scheduled = Assigned(read.scheduled, FALSE, @)]

(* Inserting a monitor another request has inserted fails.                  *)
UpsertMonitor(q, status) ==
    LET c == request[q].of
        read == request[q].row
    IN  /\ request[q].at = "open"
        /\ request[q].competitor = "active"
        /\ read.status = "absent" => monitor[c].status = "absent"
        /\ monitor' = [monitor EXCEPT ![c] =
                IF status = "active" THEN EnabledMonitor(read, @) ELSE PausedMonitor(read, @)]
        /\ Goto(q, Idle)
        /\ UNCHANGED <<competitor, claim, snapshots>>

(***************************************************************************)
(* Runs.                                                                   *)
(***************************************************************************)
ClaimableForced(c, force) ==
    \/ force
    \/ monitor[c].status = "active" /\ monitor[c].scheduled /\
       (claim[c].by = NoOne \/ claim[c].lapsed)

(* A sweep claims what is active and due; a user may force a run.  Neither  *)
(* takes a claim that has not lapsed.                                       *)
Claimable(c, force) ==
    /\ force \/ (monitor[c].status = "active" /\ monitor[c].scheduled)
    /\ claim[c].by = NoOne \/ claim[c].lapsed

ClaimMonitor(q, force) ==
    LET c == request[q].of IN
    /\ request[q].at = "open"
    /\ request[q].row.status # "absent"
    /\ Claimable(c, force)
    /\ claim' = [claim EXCEPT ![c] = [by |-> q, lapsed |-> FALSE]]
    /\ Goto(q, [request[q] EXCEPT !.at = "claimed", !.row = AbsentMonitor])
    /\ UNCHANGED <<competitor, monitor, snapshots>>

Successes(s) == {i \in 1..Len(s) : s[i].value # NoResult}

PreviousOfAny(s) == IF s = <<>> THEN NoResult ELSE s[Len(s)].value

(* The value of the latest snapshot of a success.                           *)
Previous(s) ==
    IF Successes(s) = {} THEN NoResult
    ELSE s[CHOOSE i \in Successes(s) : \A j \in Successes(s) : j <= i].value

(* The monitor is refreshed, the competitor is not.                         *)
LoadMonitor(q) ==
    LET c == request[q].of IN
    /\ request[q].at = "claimed"
    /\ Goto(q, [request[q] EXCEPT !.at = "running", !.row = monitor[c],
                                  !.previous = Previous(snapshots[c]),
                                  !.held = claim[c].by # NoOne])
    /\ UNCHANGED <<competitor, monitor, claim, snapshots>>

(* The snapshot is added, and the claim that was read is cleared, whoever    *)
(* holds one by now.                                                        *)
Record(q, snapshot) ==
    LET c == request[q].of IN
    /\ Len(snapshots[c]) < MaxSnapshots
    /\ snapshots' = [snapshots EXCEPT ![c] = Append(@, snapshot)]
    /\ claim' = [claim EXCEPT ![c] = IF request[q].held THEN NoClaim ELSE @]
    /\ Goto(q, Idle)
    /\ UNCHANGED competitor

SuccessfulMonitorUncounted(read, r) ==
    [r EXCEPT !.status = Assigned(read.status, "active", @), !.scheduled = TRUE]

SuccessfulMonitor(read, r) ==
    [status |-> Assigned(read.status, "active", r.status),
     failures |-> Assigned(read.failures, 0, r.failures),
     scheduled |-> TRUE]

Changed(previous, value) == value # previous

RunSucceeds(q, value) ==
    /\ request[q].at = "running"
    /\ request[q].competitor = "active"
    /\ Record(q, [value |-> value, changed |-> Changed(request[q].previous, value)])
    /\ monitor' = [monitor EXCEPT ![request[q].of] = SuccessfulMonitor(request[q].row, @)]

(* The count is always one more than the one that was read.                 *)
FailedMonitor(read, r) ==
    LET failures == IF read.failures < FailureLimit THEN read.failures + 1 ELSE FailureLimit IN
    [status |-> Assigned(read.status, IF failures = FailureLimit THEN "failed" ELSE "active", r.status),
     failures |-> failures,
     scheduled |-> TRUE]

(* The page can not be fetched, or the competitor is inactive.              *)
RunFails(q) ==
    /\ request[q].at = "running"
    /\ Record(q, FailedSnapshot)
    /\ monitor' = [monitor EXCEPT ![request[q].of] = FailedMonitor(request[q].row, @)]

(* The process dies, or fetching raises what run_monitor does not expect:   *)
(* the claim stays.                                                         *)
RunBreaks(q) ==
    /\ request[q].at \in {"claimed", "running"}
    /\ Goto(q, Idle)
    /\ UNCHANGED <<competitor, monitor, claim, snapshots>>

Running(q, c) == request[q].at \in {"claimed", "running"} /\ request[q].of = c

ClaimLapses(c) ==
    /\ claim[c].by # NoOne
    /\ PromptRuns => ~Running(claim[c].by, c)
    /\ claim' = [claim EXCEPT ![c].lapsed = TRUE]
    /\ UNCHANGED <<competitor, monitor, snapshots, request>>

(***************************************************************************)

Acts(q) ==
    \/ \E c \in Competitors : Open(q, c)
    \/ Refuse(q)
    \/ \E status \in CompetitorStatuses : UpdateCompetitor(q, status)
    \/ ArchiveCompetitor(q)
    \/ \E status \in {"active", "paused"} : UpsertMonitor(q, status)
    \/ \E force \in BOOLEAN : ClaimMonitor(q, force)
    \/ LoadMonitor(q)
    \/ \E value \in Results : RunSucceeds(q, value)
    \/ RunFails(q)
    \/ RunBreaks(q)

Next ==
    \/ \E c \in Competitors, status \in CompetitorStatuses : CreateCompetitor(c, status)
    \/ \E q \in Requests : Acts(q)
    \/ \E c \in Competitors : ClaimLapses(c)

Spec == Init /\ [][Next]_vars

(***************************************************************************)
(* Properties.                                                             *)
(***************************************************************************)

TypeOK ==
    /\ competitor \in [Competitors -> CompetitorStatuses \cup {"absent"}]
    /\ monitor \in [Competitors -> MonitorRows]
    /\ claim \in [Competitors -> Claims]
    /\ snapshots \in [Competitors -> Seq(Snapshots)]
    /\ request \in [Requests -> RequestStates]

(* Of all requests and sweeps, at most one runs a monitor at a time.        *)
OneRunPerMonitor ==
    \A q, r \in Requests, c \in Competitors : Running(q, c) /\ Running(r, c) => q = r

(* Success i tells whether its value differs from that of the success       *)
(* before it; the first one is a change.                                    *)
Tracked(s, i) ==
    LET before == {j \in Successes(s) : j < i} IN
    /\ before = {} => s[i].changed
    /\ \A j \in before : (\A k \in before : k <= j) =>
            s[i].changed = (s[i].value # s[j].value)

(* The changes a snapshot shows are those since the success before it, with *)
(* nothing missing and nothing compared with an older one, although runs of *)
(* users and sweeps overlap.                                                *)
ChangesTracked ==
    \A c \in Competitors : \A i \in Successes(snapshots[c]) : Tracked(snapshots[c], i)

(* The last n snapshots are of failures.                                    *)
Failing(s, n) == n <= Len(s) /\ \A i \in (Len(s) - n + 1)..Len(s) : s[i].value = NoResult

(* A monitor is only given up after three failed runs in a row, however     *)
(* users enable and pause it meanwhile.                                     *)
FailedAfterThree ==
    \A c \in Competitors : monitor[c].status = "failed" => Failing(snapshots[c], 3)
=============================================================================
