---------------------- MODULE CompetitorMonitorsProofs ----------------------
(***************************************************************************)
(* Proofs about CompetitorMonitors.  TypeOK holds of every behaviour; the  *)
(* other invariants rest on PromptRuns: a run that is recorded before its  *)
(* claim lapses has the monitor for itself, so that what it read when it   *)
(* started still says what the snapshots say when it is recorded.  The     *)
(* second half is about LinkParseTasks, the rest of competitors.py: its    *)
(* theorems assume nothing about how requests overlap.                     *)
(***************************************************************************)
EXTENDS CompetitorMonitors, LinkParseTasks, WellFoundedInduction, TLAPS

(* A request that is under way is about a competitor.                       *)
RequestsAttached == \A q \in Requests : request[q].at # "idle" => request[q].of \in Competitors

(* Whoever runs a monitor holds its claim.                                  *)
RunsClaimed ==
    \A q \in Requests, c \in Competitors :
        Running(q, c) => claim[c] = [by |-> q, lapsed |-> FALSE]

(* What a run read of a monitor: users may meanwhile reset its failures or  *)
(* take it out of its status, but only a run counts failures or gives up.   *)
StillRead(read, r) ==
    /\ r.failures <= read.failures
    /\ r.status = "failed" => read.status = "failed"

RunsInformed ==
    \A q \in Requests : request[q].at = "running" =>
        LET c == request[q].of IN
        /\ request[q].previous = Previous(snapshots[c])
        /\ Failing(snapshots[c], request[q].row.failures)
        /\ StillRead(request[q].row, monitor[c])

(* Failures are counted only if they are the last snapshots.                *)
FailuresCounted == \A c \in Competitors : Failing(snapshots[c], monitor[c].failures)

IInv ==
    /\ TypeOK
    /\ RequestsAttached
    /\ RunsClaimed
    /\ RunsInformed
    /\ FailuresCounted
    /\ ChangesTracked
    /\ FailedAfterThree

Attached == TypeOK /\ RequestsAttached

(***************************************************************************)
(* Types.                                                                  *)
(***************************************************************************)

LEMMA RowTypes ==
    ASSUME NEW read \in MonitorRows, NEW r \in MonitorRows
    PROVE  /\ EnabledMonitor(read, r) \in MonitorRows
           /\ PausedMonitor(read, r) \in MonitorRows
           /\ SuccessfulMonitor(read, r) \in MonitorRows
           /\ FailedMonitor(read, r) \in MonitorRows
<1>1. EnabledMonitor(read, r) \in MonitorRows
  BY DEF EnabledMonitor, MonitorRows, Assigned, FailureLimit
<1>2. PausedMonitor(read, r) \in MonitorRows
  BY DEF PausedMonitor, MonitorRows, Assigned
<1>3. SuccessfulMonitor(read, r) \in MonitorRows
  BY DEF SuccessfulMonitor, MonitorRows, Assigned, FailureLimit
<1>4. FailedMonitor(read, r) \in MonitorRows
  BY DEF FailedMonitor, MonitorRows, Assigned, FailureLimit
<1> QED
  BY <1>1, <1>2, <1>3, <1>4

LEMMA NullTypes ==
    /\ AbsentMonitor \in MonitorRows
    /\ NoClaim \in Claims
    /\ FailedSnapshot \in Snapshots
    /\ Idle \in RequestStates
<1>1. AbsentMonitor \in MonitorRows
  BY DEF AbsentMonitor, MonitorRows, FailureLimit
<1>2. NoClaim \in Claims /\ FailedSnapshot \in Snapshots
  BY DEF NoClaim, Claims, FailedSnapshot, Snapshots
<1> QED
  BY <1>1, <1>2 DEF Idle, RequestStates

(* A set of positions has a last one: what is left behind it has a least    *)
(* element, and < is well-founded.                                          *)
LEMMA LastExists ==
    ASSUME NEW n \in Nat, NEW S \in SUBSET (1..n), S # {}
    PROVE  \E i \in S : \A j \in S : j <= i
<1> DEFINE T == {n - i : i \in S}
<1>1. T \subseteq Nat /\ T # {}
  <2>1. \A i \in S : n - i \in Nat
    OBVIOUS
  <2> QED
    BY <2>1
<1>2. PICK x \in T : \A y \in T : ~(<<y, x>> \in OpToRel(<, Nat))
  BY <1>1, NatLessThanWellFounded, WFMin
<1>3. \A y \in T : x <= y
  <2> SUFFICES ASSUME NEW y \in T PROVE x <= y
    OBVIOUS
  <2>1. x \in Nat /\ y \in Nat
    BY <1>1
  <2>2. <<y, x>> \in Nat \X Nat /\ <<y, x>>[1] = y /\ <<y, x>>[2] = x
    BY <2>1
  <2>3. ~(y < x)
    BY <1>2, <2>2 DEF OpToRel
  <2> HIDE DEF T
  <2> QED
    BY <2>1, <2>3
<1>4. PICK i \in S : x = n - i
  OBVIOUS
<1>5. \A j \in S : n - i <= n - j
  BY <1>3, <1>4
<1> QED
  BY <1>4, <1>5

LEMMA PreviousType ==
    ASSUME NEW s \in Seq(Snapshots)
    PROVE  Previous(s) \in Results \cup {NoResult}
<1>1. CASE Successes(s) = {}
  BY <1>1 DEF Previous
<1>2. CASE Successes(s) # {}
  <2>1. \E i \in Successes(s) : \A j \in Successes(s) : j <= i
    <3>1. Len(s) \in Nat /\ Successes(s) \in SUBSET (1..Len(s))
      BY DEF Successes
    <3> QED
      BY <1>2, <3>1, LastExists
  <2>2. PICK i : i = (CHOOSE k \in Successes(s) : \A j \in Successes(s) : j <= k)
    OBVIOUS
  <2>3. i \in Successes(s)
    BY <2>1, <2>2
  <2>4. Previous(s) = s[i].value
    BY <1>2, <2>2 DEF Previous
  <2>5. i \in 1..Len(s)
    BY <2>3 DEF Successes
  <2>6. s[i] \in Snapshots
    BY <2>5
  <2> QED
    BY <2>4, <2>6 DEF Snapshots
<1> QED
  BY <1>1, <1>2

LEMMA InitAttached == Init => Attached
<1> SUFFICES ASSUME Init PROVE Attached
  OBVIOUS
<1>1. monitor \in [Competitors -> MonitorRows] /\ claim \in [Competitors -> Claims]
  BY NullTypes DEF Init
<1>2. request \in [Requests -> RequestStates] /\ RequestsAttached
  BY NullTypes DEF Init, RequestsAttached, Idle
<1>3. snapshots \in [Competitors -> Seq(Snapshots)]
  BY DEF Init
<1> QED
  BY <1>1, <1>2, <1>3 DEF Attached, TypeOK, Init

(* A request moves to a state of its type.                                  *)
LEMMA GotoKeepsAttached ==
    ASSUME Attached, NEW q \in Requests, NEW state \in RequestStates,
           state.at # "idle" => state.of \in Competitors, Goto(q, state)
    PROVE  request' \in [Requests -> RequestStates] /\ RequestsAttached'
BY DEF Attached, TypeOK, Goto, RequestsAttached

(* A record adds a snapshot and clears the claim.                           *)
LEMMA RecordKeepsTypes ==
    ASSUME Attached, NEW q \in Requests, request[q].at # "idle",
           NEW snapshot \in Snapshots, Record(q, snapshot)
    PROVE  /\ snapshots' \in [Competitors -> Seq(Snapshots)]
           /\ claim' \in [Competitors -> Claims]
           /\ request' \in [Requests -> RequestStates]
           /\ RequestsAttached'
           /\ competitor' = competitor
<1>1. request' \in [Requests -> RequestStates] /\ RequestsAttached'
  BY NullTypes, GotoKeepsAttached DEF Record, Idle
<1>2. request[q].of \in Competitors
  BY DEF Attached, RequestsAttached
<1>3. snapshots' \in [Competitors -> Seq(Snapshots)]
  BY <1>2 DEF Record, Attached, TypeOK
<1>4. claim' \in [Competitors -> Claims]
  BY <1>2, NullTypes DEF Record, Attached, TypeOK
<1> QED
  BY <1>1, <1>3, <1>4 DEF Record

(* So does a request; each step has its type.                               *)
LEMMA ActsKeepsAttached ==
    ASSUME Attached, NEW q \in Requests, Acts(q)
    PROVE  Attached'
<1> USE DEF Attached, TypeOK
<1>1. request[q] \in RequestStates
  OBVIOUS
<1>2. request[q].at # "idle" => request[q].of \in Competitors
  BY DEF RequestsAttached
<1>3. request[q].row \in MonitorRows
  BY <1>1 DEF RequestStates
<1>4. ASSUME NEW c \in Competitors, Open(q, c) PROVE Attached'
  <2>1. [at |-> "open", of |-> c, competitor |-> competitor[c],
         row |-> monitor[c], previous |-> NoResult, held |-> FALSE] \in RequestStates
    BY DEF RequestStates
  <2> QED
    BY <1>4, <2>1, GotoKeepsAttached DEF Open
<1>5. CASE Refuse(q)
  BY <1>5, NullTypes, GotoKeepsAttached DEF Refuse, Idle
<1>6. ASSUME NEW status \in CompetitorStatuses, UpdateCompetitor(q, status) PROVE Attached'
  <2>1. competitor' \in [Competitors -> CompetitorStatuses \cup {"absent"}]
    BY <1>2, <1>6 DEF UpdateCompetitor, Assigned
  <2> QED
    BY <1>6, <2>1, NullTypes, GotoKeepsAttached DEF UpdateCompetitor, Idle
<1>7. CASE ArchiveCompetitor(q)
  <2>1. competitor' \in [Competitors -> CompetitorStatuses \cup {"absent"}]
    BY <1>2, <1>7 DEF ArchiveCompetitor, Assigned, CompetitorStatuses
  <2>2. monitor' \in [Competitors -> MonitorRows]
    BY <1>2, <1>3, <1>7 DEF ArchiveCompetitor, Assigned, MonitorRows
  <2> QED
    BY <1>7, <2>1, <2>2, NullTypes, GotoKeepsAttached DEF ArchiveCompetitor, Idle
<1>8. ASSUME NEW status \in {"active", "paused"}, UpsertMonitor(q, status) PROVE Attached'
  <2>1. monitor' \in [Competitors -> MonitorRows]
    BY <1>2, <1>3, <1>8, RowTypes DEF UpsertMonitor
  <2> QED
    BY <1>8, <2>1, NullTypes, GotoKeepsAttached DEF UpsertMonitor, Idle
<1>9. ASSUME NEW force \in BOOLEAN, ClaimMonitor(q, force) PROVE Attached'
  <2>1. [request[q] EXCEPT !.at = "claimed", !.row = AbsentMonitor] \in RequestStates
    BY <1>1, NullTypes DEF RequestStates
  <2>2. [request[q] EXCEPT !.at = "claimed", !.row = AbsentMonitor].of \in Competitors
    BY <1>1, <1>2, <1>9 DEF ClaimMonitor, RequestStates
  <2>3. claim' \in [Competitors -> Claims]
    BY <1>9 DEF ClaimMonitor, Claims
  <2> QED
    BY <1>9, <2>1, <2>2, <2>3, GotoKeepsAttached DEF ClaimMonitor
<1>10. CASE LoadMonitor(q)
  <2> DEFINE c == request[q].of
             new == [request[q] EXCEPT !.at = "running", !.row = monitor[c],
                                       !.previous = Previous(snapshots[c]),
                                       !.held = claim[c].by # NoOne]
  <2>1. c \in Competitors
    BY <1>2, <1>10 DEF LoadMonitor
  <2>2. Previous(snapshots[c]) \in Results \cup {NoResult} /\ monitor[c] \in MonitorRows
    BY <2>1, PreviousType
  <2>3. new \in RequestStates /\ new.of = c
    BY <1>1, <2>2 DEF RequestStates
  <2> QED
    BY <1>10, <2>1, <2>3, GotoKeepsAttached DEF LoadMonitor
<1>11. ASSUME NEW value \in Results, RunSucceeds(q, value) PROVE Attached'
  <2>1. [value |-> value, changed |-> Changed(request[q].previous, value)] \in Snapshots
    BY DEF Snapshots, Changed
  <2>2. monitor' \in [Competitors -> MonitorRows]
    BY <1>2, <1>3, <1>11, RowTypes DEF RunSucceeds
  <2> QED
    BY <1>11, <2>1, <2>2, RecordKeepsTypes DEF RunSucceeds
<1>12. CASE RunFails(q)
  <2>1. monitor' \in [Competitors -> MonitorRows]
    BY <1>2, <1>3, <1>12, RowTypes DEF RunFails
  <2> QED
    BY <1>12, <2>1, NullTypes, RecordKeepsTypes DEF RunFails
<1>13. CASE RunBreaks(q)
  BY <1>13, NullTypes, GotoKeepsAttached DEF RunBreaks, Idle
<1> QED
  BY <1>4, <1>5, <1>6, <1>7, <1>8, <1>9, <1>10, <1>11, <1>12, <1>13 DEF Acts

LEMMA NextAttached == Attached /\ [Next]_vars => Attached'
<1> SUFFICES ASSUME Attached, [Next]_vars PROVE Attached'
  OBVIOUS
<1>1. ASSUME NEW c \in Competitors, NEW status \in CompetitorStatuses,
             CreateCompetitor(c, status)
      PROVE  Attached'
  BY <1>1 DEF CreateCompetitor, Attached, TypeOK, RequestsAttached
<1>2. ASSUME NEW q \in Requests, Acts(q) PROVE Attached'
  BY <1>2, ActsKeepsAttached
<1>3. ASSUME NEW c \in Competitors, ClaimLapses(c) PROVE Attached'
  BY <1>3 DEF ClaimLapses, Claims, Attached, TypeOK, RequestsAttached
<1>4. CASE UNCHANGED vars
  BY <1>4 DEF vars, Attached, TypeOK, RequestsAttached
<1> QED
  BY <1>1, <1>2, <1>3, <1>4 DEF Next

(* Every variable keeps its type, also when runs outlive their claims.      *)
THEOREM TypeCorrect == Spec => []TypeOK
<1>1. Attached => TypeOK
  BY DEF Attached
<1> QED
  BY <1>1, InitAttached, NextAttached, PTL DEF Spec

(***************************************************************************)
(* Snapshots.                                                              *)
(***************************************************************************)

LEMMA FailingNone == \A s \in Seq(Snapshots) : Failing(s, 0)
BY DEF Failing

(* One more failure, however many of the failures before it are counted.    *)
LEMMA FailingAppend ==
    ASSUME NEW s \in Seq(Snapshots), NEW n \in Nat, Failing(s, n),
           NEW m \in 0..(n + 1)
    PROVE  Failing(Append(s, FailedSnapshot), m)
<1> DEFINE new == Append(s, FailedSnapshot)
<1>1. Len(new) = Len(s) + 1 /\ new[Len(s) + 1].value = NoResult
  BY NullTypes DEF FailedSnapshot
<1>2. \A i \in 1..Len(s) : new[i] = s[i]
  OBVIOUS
<1>3. n <= Len(s) /\ \A i \in (Len(s) - n + 1)..Len(s) : s[i].value = NoResult
  BY DEF Failing
<1>4. ASSUME NEW i \in (Len(new) - m + 1)..Len(new) PROVE new[i].value = NoResult
  <2>1. i = Len(s) + 1 \/ i \in (Len(s) - n + 1)..Len(s)
    BY <1>1
  <2>2. i \in (Len(s) - n + 1)..Len(s) => i \in 1..Len(s)
    BY <1>3
  <2> QED
    BY <1>1, <1>2, <1>3, <2>1, <2>2
<1>5. m <= Len(new)
  BY <1>1, <1>3
<1> QED
  BY <1>4, <1>5 DEF Failing

LEMMA SuccessesAppend ==
    ASSUME NEW s \in Seq(Snapshots), NEW x \in Snapshots
    PROVE  Successes(Append(s, x)) =
                IF x.value = NoResult THEN Successes(s) ELSE Successes(s) \cup {Len(s) + 1}
<1>1. Len(Append(s, x)) = Len(s) + 1 /\ Append(s, x)[Len(s) + 1] = x
  OBVIOUS
<1>2. \A i \in 1..Len(s) : Append(s, x)[i] = s[i]
  OBVIOUS
<1>3. 1..(Len(s) + 1) = 1..Len(s) \cup {Len(s) + 1}
  OBVIOUS
<1> QED
  BY <1>1, <1>2, <1>3 DEF Successes

(* What is appended later does not disturb the changes of a success.        *)
LEMMA TrackedBefore ==
    ASSUME NEW s \in Seq(Snapshots), NEW x \in Snapshots,
           NEW i \in Successes(s), Tracked(s, i)
    PROVE  Tracked(Append(s, x), i)
<1>1. i \in 1..Len(s) /\ Append(s, x)[i] = s[i]
  BY DEF Successes
<1>2. {j \in Successes(Append(s, x)) : j < i} = {j \in Successes(s) : j < i}
  BY <1>1, SuccessesAppend DEF Successes
<1>3. \A j \in Successes(s) : Append(s, x)[j] = s[j]
  BY DEF Successes
<1> QED
  BY <1>1, <1>2, <1>3 DEF Tracked

(* A success that is compared with the previous one shows its changes.      *)
LEMMA TrackedAppend ==
    ASSUME NEW s \in Seq(Snapshots), NEW value \in Results
    PROVE  Tracked(Append(s, [value |-> value, changed |-> Changed(Previous(s), value)]),
                   Len(s) + 1)
<1> DEFINE x == [value |-> value, changed |-> Changed(Previous(s), value)]
           new == Append(s, x)
           n == Len(s) + 1
<1>1. x \in Snapshots /\ x.value = value /\ x.value # NoResult
  BY NullAssumption DEF Snapshots, Changed
<1>2. new[n] = x /\ Len(s) \in Nat
  BY <1>1
<1>3. {j \in Successes(new) : j < n} = Successes(s)
  BY <1>1, <1>2, SuccessesAppend DEF Successes
<1>4. \A j \in Successes(s) : new[j] = s[j]
  BY <1>1 DEF Successes
<1>5. Successes(s) = {} => x.changed
  BY <1>1 DEF Previous, Changed
<1>6. ASSUME NEW j \in Successes(s), \A k \in Successes(s) : k <= j
      PROVE  x.changed = (x.value # s[j].value)
  <2>1. PICK i : i = (CHOOSE k \in Successes(s) : \A l \in Successes(s) : l <= k)
    OBVIOUS
  <2>2. i \in Successes(s) /\ \A l \in Successes(s) : l <= i
    BY <1>6, <2>1
  <2>3. i = j
    BY <1>6, <2>2 DEF Successes
  <2>4. Previous(s) = s[j].value
    BY <1>6, <2>1, <2>3 DEF Previous
  <2> QED
    BY <2>4 DEF Changed
<1>7. Tracked(new, n)
  <2> HIDE DEF x
  <2>1. Successes(s) = {} => new[n].changed
    BY <1>2, <1>5
  <2>2. \A j \in Successes(s) : (\A k \in Successes(s) : k <= j) =>
            new[n].changed = (new[n].value # new[j].value)
    BY <1>2, <1>4, <1>6
  <2> HIDE DEF new, n
  <2> QED
    BY <1>3, <2>1, <2>2 DEF Tracked
<1> QED
  BY <1>7

(***************************************************************************)
(* The inductive invariant.                                                *)
(***************************************************************************)

LEMMA InitInductive == Init => IInv
<1> SUFFICES ASSUME Init PROVE IInv
  OBVIOUS
<1>1. Attached
  BY InitAttached
<1>2. \A c \in Competitors :
        snapshots[c] = <<>> /\ monitor[c].failures = 0 /\ monitor[c].status = "absent"
  BY DEF Init, AbsentMonitor
<1>3. \A q \in Requests : request[q].at = "idle"
  BY DEF Init, Idle
<1>4. RunsClaimed /\ RunsInformed
  BY <1>3 DEF RunsClaimed, RunsInformed, Running
<1>5. FailuresCounted /\ FailedAfterThree
  BY <1>2 DEF FailuresCounted, FailedAfterThree, Failing
<1>6. ChangesTracked
  BY <1>2 DEF ChangesTracked, Successes
<1> QED
  BY <1>1, <1>4, <1>5, <1>6 DEF IInv, Attached

(* What users do to a monitor: its failures stay or are reset, it is never  *)
(* given up, and no run gets further.                                       *)
LEMMA UserStepsKeepInv ==
    ASSUME IInv, Attached', UNCHANGED <<snapshots, claim>>,
           \A c \in Competitors :
                /\ monitor'[c].failures \in {0, monitor[c].failures}
                /\ monitor'[c].status = "failed" => monitor[c].status = "failed",
           \A q \in Requests : request'[q] = request[q] \/ request'[q].at \in {"idle", "open"}
    PROVE  IInv'
<1>1. snapshots \in [Competitors -> Seq(Snapshots)] /\ monitor \in [Competitors -> MonitorRows]
      /\ request \in [Requests -> RequestStates]
  BY DEF IInv, TypeOK
<1>2. RunsClaimed'
  BY DEF IInv, RunsClaimed, Running
<1>3. FailuresCounted'
  BY <1>1, FailingNone DEF IInv, FailuresCounted
<1>4. ChangesTracked'
  BY DEF IInv, ChangesTracked
<1>5. FailedAfterThree'
  BY DEF IInv, FailedAfterThree
<1>6. RunsInformed'
  <2> SUFFICES ASSUME NEW q \in Requests, request'[q].at = "running"
               PROVE  /\ request'[q].previous = Previous(snapshots'[request'[q].of])
                      /\ Failing(snapshots'[request'[q].of], request'[q].row.failures)
                      /\ StillRead(request'[q].row, monitor'[request'[q].of])
    BY DEF RunsInformed
  <2>1. request'[q] = request[q] /\ request[q].of \in Competitors
    BY DEF IInv, RequestsAttached
  <2>2. request[q].row.failures \in Nat
    BY <1>1 DEF RequestStates, MonitorRows, FailureLimit
  <2>3. StillRead(request[q].row, monitor[request[q].of])
    BY <2>1 DEF IInv, RunsInformed
  <2>4. StillRead(request[q].row, monitor'[request[q].of])
    BY <2>1, <2>2, <2>3 DEF StillRead
  <2> QED
    BY <2>1, <2>4 DEF IInv, RunsInformed
<1> QED
  BY <1>2, <1>3, <1>4, <1>5, <1>6 DEF IInv, Attached

(* A monitor that may be claimed is not being run.                          *)
LEMMA ClaimKeepsInv ==
    ASSUME IInv, Attached', NEW q \in Requests, NEW force \in BOOLEAN, ClaimMonitor(q, force)
    PROVE  IInv'
<1> DEFINE c == request[q].of
<1>1. c \in Competitors /\ UNCHANGED <<monitor, snapshots>>
  BY DEF ClaimMonitor, IInv, RequestsAttached
<1>2. request' = [request EXCEPT ![q] =
            [request[q] EXCEPT !.at = "claimed", !.row = AbsentMonitor]]
  BY DEF ClaimMonitor, Goto
<1>3. ASSUME NEW r \in Requests PROVE ~Running(r, c)
  <2>1. claim[c].by = NoOne \/ claim[c].lapsed
    BY DEF ClaimMonitor, Claimable
  <2>2. Running(r, c) => claim[c] = [by |-> r, lapsed |-> FALSE]
    BY <1>1 DEF IInv, RunsClaimed
  <2>3. [by |-> r, lapsed |-> FALSE].by = r /\ ~[by |-> r, lapsed |-> FALSE].lapsed
    OBVIOUS
  <2> QED
    BY <2>1, <2>2, <2>3, NullAssumption
<1>4. request \in [Requests -> RequestStates] /\ claim \in [Competitors -> Claims]
  BY DEF IInv, TypeOK
<1>5. request'[q].at = "claimed" /\ request'[q].of = c
  BY <1>2, <1>4 DEF RequestStates
<1>6. claim'[c] = [by |-> q, lapsed |-> FALSE]
  BY <1>1, <1>4 DEF ClaimMonitor
<1>7. RunsClaimed'
  <2> SUFFICES ASSUME NEW r \in Requests, NEW d \in Competitors,
                      request'[r].at \in {"claimed", "running"}, request'[r].of = d
               PROVE  claim'[d] = [by |-> r, lapsed |-> FALSE]
    BY DEF RunsClaimed, Running
  <2>1. CASE r = q
    BY <1>5, <1>6, <2>1
  <2>2. CASE r # q
    <3>1. request'[r] = request[r]
      BY <1>2, <1>4, <2>2
    <3>2. Running(r, d)
      BY <3>1 DEF Running
    <3>3. d # c
      BY <1>3, <3>2
    <3>4. claim'[d] = claim[d]
      BY <1>4, <3>3 DEF ClaimMonitor
    <3> QED
      BY <3>2, <3>4 DEF IInv, RunsClaimed
  <2> QED
    BY <2>1, <2>2
<1>8. RunsInformed'
  <2>1. \A r \in Requests : request'[r].at = "running" => request'[r] = request[r]
    BY <1>2, <1>4, <1>5
  <2> QED
    BY <1>1, <2>1 DEF IInv, RunsInformed
<1>9. FailuresCounted' /\ ChangesTracked' /\ FailedAfterThree'
  BY <1>1 DEF IInv, FailuresCounted, ChangesTracked, FailedAfterThree
<1> QED
  BY <1>7, <1>8, <1>9 DEF IInv, Attached

(* A run starts with what is there.                                         *)
LEMMA LoadKeepsInv ==
    ASSUME IInv, Attached', NEW q \in Requests, LoadMonitor(q)
    PROVE  IInv'
<1> DEFINE c == request[q].of
<1>1. c \in Competitors /\ UNCHANGED <<monitor, claim, snapshots>>
  BY DEF LoadMonitor, IInv, RequestsAttached
<1>2. request \in [Requests -> RequestStates] /\ monitor \in [Competitors -> MonitorRows]
  BY DEF IInv, TypeOK
<1>3. request'[q] = [request[q] EXCEPT !.at = "running", !.row = monitor[c],
                                       !.previous = Previous(snapshots[c]),
                                       !.held = claim[c].by # NoOne]
  BY <1>2 DEF LoadMonitor, Goto
<1>4. \A r \in Requests : r # q => request'[r] = request[r]
  BY <1>2 DEF LoadMonitor, Goto
<1>5. /\ request'[q].of = c
      /\ request'[q].row = monitor[c]
      /\ request'[q].previous = Previous(snapshots[c])
  BY <1>2, <1>3 DEF RequestStates
<1>6. RunsClaimed'
  <2>1. \A r \in Requests, d \in Competitors : Running(r, d)' => Running(r, d)
    BY <1>4, <1>5 DEF Running, LoadMonitor
  <2> QED
    BY <1>1, <2>1 DEF IInv, RunsClaimed
<1>7. RunsInformed'
  <2> SUFFICES ASSUME NEW r \in Requests, request'[r].at = "running"
               PROVE  /\ request'[r].previous = Previous(snapshots'[request'[r].of])
                      /\ Failing(snapshots'[request'[r].of], request'[r].row.failures)
                      /\ StillRead(request'[r].row, monitor'[request'[r].of])
    BY DEF RunsInformed
  <2>1. CASE r = q
    <3>1. monitor[c].failures \in Nat
      BY <1>1, <1>2 DEF MonitorRows, FailureLimit
    <3>2. StillRead(monitor[c], monitor[c])
      BY <3>1 DEF StillRead
    <3>3. Failing(snapshots[c], monitor[c].failures)
      BY <1>1 DEF IInv, FailuresCounted
    <3> QED
      BY <1>1, <1>5, <2>1, <3>2, <3>3
  <2>2. CASE r # q
    BY <1>1, <1>4, <2>2 DEF IInv, RunsInformed
  <2> QED
    BY <2>1, <2>2
<1>8. FailuresCounted' /\ ChangesTracked' /\ FailedAfterThree'
  BY <1>1 DEF IInv, FailuresCounted, ChangesTracked, FailedAfterThree
<1> QED
  BY <1>6, <1>7, <1>8 DEF IInv, Attached

(* Only the run that is recorded needed what its record changes.            *)
LEMMA RecordKeepsInv ==
    ASSUME IInv, Attached', NEW q \in Requests, request[q].at = "running",
           NEW snapshot \in Snapshots, Record(q, snapshot), NEW row \in MonitorRows,
           monitor' = [monitor EXCEPT ![request[q].of] = row],
           NEW s, s = Append(snapshots[request[q].of], snapshot),
           Failing(s, row.failures),
           row.status = "failed" => Failing(s, 3),
           \A i \in Successes(s) : Tracked(s, i)
    PROVE  IInv'
<1> DEFINE c == request[q].of
<1>1. c \in Competitors
  BY DEF IInv, RequestsAttached
<1>2. /\ request \in [Requests -> RequestStates] /\ monitor \in [Competitors -> MonitorRows]
      /\ claim \in [Competitors -> Claims] /\ snapshots \in [Competitors -> Seq(Snapshots)]
  BY DEF IInv, TypeOK
<1>3. /\ snapshots'[c] = s /\ monitor'[c] = row
      /\ \A d \in Competitors : d # c =>
            snapshots'[d] = snapshots[d] /\ monitor'[d] = monitor[d] /\ claim'[d] = claim[d]
  BY <1>1, <1>2 DEF Record
<1>4. \A r \in Requests : request'[r].at # "idle" => r # q /\ request'[r] = request[r]
  BY <1>2 DEF Record, Goto, Idle
<1>5. ASSUME NEW r \in Requests, NEW d \in Competitors, Running(r, d)'
      PROVE  Running(r, d) /\ d # c /\ request'[r] = request[r]
  <2>1. r # q /\ request'[r] = request[r]
    BY <1>4, <1>5 DEF Running
  <2>2. Running(r, d)
    BY <1>5, <2>1 DEF Running
  <2>3. Running(q, c)
    BY DEF Running
  <2>4. claim[d] = [by |-> r, lapsed |-> FALSE] /\ claim[c] = [by |-> q, lapsed |-> FALSE]
    BY <1>1, <2>2, <2>3 DEF IInv, RunsClaimed
  <2> QED
    BY <2>1, <2>2, <2>4
<1>6. RunsClaimed'
  <2> SUFFICES ASSUME NEW r \in Requests, NEW d \in Competitors, Running(r, d)'
               PROVE  claim'[d] = [by |-> r, lapsed |-> FALSE]
    BY DEF RunsClaimed
  <2> QED
    BY <1>3, <1>5 DEF IInv, RunsClaimed
<1>7. RunsInformed'
  <2> SUFFICES ASSUME NEW r \in Requests, request'[r].at = "running"
               PROVE  /\ request'[r].previous = Previous(snapshots'[request'[r].of])
                      /\ Failing(snapshots'[request'[r].of], request'[r].row.failures)
                      /\ StillRead(request'[r].row, monitor'[request'[r].of])
    BY DEF RunsInformed
  <2>1. PICK d \in Competitors : d = request'[r].of
    BY DEF Attached, RequestsAttached
  <2>2. Running(r, d)'
    BY <2>1 DEF Running
  <2>3. request'[r] = request[r] /\ d # c
    BY <1>5, <2>2
  <2> QED
    BY <1>3, <2>1, <2>3 DEF IInv, RunsInformed
<1>8. FailuresCounted'
  BY <1>3 DEF IInv, FailuresCounted
<1>9. FailedAfterThree'
  BY <1>3 DEF IInv, FailedAfterThree
<1>10. ChangesTracked'
  BY <1>3 DEF IInv, ChangesTracked
<1> QED
  BY <1>6, <1>7, <1>8, <1>9, <1>10 DEF IInv, Attached

(* A success resets the count: the failures that are left are none.         *)
LEMMA SuccessKeepsInv ==
    ASSUME IInv, Attached', NEW q \in Requests, NEW value \in Results, RunSucceeds(q, value)
    PROVE  IInv'
<1> DEFINE c == request[q].of
           read == request[q].row
           x == [value |-> value, changed |-> Changed(request[q].previous, value)]
           old == snapshots[c]
           s == Append(old, x)
<1>1. c \in Competitors /\ request[q].at = "running"
  BY DEF RunSucceeds, IInv, RequestsAttached
<1>2. read \in MonitorRows /\ monitor[c] \in MonitorRows /\ old \in Seq(Snapshots)
  BY <1>1 DEF IInv, TypeOK, RequestStates
<1>3. request[q].previous = Previous(old) /\ StillRead(read, monitor[c])
  BY <1>1 DEF IInv, RunsInformed
<1>4. x \in Snapshots /\ x.value # NoResult
  BY NullAssumption DEF Snapshots, Changed
<1>5. PICK row \in MonitorRows : row = SuccessfulMonitor(read, monitor[c])
  BY <1>2, RowTypes
<1>6. row.failures = 0 /\ row.status # "failed"
  BY <1>2, <1>3, <1>5 DEF SuccessfulMonitor, Assigned, StillRead, MonitorRows, FailureLimit
<1>7. Record(q, x) /\ monitor' = [monitor EXCEPT ![c] = row]
  BY <1>5 DEF RunSucceeds
<1>8. Failing(s, 0)
  <2>1. s \in Seq(Snapshots)
    BY <1>2, <1>4
  <2> QED
    BY <2>1, FailingNone
<1>9. ASSUME NEW i \in Successes(s) PROVE Tracked(s, i)
  <2>1. Successes(s) = Successes(old) \cup {Len(old) + 1}
    BY <1>2, <1>4, SuccessesAppend
  <2>2. CASE i = Len(old) + 1
    BY <1>2, <1>3, <2>2, TrackedAppend
  <2>3. CASE i \in Successes(old)
    <3>1. Tracked(old, i)
      BY <1>1, <2>3 DEF IInv, ChangesTracked
    <3> QED
      BY <1>2, <1>4, <2>3, <3>1, TrackedBefore
  <2> QED
    BY <1>9, <2>1, <2>2, <2>3
<1> HIDE DEF x, s
<1> QED
  BY <1>1, <1>4, <1>5, <1>6, <1>7, <1>8, <1>9, RecordKeepsInv DEF s

(* A failure adds one to a count that the snapshots still bear out.         *)
LEMMA FailureKeepsInv ==
    ASSUME IInv, Attached', NEW q \in Requests, RunFails(q)
    PROVE  IInv'
<1> DEFINE c == request[q].of
           read == request[q].row
           old == snapshots[c]
           s == Append(old, FailedSnapshot)
<1>1. c \in Competitors /\ request[q].at = "running"
  BY DEF RunFails, IInv, RequestsAttached
<1>2. read \in MonitorRows /\ monitor[c] \in MonitorRows /\ old \in Seq(Snapshots)
  BY <1>1 DEF IInv, TypeOK, RequestStates
<1>3. Failing(old, read.failures) /\ StillRead(read, monitor[c])
  BY <1>1 DEF IInv, RunsInformed
<1>4. PICK row \in MonitorRows : row = FailedMonitor(read, monitor[c])
  BY <1>2, RowTypes
<1>5. read.failures \in Nat /\ row.failures \in 0..(read.failures + 1)
  BY <1>2, <1>4 DEF FailedMonitor, FailureLimit, MonitorRows
<1>6. Failing(s, row.failures)
  BY <1>2, <1>3, <1>5, FailingAppend
<1>7. row.status = "failed" => row.failures = 3
  BY <1>2, <1>3, <1>4 DEF FailedMonitor, FailureLimit, Assigned, StillRead, MonitorRows
<1>8. Record(q, FailedSnapshot) /\ monitor' = [monitor EXCEPT ![c] = row]
  BY <1>4 DEF RunFails
<1>9. ASSUME NEW i \in Successes(s) PROVE Tracked(s, i)
  <2>1. Successes(s) = Successes(old)
    BY <1>2, NullTypes, SuccessesAppend DEF FailedSnapshot
  <2>2. Tracked(old, i)
    BY <1>1, <2>1 DEF IInv, ChangesTracked
  <2> QED
    BY <1>2, <2>1, <2>2, NullTypes, TrackedBefore
<1> HIDE DEF s
<1> QED
  BY <1>1, <1>4, <1>6, <1>7, <1>8, <1>9, NullTypes, RecordKeepsInv DEF s

LEMMA ActsKeepInv ==
    ASSUME IInv, Attached', NEW q \in Requests, Acts(q)
    PROVE  IInv'
<1>1. request \in [Requests -> RequestStates] /\ monitor \in [Competitors -> MonitorRows]
  BY DEF IInv, TypeOK
<1>2. ASSUME NEW state, state.at \in {"idle", "open"}, Goto(q, state)
      PROVE  \A r \in Requests : request'[r] = request[r] \/ request'[r].at \in {"idle", "open"}
  BY <1>1, <1>2 DEF Goto
<1>3. Idle.at = "idle"
  BY DEF Idle
<1>4. ASSUME NEW c \in Competitors, Open(q, c) PROVE IInv'
  <2>1. PICK state : state.at = "open" /\ Goto(q, state)
    BY <1>4 DEF Open
  <2> QED
    BY <1>2, <1>4, <2>1, UserStepsKeepInv DEF Open
<1>5. CASE Refuse(q)
  BY <1>2, <1>3, <1>5, UserStepsKeepInv DEF Refuse
<1>6. ASSUME NEW status \in CompetitorStatuses, UpdateCompetitor(q, status) PROVE IInv'
  BY <1>2, <1>3, <1>6, UserStepsKeepInv DEF UpdateCompetitor
<1>7. CASE ArchiveCompetitor(q)
  <2>1. \A c \in Competitors :
            /\ monitor'[c].failures = monitor[c].failures
            /\ monitor'[c].status \in {"paused", monitor[c].status}
    BY <1>1, <1>7 DEF ArchiveCompetitor, Assigned, MonitorRows
  <2>2. UNCHANGED <<snapshots, claim>> /\ Goto(q, Idle)
    BY <1>7 DEF ArchiveCompetitor
  <2> QED
    BY <1>2, <1>3, <2>1, <2>2, UserStepsKeepInv
<1>8. ASSUME NEW status \in {"active", "paused"}, UpsertMonitor(q, status) PROVE IInv'
  <2>1. \A c \in Competitors :
            /\ monitor'[c].failures \in {0, monitor[c].failures}
            /\ monitor'[c].status \in {"active", "paused", monitor[c].status}
    BY <1>1, <1>8 DEF UpsertMonitor, EnabledMonitor, PausedMonitor, Assigned, MonitorRows
  <2> QED
    BY <1>2, <1>3, <1>8, <2>1, UserStepsKeepInv DEF UpsertMonitor
<1>9. ASSUME NEW force \in BOOLEAN, ClaimMonitor(q, force) PROVE IInv'
  BY <1>9, ClaimKeepsInv
<1>10. CASE LoadMonitor(q)
  BY <1>10, LoadKeepsInv
<1>11. ASSUME NEW value \in Results, RunSucceeds(q, value) PROVE IInv'
  BY <1>11, SuccessKeepsInv
<1>12. CASE RunFails(q)
  BY <1>12, FailureKeepsInv
<1>13. CASE RunBreaks(q)
  BY <1>2, <1>3, <1>13, UserStepsKeepInv DEF RunBreaks
<1> QED
  BY <1>4, <1>5, <1>6, <1>7, <1>8, <1>9, <1>10, <1>11, <1>12, <1>13 DEF Acts

LEMMA NextKeepsInv ==
    ASSUME PromptRuns, IInv, [Next]_vars
    PROVE  IInv'
<1>1. Attached'
  BY NextAttached DEF IInv, Attached
<1>2. ASSUME NEW c \in Competitors, NEW status \in CompetitorStatuses,
             CreateCompetitor(c, status)
      PROVE  IInv'
  BY <1>1, <1>2, UserStepsKeepInv DEF CreateCompetitor
<1>3. ASSUME NEW q \in Requests, Acts(q) PROVE IInv'
  BY <1>1, <1>3, ActsKeepInv
<1>4. ASSUME NEW c \in Competitors, ClaimLapses(c) PROVE IInv'
  <2>1. UNCHANGED <<competitor, monitor, snapshots, request>>
    BY <1>4 DEF ClaimLapses
  <2>2. \A r \in Requests, d \in Competitors : Running(r, d) => claim'[d] = claim[d]
    <3>1. ASSUME NEW r \in Requests, Running(r, c) PROVE FALSE
      <4>1. claim[c] = [by |-> r, lapsed |-> FALSE]
        BY <3>1 DEF IInv, RunsClaimed
      <4>2. claim[c].by = r
        BY <4>1
      <4>3. ~Running(claim[c].by, c)
        BY <1>4 DEF ClaimLapses
      <4> QED
        BY <3>1, <4>2, <4>3
    <3> QED
      BY <1>4, <3>1 DEF ClaimLapses, IInv, TypeOK
  <2>3. RunsClaimed'
    BY <2>1, <2>2 DEF IInv, RunsClaimed, Running
  <2>4. RunsInformed' /\ FailuresCounted' /\ ChangesTracked' /\ FailedAfterThree'
    BY <2>1 DEF IInv, RunsInformed, FailuresCounted, ChangesTracked, FailedAfterThree
  <2> QED
    BY <1>1, <2>3, <2>4 DEF IInv, Attached
<1>5. CASE UNCHANGED vars
  BY <1>1, <1>5, UserStepsKeepInv DEF vars, IInv, TypeOK
<1> QED
  BY <1>2, <1>3, <1>4, <1>5 DEF Next

(***************************************************************************)
(* Theorems, for any number of competitors, requests, results and          *)
(* snapshots, if every live run is recorded before its claim lapses.       *)
(***************************************************************************)

LEMMA Inductive == ASSUME PromptRuns PROVE Spec => []IInv
<1>1. IInv /\ [Next]_vars => IInv'
  BY NextKeepsInv
<1> QED
  BY <1>1, InitInductive, PTL DEF Spec

(* A claim excludes: of users who force a run and of sweeps, one at a time  *)
(* runs a monitor.                                                          *)
THEOREM OneRun == ASSUME PromptRuns PROVE Spec => []OneRunPerMonitor
<1>1. IInv => OneRunPerMonitor
  <2> SUFFICES ASSUME IInv, NEW q \in Requests, NEW r \in Requests, NEW c \in Competitors,
                      Running(q, c), Running(r, c)
               PROVE  q = r
    BY DEF OneRunPerMonitor
  <2>1. [by |-> q, lapsed |-> FALSE] = [by |-> r, lapsed |-> FALSE]
    BY DEF IInv, RunsClaimed
  <2> QED
    BY <2>1
<1> QED
  BY <1>1, Inductive, PTL

(* Each success shows the change since the success before it.               *)
THEOREM ChangesAreTracked == ASSUME PromptRuns PROVE Spec => []ChangesTracked
<1>1. IInv => ChangesTracked
  BY DEF IInv
<1> QED
  BY <1>1, Inductive, PTL

(* A monitor that is given up has failed three times in a row.              *)
THEOREM GivenUpAfterThree == ASSUME PromptRuns PROVE Spec => []FailedAfterThree
<1>1. IInv => FailedAfterThree
  BY DEF IInv
<1> QED
  BY <1>1, Inductive, PTL

(***************************************************************************)
(* The other half of services/competitors.py, LinkParseTasks.              *)
(***************************************************************************)

(* A request in state s runs the task.                                      *)
Runner(s, t) == s.at \in {"starting", "fetching"} /\ s.task = t

(* Of a task: what its run decides on, beside the competitor.               *)
SameRun(k, l) ==
    k.status = l.status /\ k.attempts = l.attempts /\ k.result = l.result /\ k.error = l.error

(* A run was let in by the attempts it read.                                *)
RunsLimited ==
    \A q \in Requests : visit[q].at = "starting" => visit[q].row.attempts < MaxAttempts

(* Whoever runs a task that is not contested is alone with it...            *)
RunnersApart ==
    \A q, r \in Requests, t \in Tasks \ contested :
        Runner(visit[q], t) /\ Runner(visit[r], t) => q = r

(* ...so that it knows what the row says until the run is started, and from *)
(* then on the row says that it runs.                                       *)
RunsRead ==
    \A q \in Requests, t \in Tasks \ contested : Runner(visit[q], t) =>
        \/ visit[q].at = "starting" /\ SameRun(visit[q].row, task[t])
        \/ visit[q].at = "fetching" /\ task[t].status = "running"

(* An absent task is run by nobody.                                         *)
AbsentNotRun ==
    \A q \in Requests, t \in Tasks : Runner(visit[q], t) => task[t].status # "absent"

TasksSound ==
    RunsLimited /\ RunnersApart /\ RunsRead /\ AbsentNotRun /\ UncontestedOutcomesMatch

LinksInv == LinkRowsOK /\ TasksSound

(* The states of a request, by where it is.                                 *)
LEMMA VisitShape ==
    ASSUME NEW s \in VisitStates
    PROVE  /\ s.at \in {"idle", "editing", "applying", "starting", "fetching"}
           /\ s.at = "editing" => s.of \in Competitors /\ s.row \in ProfileRows
           /\ s.at = "applying" => /\ s.of \in Competitors \cup {NoCompetitor}
                                   /\ s.row \in ProfileRows
                                   /\ s.page \in Pages /\ s.task \in Tasks
           /\ s.at = "starting" => s.task \in Tasks /\ s.row \in TaskRows
           /\ s.at = "fetching" => s.task \in Tasks
<1>1. CASE s = NoVisit
  BY <1>1 DEF NoVisit
<1>2. CASE s \in [at: {"editing"}, of: Competitors, row: ProfileRows]
  BY <1>2
<1>3. CASE s \in [at: {"applying"}, task: Tasks, page: Pages,
                  of: Competitors \cup {NoCompetitor}, row: ProfileRows]
  BY <1>3
<1>4. CASE s \in [at: {"starting"}, task: Tasks, row: TaskRows]
  BY <1>4
<1>5. CASE s \in [at: {"fetching"}, task: Tasks]
  BY <1>5
<1> QED
  BY <1>1, <1>2, <1>3, <1>4, <1>5 DEF VisitStates

LEMMA IdleVisit ==
    /\ NoVisit \in VisitStates /\ NoVisit.at = "idle"
    /\ \A t : ~Runner(NoVisit, t)
BY DEF NoVisit, VisitStates, Runner

(* A visit moves to a state of its type.                                    *)
LEMMA VisitMoves ==
    ASSUME LinkRowsOK, NEW p \in Requests, NEW s \in VisitStates, Visit(p, s)
    PROVE  /\ visit' \in [Requests -> VisitStates]
           /\ visit'[p] = s /\ \A q \in Requests \ {p} : visit'[q] = visit[q]
BY DEF LinkRowsOK, Visit

(***************************************************************************)
(* Rows of competitors.                                                    *)
(***************************************************************************)

(* Fields and what they are to be.                                          *)
Given(changed, value) == changed \in SUBSET Fields /\ value \in [Fields -> Optional]

LEMMA WrittenTyped ==
    ASSUME NEW read \in ProfileRows, NEW r \in ProfileRows, NEW by \in Sources,
           NEW changed, NEW value, Given(changed, value)
    PROVE  Written(read, r, changed, value, by) \in ProfileRows
<1> DEFINE v == [f \in Fields |->
                    IF f \in changed THEN Assigned(read.value[f], value[f], r.value[f]) ELSE r.value[f]]
           s == Assigned(read.source, Told(read.source, changed, by), r.source)
<1>1. /\ r.value \in [Fields -> Optional] /\ r.source \in [Fields -> Sources]
      /\ read.value \in [Fields -> Optional] /\ read.source \in [Fields -> Sources]
  BY DEF ProfileRows
<1>2. v \in [Fields -> Optional]
  BY <1>1 DEF Given, Assigned
<1>3. s \in [Fields -> Sources]
  BY <1>1 DEF Told, Assigned
<1>4. Written(read, r, changed, value, by) = [present |-> TRUE, value |-> v, source |-> s]
  BY DEF Written
<1> HIDE DEF v, s
<1> QED
  BY <1>2, <1>3, <1>4 DEF ProfileRows

LEMMA AbsentTyped == AbsentProfile \in ProfileRows
BY DEF AbsentProfile, ProfileRows, Optional, Sources

(* Origins keep their type.                                                 *)
LEMMA OriginTyped ==
    ASSUME LinkRowsOK, NEW c \in Competitors, NEW changed, NEW value,
           NEW by \in [Fields -> Sources]
    PROVE  Originated(c, changed, value, by) \in [Fields -> Sources]
BY DEF LinkRowsOK, Originated

(* The tables of competitors and their origins after one is written.        *)
LEMMA RowsTyped ==
    ASSUME LinkRowsOK, NEW d \in Competitors, NEW w \in ProfileRows,
           NEW o \in [Fields -> Sources],
           profile' = [profile EXCEPT ![d] = w], origin' = [origin EXCEPT ![d] = o],
           visit' \in [Requests -> VisitStates], task' \in [Tasks -> TaskRows],
           UNCHANGED <<fetches, contested>>
    PROVE  LinkRowsOK'
BY DEF LinkRowsOK

(***************************************************************************)
(* Rows of tasks.                                                          *)
(***************************************************************************)

(* Runs go on or end, and none is told anything new.                        *)
LEMMA TasksKept ==
    ASSUME TasksSound, UNCHANGED contested, \A t \in Tasks : SameRun(task'[t], task[t]),
           \A q \in Requests : visit'[q] = visit[q] \/ visit'[q].at \notin {"starting", "fetching"}
    PROVE  TasksSound'
<1>1. \A q \in Requests : \A t : Runner(visit'[q], t) => visit'[q] = visit[q] /\ Runner(visit[q], t)
  BY DEF Runner
<1>2. \A t \in Tasks :
        /\ task'[t].status = task[t].status /\ task'[t].attempts = task[t].attempts
        /\ task'[t].result = task[t].result /\ task'[t].error = task[t].error
  BY DEF SameRun
<1>3. RunsLimited'
  BY DEF TasksSound, RunsLimited
<1>4. RunnersApart'
  BY <1>1 DEF TasksSound, RunnersApart
<1>5. RunsRead'
  <2> SUFFICES ASSUME NEW q \in Requests, NEW t \in Tasks \ contested, Runner(visit'[q], t)
               PROVE  \/ visit'[q].at = "starting" /\ SameRun(visit'[q].row, task'[t])
                      \/ visit'[q].at = "fetching" /\ task'[t].status = "running"
    BY DEF RunsRead
  <2>1. visit'[q] = visit[q] /\ Runner(visit[q], t)
    BY <1>1
  <2>2. \/ visit[q].at = "starting" /\ SameRun(visit[q].row, task[t])
        \/ visit[q].at = "fetching" /\ task[t].status = "running"
    BY <2>1 DEF TasksSound, RunsRead
  <2> QED
    BY <1>2, <2>1, <2>2 DEF SameRun
<1>6. AbsentNotRun'
  BY <1>1, <1>2 DEF TasksSound, AbsentNotRun
<1>7. UncontestedOutcomesMatch'
  BY <1>2 DEF TasksSound, UncontestedOutcomesMatch
<1> QED
  BY <1>3, <1>4, <1>5, <1>6, <1>7 DEF TasksSound

(* A request moves on and writes the row of a task that it runs, or that    *)
(* nobody does, to l.                                                       *)
LEMMA TasksRun ==
    ASSUME LinkRowsOK, TasksSound, NEW p \in Requests, NEW s \in VisitStates, Visit(p, s),
           NEW u \in Tasks, NEW l, task' = [task EXCEPT ![u] = l],
           UNCHANGED contested,
           Runner(visit[p], u), s.at # "starting", \A t \in Tasks : Runner(s, t) => t = u,
           u \notin contested => (Runner(s, u) => l.status = "running"),
           l.status # "absent",
           u \notin contested => /\ (l.result # NoPage) = (l.status = "succeeded")
                                 /\ l.error = (l.status = "failed")
    PROVE  TasksSound'
<1>1. visit'[p] = s /\ \A q \in Requests \ {p} : visit'[q] = visit[q]
  BY VisitMoves
<1>2. task'[u] = l /\ \A t \in Tasks \ {u} : task'[t] = task[t]
  BY DEF LinkRowsOK
<1>3. RunsLimited'
  BY <1>1 DEF TasksSound, RunsLimited
<1>4. \A q \in Requests, t \in Tasks : Runner(visit'[q], t) =>
        Runner(visit[q], t) /\ (q = p => t = u /\ visit'[q] = s)
  BY <1>1
<1>5. RunnersApart'
  BY <1>4 DEF TasksSound, RunnersApart
<1>6. RunsRead'
  <2> SUFFICES ASSUME NEW q \in Requests, NEW t \in Tasks \ contested, Runner(visit'[q], t)
               PROVE  \/ visit'[q].at = "starting" /\ SameRun(visit'[q].row, task'[t])
                      \/ visit'[q].at = "fetching" /\ task'[t].status = "running"
    BY DEF RunsRead
  <2>1. CASE q = p
    BY <1>2, <1>4, <2>1 DEF Runner
  <2>2. CASE q # p
    <3>1. t # u
      BY <1>4, <2>2 DEF TasksSound, RunnersApart
    <3> QED
      BY <1>1, <1>2, <1>4, <2>2, <3>1 DEF TasksSound, RunsRead
  <2> QED
    BY <2>1, <2>2
<1>7. AbsentNotRun'
  BY <1>2, <1>4 DEF TasksSound, AbsentNotRun
<1>8. UncontestedOutcomesMatch'
  BY <1>2 DEF TasksSound, UncontestedOutcomesMatch
<1> QED
  BY <1>3, <1>5, <1>6, <1>7, <1>8 DEF TasksSound

(***************************************************************************)
(* Steps.                                                                  *)
(***************************************************************************)

(* A request that is not running a task goes elsewhere, and leaves tasks    *)
(* as they are.                                                             *)
LEMMA OtherVisitKeepsTasks ==
    ASSUME LinksInv, NEW p \in Requests, NEW s \in VisitStates, Visit(p, s),
           s.at \notin {"starting", "fetching"}, UNCHANGED <<task, contested>>
    PROVE  TasksSound'
<1>1. visit'[p] = s /\ \A q \in Requests \ {p} : visit'[q] = visit[q]
  BY VisitMoves DEF LinksInv
<1>2. \A t \in Tasks : SameRun(task'[t], task[t])
  BY DEF SameRun
<1> QED
  BY <1>1, <1>2, TasksKept DEF LinksInv

LEMMA CreateProfileKeepsInv ==
    ASSUME LinksInv, NEW value \in [Fields -> Optional], CreateProfile(value)
    PROVE  LinksInv'
<1> DEFINE given == {f \in Fields : value[f] # NoValue}
<1>1. PICK c \in Competitors :
        /\ profile' = [profile EXCEPT ![c] = Written(AbsentProfile, profile[c], given, value, "manual")]
        /\ origin' = [origin EXCEPT ![c] = profile'[c].source]
        /\ UNCHANGED <<task, fetches, visit, contested>>
  BY DEF CreateProfile
<1>2. LinkRowsOK
  BY DEF LinksInv
<1>3. Given(given, value) /\ "manual" \in Sources
  BY DEF Given, Sources
<1> HIDE DEF given
<1>4. profile[c] \in ProfileRows
  BY <1>2 DEF LinkRowsOK
<1> PICK w : w = Written(AbsentProfile, profile[c], given, value, "manual")
  OBVIOUS
<1>5. w \in ProfileRows
  BY <1>3, <1>4, AbsentTyped, WrittenTyped
<1>6. profile' = [profile EXCEPT ![c] = w]
  BY <1>1
<1>7. w.source \in [Fields -> Sources] /\ origin' = [origin EXCEPT ![c] = w.source]
  BY <1>1, <1>2, <1>5, <1>6 DEF ProfileRows, LinkRowsOK
<1>8. visit' \in [Requests -> VisitStates] /\ task' \in [Tasks -> TaskRows]
  BY <1>1, <1>2 DEF LinkRowsOK
<1>9. LinkRowsOK'
  BY <1>1, <1>2, <1>5, <1>6, <1>7, <1>8, RowsTyped
<1>10. TasksSound'
  BY <1>1, TasksKept DEF LinksInv, SameRun
<1> QED
  BY <1>9, <1>10 DEF LinksInv

LEMMA CreateTaskKeepsInv ==
    ASSUME LinksInv, NEW t \in Tasks, NEW c \in Competitors \cup {NoCompetitor},
           CreateTask(t, c)
    PROVE  LinksInv'
<1> DEFINE l == [AbsentTask EXCEPT !.status = "pending", !.competitor = c]
<1>1. /\ task[t].status = "absent" /\ task' = [task EXCEPT ![t] = l]
      /\ UNCHANGED <<profile, origin, fetches, visit, contested>>
  BY DEF CreateTask
<1>2. l \in TaskRows /\ l.status = "pending" /\ l.result = NoPage /\ l.error = FALSE
  <2>1. 0 \in 0..MaxAttempts
    BY AttemptAssumption
  <2>2. AbsentTask \in TaskRows /\ AbsentTask.result = NoPage /\ AbsentTask.error = FALSE
    BY <2>1 DEF AbsentTask, TaskRows
  <2> QED
    BY <2>2 DEF TaskRows
<1> HIDE DEF l
<1>3. LinkRowsOK /\ TasksSound
  BY DEF LinksInv
<1>4. task'[t] = l /\ \A u \in Tasks \ {t} : task'[u] = task[u]
  BY <1>1, <1>3 DEF LinkRowsOK
<1>5. \A q \in Requests : ~Runner(visit[q], t)
  BY <1>1, <1>3 DEF TasksSound, AbsentNotRun
<1>6. RunsLimited' /\ RunnersApart'
  BY <1>1, <1>3 DEF TasksSound, RunsLimited, RunnersApart
<1>7. RunsRead' /\ AbsentNotRun'
  <2>1. \A q \in Requests, u \in Tasks : Runner(visit'[q], u) =>
            visit'[q] = visit[q] /\ Runner(visit[q], u) /\ task'[u] = task[u]
    BY <1>1, <1>4, <1>5
  <2> QED
    BY <1>1, <1>3, <2>1 DEF TasksSound, RunsRead, AbsentNotRun
<1>8. UncontestedOutcomesMatch'
  <2>1. (l.result # NoPage) = (l.status = "succeeded") /\ l.error = (l.status = "failed")
    BY <1>2
  <2>2. \A u \in Tasks : task'[u] = l \/ task'[u] = task[u]
    BY <1>4
  <2> QED
    BY <1>1, <1>3, <2>1, <2>2 DEF TasksSound, UncontestedOutcomesMatch
<1>9. LinkRowsOK'
  BY <1>1, <1>2, <1>3 DEF LinkRowsOK
<1> QED
  BY <1>6, <1>7, <1>8, <1>9 DEF LinksInv, TasksSound

(* A request opens to edit a competitor, or to take over a page.            *)
LEMMA OpensToWriteKeepsInv ==
    ASSUME LinksInv, NEW p \in Requests, NEW s \in VisitStates,
           s.at \in {"editing", "applying"}, OpenVisit(p, s), UNCHANGED contested
    PROVE  LinksInv'
<1>1. Visit(p, s) /\ UNCHANGED <<profile, origin, task, fetches>>
  BY DEF OpenVisit
<1>2. TasksSound'
  BY <1>1, OtherVisitKeepsTasks
<1>3. LinkRowsOK'
  BY <1>1, VisitMoves DEF LinksInv, LinkRowsOK
<1> QED
  BY <1>2, <1>3 DEF LinksInv

LEMMA OpenProfileKeepsInv ==
    ASSUME LinksInv, NEW p \in Requests, NEW c \in Competitors, OpenProfile(p, c)
    PROVE  LinksInv'
<1> DEFINE s == [at |-> "editing", of |-> c, row |-> profile[c]]
<1>1. s \in VisitStates /\ s.at = "editing"
  BY DEF LinksInv, LinkRowsOK, VisitStates
<1>2. OpenVisit(p, s) /\ UNCHANGED contested
  BY DEF OpenProfile
<1> HIDE DEF s
<1> QED
  BY <1>1, <1>2, OpensToWriteKeepsInv

LEMMA OpenApplyKeepsInv ==
    ASSUME LinksInv, NEW p \in Requests, NEW t \in Tasks,
           NEW c \in Competitors \cup {NoCompetitor}, OpenApply(p, t, c)
    PROVE  LinksInv'
<1> PICK r : r = IF c = NoCompetitor THEN AbsentProfile ELSE profile[c]
  OBVIOUS
<1> DEFINE s == [at |-> "applying", task |-> t, page |-> task[t].result, of |-> c, row |-> r]
<1>1. task[t].result \in Pages
  BY DEF OpenApply, LinksInv, LinkRowsOK, TaskRows
<1>2. r \in ProfileRows
  BY AbsentTyped DEF LinksInv, LinkRowsOK
<1>3. s \in VisitStates /\ s.at = "applying"
  BY <1>1, <1>2 DEF VisitStates
<1>4. OpenVisit(p, s) /\ UNCHANGED contested
  BY DEF OpenApply
<1> HIDE DEF s
<1> QED
  BY <1>3, <1>4, OpensToWriteKeepsInv

(* The competitor is written, under whatever view.                          *)
LEMMA WriteKeepsInv ==
    ASSUME LinksInv, NEW p \in Requests, NEW c \in Competitors, NEW r \in ProfileRows,
           NEW q \in ProfileRows, NEW by \in Sources, NEW changed, NEW value, Given(changed, value),
           profile' = [profile EXCEPT ![c] = Written(r, q, changed, value, by)],
           NEW o \in [Fields -> Sources], origin' = [origin EXCEPT ![c] = o],
           task' \in [Tasks -> TaskRows], \A t \in Tasks : SameRun(task'[t], task[t]),
           Visit(p, NoVisit), UNCHANGED <<fetches, contested>>
    PROVE  LinksInv'
<1> PICK w : w = Written(r, q, changed, value, by)
  OBVIOUS
<1>1. w \in ProfileRows
  BY WrittenTyped
<1>2. /\ visit' \in [Requests -> VisitStates]
      /\ visit'[p] = NoVisit /\ \A x \in Requests \ {p} : visit'[x] = visit[x]
  BY IdleVisit, VisitMoves DEF LinksInv
<1>3. LinkRowsOK'
  BY <1>1, <1>2, RowsTyped DEF LinksInv
<1>4. TasksSound'
  BY <1>2, IdleVisit, TasksKept DEF LinksInv
<1> QED
  BY <1>3, <1>4 DEF LinksInv

LEMMA ChangeProfileKeepsInv ==
    ASSUME LinksInv, NEW p \in Requests, NEW by \in Sources,
           NEW changed, NEW value, Given(changed, value),
           ChangeProfile(p, changed, value, by)
    PROVE  LinksInv'
<1> PICK c : c = visit[p].of
  OBVIOUS
<1> PICK o : o = Originated(c, changed, value, [f \in Fields |-> by])
  OBVIOUS
<1>1. /\ visit[p].at = "editing"
      /\ profile' = [profile EXCEPT ![c] = Written(visit[p].row, profile[c], changed, value, by)]
      /\ origin' = [origin EXCEPT ![c] = o]
      /\ Visit(p, NoVisit) /\ UNCHANGED <<task, fetches, contested>>
  BY DEF ChangeProfile
<1>2. LinkRowsOK /\ visit[p] \in VisitStates
  BY DEF LinksInv, LinkRowsOK
<1>3. c \in Competitors /\ visit[p].row \in ProfileRows
  BY <1>1, <1>2, VisitShape
<1>4. profile[c] \in ProfileRows /\ o \in [Fields -> Sources]
  BY <1>2, <1>3, OriginTyped DEF LinkRowsOK
<1>5. task' \in [Tasks -> TaskRows] /\ \A t \in Tasks : SameRun(task'[t], task[t])
  BY <1>1, <1>2 DEF LinkRowsOK, SameRun
<1> QED
  BY <1>1, <1>3, <1>4, <1>5, WriteKeepsInv

(* What a task offers is typed, and so is the competitor made of it.        *)
LEMMA OfferTyped ==
    ASSUME NEW page \in Pages, NEW name \in Optional
    PROVE  Offered(page, name) \in [Fields -> Optional]
<1>1. page \in [Fields -> Optional]
  BY DEF Pages
<1> QED
  BY <1>1, FieldAssumption DEF Offered

LEMMA NewProfileTyped ==
    ASSUME NEW name \in Optional, NEW given \in BOOLEAN
    PROVE  NewProfile(name, given) \in ProfileRows
<1> DEFINE v == [AbsentProfile.value EXCEPT !["name"] = name]
           s == [AbsentProfile.source EXCEPT !["name"] = IF given THEN "manual" ELSE "parsed"]
<1> PICK a : a = AbsentProfile
  OBVIOUS
<1>1. a \in ProfileRows
  BY AbsentTyped
<1>2. v \in [Fields -> Optional] /\ s \in [Fields -> Sources]
  BY <1>1 DEF ProfileRows, Sources
<1> QED
  BY <1>1, <1>2 DEF NewProfile, ProfileRows

LEMMA ApplyTaskKeepsInv ==
    ASSUME LinksInv, NEW p \in Requests, NEW fields \in SUBSET Fields,
           NEW name \in Optional, ApplyTask(p, fields, name)
    PROVE  LinksInv'
<1> PICK offer : offer = Offered(visit[p].page, name)
  OBVIOUS
<1> PICK changed : changed = Found(fields, offer)
  OBVIOUS
<1> PICK by : by = [f \in Fields |-> IF f = "name" /\ name # NoValue THEN "manual" ELSE "parsed"]
  OBVIOUS
<1> PICK t : t = visit[p].task
  OBVIOUS
<1>1. LinkRowsOK /\ visit[p] \in VisitStates /\ visit[p].at = "applying"
  BY DEF LinksInv, LinkRowsOK, ApplyTask
<1>2. /\ visit[p].page \in Pages /\ visit[p].of \in Competitors \cup {NoCompetitor}
      /\ visit[p].row \in ProfileRows /\ t \in Tasks
  BY <1>1, VisitShape
<1>3. Given(changed, offer) /\ offer["name"] \in Optional
  BY <1>2, OfferTyped, FieldAssumption DEF Given, Found
<1>4. by \in [Fields -> Sources] /\ "parsed" \in Sources
  BY DEF Sources
<1>5. Visit(p, NoVisit) /\ UNCHANGED <<fetches, contested>>
  BY DEF ApplyTask
<1>6. CASE /\ visit[p].of # NoCompetitor
           /\ profile' = [profile EXCEPT ![visit[p].of] =
                            Written(visit[p].row, profile[visit[p].of], changed, offer, "parsed")]
           /\ origin' = [origin EXCEPT ![visit[p].of] = Originated(visit[p].of, changed, offer, by)]
           /\ UNCHANGED task
  <2> PICK c : c = visit[p].of
    OBVIOUS
  <2> PICK o : o = Originated(c, changed, offer, by)
    OBVIOUS
  <2>1. c \in Competitors
    BY <1>2, <1>6
  <2>2. profile[c] \in ProfileRows /\ o \in [Fields -> Sources]
    BY <1>1, <1>4, <2>1, OriginTyped DEF LinkRowsOK
  <2>3. task' \in [Tasks -> TaskRows] /\ \A u \in Tasks : SameRun(task'[u], task[u])
    BY <1>1, <1>6 DEF LinkRowsOK, SameRun
  <2> QED
    BY <1>2, <1>3, <1>4, <1>5, <1>6, <2>1, <2>2, <2>3, WriteKeepsInv
<1>7. ASSUME NEW c \in Competitors, NEW new,
             new = NewProfile(offer["name"], name # NoValue),
             profile' = [profile EXCEPT ![c] = Written(new, new, changed, offer, "parsed")],
             origin' = [origin EXCEPT ![c] = Originated(c, changed \cup {"name"}, offer, by)],
             task' = [task EXCEPT ![t].competitor = c]
      PROVE  LinksInv'
  <2> PICK given \in BOOLEAN : given = (name # NoValue)
    OBVIOUS
  <2> PICK o : o = Originated(c, changed \cup {"name"}, offer, by)
    OBVIOUS
  <2>1. new = NewProfile(offer["name"], given)
    BY <1>7
  <2>2. new \in ProfileRows
    BY <1>3, <2>1, NewProfileTyped
  <2>3. o \in [Fields -> Sources]
    BY <1>1, <1>4, OriginTyped
  <2>4. task' \in [Tasks -> TaskRows] /\ \A u \in Tasks : SameRun(task'[u], task[u])
    <3>1. task \in [Tasks -> TaskRows] /\ task[t] \in TaskRows
      BY <1>1, <1>2 DEF LinkRowsOK
    <3> PICK l : l = [task[t] EXCEPT !.competitor = c]
      OBVIOUS
    <3>2. l \in TaskRows /\ SameRun(l, task[t])
      BY <3>1 DEF TaskRows, SameRun
    <3>3. task' = [task EXCEPT ![t] = l]
      BY <1>7
    <3>4. \A u \in Tasks : SameRun(task[u], task[u])
      BY DEF SameRun
    <3> QED
      BY <1>2, <3>1, <3>2, <3>3, <3>4
  <2> QED
    BY <1>3, <1>4, <1>5, <1>7, <2>2, <2>3, <2>4, WriteKeepsInv
<1> QED
  BY <1>6, <1>7 DEF ApplyTask

(* A request opens to run a task: alone with it, or the task is contested.  *)
LEMMA OpenRunKeepsInv ==
    ASSUME LinksInv, NEW p \in Requests, NEW t \in Tasks, OpenRun(p, t)
    PROVE  LinksInv'
<1> DEFINE s == [at |-> "starting", task |-> t, row |-> task[t]]
<1>1. /\ Runnable(t) /\ Visit(p, s) /\ UNCHANGED <<profile, origin, task, fetches>>
      /\ contested' = IF \E r \in Requests : RunsTask(r, t) THEN contested \cup {t} ELSE contested
  BY DEF OpenRun, OpenVisit
<1>2. LinkRowsOK /\ TasksSound
  BY DEF LinksInv
<1>3. s \in VisitStates
  BY <1>2 DEF LinkRowsOK, VisitStates
<1>4. s.at = "starting" /\ s.task = t /\ s.row = task[t]
  OBVIOUS
<1> HIDE DEF s
<1>5. /\ visit' \in [Requests -> VisitStates]
      /\ visit'[p] = s /\ \A q \in Requests \ {p} : visit'[q] = visit[q]
  BY <1>1, <1>2, <1>3, VisitMoves
<1>6. contested' \subseteq Tasks /\ contested \subseteq contested'
  BY <1>1, <1>2 DEF LinkRowsOK
<1>7. \A q \in Requests, u \in Tasks : Runner(visit'[q], u) =>
        \/ q = p /\ u = t
        \/ q # p /\ visit'[q] = visit[q] /\ Runner(visit[q], u)
  BY <1>4, <1>5 DEF Runner
<1>8. t \notin contested' => \A q \in Requests : ~Runner(visit[q], t)
  BY <1>1 DEF Runner, RunsTask
<1>9. RunsLimited'
  BY <1>1, <1>2, <1>4, <1>5 DEF TasksSound, RunsLimited, Runnable
<1>10. RunnersApart'
  BY <1>2, <1>6, <1>7, <1>8 DEF TasksSound, RunnersApart
<1>11. RunsRead'
  <2> SUFFICES ASSUME NEW q \in Requests, NEW u \in Tasks \ contested', Runner(visit'[q], u)
               PROVE  \/ visit'[q].at = "starting" /\ SameRun(visit'[q].row, task[u])
                      \/ visit'[q].at = "fetching" /\ task[u].status = "running"
    BY <1>1 DEF RunsRead
  <2>1. CASE q = p
    BY <1>4, <1>5, <1>7, <2>1 DEF SameRun
  <2>2. CASE q # p
    BY <1>2, <1>6, <1>7, <2>2 DEF TasksSound, RunsRead
  <2> QED
    BY <2>1, <2>2
<1>12. AbsentNotRun'
  BY <1>1, <1>2, <1>7 DEF TasksSound, AbsentNotRun, Runnable
<1>13. UncontestedOutcomesMatch'
  BY <1>1, <1>2, <1>6 DEF TasksSound, UncontestedOutcomesMatch
<1>14. LinkRowsOK'
  BY <1>1, <1>2, <1>5, <1>6 DEF LinkRowsOK
<1> QED
  BY <1>9, <1>10, <1>11, <1>12, <1>13, <1>14 DEF LinksInv, TasksSound

(* What is known of a task that a request runs.                             *)
LEMMA RunnerKnows ==
    ASSUME LinksInv, NEW p \in Requests, visit[p].at \in {"starting", "fetching"}
    PROVE  /\ visit[p].task \in Tasks /\ Runner(visit[p], visit[p].task)
           /\ task[visit[p].task] \in TaskRows
           /\ visit[p].at = "starting" => visit[p].row \in TaskRows
           /\ visit[p].at = "starting" /\ visit[p].task \notin contested =>
                SameRun(visit[p].row, task[visit[p].task])
           /\ visit[p].at = "fetching" /\ visit[p].task \notin contested =>
                task[visit[p].task].status = "running"
<1>1. visit[p] \in VisitStates
  BY DEF LinksInv, LinkRowsOK
<1>2. /\ visit[p].task \in Tasks
      /\ visit[p].at = "starting" => visit[p].row \in TaskRows
  BY <1>1, VisitShape
<1>3. Runner(visit[p], visit[p].task)
  BY DEF Runner
<1> QED
  BY <1>2, <1>3 DEF LinksInv, LinkRowsOK, TasksSound, RunsRead

(* The run is started: what an earlier one left is cleared if this one has  *)
(* read it.                                                                 *)
LEMMA StartRunKeepsInv ==
    ASSUME LinksInv, NEW p \in Requests, StartRun(p)
    PROVE  LinksInv'
<1> PICK t : t = visit[p].task
  OBVIOUS
<1> PICK read : read = visit[p].row
  OBVIOUS
<1> PICK k : k = task[t]
  OBVIOUS
<1> DEFINE l == Started(read, k)
           s == [at |-> "fetching", task |-> t]
<1>1. /\ visit[p].at = "starting"
      /\ task' = [task EXCEPT ![t] = l] /\ fetches' = [fetches EXCEPT ![t] = @ + 1]
      /\ Visit(p, s) /\ UNCHANGED <<profile, origin, contested>>
  <2>1. task' = [task EXCEPT ![t] = Started(read, task[t])]
    BY DEF StartRun
  <2> QED
    BY <2>1 DEF StartRun
<1>2. LinkRowsOK /\ TasksSound
  BY DEF LinksInv
<1>3. /\ t \in Tasks /\ Runner(visit[p], t) /\ k \in TaskRows /\ read \in TaskRows
      /\ t \notin contested => SameRun(read, k)
  BY <1>1, RunnerKnows
<1>4. read.attempts + 1 \in 0..MaxAttempts
  <2>1. read.attempts < MaxAttempts
    BY <1>1, <1>2 DEF TasksSound, RunsLimited
  <2> QED
    BY <1>3, <2>1, AttemptAssumption DEF TaskRows
<1>5. /\ l.status = "running" /\ l \in TaskRows
      /\ t \notin contested => l.result = NoPage /\ l.error = FALSE
  <2> PICK x : x = Assigned(read.result, NoPage, k.result)
    OBVIOUS
  <2> PICK y : y = Assigned(read.error, FALSE, k.error)
    OBVIOUS
  <2>1. x \in Pages \cup {NoPage} /\ y \in BOOLEAN
    BY <1>3 DEF Assigned, TaskRows
  <2>2. t \notin contested => x = NoPage /\ y = FALSE
    BY <1>3 DEF Assigned, SameRun
  <2>3. l = [k EXCEPT !.status = "running", !.attempts = read.attempts + 1,
                      !.result = x, !.error = y]
    BY DEF Started
  <2> HIDE DEF l
  <2> QED
    BY <1>3, <1>4, <2>1, <2>2, <2>3 DEF TaskRows
<1>6. s \in VisitStates /\ s.at = "fetching" /\ \A u \in Tasks : Runner(s, u) => u = t
  BY <1>3 DEF VisitStates, Runner
<1> HIDE DEF l, s
<1>7. TasksSound'
  BY <1>1, <1>2, <1>3, <1>5, <1>6, TasksRun
<1>8. visit' \in [Requests -> VisitStates]
  BY <1>1, <1>2, <1>6, VisitMoves
<1>9. LinkRowsOK'
  BY <1>1, <1>2, <1>3, <1>5, <1>8 DEF LinkRowsOK
<1> QED
  BY <1>7, <1>9 DEF LinksInv

(* It ends, with a result or with an error.                                 *)
LEMMA FinishRunKeepsInv ==
    ASSUME LinksInv, NEW p \in Requests, NEW l, FinishRun(p, l), l \in TaskRows,
           l.status # "absent",
           visit[p].task \notin contested => /\ (l.result # NoPage) = (l.status = "succeeded")
                                             /\ l.error = (l.status = "failed")
    PROVE  LinksInv'
<1> PICK t : t = visit[p].task
  OBVIOUS
<1>1. /\ visit[p].at = "fetching" /\ task' = [task EXCEPT ![t] = l]
      /\ Visit(p, NoVisit) /\ UNCHANGED <<profile, origin, fetches, contested>>
  BY DEF FinishRun
<1>2. LinkRowsOK /\ TasksSound
  BY DEF LinksInv
<1>3. t \in Tasks /\ Runner(visit[p], t)
  BY <1>1, RunnerKnows
<1>4. NoVisit \in VisitStates /\ NoVisit.at = "idle" /\ \A u : ~Runner(NoVisit, u)
  BY IdleVisit
<1>5. TasksSound'
  BY <1>1, <1>2, <1>3, <1>4, TasksRun
<1>6. visit' \in [Requests -> VisitStates]
  BY <1>1, <1>2, <1>4, VisitMoves
<1>7. LinkRowsOK'
  BY <1>1, <1>2, <1>3, <1>6 DEF LinkRowsOK
<1> QED
  BY <1>5, <1>7 DEF LinksInv

LEMMA ParseSucceedsKeepsInv ==
    ASSUME LinksInv, NEW p \in Requests, NEW page \in Pages, ParseSucceeds(p, page)
    PROVE  LinksInv'
<1> PICK k : k = task[visit[p].task]
  OBVIOUS
<1> DEFINE l == [k EXCEPT !.status = "succeeded", !.result = page]
<1>1. visit[p].at = "fetching" /\ FinishRun(p, l)
  BY DEF ParseSucceeds, FinishRun
<1>2. /\ k \in TaskRows
      /\ visit[p].task \notin contested => k.status = "running"
      /\ visit[p].task \in Tasks
  BY <1>1, RunnerKnows
<1>3. visit[p].task \notin contested => k.error = FALSE
  BY <1>2 DEF LinksInv, TasksSound, UncontestedOutcomesMatch
<1>4. /\ l \in TaskRows /\ l.status = "succeeded" /\ l.result = page /\ l.error = k.error
  BY <1>2 DEF TaskRows
<1>5. page # NoPage
  BY PageAssumption
<1> HIDE DEF l
<1> QED
  BY <1>1, <1>3, <1>4, <1>5, FinishRunKeepsInv

LEMMA ParseFailsKeepsInv ==
    ASSUME LinksInv, NEW p \in Requests, ParseFails(p)
    PROVE  LinksInv'
<1> PICK k : k = task[visit[p].task]
  OBVIOUS
<1> DEFINE l == [k EXCEPT !.status = "failed", !.error = TRUE]
<1>1. visit[p].at = "fetching" /\ FinishRun(p, l)
  BY DEF ParseFails, FinishRun
<1>2. /\ k \in TaskRows
      /\ visit[p].task \notin contested => k.status = "running"
      /\ visit[p].task \in Tasks
  BY <1>1, RunnerKnows
<1>3. visit[p].task \notin contested => k.result = NoPage
  BY <1>2 DEF LinksInv, TasksSound, UncontestedOutcomesMatch
<1>4. l \in TaskRows /\ l.status = "failed" /\ l.result = k.result /\ l.error = TRUE
  BY <1>2 DEF TaskRows
<1> HIDE DEF l
<1> QED
  BY <1>1, <1>3, <1>4, FinishRunKeepsInv

(* A request that goes away without a write leaves a task as it is.         *)
LEMMA GivesUpKeepsInv ==
    ASSUME LinksInv, NEW p \in Requests, ParseBreaks(p) \/ RefuseVisit(p)
    PROVE  LinksInv'
<1>1. Visit(p, NoVisit) /\ UNCHANGED <<profile, origin, task, fetches, contested>>
  BY DEF ParseBreaks, RefuseVisit
<1>2. NoVisit \in VisitStates /\ NoVisit.at = "idle"
  BY IdleVisit
<1>3. TasksSound'
  BY <1>1, <1>2, OtherVisitKeepsTasks
<1>4. LinkRowsOK'
  BY <1>1, <1>2, VisitMoves DEF LinksInv, LinkRowsOK
<1> QED
  BY <1>3, <1>4 DEF LinksInv

(* Nothing is there initially.                                              *)
LEMMA InitLinks == ASSUME LinkInit PROVE LinksInv
<1>1. 0 \in 0..MaxAttempts
  BY AttemptAssumption
<1>2. AbsentTask \in TaskRows
  BY <1>1 DEF AbsentTask, TaskRows
<1>3. /\ AbsentTask.status = "absent" /\ AbsentTask.result = NoPage /\ AbsentTask.error = FALSE
  BY DEF AbsentTask
<1>4. AbsentProfile.source \in [Fields -> Sources]
  BY AbsentTyped DEF ProfileRows
<1>5. LinkRowsOK
  BY <1>2, <1>4, AbsentTyped, IdleVisit DEF LinkInit, LinkRowsOK
<1>6. TasksSound
  BY <1>3, IdleVisit DEF LinkInit, TasksSound, RunsLimited, RunnersApart, RunsRead, AbsentNotRun,
                         UncontestedOutcomesMatch
<1> QED
  BY <1>5, <1>6 DEF LinksInv

LEMMA NextLinks ==
    ASSUME LinksInv, LinkStep \/ UNCHANGED linkVars
    PROVE  LinksInv'
<1>1. ASSUME NEW q \in Requests, VisitActs(q)
      PROVE  LinksInv'
  <2>1. ASSUME NEW fields \in SUBSET Fields, NEW value \in [Fields -> Optional],
               UpdateProfile(q, fields, value)
        PROVE  LinksInv'
    <3>1. ChangeProfile(q, fields, value, "manual") /\ Given(fields, value)
          /\ "manual" \in Sources
      BY <2>1 DEF UpdateProfile, Given, Sources
    <3> QED
      BY <3>1, ChangeProfileKeepsInv
  <2>2. ASSUME NEW fields \in SUBSET Fields, NEW page \in Pages,
               ApplySnapshot(q, fields, page)
        PROVE  LinksInv'
    <3> PICK changed : changed = Found(fields \ {"name"}, page)
      OBVIOUS
    <3>1. ChangeProfile(q, changed, page, "monitor") /\ "monitor" \in Sources
      BY <2>2 DEF ApplySnapshot, Sources
    <3>2. Given(changed, page)
      BY DEF Given, Found, Pages
    <3> QED
      BY <3>1, <3>2, ChangeProfileKeepsInv
  <2> QED
    BY <1>1, <2>1, <2>2, ApplyTaskKeepsInv, OpenProfileKeepsInv, OpenRunKeepsInv,
       OpenApplyKeepsInv, StartRunKeepsInv, ParseSucceedsKeepsInv, ParseFailsKeepsInv,
       GivesUpKeepsInv DEF VisitActs
<1>2. CASE UNCHANGED linkVars
  <2>1. UNCHANGED <<profile, origin, task, fetches, visit, contested>>
    BY <1>2 DEF linkVars
  <2>2. LinkRowsOK'
    BY <2>1 DEF LinksInv, LinkRowsOK
  <2> QED
    BY <2>1, <2>2, TasksKept DEF LinksInv, SameRun
<1> QED
  BY <1>1, <1>2, CreateProfileKeepsInv, CreateTaskKeepsInv DEF LinkStep

(***************************************************************************)
(* Where the fields of a competitor come from.                             *)
(***************************************************************************)

(* Whoever has read a competitor that is not crossed holds its row.         *)
ReadersCurrent ==
    \A q \in Requests, c \in Competitors \ crossed :
        HasRead(visit[q], c) => visit[q].row = profile[c]

(* A competitor is read only if it is there, and has no sources before.     *)
ReadersFound ==
    \A q \in Requests, c \in Competitors : HasRead(visit[q], c) => profile[c].present

AbsentUnsourced ==
    \A c \in Competitors : ~profile[c].present => origin[c] = AbsentProfile.source

SourcesInv == ReadersCurrent /\ ReadersFound /\ AbsentUnsourced /\ UncrossedSourcesTold

Crossing == crossed' = crossed \cup {c \in Competitors : Overwritten(c)}

LEMMA InitSources == ASSUME LinkInit PROVE SourcesInv
BY DEF LinkInit, SourcesInv, ReadersCurrent, ReadersFound, AbsentUnsourced,
       UncrossedSourcesTold, HasRead, NoVisit, AbsentProfile

(* Requests come and go, and read competitors as they are.                  *)
LEMMA SourcesKept ==
    ASSUME SourcesInv, UNCHANGED <<profile, origin>>, crossed \subseteq crossed',
           \A q \in Requests, c \in Competitors : HasRead(visit'[q], c) =>
                \/ visit'[q] = visit[q]
                \/ profile[c].present /\ visit'[q].row = profile[c]
    PROVE  SourcesInv'
<1>1. ReadersCurrent'
  BY DEF SourcesInv, ReadersCurrent
<1>2. ReadersFound' /\ AbsentUnsourced'
  BY DEF SourcesInv, ReadersFound, AbsentUnsourced
<1>3. UncrossedSourcesTold'
  BY DEF SourcesInv, UncrossedSourcesTold
<1> QED
  BY <1>1, <1>2, <1>3 DEF SourcesInv

(* A competitor is written, with sources that are true if it was not        *)
(* crossed before.                                                          *)
LEMMA SourcesWritten ==
    ASSUME LinksInv, SourcesInv, Crossing, NEW c \in Competitors, NEW w, NEW o,
           profile' = [profile EXCEPT ![c] = w], origin' = [origin EXCEPT ![c] = o],
           w.present,
           c \notin crossed => \A f \in Fields \ {"name"} : w.source[f] = o[f],
           \A q \in Requests, d \in Competitors :
                HasRead(visit'[q], d) => visit'[q] = visit[q]
    PROVE  SourcesInv'
<1>1. /\ profile'[c] = w /\ \A d \in Competitors \ {c} : profile'[d] = profile[d]
      /\ origin'[c] = o /\ \A d \in Competitors \ {c} : origin'[d] = origin[d]
  BY DEF LinksInv, LinkRowsOK
<1>2. crossed \subseteq crossed'
  BY DEF Crossing
<1>3. ReadersCurrent'
  <2> SUFFICES ASSUME NEW q \in Requests, NEW d \in Competitors \ crossed', HasRead(visit'[q], d)
               PROVE  visit'[q].row = profile'[d]
    BY DEF ReadersCurrent
  <2>1. visit'[q] = visit[q] /\ HasRead(visit[q], d)
    OBVIOUS
  <2>2. profile'[d] = profile[d]
    BY <2>1 DEF Crossing, Overwritten
  <2> QED
    BY <1>2, <2>1, <2>2 DEF SourcesInv, ReadersCurrent
<1>4. ReadersFound'
  <2> SUFFICES ASSUME NEW q \in Requests, NEW d \in Competitors, HasRead(visit'[q], d)
               PROVE  profile'[d].present
    BY DEF ReadersFound
  <2>1. HasRead(visit[q], d)
    OBVIOUS
  <2> QED
    BY <1>1, <2>1 DEF SourcesInv, ReadersFound
<1>5. AbsentUnsourced'
  BY <1>1 DEF SourcesInv, AbsentUnsourced
<1>6. UncrossedSourcesTold'
  <2> SUFFICES ASSUME NEW d \in Competitors \ crossed', NEW f \in Fields \ {"name"}
               PROVE  profile'[d].source[f] = origin'[d][f]
    BY DEF UncrossedSourcesTold
  <2> QED
    BY <1>1, <1>2 DEF SourcesInv, UncrossedSourcesTold
<1> QED
  BY <1>3, <1>4, <1>5, <1>6 DEF SourcesInv

(* Sources that are written from those that are there, by a request that    *)
(* gives the fields in changed their values.                                *)
LEMMA WrittenSources ==
    ASSUME NEW r \in ProfileRows, NEW by, NEW changed, NEW value, NEW f \in Fields
    PROVE  /\ Written(r, r, changed, value, by).present
           /\ Written(r, r, changed, value, by).source[f] =
                IF f \in changed THEN by ELSE r.source[f]
           /\ f \in changed => Written(r, r, changed, value, by).value[f] = value[f]
<1>1. Assigned(r.source, Told(r.source, changed, by), r.source) = Told(r.source, changed, by)
  BY DEF Assigned
<1>2. Assigned(r.value[f], value[f], r.value[f]) = value[f]
  BY DEF Assigned
<1> QED
  BY <1>1, <1>2 DEF Written, Told

LEMMA WrittenPresent ==
    ASSUME NEW read, NEW r, NEW by, NEW changed, NEW value
    PROVE  Written(read, r, changed, value, by).present
BY DEF Written

(* A request writes a competitor that is there, from what it has read.      *)
LEMMA RewriteKeepsSources ==
    ASSUME LinksInv, SourcesInv, Crossing, NEW p \in Requests, NEW c \in Competitors,
           HasRead(visit[p], c), NEW changed, NEW value, NEW tell, NEW by,
           \A f \in Fields \ {"name"} : by[f] = tell,
           NEW w, w = Written(visit[p].row, profile[c], changed, value, tell),
           NEW o, o = Originated(c, changed, value, by),
           profile' = [profile EXCEPT ![c] = w], origin' = [origin EXCEPT ![c] = o],
           Visit(p, NoVisit)
    PROVE  SourcesInv'
<1>1. w.present
  BY WrittenPresent
<1>2. profile[c] \in ProfileRows /\ profile'[c] = w
  BY DEF LinksInv, LinkRowsOK
<1>3. ASSUME c \notin crossed, NEW f \in Fields \ {"name"}
      PROVE  w.source[f] = o[f]
  <2>1. w = Written(profile[c], profile[c], changed, value, tell)
    BY <1>3 DEF SourcesInv, ReadersCurrent
  <2>2. /\ w.source[f] = IF f \in changed THEN tell ELSE profile[c].source[f]
        /\ f \in changed => w.value[f] = value[f]
    BY <1>2, <2>1, WrittenSources
  <2>3. profile[c].source[f] = origin[c][f]
    BY <1>3 DEF SourcesInv, UncrossedSourcesTold
  <2>4. o[f] = IF f \in changed /\ w.value[f] = value[f] THEN by[f] ELSE origin[c][f]
    BY <1>2 DEF Originated
  <2> QED
    BY <2>2, <2>3, <2>4
<1>4. visit'[p] = NoVisit /\ \A q \in Requests \ {p} : visit'[q] = visit[q]
  BY IdleVisit, VisitMoves DEF LinksInv
<1>5. \A q \in Requests, d \in Competitors : HasRead(visit'[q], d) => visit'[q] = visit[q]
  BY <1>4, IdleVisit DEF HasRead
<1>6. c \notin crossed => \A f \in Fields \ {"name"} : w.source[f] = o[f]
  BY <1>3
<1> QED
  BY <1>1, <1>5, <1>6, SourcesWritten

LEMMA CreateProfileKeepsSources ==
    ASSUME LinksInv, SourcesInv, Crossing, NEW value \in [Fields -> Optional],
           CreateProfile(value)
    PROVE  SourcesInv'
<1> PICK given : given = {f \in Fields : value[f] # NoValue}
  OBVIOUS
<1>1. PICK c \in Competitors :
        /\ profile' = [profile EXCEPT ![c] = Written(AbsentProfile, profile[c], given, value, "manual")]
        /\ origin' = [origin EXCEPT ![c] = profile'[c].source]
        /\ UNCHANGED visit
  BY DEF CreateProfile
<1> PICK w : w = Written(AbsentProfile, profile[c], given, value, "manual")
  OBVIOUS
<1>2. profile' = [profile EXCEPT ![c] = w] /\ w.present
  BY <1>1, WrittenPresent
<1>3. origin' = [origin EXCEPT ![c] = w.source]
  BY <1>1, <1>2 DEF LinksInv, LinkRowsOK
<1> QED
  BY <1>1, <1>2, <1>3, SourcesWritten

LEMMA ApplyTaskKeepsSources ==
    ASSUME LinksInv, SourcesInv, Crossing, NEW p \in Requests, NEW fields \in SUBSET Fields,
           NEW name \in Optional, ApplyTask(p, fields, name)
    PROVE  SourcesInv'
<1> PICK offer : offer = Offered(visit[p].page, name)
  OBVIOUS
<1> PICK changed : changed = Found(fields, offer)
  OBVIOUS
<1> PICK by : by = [f \in Fields |-> IF f = "name" /\ name # NoValue THEN "manual" ELSE "parsed"]
  OBVIOUS
<1>1. visit[p] \in VisitStates /\ visit[p].at = "applying" /\ Visit(p, NoVisit)
  BY DEF LinksInv, LinkRowsOK, ApplyTask
<1>2. visit[p].page \in Pages /\ visit[p].of \in Competitors \cup {NoCompetitor}
  BY <1>1, VisitShape
<1>3. \A f \in Fields \ {"name"} : by[f] = "parsed"
  OBVIOUS
<1>4. CASE /\ visit[p].of # NoCompetitor
           /\ profile' = [profile EXCEPT ![visit[p].of] =
                            Written(visit[p].row, profile[visit[p].of], changed, offer, "parsed")]
           /\ origin' = [origin EXCEPT ![visit[p].of] = Originated(visit[p].of, changed, offer, by)]
  <2> PICK c \in Competitors : c = visit[p].of
    BY <1>2, <1>4
  <2> PICK w : w = Written(visit[p].row, profile[c], changed, offer, "parsed")
    OBVIOUS
  <2> PICK o : o = Originated(c, changed, offer, by)
    OBVIOUS
  <2>1. HasRead(visit[p], c)
    BY <1>1 DEF HasRead
  <2>2. profile' = [profile EXCEPT ![c] = w] /\ origin' = [origin EXCEPT ![c] = o]
    BY <1>4
  <2> QED
    BY <1>1, <1>3, <2>1, <2>2, RewriteKeepsSources
<1>5. ASSUME NEW c \in Competitors, NEW new, ~profile[c].present,
             new = NewProfile(offer["name"], name # NoValue), offer["name"] \in Optional,
             profile' = [profile EXCEPT ![c] = Written(new, new, changed, offer, "parsed")],
             origin' = [origin EXCEPT ![c] = Originated(c, changed \cup {"name"}, offer, by)]
      PROVE  SourcesInv'
  <2> PICK w : w = Written(new, new, changed, offer, "parsed")
    OBVIOUS
  <2> PICK o : o = Originated(c, changed \cup {"name"}, offer, by)
    OBVIOUS
  <2>1. profile' = [profile EXCEPT ![c] = w] /\ origin' = [origin EXCEPT ![c] = o]
    BY <1>5
  <2>2. w.present
    BY WrittenPresent
  <2>3. profile'[c] = w
    BY <2>1 DEF LinksInv, LinkRowsOK
  <2>4. new \in ProfileRows /\ \A f \in Fields \ {"name"} : new.source[f] = AbsentProfile.source[f]
    <3> PICK given \in BOOLEAN : given = (name # NoValue)
      OBVIOUS
    <3>1. new = NewProfile(offer["name"], given)
      BY <1>5
    <3>2. new \in ProfileRows
      BY <1>5, <3>1, NewProfileTyped
    <3>3. \A f \in Fields \ {"name"} : new.source[f] = AbsentProfile.source[f]
      BY <3>1 DEF NewProfile, AbsentProfile
    <3> QED
      BY <3>2, <3>3
  <2>5. ASSUME NEW f \in Fields \ {"name"}
        PROVE  w.source[f] = o[f]
    <3>1. /\ w.source[f] = IF f \in changed THEN "parsed" ELSE new.source[f]
          /\ f \in changed => w.value[f] = offer[f]
      BY <2>4, WrittenSources
    <3>2. o[f] = IF f \in changed \cup {"name"} /\ w.value[f] = offer[f] THEN by[f] ELSE origin[c][f]
      BY <2>3 DEF Originated
    <3>3. origin[c] = AbsentProfile.source
      BY <1>5 DEF SourcesInv, AbsentUnsourced
    <3> QED
      BY <1>3, <2>4, <3>1, <3>2, <3>3
  <2>6. \A q \in Requests, d \in Competitors : HasRead(visit'[q], d) => visit'[q] = visit[q]
    BY <1>1, IdleVisit, VisitMoves DEF HasRead, LinksInv
  <2> QED
    BY <2>1, <2>2, <2>5, <2>6, SourcesWritten
<1>6. offer["name"] \in Optional
  BY <1>2, OfferTyped, FieldAssumption
<1> QED
  BY <1>4, <1>5, <1>6 DEF ApplyTask

(* A request begins or ends without a write to a competitor.                *)
LEMMA MoveKeepsSources ==
    ASSUME LinksInv, SourcesInv, Crossing, NEW p \in Requests, NEW s, Visit(p, s),
           UNCHANGED <<profile, origin>>,
           \A c \in Competitors : HasRead(s, c) => profile[c].present /\ s.row = profile[c]
    PROVE  SourcesInv'
<1>1. visit'[p] = s /\ \A q \in Requests \ {p} : visit'[q] = visit[q]
  BY DEF LinksInv, LinkRowsOK, Visit
<1>2. crossed \subseteq crossed'
  BY DEF Crossing
<1> QED
  BY <1>1, <1>2, SourcesKept

LEMMA OpeningsKeepSources ==
    ASSUME LinksInv, SourcesInv, Crossing, NEW p \in Requests, NEW t \in Tasks,
           NEW c \in Competitors \cup {NoCompetitor},
           OpenRun(p, t) \/ OpenApply(p, t, c)
    PROVE  SourcesInv'
<1>1. CASE OpenRun(p, t)
  <2> PICK s : s = [at |-> "starting", task |-> t, row |-> task[t]]
    OBVIOUS
  <2>1. Visit(p, s) /\ UNCHANGED <<profile, origin>> /\ \A d : ~HasRead(s, d)
    BY <1>1 DEF OpenRun, OpenVisit, HasRead
  <2> QED
    BY <2>1, MoveKeepsSources
<1>2. CASE OpenApply(p, t, c)
  <2> PICK r : r = IF c = NoCompetitor THEN AbsentProfile ELSE profile[c]
    OBVIOUS
  <2> PICK s : s = [at |-> "applying", task |-> t, page |-> task[t].result, of |-> c, row |-> r]
    OBVIOUS
  <2>1. Visit(p, s) /\ UNCHANGED <<profile, origin>>
    BY <1>2 DEF OpenApply, OpenVisit
  <2>2. s.of = c /\ s.row = r /\ (c # NoCompetitor => profile[c].present)
    BY <1>2 DEF OpenApply
  <2>3. \A d \in Competitors : HasRead(s, d) => profile[d].present /\ s.row = profile[d]
    BY <2>2, ValueAssumption DEF HasRead
  <2> QED
    BY <2>1, <2>3, MoveKeepsSources
<1> QED
  BY <1>1, <1>2

LEMMA RunsKeepSources ==
    ASSUME LinksInv, SourcesInv, Crossing, NEW p \in Requests,
           \/ StartRun(p)
           \/ \E page \in Pages : ParseSucceeds(p, page)
           \/ ParseFails(p) \/ ParseBreaks(p) \/ RefuseVisit(p)
    PROVE  SourcesInv'
<1>1. CASE StartRun(p)
  <2> PICK s : s = [at |-> "fetching", task |-> visit[p].task]
    OBVIOUS
  <2>1. Visit(p, s) /\ UNCHANGED <<profile, origin>> /\ \A d : ~HasRead(s, d)
    BY <1>1 DEF StartRun, HasRead
  <2> QED
    BY <2>1, MoveKeepsSources
<1>2. CASE ~StartRun(p)
  <2>1. Visit(p, NoVisit) /\ UNCHANGED <<profile, origin>>
    BY <1>2 DEF ParseSucceeds, ParseFails, FinishRun, ParseBreaks, RefuseVisit
  <2>2. \A d : ~HasRead(NoVisit, d)
    BY DEF HasRead, NoVisit
  <2> QED
    BY <2>1, <2>2, MoveKeepsSources
<1> QED
  BY <1>1, <1>2

LEMMA NextSources ==
    ASSUME LinksInv, SourcesInv, [LinkNext]_linkVars
    PROVE  SourcesInv'
<1>1. ASSUME Crossing, NEW q \in Requests, VisitActs(q)
      PROVE  SourcesInv'
  <2>1. ASSUME NEW changed, NEW value, NEW tell, ChangeProfile(q, changed, value, tell)
        PROVE  SourcesInv'
    <3> PICK by : by = [f \in Fields |-> tell]
      OBVIOUS
    <3>1. visit[q].at = "editing" /\ visit[q] \in VisitStates
      BY <2>1 DEF ChangeProfile, LinksInv, LinkRowsOK
    <3> PICK c \in Competitors : c = visit[q].of
      BY <3>1, VisitShape
    <3>2. HasRead(visit[q], c) /\ \A f \in Fields \ {"name"} : by[f] = tell
      BY <3>1 DEF HasRead
    <3> PICK w : w = Written(visit[q].row, profile[c], changed, value, tell)
      OBVIOUS
    <3> PICK o : o = Originated(c, changed, value, by)
      OBVIOUS
    <3>3. /\ profile' = [profile EXCEPT ![c] = w] /\ origin' = [origin EXCEPT ![c] = o]
          /\ Visit(q, NoVisit)
      BY <2>1 DEF ChangeProfile
    <3> QED
      BY <1>1, <3>2, <3>3, RewriteKeepsSources
  <2>2. ASSUME NEW fields \in SUBSET Fields, NEW value \in [Fields -> Optional],
               UpdateProfile(q, fields, value)
        PROVE  SourcesInv'
    BY <2>1, <2>2 DEF UpdateProfile
  <2>3. ASSUME NEW fields \in SUBSET Fields, NEW page \in Pages,
               ApplySnapshot(q, fields, page)
        PROVE  SourcesInv'
    BY <2>1, <2>3 DEF ApplySnapshot
  <2>4. ASSUME NEW c \in Competitors, OpenProfile(q, c)
        PROVE  SourcesInv'
    <3> PICK s : s = [at |-> "editing", of |-> c, row |-> profile[c]]
      OBVIOUS
    <3>1. Visit(q, s) /\ UNCHANGED <<profile, origin>> /\ profile[c].present
      BY <2>4 DEF OpenProfile, OpenVisit
    <3>2. \A d \in Competitors : HasRead(s, d) => profile[d].present /\ s.row = profile[d]
      BY <3>1 DEF HasRead
    <3> QED
      BY <1>1, <3>1, <3>2, MoveKeepsSources
  <2> QED
    BY <1>1, <2>2, <2>3, <2>4, ApplyTaskKeepsSources, OpeningsKeepSources, RunsKeepSources
       DEF VisitActs
<1>2. CASE UNCHANGED linkVars
  BY <1>2, SourcesKept DEF linkVars
<1>3. CASE LinkNext
  <2>1. Crossing
    BY <1>3 DEF LinkNext, Crossing
  <2>2. ASSUME NEW t \in Tasks, NEW c \in Competitors \cup {NoCompetitor}, CreateTask(t, c)
        PROVE  SourcesInv'
    <3>1. UNCHANGED <<profile, origin, visit>> /\ crossed \subseteq crossed'
      BY <2>1, <2>2 DEF CreateTask, Crossing
    <3> QED
      BY <3>1, SourcesKept
  <2> QED
    BY <1>1, <1>3, <2>1, <2>2, CreateProfileKeepsSources DEF LinkNext, LinkStep
<1> QED
  BY <1>2, <1>3

(***************************************************************************)
(* Theorems about links.                                                   *)
(***************************************************************************)

LEMMA LinksInductive == LinkSpec => []LinksInv
<1>1. LinkInit => LinksInv
  BY InitLinks
<1>2. LinksInv /\ [LinkNext]_linkVars => LinksInv'
  BY NextLinks DEF LinkNext
<1> QED
  BY <1>1, <1>2, PTL DEF LinkSpec

(* A task has its result, or its error, exactly while its status says so,   *)
(* unless two requests once ran it together.                                *)
THEOREM OutcomesAreMatched == LinkSpec => []UncontestedOutcomesMatch
<1>1. LinksInv => UncontestedOutcomesMatch
  BY DEF LinksInv, TasksSound
<1> QED
  BY <1>1, LinksInductive, PTL

(* Every variable keeps its type.                                           *)
THEOREM LinksTyped == LinkSpec => []LinkTypeOK
<1>1. LinksInv /\ crossed \in SUBSET Competitors => LinkTypeOK
  BY DEF LinksInv, LinkTypeOK
<1>2. LinkInit => crossed \in SUBSET Competitors
  BY DEF LinkInit
<1>3. crossed \in SUBSET Competitors /\ [LinkNext]_linkVars => (crossed \in SUBSET Competitors)'
  BY DEF LinkNext, linkVars
<1> QED
  BY <1>1, <1>2, <1>3, LinksInductive, PTL DEF LinkSpec

(* The source shown for a field is where its value comes from, unless a     *)
(* request that had read the competitor was overtaken by one that wrote it. *)
THEOREM SourcesAreTold == LinkSpec => []UncrossedSourcesTold
<1>1. LinkInit => SourcesInv
  BY InitSources
<1>2. LinksInv /\ SourcesInv /\ [LinkNext]_linkVars => SourcesInv'
  BY NextSources
<1>3. SourcesInv => UncrossedSourcesTold
  BY DEF SourcesInv
<1> QED
  BY <1>1, <1>2, <1>3, LinksInductive, PTL DEF LinkSpec
=============================================================================
