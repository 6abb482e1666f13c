-------------------------- MODULE CompetitorService --------------------------
(***************************************************************************)
(* What the two models of services/competitors.py share: competitors,      *)
(* requests and how a session writes.  CompetitorMonitors is about the     *)
(* runs of monitors, LinkParseTasks about what the rows of competitors     *)
(* say and the tasks that parse a page for them.  Their names differ, so   *)
(* that a module can extend both.                                          *)
(***************************************************************************)

CONSTANTS
    Competitors,    \* competitors that may be entered
    Requests,       \* requests and sweeps that may be under way at once
    NoCompetitor

(* An attribute that is assigned the value read for it is not written.      *)
Assigned(read, value, now) == IF value = read THEN now ELSE value

=============================================================================
