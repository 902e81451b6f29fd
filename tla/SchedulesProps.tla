--------------------------- MODULE SchedulesProps ---------------------------
(* What Schedules is checked for.                                           *)
EXTENDS Schedules

\* The instants that a step advances the schedule past, without a pause.
Passed ==
  {t \in Fires(schedule) : schedule.next <= t /\ t < schedule'.next
                           /\ schedule'.enabled = schedule.enabled}

\* docs/schedules.md: "The schedule only advances after the occurrence is
\* complete": wherever a scan stopped before, an instant that the schedule
\* passes has its Work item and candidate, or was skipped on the record.
Decided(t) ==
  \/ occ[t] \in {"skipped", "summary"}
  \/ occ[t] = "materialized" /\ task[t] # "none" /\ t \in candidates
PassesDecided ==
  \A t \in Passed : Decided(t)' \/ \E u \in Passed : u < t /\ occ'[u] = "summary"
NothingPassedOver == [][PassesDecided]_vars

\* "Repeated scans of the same instant therefore cannot duplicate work": a Work
\* item that exists is not created again, which would put it back to `ready`.
TaskKept ==
  \A i \in Ids : task[i] \in {"running", "done", "again"} =>
                  task'[i] \in {"running", "done", "again"}
NoWorkTwice == [][TaskKept]_vars

\* "catch_up -- up to `limit` missed instants fire", also when the scan stops
\* and others, of a backlog that has grown, go on for it.
CatchUpIsBounded ==
  schedule.misfire = "catch_up" =>
    Cardinality({t \in Instants : t >= schedule.next /\ task[t] # "none"}) <= Limit

\* An overlap policy other than `allow` keeps two firings, which are admitted
\* without a review, from running at once; a Run that a person starts again is
\* their own affair.
\* A scan that was stopped breaks it: the next one finishes the pending
\* occurrence, but makes nothing depend on the predecessor.
OneAtATime ==
  stops = 0 /\ schedule.overlap # "allow" /\ schedule.admission = "auto" =>
    \A t, u \in Instants : task[t] = "running" /\ task[u] = "running" => t = u

\* "a crash at any later point leaves a pending record that the next scan
\* completes", also of a schedule that was paused or completed meanwhile.
ScanLeavesNothing ==
  \A p \in Scanners : pc[p] # "idle" /\ pc'[p] = "idle" /\ stops' = stops
                      => \A i \in Ids : occ'[i] # "pending"
NothingLeftPending == [][ScanLeavesNothing]_vars

\* "run_once_now (default) -- one occurrence fires for the latest missed
\* instant": of the instants that the schedule passes the latest has fired.
LatestFires ==
  [][schedule.misfire = "run_once_now" /\ schedule.overlap = "allow" =>
       \A t \in Passed : (\A u \in Passed : u <= t) => task'[t] # "none"]_vars
=============================================================================
