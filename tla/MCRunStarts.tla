----------------------------- MODULE MCRunStarts -----------------------------
(* How Runs start and how one proceeds, in one of four settings:            *)
(*   flow    FlowRun on a Flow of a stage, a sync, a gate, an approval and  *)
(*           a judge, and a finalizer; gate and judge may request rework;   *)
(* and RunAdmission beyond the two starters of MCRunAdmission, each setting *)
(* with processes of its own:                                               *)
(*   resume  a Run that may block, two schedulers that resume it, a cancel; *)
(*   race    the same with another start for one of the schedulers, no cancel;*)
(*   items   two items, the second depending on the first.                  *)
(* What a setting does not use stays in its initial state.                  *)
EXTENDS FlowRunProps, TLC

CONSTANTS implement, sync, gate, approve, judge, reflect

MCOrder == <<implement, sync, gate, approve, judge>>
MCStages == {implement, sync, gate, approve, judge, reflect}
MCKind == (implement :> "policy") @@ (sync :> "step") @@ (gate :> "policy")
          @@ (approve :> "approval") @@ (judge :> "policy")
MCTarget == (implement :> {implement}) @@ (sync :> {}) @@ (gate :> {implement})
            @@ (approve :> {}) @@ (judge :> {implement})
MCMaxAttempts == [s \in Main |-> 2]

CONSTANTS i1, i2, r1, r2, p1, p2, p3, NoItem, NoRun, NoProc

VARIABLES setting, ledger, record, evt, quiet, pr, continuation, stale, pc, loc, faults

AllOutcomes == {"completed", "failed", "blocked"}

Resuming == INSTANCE RunAdmissionProps WITH
  Items <- {i1}, Runs <- {r1}, Procs <- {p1, p2, p3}, Deps <- (i1 :> {}),
  Roles <- (p1 :> {"admit"}) @@ (p2 :> {"resume"})
           @@ (p3 :> {"resume", "reconcile", "cancel"}),
  Outcomes <- AllOutcomes, MaxEdits <- 0, MaxFaults <- 0, MaxCrashes <- 0
Racing == INSTANCE RunAdmissionProps WITH
  Items <- {i1}, Runs <- {r1, r2}, Procs <- {p1, p2, p3}, Deps <- (i1 :> {}),
  Roles <- (p1 :> {"admit"}) @@ (p2 :> {"resume"})
           @@ (p3 :> {"admit"}),
  Outcomes <- AllOutcomes, MaxEdits <- 0, MaxFaults <- 0, MaxCrashes <- 0
Depending == INSTANCE RunAdmissionProps WITH
  Items <- {i1, i2}, Runs <- {r1, r2}, Procs <- {p1, p2}, Deps <- (i1 :> {}) @@ (i2 :> {i1}),
  Roles <- (p1 :> {"admit"}) @@ (p2 :> {"admit", "reconcile"}),
  Outcomes <- {"completed", "failed"}, MaxEdits <- 0, MaxFaults <- 0, MaxCrashes <- 0

admissionVars == <<ledger, record, evt, quiet, pr, continuation, stale, pc, loc, faults>>

StartsInit ==
  /\ Init
  /\ \/ setting \in {"flow", "resume"} /\ Resuming!Init
     \/ setting = "race" /\ Racing!Init
     \/ setting = "items" /\ Depending!Init
StartsNext ==
  /\ UNCHANGED setting
  /\ \/ setting = "flow" /\ Next /\ UNCHANGED admissionVars
     \/ setting = "resume" /\ Resuming!Next /\ UNCHANGED vars
     \/ setting = "race" /\ Racing!Next /\ UNCHANGED vars
     \/ setting = "items" /\ Depending!Next /\ UNCHANGED vars
StartsSpec == StartsInit /\ [][StartsNext]_<<setting, vars, admissionVars>>

\* The properties of RunAdmissionProps, each in the settings that put it at risk.
\* Resumes: one runner works on a Run, and a settler keeps its row, whoever
\* resumes or cancels.
ResumesAreFenced ==
  setting = "resume" => Resuming!OneRunnerPerRun /\ Resuming!SettlerHoldsRow
\* Starts: a Run executes for the item that shows it, and a snapshot starts one
\* Run, whoever else starts or resumes.
StartsAreFenced ==
  /\ setting = "race" => Racing!ExecutingRunOwnsItem
  /\ setting = "items" => Depending!SnapshotRunsOnce

RunSymmetry == Permutations({r1, r2})
=============================================================================
