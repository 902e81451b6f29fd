------------------------------ MODULE MCSettles ------------------------------
(* Promises that something happens in the end, in one of three settings:    *)
(*   intake   a web server, two activations of an issue, d2 the newer, and  *)
(*            a review comment (WebhookIntake);                             *)
(*   cancel   a starter, an operator who cancels and a scheduler that       *)
(*            reconciles, with one exception of a store (RunAdmission);     *)
(*   flow     a Run of a stage and of a judge that may request its rework,  *)
(*            without a finalizer (FlowRun).                                *)
(* The components that are not chosen stay in their initial states.         *)
EXTENDS WebhookIntakeProps, TLC

CONSTANTS d1, d2, c1, p1, p2, p3, i1, r1, NoItem, NoRun

MCDeliveries == {d1, d2, c1}
MCProcs == {p1}
MCKind == (d1 :> "issue") @@ (d2 :> "issue") @@ (c1 :> "comment")
MCDomain == (d1 :> "issue") @@ (d2 :> "issue") @@ (c1 :> "c1")
MCCursor == (d1 :> 1) @@ (d2 :> 2) @@ (c1 :> 1)

VARIABLES setting, log, runner, signal, over, denying, resumes, crashes,
  ledger, items, evt, quiet, pr, continuation, stale, at, locals, failed

Cancel == INSTANCE RunAdmissionProps WITH
  Items <- {i1}, Runs <- {r1}, Procs <- {p1, p2, p3}, Deps <- (i1 :> {}),
  Roles <- (p1 :> {"admit"}) @@ (p2 :> {"cancel"}) @@ (p3 :> {"reconcile"}),
  Outcomes <- {"completed", "failed"}, MaxEdits <- 0, MaxFaults <- 1, MaxCrashes <- 0,
  record <- items, pc <- at, loc <- locals, faults <- failed

FlowStages == {"implement", "judge"}
Flow == INSTANCE FlowRunProps WITH
  Stages <- FlowStages, Order <- <<"implement", "judge">>, Finalizer <- {},
  Approvals <- {}, Kind <- [s \in FlowStages |-> "policy"],
  Target <- ("implement" :> {}) @@ ("judge" :> {"implement"}),
  MaxAttempts <- [s \in FlowStages |-> 3], MaxResumes <- 1, MaxCrashes <- 1

cancelVars ==
  <<ledger, items, evt, quiet, pr, continuation, stale, at, locals, failed>>
flowVars == <<log, runner, signal, over, denying, resumes, crashes>>
allVars == <<setting, vars, cancelVars, flowVars>>

SettlesInit ==
  setting \in {"intake", "cancel", "flow"} /\ Init /\ Cancel!Init /\ Flow!Init

InIntake(A) == setting = "intake" /\ A /\ UNCHANGED <<setting, cancelVars, flowVars>>
InCancel(A) == setting = "cancel" /\ A /\ UNCHANGED <<setting, vars, flowVars>>
InFlow(A) == setting = "flow" /\ A /\ UNCHANGED <<setting, vars, cancelVars>>
SettlesNext == InIntake(Next) \/ InCancel(Cancel!Next) \/ InFlow(Flow!Next)

\* The fairness of each component.
SettlesFair ==
  /\ \A p \in MCProcs : WF_allVars(InIntake(Handle(p))) /\ WF_allVars(InIntake(Drain(p)))
  /\ \A p \in {p1, p2, p3} : WF_allVars(InCancel(Cancel!Step(p)))
  /\ WF_allVars(InCancel(Cancel!StartReconcile(p3, i1)))
  /\ WF_allVars(InFlow(Flow!Run))
SettlesSpec == SettlesInit /\ [][SettlesNext]_allVars /\ SettlesFair

\* Of RunAdmissionProps and of FlowRunProps.
EndedRunLeavesRunning == Cancel!EndedRunLeavesRunning
RunnerReturns == Flow!RunnerReturns
=============================================================================
