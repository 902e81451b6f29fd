------------------------------- MODULE RunLog -------------------------------
(***************************************************************************)
(* What run/project.ts makes of the events of one Run, kept as a record:   *)
(* an operator for each event the runner and the control plane append.  It *)
(* holds no state of its own.                                              *)
(***************************************************************************)
EXTENDS Naturals, FiniteSets

CONSTANTS
  Stages,      \* the stages of the Flow, finalizers included
  Approvals    \* those that wait for an operator

Ends == {"completed", "failed", "blocked", "cancelled"}
RunStatus == Ends \cup {"created", "running", "awaiting"}
StageStatus == {"pending", "started", "completed", "failed", "blocked", "awaiting"}

\* st, tries: status and number of the latest attempt; done: completedStages;
\* verdict: of the approval of the latest attempt; ended: the run.* ends that
\* were ever appended; budget: is the latest run.failed one of a budget?
\* resumed: was there a run.resumed?  edges: rework requests of a stage.
NewLog ==
  [status |-> "created", st |-> [s \in Stages |-> "pending"],
   tries |-> [s \in Stages |-> 0], done |-> {},
   verdict |-> [s \in Approvals |-> "none"], ended |-> {}, budget |-> FALSE,
   resumed |-> FALSE, edges |-> [s \in Stages |-> 0]]

Log ==
  [status : RunStatus, st : [Stages -> StageStatus], tries : [Stages -> Nat],
   done : SUBSET Stages,
   verdict : [Approvals -> {"none", "pending", "approved", "denied"}],
   ended : SUBSET Ends, budget : BOOLEAN, resumed : BOOLEAN,
   edges : [Stages -> Nat]]

\* Slip: a new attempt keeps the verdict on the one before it.
Started_KeepsVerdict(l, s, n) ==
  [l EXCEPT !.st[s] = "started", !.tries[s] = IF n > @ THEN n ELSE @,
            !.status = IF @ = "created" THEN "running" ELSE @]
Started(l, s, n) ==
  [l EXCEPT !.st[s] = "started", !.tries[s] = IF n > @ THEN n ELSE @,
            !.status = IF @ = "created" THEN "running" ELSE @,
            !.verdict = [a \in Approvals |-> IF a = s THEN "none" ELSE @[a]]]
Completed(l, s) == [l EXCEPT !.st[s] = "completed", !.done = @ \cup {s}]
Failed(l, s) == [l EXCEPT !.st[s] = "failed", !.done = @ \ {s}]
Reworked(l, s) == [l EXCEPT !.edges[s] = @ + 1]

\* approval.requested and approval.resolved leave the attempt waiting.
Asked(l, s, v) ==
  [l EXCEPT !.st[s] = "awaiting", !.verdict[s] = v,
            !.status = IF @ \in Ends THEN @ ELSE "awaiting"]

\* run.completed, run.failed and run.cancelled.
Ended(l, end) ==
  [l EXCEPT !.status = end, !.ended = @ \cup {end},
            !.budget = IF end = "failed" THEN FALSE ELSE @]
BudgetStopped(l) == [Ended(l, "failed") EXCEPT !.budget = TRUE]
\* stage.blocked, then run.blocked.
Blocked(l, s) == Ended([l EXCEPT !.st[s] = "blocked", !.done = @ \ {s}], "blocked")
Resumed(l) == [l EXCEPT !.status = "running", !.resumed = TRUE]

\* With openAttemptStatus "interrupted": an attempt nobody ended.
Resumable(l) == {s \in Stages : l.st[s] \in {"started", "blocked", "awaiting"}}
Projected(l) ==
  IF l.status \in {"created", "running"} /\ \E s \in Stages : l.st[s] = "started"
  THEN "interrupted" ELSE l.status
=============================================================================
