------------------------------ MODULE FlowRun -------------------------------
(***************************************************************************)
(* One Run of a Flow (run/run-flow.ts): the fresh runner, the runners that *)
(* resume the Run, and the operators who cancel it and answer its          *)
(* approvals, all of which meet in the event log alone.  That at most one  *)
(* runner works on a Run at a time is OneRunnerPerRun of RunAdmission.  A  *)
(* step is a piece of a runner between two awaits.                         *)
(*                                                                         *)
(* Left out: what a stage does to the worktree, runtime candidates (the    *)
(* attempts of one stage that follow each other without policy), task      *)
(* plans, the operator's review of a gate, and two operators who answer    *)
(* the same approval at the same instant.                                  *)
(***************************************************************************)
EXTENDS RunLog, Sequences

CONSTANTS
  Order,        \* graph.order, without the finalizer
  Finalizer,    \* the stages with alwaysRun: one or none
  Kind,         \* of a stage of Order: "policy" for agent, judge, command and
                \* gate, "step" for sync, publish and update, or "approval"
  Target,       \* the stage whose rework a stage may request, at most one
  MaxAttempts,  \* maxAttemptsForStage
  MaxResumes, MaxCrashes   \* bounds on runners that resume, and that die

Main == {Order[i] : i \in DOMAIN Order}

\* A finalizer has no stage behind it.  A stage requests the rework of its
\* ancestors or itself; those of kind "step" are left out.
ASSUME FlowAssumption ==
  /\ Order \in Seq(Stages)
  /\ \A i, j \in DOMAIN Order : Order[i] = Order[j] => i = j
  /\ Finalizer \subseteq Stages \ Main /\ Stages = Main \cup Finalizer
  /\ Kind \in [Main -> {"policy", "step", "approval"}]
  /\ Approvals = {s \in Main : Kind[s] = "approval"}
  /\ Target \in [Main -> {{}} \cup {{s} : s \in Main}]
  /\ \A i, j \in DOMAIN Order :
       Order[j] \in Target[Order[i]] => j <= i /\ Kind[Order[j]] = "policy"
  /\ MaxAttempts \in [Main -> Nat \ {0}]
  /\ MaxResumes \in Nat /\ MaxCrashes \in Nat

VARIABLES
  log,        \* the events of the Run, projected
  runner,     \* the runner that works on the Run, or how the last one left
  signal,     \* the runner's cancellation signal
  over,       \* has the Run used up its budget?
  denying,    \* how far the operator who denies an approval has come
  resumes, crashes

vars == <<log, runner, signal, over, denying, resumes, crashes>>
\* What a step of a runner leaves alone.
others == <<signal, over, denying, resumes, crashes>>

\* pc, or how the runner left: "none" before the first, "left", "crash"; i:
\* stageIndex; done: completedStages; tries: attemptsByStage; cont: stages to
\* continue that it has not reached; from: where it was resumed; err: the error
\* that ends it.
Gone == {"none", "left", "crash"}
Pcs == Gone \cup {"top", "run", "post", "policy", "catch", "finalize", "finalizer", "finish"}
Runner ==
  [pc : Pcs, fresh : BOOLEAN, i : 1..Len(Order) + 1, done : SUBSET Stages,
   tries : [Stages -> Nat], cont : SUBSET Stages, from : SUBSET Stages,
   err : {"none", "failed", "blocked", "cancelled"}]
NoRunner ==
  [pc |-> "none", fresh |-> TRUE, i |-> 1, done |-> {},
   tries |-> [s \in Stages |-> 0], cont |-> {}, from |-> {}, err |-> "none"]

TypeOK ==
  /\ log \in Log
  /\ runner \in Runner
  /\ signal \in BOOLEAN /\ over \in BOOLEAN /\ denying \in {"no", "look", "fail"}
  /\ resumes \in 0..MaxResumes /\ crashes \in 0..MaxCrashes

Init ==
  /\ log = NewLog
  /\ runner = NoRunner
  /\ signal = FALSE /\ over = FALSE /\ denying = "no"
  /\ resumes = 0 /\ crashes = 0

----------------------------------------------------------------------------
At(pc) == runner.pc = pc
Here == Order[runner.i]
AtStage(pc, kinds) ==
  At(pc) /\ runner.i <= Len(Order) /\ Kind[Here] \in kinds
Rest(i) == {Order[j] : j \in i..Len(Order)} \cup Finalizer
\* A finalizer is behind all of them.
Index(s) == IF s \in Main THEN CHOOSE i \in DOMAIN Order : Order[i] = s
            ELSE Len(Order) + 1

Goto(pc) == runner' = [runner EXCEPT !.pc = pc]
Throw(err) == runner' = [runner EXCEPT !.pc = "catch", !.err = err]
\* A failed stage takes itself and what follows it out of completedStages.
Invalidated(i) == runner.done \ Rest(i)

Start ==
  /\ At("none")
  /\ Goto("top")
  /\ UNCHANGED <<log, others>>

\* A resumed runner takes its place, its stages and its attempts from the log.
\* Slip: the attempts of the runners before it are not counted.
ResumeAt_Forgets(s, l) ==
  /\ runner' = [NoRunner EXCEPT !.pc = "top", !.fresh = FALSE, !.i = Index(s),
                                !.done = l.done, !.cont = Resumable(l), !.from = {s}]
  /\ log' = l
  /\ resumes < MaxResumes /\ resumes' = resumes + 1
  /\ signal' = FALSE
  /\ UNCHANGED <<over, denying, crashes>>
ResumeAt(s, l) ==
  /\ runner' = [NoRunner EXCEPT !.pc = "top", !.fresh = FALSE, !.i = Index(s),
                                !.done = l.done, !.tries = l.tries,
                                !.cont = Resumable(l), !.from = {s}]
  /\ log' = l
  /\ resumes < MaxResumes /\ resumes' = resumes + 1
  /\ signal' = FALSE
  /\ UNCHANGED <<over, denying, crashes>>

\* Slip: at the first stage, as if nothing were open.
Resume_StartsOver ==
  /\ runner.pc \in Gone \ {"none"}
  /\ Projected(log) # "cancelled"
  /\ Resumable(log) # {} /\ ResumeAt(Order[1], log)
\* A checkpoint may name any resumable stage; the first is the default.
Resume ==
  /\ runner.pc \in Gone \ {"none"}
  /\ Projected(log) # "cancelled"
  /\ \E s \in Resumable(log) : ResumeAt(s, log)

BudgetAllows ==
  /\ Resumable(log) = {}
  /\ log.status = "failed" /\ log.budget /\ ~over
\* Slip: at the first stage that was never begun.
ResumeBudget_Unbegun ==
  /\ runner.pc \in Gone \ {"none"}
  /\ BudgetAllows
  /\ \E i \in DOMAIN Order :
       /\ log.tries[Order[i]] = 0 /\ \A j \in 1..i - 1 : log.tries[Order[j]] > 0
       /\ ResumeAt(Order[i], Resumed(log))
\* At the first stage that is not completed.  The code's second transaction
\* repeats only the test for a cancel, and nothing can come between: no runner
\* is left, a Run that failed is not cancelled, and no approval is pending.
ResumeBudget ==
  /\ runner.pc \in Gone \ {"none"}
  /\ BudgetAllows
  /\ \E i \in DOMAIN Order :
       /\ Order[i] \notin log.done /\ \A j \in 1..i - 1 : Order[j] \in log.done
       /\ ResumeAt(Order[i], Resumed(log))

----------------------------------------------------------------------------
\* A resumed runner first ends the attempt that its predecessor left open.
CloseInterrupted ==
  /\ AtStage("top", {"policy", "step", "approval"}) /\ log.st[Here] = "started"
  /\ ~runner.fresh
  /\ log' = Failed(log, Here)
  /\ UNCHANGED <<runner, others>>

MayBegin(s) == runner.tries[s] < MaxAttempts[s] \/ s \in runner.cont

\* Slip: the attempt is not counted.
BeginPolicy_Uncounted ==
  /\ AtStage("top", {"policy"}) /\ log.st[Here] # "started"
  /\ MayBegin(Here)
  /\ log' = Started(log, Here, runner.tries[Here] + 1)
  /\ runner' = [runner EXCEPT !.cont = @ \ {Here},
                              !.pc = IF signal THEN "catch" ELSE "run",
                              !.err = IF signal THEN "cancelled" ELSE "none"]
  /\ UNCHANGED others
BeginPolicy ==
  /\ AtStage("top", {"policy"}) /\ log.st[Here] # "started"
  /\ MayBegin(Here)
  /\ LET n == runner.tries[Here] + 1 IN
       /\ log' = Started(log, Here, n)
       /\ runner' = [runner EXCEPT !.tries[Here] = n, !.cont = @ \ {Here},
                                   !.pc = IF signal THEN "catch" ELSE "run",
                                   !.err = IF signal THEN "cancelled" ELSE "none"]
  /\ UNCHANGED others

\* The loop ends without a completed attempt.  A resumed runner lets the
\* handler of the stage record it, which trusts a run.failed it finds.
Exhausted ==
  /\ AtStage("top", {"policy"}) /\ log.st[Here] # "started"
  /\ ~MayBegin(Here)
  /\ LET l == IF runner.fresh \/ log.st[Here] = "failed" THEN log
              ELSE Failed(log, Here)
     IN log' = IF ~runner.fresh /\ "failed" \in log.ended THEN l
               ELSE Ended(l, "failed")
  /\ Throw("failed")
  /\ UNCHANGED others

\* A fresh runner uses attempt 1 and creates its directory: a second pass
\* after a rework fails on it.  A resumed one continues a waiting approval.
Collides == runner.fresh /\ log.tries[Here] > 0
Continues == Here \in runner.cont /\ log.st[Here] = "awaiting"
BeginStep ==
  /\ AtStage("top", {"step", "approval"}) /\ log.st[Here] # "started"
  /\ ~Collides
  /\ LET n == IF runner.fresh THEN 1 ELSE log.tries[Here] + 1
     IN log' = IF Continues THEN log ELSE Started(log, Here, n)
  /\ runner' = [runner EXCEPT
       !.cont = @ \ {Here},
       !.pc = IF ~signal THEN "run" ELSE IF runner.fresh THEN "catch" ELSE "left",
       !.err = IF signal /\ runner.fresh THEN "cancelled" ELSE "none"]
  /\ UNCHANGED others

Collide ==
  /\ AtStage("top", {"step", "approval"}) /\ log.st[Here] # "started"
  /\ Collides
  /\ Throw("failed")
  /\ UNCHANGED <<log, others>>

----------------------------------------------------------------------------
\* A stage records its completion; its post hooks follow.
Complete ==
  /\ AtStage("run", {"policy", "step", "approval"})
  /\ Kind[Here] = "approval" => log.verdict[Here] = "approved"
  /\ log' = Completed(log, Here)
  /\ runner' = [runner EXCEPT !.done = @ \cup {Here}, !.pc = "post"]
  /\ UNCHANGED others

Advance ==
  /\ At("post")
  /\ runner' = [runner EXCEPT !.i = @ + 1, !.pc = "top"]
  /\ UNCHANGED <<log, others>>

\* executeApprovalStage: ask once, and leave the Run to the operator.
Await ==
  /\ AtStage("run", {"approval"}) /\ log.verdict[Here] \in {"none", "pending"}
  /\ log' = IF log.verdict[Here] = "none" THEN Asked(log, Here, "pending") ELSE log
  /\ Goto("left")
  /\ UNCHANGED others

\* The stage or one of its hooks throws; an approval does when it was denied, or
\* in the pre hooks of a new attempt.
FailAttempt ==
  /\ AtStage(runner.pc, {"policy", "step", "approval"}) /\ runner.pc \in {"run", "post"}
  /\ At("run") /\ Kind[Here] = "approval" =>
       log.verdict[Here] = "denied" \/ log.st[Here] = "started"
  /\ log' = Failed(log, Here)
  /\ runner' = [runner EXCEPT !.done = Invalidated(runner.i), !.pc = "policy"]
  /\ UNCHANGED others

\* The budget is crossed while the stage runs, or by a stage that completed
\* and keeps its completion.
StopOnBudget ==
  /\ AtStage(runner.pc, {"policy"}) /\ runner.pc \in {"run", "post"}
  /\ over' = TRUE
  /\ log' = BudgetStopped(IF At("post") THEN log ELSE Failed(log, Here))
  /\ runner' = [runner EXCEPT !.pc = "catch", !.err = "failed",
                  !.done = IF At("post") THEN @ ELSE Invalidated(runner.i)]
  /\ UNCHANGED <<signal, denying, resumes, crashes>>

BlockRun ==
  /\ AtStage("run", {"policy"})
  /\ log' = Blocked(log, Here)
  /\ Throw("blocked")
  /\ UNCHANGED others

SeeCancel ==
  /\ runner.pc \in {"run", "post"} /\ signal
  /\ Throw("cancelled")
  /\ UNCHANGED <<log, others>>

----------------------------------------------------------------------------
\* decideStagePolicy and applyFailedStagePolicy.  An edge points backwards, so
\* edges never alternate: of detectReworkOscillation only the third request of
\* the same edge matters.
MayGoOn == Kind[Here] = "policy" /\ runner.tries[Here] < MaxAttempts[Here]

Retry ==
  /\ AtStage("policy", {"policy"}) /\ MayGoOn
  /\ Goto("top")
  /\ UNCHANGED <<log, others>>

RequestRework ==
  /\ AtStage("policy", {"policy"}) /\ MayGoOn
  /\ \E t \in Target[Here] :
       /\ log.edges[Here] < 2
       /\ runner.tries[t] < MaxAttempts[t]
       /\ log' = Reworked(log, Here)
       /\ runner' = [runner EXCEPT !.i = Index(t), !.pc = "top",
                                   !.done = Invalidated(Index(t))]
  /\ UNCHANGED others

\* Fail or escalate: the stage is out of attempts, or the advice says so.
GiveUp ==
  /\ At("policy")
  /\ log' = Ended(log, "failed")
  /\ Throw("failed")
  /\ UNCHANGED others

----------------------------------------------------------------------------
\* The hooks of the Flow: one that fails records run.failed without a look at
\* the log, one that a cancel stops throws.  A resumed runner returns on both.
HookThrows ==
  \/ /\ log' = Ended(log, "failed")
     /\ IF runner.fresh THEN Throw("failed") ELSE Goto("left")
  \/ /\ signal /\ UNCHANGED log
     /\ IF runner.fresh THEN Throw("cancelled") ELSE Goto("left")

\* Before the first stage: the preRun hooks, which no resume repeats.
FailPreRun ==
  /\ AtStage("top", {"policy", "step", "approval"}) /\ runner.fresh
  /\ runner.i = 1 /\ log.tries[Here] = 0
  /\ HookThrows
  /\ UNCHANGED others

\* Behind the last stage: the postRun hooks.
EndLoop ==
  /\ At("top") /\ runner.i > Len(Order)
  /\ IF signal /\ runner.fresh THEN Throw("cancelled") ELSE Goto("finalize")
  /\ UNCHANGED <<log, others>>

FailPostRun ==
  /\ At("top") /\ runner.i > Len(Order)
  /\ HookThrows
  /\ UNCHANGED others

\* The end of a runner that threw.  A fresh one records what the log lacks;
\* blocked credentials, and a cancel of a resumed one, skip the finalizers.
\* Slip: only a cancel is recorded, as if the stage had recorded its failure.
Catch_TrustsStage ==
  /\ At("catch")
  /\ log' = IF log.ended # {} \/ runner.err = "failed"
            THEN log ELSE Ended(log, runner.err)
  /\ \/ (runner.err # "cancelled" \/ runner.fresh) /\ Goto("finalize")
     \/ (runner.err = "blocked" \/ (runner.err = "cancelled" /\ ~runner.fresh))
        /\ Goto("left")
  /\ UNCHANGED others
Catch ==
  /\ At("catch")
  /\ log' = IF log.ended # {} \/ (runner.err = "failed" /\ ~runner.fresh)
            THEN log ELSE Ended(log, runner.err)
  /\ \/ (runner.err # "cancelled" \/ runner.fresh) /\ Goto("finalize")
     \/ (runner.err = "blocked" \/ (runner.err = "cancelled" /\ ~runner.fresh))
        /\ Goto("left")
  /\ UNCHANGED others

\* Slip: the error is forgotten behind the finalizers.
Over_Finishes == "finish"
Over == IF runner.err = "none" THEN "finish" ELSE "left"
SkipFinalizers ==
  /\ At("finalize")
  /\ \/ Finalizer = {} /\ Goto(Over)
     \/ runner.fresh /\ runner.err = "none" /\ signal /\ Goto("left")
  /\ UNCHANGED <<log, others>>

\* Slip: the finalizer is the next stage of the loop.
BeginFinalizer_Advances ==
  /\ At("finalize")
  /\ \E f \in Finalizer :
       LET n == (IF runner.fresh THEN runner.tries[f] ELSE log.tries[f]) + 1 IN
         /\ log' = Started(log, f, n)
         /\ runner' = [runner EXCEPT !.tries[f] = n, !.i = @ + 1, !.pc = "finalizer"]
  /\ UNCHANGED others
BeginFinalizer ==
  /\ At("finalize")
  /\ \E f \in Finalizer :
       LET n == (IF runner.fresh THEN runner.tries[f] ELSE log.tries[f]) + 1 IN
         /\ log' = Started(log, f, n)
         /\ runner' = [runner EXCEPT !.tries[f] = n, !.pc = "finalizer"]
  /\ UNCHANGED others

EndFinalizer ==
  /\ At("finalizer")
  /\ \E f \in Finalizer :
       \/ log' = Completed(log, f)
          /\ runner' = [runner EXCEPT !.done = @ \cup {f}, !.pc = Over]
       \/ log' = Failed(log, f)
          /\ Goto(Over)
  /\ UNCHANGED others

\* One transaction tests the projection and records the completion.
FinishRun ==
  /\ At("finish")
  /\ log' = IF log.status = "cancelled" THEN log ELSE Ended(log, "completed")
  /\ Goto("left")
  /\ UNCHANGED others

----------------------------------------------------------------------------
\* control.ts: cancelRun tests and appends in one transaction, then signals
\* the runner if it is one of this process.
CancelRun ==
  /\ Projected(log) \notin {"completed", "failed", "cancelled"}
  /\ log' = Ended(log, "cancelled")
  /\ signal' \in {signal, runner.pc \notin Gone \ {"none"}}
  /\ UNCHANGED <<runner, over, denying, resumes, crashes>>

ApproveRun ==
  /\ \E a \in Approvals :
       log.verdict[a] = "pending" /\ log' = Asked(log, a, "approved")
  /\ UNCHANGED <<runner, others>>

\* denyRunApproval: the verdict, then a look at the log, then run.failed.
DenyApproval ==
  /\ denying = "no" /\ denying' = "look"
  /\ \E a \in Approvals :
       log.verdict[a] = "pending" /\ log' = Asked(log, a, "denied")
  /\ UNCHANGED <<runner, signal, over, resumes, crashes>>
LookAtDenied ==
  /\ denying = "look"
  /\ denying' = IF log.status \in Ends THEN "no" ELSE "fail"
  /\ UNCHANGED <<log, runner, signal, over, resumes, crashes>>
FailDenied ==
  /\ denying = "fail" /\ denying' = "no"
  /\ log' = Ended(log, "failed")
  /\ UNCHANGED <<runner, signal, over, resumes, crashes>>

RaiseCap ==
  /\ over /\ over' = FALSE
  /\ UNCHANGED <<log, runner, signal, denying, resumes, crashes>>

Crash ==
  /\ runner.pc \notin Gone
  /\ crashes < MaxCrashes /\ crashes' = crashes + 1
  /\ Goto("crash")
  /\ UNCHANGED <<log, signal, over, denying, resumes>>

Run ==
  \/ CloseInterrupted \/ BeginPolicy \/ Exhausted \/ BeginStep \/ Collide
  \/ Complete \/ Advance \/ Await \/ FailAttempt \/ StopOnBudget \/ BlockRun
  \/ SeeCancel \/ Retry \/ RequestRework \/ GiveUp
  \/ FailPreRun \/ EndLoop \/ FailPostRun \/ Catch
  \/ SkipFinalizers \/ BeginFinalizer \/ EndFinalizer \/ FinishRun
Operate == CancelRun \/ ApproveRun \/ DenyApproval \/ LookAtDenied \/ FailDenied \/ RaiseCap

Next == Start \/ Resume \/ ResumeBudget \/ Run \/ Operate \/ Crash

\* A runner goes on while its process lives: stages have timeouts.
Fairness == WF_vars(Run)
Spec == Init /\ [][Next]_vars
FairSpec == Spec /\ Fairness
=============================================================================
