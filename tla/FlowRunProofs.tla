--------------------------- MODULE FlowRunProofs ----------------------------
(***************************************************************************)
(* Theorems about FlowRun for every Flow, every limit on attempts and any  *)
(* number of resumes and crashes: its types, that a runner has behind it   *)
(* only completed stages, and that run.completed stands for every stage.   *)
(* The invariant adds what the log says of open attempts: at most one stage *)
(* of the order is open, it is the one the runner is at, and a resume at it *)
(* therefore passes over completed stages alone.                           *)
(***************************************************************************)
EXTENDS FlowRunProps, TLAPS

----------------------------------------------------------------------------
(* The records that the events of the log make.                            *)

LEMMA StartedLog ==
  ASSUME NEW l \in Log, NEW s \in Stages, NEW n \in Nat
  PROVE  /\ Started(l, s, n) \in Log
         /\ Started(l, s, n).st = [l.st EXCEPT ![s] = "started"]
         /\ Started(l, s, n).done = l.done
         /\ Started(l, s, n).ended = l.ended
         /\ Started(l, s, n).status = l.status \/ Started(l, s, n).status = "running"
         /\ \A a \in Approvals : Started(l, s, n).verdict[a] # "none" =>
              a # s /\ Started(l, s, n).verdict[a] = l.verdict[a]
<1> DEFINE V == [a \in Approvals |-> IF a = s THEN "none" ELSE l.verdict[a]]
           T == [l.tries EXCEPT ![s] = IF n > @ THEN n ELSE @]
           S == IF l.status = "created" THEN "running" ELSE l.status
<1>1. V \in [Approvals -> {"none", "pending", "approved", "denied"}]
  BY DEF Log
<1>2. T \in [Stages -> Nat]
  BY DEF Log
<1>3. S \in RunStatus
  BY DEF Log, RunStatus
<1>4. [l.st EXCEPT ![s] = "started"] \in [Stages -> StageStatus]
  BY DEF Log, StageStatus
<1>5. Started(l, s, n) =
        [l EXCEPT !.st = [l.st EXCEPT ![s] = "started"], !.tries = T,
                  !.status = S, !.verdict = V]
  BY DEF Started, Log
<1> HIDE DEF V, T, S
<1>6. /\ Started(l, s, n) \in Log
      /\ Started(l, s, n).st = [l.st EXCEPT ![s] = "started"]
      /\ Started(l, s, n).done = l.done
      /\ Started(l, s, n).ended = l.ended
      /\ Started(l, s, n).status = S /\ Started(l, s, n).verdict = V
  BY <1>1, <1>2, <1>3, <1>4, <1>5 DEF Log
<1>7. QED
  BY <1>6 DEF V, S

LEMMA CompletedLog ==
  ASSUME NEW l \in Log, NEW s \in Stages
  PROVE  /\ Completed(l, s) \in Log
         /\ Completed(l, s).st = [l.st EXCEPT ![s] = "completed"]
         /\ Completed(l, s).done = l.done \cup {s}
         /\ Completed(l, s).ended = l.ended
         /\ Completed(l, s).status = l.status
         /\ Completed(l, s).verdict = l.verdict
  BY DEF Completed, Log, StageStatus

LEMMA FailedLog ==
  ASSUME NEW l \in Log, NEW s \in Stages
  PROVE  /\ Failed(l, s) \in Log
         /\ Failed(l, s).st = [l.st EXCEPT ![s] = "failed"]
         /\ Failed(l, s).done = l.done \ {s}
         /\ Failed(l, s).ended = l.ended
         /\ Failed(l, s).status = l.status
         /\ Failed(l, s).verdict = l.verdict
  BY DEF Failed, Log, StageStatus

LEMMA ReworkedLog ==
  ASSUME NEW l \in Log, NEW s \in Stages
  PROVE  /\ Reworked(l, s) \in Log
         /\ Reworked(l, s).st = l.st
         /\ Reworked(l, s).done = l.done
         /\ Reworked(l, s).ended = l.ended
         /\ Reworked(l, s).status = l.status
         /\ Reworked(l, s).verdict = l.verdict
  BY DEF Reworked, Log

LEMMA AskedLog ==
  ASSUME NEW l \in Log, NEW a \in Approvals, Approvals \subseteq Stages,
         NEW v \in {"none", "pending", "approved", "denied"}
  PROVE  /\ Asked(l, a, v) \in Log
         /\ Asked(l, a, v).st = [l.st EXCEPT ![a] = "awaiting"]
         /\ Asked(l, a, v).done = l.done
         /\ Asked(l, a, v).ended = l.ended
         /\ Asked(l, a, v).status = l.status \/ Asked(l, a, v).status = "awaiting"
         /\ Asked(l, a, v).verdict = [l.verdict EXCEPT ![a] = v]
  BY DEF Asked, Log, StageStatus, RunStatus, Ends

LEMMA EndedLog ==
  ASSUME NEW l \in Log, NEW end \in Ends
  PROVE  /\ Ended(l, end) \in Log
         /\ Ended(l, end).st = l.st
         /\ Ended(l, end).done = l.done
         /\ Ended(l, end).status = end
         /\ Ended(l, end).verdict = l.verdict
  BY DEF Ended, Log, RunStatus

LEMMA BudgetStoppedLog ==
  ASSUME NEW l \in Log
  PROVE  /\ BudgetStopped(l) \in Log
         /\ BudgetStopped(l).st = l.st
         /\ BudgetStopped(l).done = l.done
         /\ BudgetStopped(l).status = "failed"
         /\ BudgetStopped(l).verdict = l.verdict
  BY DEF BudgetStopped, Ended, Log, RunStatus, Ends

LEMMA BlockedLog ==
  ASSUME NEW l \in Log, NEW s \in Stages
  PROVE  /\ Blocked(l, s) \in Log
         /\ Blocked(l, s).st = [l.st EXCEPT ![s] = "blocked"]
         /\ Blocked(l, s).done = l.done \ {s}
         /\ Blocked(l, s).status = "blocked"
         /\ Blocked(l, s).verdict = l.verdict
  BY DEF Blocked, Ended, Log, StageStatus, RunStatus, Ends

LEMMA ResumedLog ==
  ASSUME NEW l \in Log
  PROVE  /\ Resumed(l) \in Log
         /\ Resumed(l).st = l.st
         /\ Resumed(l).done = l.done
         /\ Resumed(l).ended = l.ended
         /\ Resumed(l).status = "running"
         /\ Resumed(l).verdict = l.verdict
         /\ Resumed(l).tries = l.tries
  BY DEF Resumed, Log, RunStatus, Ends

----------------------------------------------------------------------------
(* The inductive invariant.                                                *)

Open(k) == log.st[Order[k]] \in {"started", "blocked", "awaiting"}
IsDone(k) == Order[k] \in log.done

\* Where a runner may stand.
Placed ==
  /\ runner.pc \in {"run", "post", "policy"} => runner.i \in DOMAIN Order
  /\ runner.pc \in {"top", "run", "post", "policy", "finish"} => runner.err = "none"
  /\ runner.pc = "catch" => runner.err # "none"
  /\ runner.pc \in {"finalize", "finalizer", "finish"} /\ runner.err = "none"
       => runner.i = Len(Order) + 1
  /\ runner.pc \notin Gone /\ FromFinalizer => runner.i = Len(Order) + 1
  /\ runner.pc = "none" => runner = NoRunner /\ \A k \in DOMAIN Order : ~Open(k)
\* What the log says of the stage it stands at.
Reported ==
  /\ runner.pc = "post" => log.st[Here] = "completed" /\ Here \in log.done
  /\ runner.pc = "policy" => log.st[Here] = "failed"
Waiting == \A a \in Approvals : log.verdict[a] = "pending" => log.st[a] = "awaiting"
\* One stage at most is open, and every stage before it is completed.
OpenIsNext ==
  \A k \in DOMAIN Order : Open(k) =>
    /\ \A j \in 1..k - 1 : IsDone(j)
    /\ \A j \in DOMAIN Order : Open(j) => j = k
OpenIsHere ==
  runner.pc \notin Gone /\ ~FromFinalizer =>
    \A k \in DOMAIN Order : Open(k) => k = runner.i

IInv ==
  /\ TypeOK /\ Placed /\ Reported /\ Waiting
  /\ OpenIsNext /\ OpenIsHere /\ PassedStagesAreDone

LEMMA FlowFacts ==
  /\ Len(Order) \in Nat /\ DOMAIN Order = 1..Len(Order)
  /\ \A k \in DOMAIN Order : Order[k] \in Main
  /\ \A s \in Main : \E k \in DOMAIN Order : Order[k] = s
  /\ \A j, k \in DOMAIN Order : Order[j] = Order[k] => j = k
  /\ Main \subseteq Stages /\ Approvals \subseteq Main
  /\ \A s \in Main : s \in Approvals <=> Kind[s] = "approval"
  /\ Finalizer \subseteq Stages /\ \A f \in Finalizer : f \notin Main
  BY FlowAssumption DEF FlowAssumption, Main

LEMMA IndexOf ==
  /\ \A s \in Main : Index(s) \in DOMAIN Order /\ Order[Index(s)] = s
  /\ \A s \in Stages \ Main : Index(s) = Len(Order) + 1
  /\ \A s \in Stages : Index(s) \in 1..Len(Order) + 1
  BY FlowFacts DEF Index, Main

\* A step of the runner on the stage it stands at leaves the other stages
\* alone.
LEMMA StepHere ==
  ASSUME IInv, runner.pc \notin Gone, runner.err = "none",
         runner.i \in DOMAIN Order,
         \A s \in Main \ {Here} : log'.st[s] = log.st[s],
         \A s \in Main \ {Here} : s \in log'.done <=> s \in log.done,
         runner'.i = runner.i, runner'.from = runner.from
  PROVE  OpenIsNext' /\ OpenIsHere' /\ PassedStagesAreDone'
<1>1. ~FromFinalizer /\ FromFinalizer' = FromFinalizer
  BY FlowFacts DEF IInv, Placed, FromFinalizer
<1>2. ASSUME NEW k \in DOMAIN Order, k # runner.i
      PROVE  Open(k)' = Open(k) /\ IsDone(k)' = IsDone(k)
  BY <1>2, FlowFacts DEF Here, Open, IsDone
<1>3. \A k \in DOMAIN Order : Open(k) => k = runner.i
  BY <1>1 DEF IInv, OpenIsHere
<1>4. \A j \in 1..runner.i - 1 : IsDone(j)
  BY <1>1 DEF IInv, PassedStagesAreDone, IsDone
<1>5. \A k \in DOMAIN Order : Open(k)' => k = runner.i
  BY <1>2, <1>3
<1>6. \A j \in 1..runner.i - 1 : IsDone(j)'
  BY <1>2, <1>4, FlowFacts
<1>7. QED
  BY <1>5, <1>6 DEF OpenIsNext, OpenIsHere, PassedStagesAreDone, IsDone, Open

\* A step that leaves every stage but the finalizer alone.
LEMMA StepElsewhere ==
  ASSUME IInv,
         \A s \in Main : log'.st[s] = log.st[s],
         \A s \in Main : s \in log.done => s \in log'.done,
         runner'.i = runner.i, runner'.from = runner.from,
         runner'.err = "none" => runner.err = "none",
         runner'.pc \notin Gone => runner.pc \notin Gone
  PROVE  OpenIsNext' /\ OpenIsHere' /\ PassedStagesAreDone'
<1>1. FromFinalizer' = FromFinalizer
  BY DEF FromFinalizer
<1>2. \A k \in DOMAIN Order : Open(k)' = Open(k) /\ (IsDone(k) => IsDone(k)')
  BY FlowFacts DEF Open, IsDone
<1>3. OpenIsNext'
  BY <1>2, FlowFacts DEF IInv, OpenIsNext, Open, IsDone
<1>4. OpenIsHere'
  BY <1>1, <1>2 DEF IInv, OpenIsHere
<1>5. PassedStagesAreDone'
  <2>1. runner.i \in 1..Len(Order) + 1
    BY DEF IInv, TypeOK, Runner
  <2>2. QED
    BY <1>1, <1>2, <2>1, FlowFacts DEF IInv, PassedStagesAreDone, IsDone
<1>6. QED
  BY <1>3, <1>4, <1>5

\* What the log of the next state may say of run.completed.
Unrecorded ==
  \/ log' = log
  \/ log'.status # "completed"
  \/ log'.status = log.status /\ log'.ended = log.ended


LEMMA AtStageFacts ==
  ASSUME IInv, runner.pc \in {"top", "run", "post", "policy"},
         runner.i <= Len(Order)
  PROVE  /\ runner.i \in DOMAIN Order /\ Here \in Main /\ Here \in Stages
         /\ runner.err = "none" /\ runner.pc \notin Gone
         /\ log \in Log /\ runner \in Runner
         /\ log.st \in [Stages -> StageStatus]
  BY FlowFacts DEF IInv, Placed, TypeOK, Runner, Log, Here, Gone

----------------------------------------------------------------------------
(* The steps of a runner.                                                  *)

LEMMA CloseInterruptedKeeps ==
  ASSUME IInv, CloseInterrupted PROVE IInv' /\ Unrecorded
<1>1. runner.pc \in {"top", "run", "post", "policy"} /\ runner.i <= Len(Order)
  BY DEF CloseInterrupted, AtStage, At
<1>2. /\ runner.i \in DOMAIN Order /\ Here \in Main /\ Here \in Stages
      /\ runner.err = "none" /\ runner.pc \notin Gone
      /\ log \in Log /\ runner \in Runner
      /\ log.st \in [Stages -> StageStatus]
  BY <1>1, AtStageFacts
<1>3. /\ log' \in Log /\ log'.st = [log.st EXCEPT ![Here] = "failed"]
      /\ log'.done = log.done \ {Here}
      /\ log'.verdict = log.verdict
      /\ log'.ended = log.ended /\ log'.status = log.status
  BY <1>2, FailedLog DEF CloseInterrupted
<1>4. /\ runner' = runner /\ runner.pc = "top"
      /\ log.st[Here] = "started"
      /\ UNCHANGED others
  BY DEF CloseInterrupted, AtStage, At
<1>5. TypeOK'
  BY <1>2, <1>3, <1>4 DEF IInv, TypeOK, others
<1>6. OpenIsNext' /\ OpenIsHere' /\ PassedStagesAreDone'
  BY <1>2, <1>3, <1>4, StepHere, FlowFacts
<1>7. Placed'
  BY <1>2, <1>4, FlowFacts DEF IInv, Placed, FromFinalizer, Gone
<1>8. Reported'
  BY <1>2, <1>3, <1>4 DEF IInv, Reported, Here
<1>9. Waiting'
  BY <1>2, <1>3, <1>4, FlowFacts DEF IInv, Waiting
<1>10. QED
  BY <1>3, <1>5, <1>6, <1>7, <1>8, <1>9 DEF IInv, Unrecorded

LEMMA BeginPolicyKeeps ==
  ASSUME IInv, BeginPolicy PROVE IInv' /\ Unrecorded
<1>1. runner.pc \in {"top", "run", "post", "policy"} /\ runner.i <= Len(Order)
  BY DEF BeginPolicy, AtStage, At
<1>2. /\ runner.i \in DOMAIN Order /\ Here \in Main /\ Here \in Stages
      /\ runner.err = "none" /\ runner.pc \notin Gone
      /\ log \in Log /\ runner \in Runner
      /\ log.st \in [Stages -> StageStatus]
  BY <1>1, AtStageFacts
<1>3. /\ log' \in Log /\ log'.st = [log.st EXCEPT ![Here] = "started"]
      /\ log'.done = log.done
      /\ log'.ended = log.ended
      /\ log'.status = log.status \/ log'.status = "running"
      /\ \A a \in Approvals : log'.verdict[a] # "none" =>
              a # Here /\ log'.verdict[a] = log.verdict[a]
  <2>1. runner.tries[Here] + 1 \in Nat
    BY <1>2 DEF Runner
  <2>2. log' = Started(log, Here, runner.tries[Here] + 1)
    BY DEF BeginPolicy
  <2>3. QED
    BY <1>2, <2>1, <2>2, StartedLog
<1>4. /\ runner' \in Runner /\ runner'.i = runner.i /\ runner'.from = runner.from
      /\ \/ runner'.pc = "catch" /\ runner'.err = "cancelled"
         \/ runner'.pc = "run" /\ runner'.err = "none"
      /\ UNCHANGED others
  <2> DEFINE n == runner.tries[Here] + 1
             T == [runner.tries EXCEPT ![Here] = n]
  <2>1. T \in [Stages -> Nat] /\ runner.cont \ {Here} \in SUBSET Stages
    BY <1>2 DEF Runner
  <2>2. runner' = [runner EXCEPT !.tries = T, !.cont = @ \ {Here},
                                 !.pc = IF signal THEN "catch" ELSE "run",
                                 !.err = IF signal THEN "cancelled" ELSE "none"]
    BY <1>2 DEF BeginPolicy, Runner
  <2>3. UNCHANGED others
    BY DEF BeginPolicy
  <2> HIDE DEF T
  <2>4. QED
    BY <1>2, <2>1, <2>2, <2>3 DEF Runner, Pcs
<1>5. TypeOK'
  BY <1>2, <1>3, <1>4 DEF IInv, TypeOK, others
<1>6. OpenIsNext' /\ OpenIsHere' /\ PassedStagesAreDone'
  BY <1>2, <1>3, <1>4, StepHere, FlowFacts
<1>7. Placed'
  BY <1>2, <1>4, FlowFacts DEF IInv, Placed, FromFinalizer, Gone
<1>8. Reported'
  BY <1>2, <1>3, <1>4 DEF IInv, Reported, Here
<1>9. Waiting'
  BY <1>2, <1>3, <1>4, FlowFacts DEF IInv, Waiting
<1>10. QED
  BY <1>3, <1>5, <1>6, <1>7, <1>8, <1>9 DEF IInv, Unrecorded

LEMMA BeginStepKeeps ==
  ASSUME IInv, BeginStep PROVE IInv' /\ Unrecorded
<1>1. runner.pc \in {"top", "run", "post", "policy"} /\ runner.i <= Len(Order)
  BY DEF BeginStep, AtStage, At
<1>2. /\ runner.i \in DOMAIN Order /\ Here \in Main /\ Here \in Stages
      /\ runner.err = "none" /\ runner.pc \notin Gone
      /\ log \in Log /\ runner \in Runner
      /\ log.st \in [Stages -> StageStatus]
  BY <1>1, AtStageFacts
<1>3. /\ log' \in Log /\ log'.done = log.done
      /\ log'.ended = log.ended
      /\ log'.status = log.status \/ log'.status = "running"
      /\ \A s \in Stages \ {Here} : log'.st[s] = log.st[s]
      /\ \A a \in Approvals : log'.verdict[a] = "pending" =>
              log'.st[a] = log.st[a] /\ log'.verdict[a] = log.verdict[a]
  <2>1. CASE log' = log
    BY <1>2, <2>1
  <2>2. CASE log' # log
    <3> DEFINE n == IF runner.fresh THEN 1 ELSE log.tries[Here] + 1
    <3>1. n \in Nat
      BY <1>2 DEF Log
    <3>2. log' = Started(log, Here, n)
      BY <2>2 DEF BeginStep
    <3> HIDE DEF n
    <3>3. /\ log' \in Log /\ log'.done = log.done /\ log'.ended = log.ended
          /\ log'.status = log.status \/ log'.status = "running"
          /\ log'.st = [log.st EXCEPT ![Here] = "started"]
          /\ \A a \in Approvals : log'.verdict[a] # "none" =>
               a # Here /\ log'.verdict[a] = log.verdict[a]
      BY <1>2, <3>1, <3>2, StartedLog
    <3>4. QED
      BY <1>2, <3>3, FlowFacts
  <2>3. QED
    BY <2>1, <2>2
<1>4. /\ runner' \in Runner /\ runner'.i = runner.i /\ runner'.from = runner.from
      /\ \/ runner'.pc = "catch" /\ runner'.err = "cancelled"
         \/ runner'.pc \in {"run", "left"} /\ runner'.err = "none"
      /\ UNCHANGED others
  <2>1. runner.cont \ {Here} \in SUBSET Stages
    BY <1>2 DEF Runner
  <2>2. UNCHANGED others
    BY DEF BeginStep
  <2>3. signal /\ runner.fresh =>
          runner' = [runner EXCEPT !.cont = @ \ {Here}, !.pc = "catch", !.err = "cancelled"]
    BY DEF BeginStep
  <2>4. ~signal =>
          runner' = [runner EXCEPT !.cont = @ \ {Here}, !.pc = "run", !.err = "none"]
    BY DEF BeginStep
  <2>5. signal /\ ~runner.fresh =>
          runner' = [runner EXCEPT !.cont = @ \ {Here}, !.pc = "left", !.err = "none"]
    BY DEF BeginStep
  <2>6. QED
    BY <1>2, <2>1, <2>2, <2>3, <2>4, <2>5 DEF Runner, Pcs, Gone
<1>5. TypeOK'
  BY <1>2, <1>3, <1>4 DEF IInv, TypeOK, others
<1>6. OpenIsNext' /\ OpenIsHere' /\ PassedStagesAreDone'
  BY <1>2, <1>3, <1>4, StepHere, FlowFacts
<1>7. Placed'
  BY <1>2, <1>4, FlowFacts DEF IInv, Placed, FromFinalizer, Gone
<1>8. Reported'
  BY <1>2, <1>3, <1>4 DEF IInv, Reported, Here
<1>9. Waiting'
  BY <1>2, <1>3, <1>4, FlowFacts DEF IInv, Waiting
<1>10. QED
  BY <1>3, <1>5, <1>6, <1>7, <1>8, <1>9 DEF IInv, Unrecorded

LEMMA CollideKeeps ==
  ASSUME IInv, Collide PROVE IInv' /\ Unrecorded
<1>1. runner.pc \in {"top", "run", "post", "policy"} /\ runner.i <= Len(Order)
  BY DEF Collide, AtStage, At
<1>2. /\ runner.i \in DOMAIN Order /\ Here \in Main /\ Here \in Stages
      /\ runner.err = "none" /\ runner.pc \notin Gone
      /\ log \in Log /\ runner \in Runner
      /\ log.st \in [Stages -> StageStatus]
  BY <1>1, AtStageFacts
<1>3. log' = log
  BY DEF Collide
<1>4. /\ runner' \in Runner /\ runner'.i = runner.i /\ runner'.from = runner.from
      /\ runner'.pc = "catch" /\ runner'.err = "failed"
      /\ UNCHANGED others
  BY <1>2 DEF Collide, Throw, Runner, Pcs
<1>5. TypeOK'
  BY <1>2, <1>3, <1>4 DEF IInv, TypeOK, others
<1>6. OpenIsNext' /\ OpenIsHere' /\ PassedStagesAreDone'
  BY <1>2, <1>3, <1>4, StepHere, FlowFacts
<1>7. Placed'
  BY <1>2, <1>4, FlowFacts DEF IInv, Placed, FromFinalizer, Gone
<1>8. Reported'
  BY <1>2, <1>3, <1>4 DEF IInv, Reported, Here
<1>9. Waiting'
  BY <1>2, <1>3, <1>4, FlowFacts DEF IInv, Waiting
<1>10. QED
  BY <1>3, <1>5, <1>6, <1>7, <1>8, <1>9 DEF IInv, Unrecorded

LEMMA CompleteKeeps ==
  ASSUME IInv, Complete PROVE IInv' /\ Unrecorded
<1>1. runner.pc \in {"top", "run", "post", "policy"} /\ runner.i <= Len(Order)
  BY DEF Complete, AtStage, At
<1>2. /\ runner.i \in DOMAIN Order /\ Here \in Main /\ Here \in Stages
      /\ runner.err = "none" /\ runner.pc \notin Gone
      /\ log \in Log /\ runner \in Runner
      /\ log.st \in [Stages -> StageStatus]
  BY <1>1, AtStageFacts
<1>3. /\ log' \in Log /\ log'.st = [log.st EXCEPT ![Here] = "completed"]
      /\ log'.done = log.done \cup {Here}
      /\ log'.verdict = log.verdict
      /\ log'.ended = log.ended /\ log'.status = log.status
  BY <1>2, CompletedLog DEF Complete
<1>4. /\ runner' \in Runner /\ runner'.i = runner.i /\ runner'.from = runner.from
      /\ runner'.pc = "post" /\ runner'.err = "none"
      /\ Kind[Here] = "approval" => log.verdict[Here] = "approved"
      /\ UNCHANGED others
  BY <1>2 DEF Complete, Runner, Pcs
<1>5. TypeOK'
  BY <1>2, <1>3, <1>4 DEF IInv, TypeOK, others
<1>6. OpenIsNext' /\ OpenIsHere' /\ PassedStagesAreDone'
  BY <1>2, <1>3, <1>4, StepHere, FlowFacts
<1>7. Placed'
  BY <1>2, <1>4, FlowFacts DEF IInv, Placed, FromFinalizer, Gone
<1>8. Reported'
  BY <1>2, <1>3, <1>4 DEF IInv, Reported, Here
<1>9. Waiting'
  BY <1>2, <1>3, <1>4, FlowFacts DEF IInv, Waiting, Log
<1>10. QED
  BY <1>3, <1>5, <1>6, <1>7, <1>8, <1>9 DEF IInv, Unrecorded

LEMMA FailAttemptKeeps ==
  ASSUME IInv, FailAttempt PROVE IInv' /\ Unrecorded
<1>1. runner.pc \in {"top", "run", "post", "policy"} /\ runner.i <= Len(Order)
  BY DEF FailAttempt, AtStage, At
<1>2. /\ runner.i \in DOMAIN Order /\ Here \in Main /\ Here \in Stages
      /\ runner.err = "none" /\ runner.pc \notin Gone
      /\ log \in Log /\ runner \in Runner
      /\ log.st \in [Stages -> StageStatus]
  BY <1>1, AtStageFacts
<1>3. /\ log' \in Log /\ log'.st = [log.st EXCEPT ![Here] = "failed"]
      /\ log'.done = log.done \ {Here}
      /\ log'.verdict = log.verdict
      /\ log'.ended = log.ended /\ log'.status = log.status
  BY <1>2, FailedLog DEF FailAttempt
<1>4. /\ runner' \in Runner /\ runner'.i = runner.i /\ runner'.from = runner.from
      /\ runner'.pc = "policy" /\ runner'.err = "none"
      /\ runner.pc = "post" \/ (Kind[Here] = "approval" =>
           log.verdict[Here] = "denied" \/ log.st[Here] = "started")
      /\ UNCHANGED others
  BY <1>2 DEF FailAttempt, Runner, Pcs, Invalidated, At
<1>5. TypeOK'
  BY <1>2, <1>3, <1>4 DEF IInv, TypeOK, others
<1>6. OpenIsNext' /\ OpenIsHere' /\ PassedStagesAreDone'
  BY <1>2, <1>3, <1>4, StepHere, FlowFacts
<1>7. Placed'
  BY <1>2, <1>4, FlowFacts DEF IInv, Placed, FromFinalizer, Gone
<1>8. Reported'
  BY <1>2, <1>3, <1>4 DEF IInv, Reported, Here
<1>9. Waiting'
  BY <1>2, <1>3, <1>4, FlowFacts DEF IInv, Waiting, Reported, Here
<1>10. QED
  BY <1>3, <1>5, <1>6, <1>7, <1>8, <1>9 DEF IInv, Unrecorded

LEMMA BlockRunKeeps ==
  ASSUME IInv, BlockRun PROVE IInv' /\ Unrecorded
<1>1. runner.pc \in {"top", "run", "post", "policy"} /\ runner.i <= Len(Order)
  BY DEF BlockRun, AtStage, At
<1>2. /\ runner.i \in DOMAIN Order /\ Here \in Main /\ Here \in Stages
      /\ runner.err = "none" /\ runner.pc \notin Gone
      /\ log \in Log /\ runner \in Runner
      /\ log.st \in [Stages -> StageStatus]
  BY <1>1, AtStageFacts
<1>3. /\ log' \in Log /\ log'.st = [log.st EXCEPT ![Here] = "blocked"]
      /\ log'.done = log.done \ {Here}
      /\ log'.verdict = log.verdict
      /\ log'.status = "blocked"
  BY <1>2, BlockedLog DEF BlockRun
<1>4. /\ runner' \in Runner /\ runner'.i = runner.i /\ runner'.from = runner.from
      /\ Kind[Here] = "policy"
      /\ runner'.pc = "catch" /\ runner'.err = "blocked"
      /\ UNCHANGED others
  BY <1>2 DEF BlockRun, AtStage, Throw, Runner, Pcs
<1>5. TypeOK'
  BY <1>2, <1>3, <1>4 DEF IInv, TypeOK, others
<1>6. OpenIsNext' /\ OpenIsHere' /\ PassedStagesAreDone'
  BY <1>2, <1>3, <1>4, StepHere, FlowFacts
<1>7. Placed'
  BY <1>2, <1>4, FlowFacts DEF IInv, Placed, FromFinalizer, Gone
<1>8. Reported'
  BY <1>2, <1>3, <1>4 DEF IInv, Reported, Here
<1>9. Waiting'
  BY <1>2, <1>3, <1>4, FlowFacts DEF IInv, Waiting
<1>10. QED
  BY <1>3, <1>5, <1>6, <1>7, <1>8, <1>9 DEF IInv, Unrecorded

LEMMA RetryKeeps ==
  ASSUME IInv, Retry PROVE IInv' /\ Unrecorded
<1>1. runner.pc \in {"top", "run", "post", "policy"} /\ runner.i <= Len(Order)
  BY DEF Retry, AtStage, At
<1>2. /\ runner.i \in DOMAIN Order /\ Here \in Main /\ Here \in Stages
      /\ runner.err = "none" /\ runner.pc \notin Gone
      /\ log \in Log /\ runner \in Runner
      /\ log.st \in [Stages -> StageStatus]
  BY <1>1, AtStageFacts
<1>3. log' = log
  BY DEF Retry
<1>4. /\ runner' \in Runner /\ runner'.i = runner.i /\ runner'.from = runner.from
      /\ runner'.pc = "top" /\ runner'.err = "none"
      /\ UNCHANGED others
  BY <1>2 DEF Retry, Goto, Runner, Pcs
<1>5. TypeOK'
  BY <1>2, <1>3, <1>4 DEF IInv, TypeOK, others
<1>6. OpenIsNext' /\ OpenIsHere' /\ PassedStagesAreDone'
  BY <1>2, <1>3, <1>4, StepHere, FlowFacts
<1>7. Placed'
  BY <1>2, <1>4, FlowFacts DEF IInv, Placed, FromFinalizer, Gone
<1>8. Reported'
  BY <1>2, <1>3, <1>4 DEF IInv, Reported, Here
<1>9. Waiting'
  BY <1>2, <1>3, <1>4, FlowFacts DEF IInv, Waiting
<1>10. QED
  BY <1>3, <1>5, <1>6, <1>7, <1>8, <1>9 DEF IInv, Unrecorded

LEMMA GiveUpKeeps ==
  ASSUME IInv, GiveUp PROVE IInv' /\ Unrecorded
<1>1. runner.pc \in {"top", "run", "post", "policy"} /\ runner.i <= Len(Order)
  BY FlowFacts DEF GiveUp, At, IInv, Placed
<1>2. /\ runner.i \in DOMAIN Order /\ Here \in Main /\ Here \in Stages
      /\ runner.err = "none" /\ runner.pc \notin Gone
      /\ log \in Log /\ runner \in Runner
      /\ log.st \in [Stages -> StageStatus]
  BY <1>1, AtStageFacts
<1>3. /\ log' \in Log /\ log'.st = log.st
      /\ log'.done = log.done
      /\ log'.verdict = log.verdict
      /\ log'.status # "completed"
  BY <1>2, EndedLog DEF GiveUp, Ends
<1>4. /\ runner' \in Runner /\ runner'.i = runner.i /\ runner'.from = runner.from
      /\ runner'.pc = "catch" /\ runner'.err = "failed"
      /\ UNCHANGED others
  BY <1>2 DEF GiveUp, Throw, Runner, Pcs
<1>5. TypeOK'
  BY <1>2, <1>3, <1>4 DEF IInv, TypeOK, others
<1>6. OpenIsNext' /\ OpenIsHere' /\ PassedStagesAreDone'
  BY <1>2, <1>3, <1>4, StepHere, FlowFacts
<1>7. Placed'
  BY <1>2, <1>4, FlowFacts DEF IInv, Placed, FromFinalizer, Gone
<1>8. Reported'
  BY <1>2, <1>3, <1>4 DEF IInv, Reported, Here
<1>9. Waiting'
  BY <1>2, <1>3, <1>4, FlowFacts DEF IInv, Waiting
<1>10. QED
  BY <1>3, <1>5, <1>6, <1>7, <1>8, <1>9 DEF IInv, Unrecorded

LEMMA SeeCancelKeeps ==
  ASSUME IInv, SeeCancel PROVE IInv' /\ Unrecorded
<1>1. runner.pc \in {"top", "run", "post", "policy"} /\ runner.i <= Len(Order)
  BY FlowFacts DEF SeeCancel, IInv, Placed
<1>2. /\ runner.i \in DOMAIN Order /\ Here \in Main /\ Here \in Stages
      /\ runner.err = "none" /\ runner.pc \notin Gone
      /\ log \in Log /\ runner \in Runner
      /\ log.st \in [Stages -> StageStatus]
  BY <1>1, AtStageFacts
<1>3. log' = log
  BY DEF SeeCancel
<1>4. /\ runner' \in Runner /\ runner'.i = runner.i /\ runner'.from = runner.from
      /\ runner'.pc = "catch" /\ runner'.err = "cancelled"
      /\ UNCHANGED others
  BY <1>2 DEF SeeCancel, Throw, Runner, Pcs
<1>5. TypeOK'
  BY <1>2, <1>3, <1>4 DEF IInv, TypeOK, others
<1>6. OpenIsNext' /\ OpenIsHere' /\ PassedStagesAreDone'
  BY <1>2, <1>3, <1>4, StepHere, FlowFacts
<1>7. Placed'
  BY <1>2, <1>4, FlowFacts DEF IInv, Placed, FromFinalizer, Gone
<1>8. Reported'
  BY <1>2, <1>3, <1>4 DEF IInv, Reported, Here
<1>9. Waiting'
  BY <1>2, <1>3, <1>4, FlowFacts DEF IInv, Waiting
<1>10. QED
  BY <1>3, <1>5, <1>6, <1>7, <1>8, <1>9 DEF IInv, Unrecorded

LEMMA ExhaustedKeeps ==
  ASSUME IInv, Exhausted PROVE IInv' /\ Unrecorded
<1>1. runner.pc \in {"top", "run", "post", "policy"} /\ runner.i <= Len(Order)
  BY DEF Exhausted, AtStage, At
<1>2. /\ runner.i \in DOMAIN Order /\ Here \in Main /\ Here \in Stages
      /\ runner.err = "none" /\ runner.pc \notin Gone
      /\ log \in Log /\ runner \in Runner
      /\ log.st \in [Stages -> StageStatus]
  BY <1>1, AtStageFacts
<1>3. /\ log' \in Log
      /\ \A s \in Stages \ {Here} : log'.st[s] = log.st[s]
      /\ \A s \in Stages \ {Here} : s \in log'.done <=> s \in log.done
      /\ log'.verdict = log.verdict
      /\ \/ log' = log \/ log'.status # "completed"
         \/ log'.status = log.status /\ log'.ended = log.ended
  <2> DEFINE l == IF runner.fresh \/ log.st[Here] = "failed" THEN log
                  ELSE Failed(log, Here)
  <2>1. log' = l \/ log' = Ended(l, "failed")
    BY DEF Exhausted
  <2>2. l = log \/ l = Failed(log, Here)
    OBVIOUS
  <2> HIDE DEF l
  <2>3. /\ l \in Log /\ l.verdict = log.verdict
        /\ l.st = log.st \/ l.st = [log.st EXCEPT ![Here] = "failed"]
        /\ l.done = log.done \/ l.done = log.done \ {Here}
        /\ l.ended = log.ended /\ l.status = log.status
    BY <1>2, <2>2, FailedLog
  <2>4. /\ log' \in Log /\ log'.st = l.st /\ log'.done = l.done
        /\ log'.verdict = l.verdict
        /\ log' = l \/ log'.status = "failed"
    BY <2>1, <2>3, EndedLog DEF Ends
  <2>5. QED
    BY <1>2, <2>3, <2>4
<1>4. /\ runner' \in Runner /\ runner'.i = runner.i /\ runner'.from = runner.from
      /\ runner'.pc = "catch" /\ runner'.err = "failed"
      /\ Kind[Here] = "policy"
      /\ UNCHANGED others
  BY <1>2 DEF Exhausted, AtStage, Throw, Runner, Pcs
<1>5. TypeOK'
  BY <1>2, <1>3, <1>4 DEF IInv, TypeOK, others
<1>6. OpenIsNext' /\ OpenIsHere' /\ PassedStagesAreDone'
  BY <1>2, <1>3, <1>4, StepHere, FlowFacts
<1>7. Placed'
  BY <1>2, <1>4, FlowFacts DEF IInv, Placed, FromFinalizer, Gone
<1>8. Reported'
  BY <1>2, <1>3, <1>4 DEF IInv, Reported, Here
<1>9. Waiting'
  BY <1>2, <1>3, <1>4, FlowFacts DEF IInv, Waiting
<1>10. QED
  BY <1>3, <1>5, <1>6, <1>7, <1>8, <1>9 DEF IInv, Unrecorded

LEMMA StopOnBudgetKeeps ==
  ASSUME IInv, StopOnBudget PROVE IInv' /\ Unrecorded
<1>1. runner.pc \in {"top", "run", "post", "policy"} /\ runner.i <= Len(Order)
  BY DEF StopOnBudget, AtStage, At
<1>2. /\ runner.i \in DOMAIN Order /\ Here \in Main /\ Here \in Stages
      /\ runner.err = "none" /\ runner.pc \notin Gone
      /\ log \in Log /\ runner \in Runner
      /\ log.st \in [Stages -> StageStatus]
  BY <1>1, AtStageFacts
<1>3. /\ log' \in Log
      /\ \A s \in Stages \ {Here} : log'.st[s] = log.st[s]
      /\ \A s \in Stages \ {Here} : s \in log'.done <=> s \in log.done
      /\ log'.verdict = log.verdict
      /\ log'.status # "completed"
  <2> DEFINE l == IF At("post") THEN log ELSE Failed(log, Here)
  <2>1. log' = BudgetStopped(l)
    BY DEF StopOnBudget
  <2>2. l = log \/ l = Failed(log, Here)
    OBVIOUS
  <2> HIDE DEF l
  <2>3. /\ l \in Log /\ l.verdict = log.verdict
        /\ l.st = log.st \/ l.st = [log.st EXCEPT ![Here] = "failed"]
        /\ l.done = log.done \/ l.done = log.done \ {Here}
    BY <1>2, <2>2, FailedLog
  <2>4. /\ log' \in Log /\ log'.st = l.st /\ log'.done = l.done
        /\ log'.verdict = l.verdict /\ log'.status = "failed"
    BY <2>1, <2>3, BudgetStoppedLog
  <2>5. QED
    BY <1>2, <2>3, <2>4
<1>4. /\ runner' \in Runner /\ runner'.i = runner.i /\ runner'.from = runner.from
      /\ runner'.pc = "catch" /\ runner'.err = "failed"
      /\ Kind[Here] = "policy"
      /\ UNCHANGED <<signal, denying, resumes, crashes>> /\ over' = TRUE
  <2> DEFINE d == IF At("post") THEN runner.done ELSE Invalidated(runner.i)
  <2>1. d \in SUBSET Stages
    BY <1>2 DEF Invalidated, Runner
  <2>2. runner' = [runner EXCEPT !.pc = "catch", !.err = "failed", !.done = d]
    BY <1>2 DEF StopOnBudget, Runner
  <2>3. Kind[Here] = "policy" /\ over' = TRUE
        /\ UNCHANGED <<signal, denying, resumes, crashes>>
    BY DEF StopOnBudget, AtStage
  <2> HIDE DEF d
  <2>4. QED
    BY <1>2, <2>1, <2>2, <2>3 DEF Runner, Pcs
<1>5. TypeOK'
  BY <1>2, <1>3, <1>4 DEF IInv, TypeOK, others
<1>6. OpenIsNext' /\ OpenIsHere' /\ PassedStagesAreDone'
  BY <1>2, <1>3, <1>4, StepHere, FlowFacts
<1>7. Placed'
  BY <1>2, <1>4, FlowFacts DEF IInv, Placed, FromFinalizer, Gone
<1>8. Reported'
  BY <1>2, <1>3, <1>4 DEF IInv, Reported, Here
<1>9. Waiting'
  BY <1>2, <1>3, <1>4, FlowFacts DEF IInv, Waiting
<1>10. QED
  BY <1>3, <1>5, <1>6, <1>7, <1>8, <1>9 DEF IInv, Unrecorded

LEMMA AwaitKeeps ==
  ASSUME IInv, Await PROVE IInv' /\ Unrecorded
<1>1. runner.pc \in {"top", "run", "post", "policy"} /\ runner.i <= Len(Order)
  BY DEF Await, AtStage, At
<1>2. /\ runner.i \in DOMAIN Order /\ Here \in Main /\ Here \in Stages
      /\ runner.err = "none" /\ runner.pc \notin Gone
      /\ log \in Log /\ runner \in Runner
      /\ log.st \in [Stages -> StageStatus]
  BY <1>1, AtStageFacts
<1>3. /\ log' \in Log
      /\ \A s \in Stages \ {Here} : log'.st[s] = log.st[s]
      /\ \A s \in Stages \ {Here} : s \in log'.done <=> s \in log.done
      /\ log'.ended = log.ended
      /\ log'.status = log.status \/ log'.status = "awaiting"
      /\ \/ log' = log
         \/ /\ Here \in Approvals /\ log'.st = [log.st EXCEPT ![Here] = "awaiting"]
            /\ log'.verdict = [log.verdict EXCEPT ![Here] = "pending"]
  <2>1. Here \in Approvals /\ Approvals \subseteq Stages
    BY <1>2, FlowFacts DEF Await, AtStage
  <2>2. log' = log \/ log' = Asked(log, Here, "pending")
    BY DEF Await
  <2>3. CASE log' = log
    BY <1>2, <2>3
  <2>4. CASE log' = Asked(log, Here, "pending")
    <3>1. /\ log' \in Log /\ log'.st = [log.st EXCEPT ![Here] = "awaiting"]
          /\ log'.done = log.done /\ log'.ended = log.ended
          /\ log'.status = log.status \/ log'.status = "awaiting"
          /\ log'.verdict = [log.verdict EXCEPT ![Here] = "pending"]
      BY <1>2, <2>1, <2>4, AskedLog
    <3>2. QED
      BY <1>2, <2>1, <3>1
  <2>5. QED
    BY <2>2, <2>3, <2>4
<1>4. /\ runner' \in Runner /\ runner'.i = runner.i /\ runner'.from = runner.from
      /\ runner'.pc = "left" /\ runner'.err = "none"
      /\ UNCHANGED others
  <2>1. runner' = [runner EXCEPT !.pc = "left"] /\ UNCHANGED others
    BY DEF Await, Goto
  <2>2. QED
    BY <1>2, <2>1 DEF Runner, Pcs, Gone
<1>5. TypeOK'
  BY <1>2, <1>3, <1>4 DEF IInv, TypeOK, others
<1>6. OpenIsNext' /\ OpenIsHere' /\ PassedStagesAreDone'
  BY <1>2, <1>3, <1>4, StepHere, FlowFacts
<1>7. Placed'
  BY <1>2, <1>4, FlowFacts DEF IInv, Placed, FromFinalizer, Gone
<1>8. Reported'
  BY <1>2, <1>3, <1>4 DEF IInv, Reported, Here
<1>9. Waiting'
  BY <1>2, <1>3, <1>4, FlowFacts DEF IInv, Waiting, Log
<1>10. QED
  BY <1>3, <1>5, <1>6, <1>7, <1>8, <1>9 DEF IInv, Unrecorded

LEMMA EndLoopKeeps ==
  ASSUME IInv, EndLoop PROVE IInv' /\ Unrecorded
<1>1. log \in Log /\ runner \in Runner /\ log.st \in [Stages -> StageStatus]
  BY DEF IInv, TypeOK, Log
<1>2. log' = log
  BY DEF EndLoop
<1>3. /\ runner.pc = "top" /\ runner.err = "none" /\ runner.i = Len(Order) + 1
      /\ runner' \in Runner /\ runner'.i = runner.i /\ runner'.from = runner.from
      /\ \/ runner'.pc = "catch" /\ runner'.err = "cancelled"
         \/ runner'.pc = "finalize" /\ runner'.err = "none"
      /\ UNCHANGED others
  <2>1. runner.err = "none" /\ runner.i = Len(Order) + 1 /\ runner.pc = "top"
    BY <1>1, FlowFacts DEF EndLoop, At, IInv, Placed, Runner
  <2>2. \/ runner' = [runner EXCEPT !.pc = "catch", !.err = "cancelled"]
        \/ runner' = [runner EXCEPT !.pc = "finalize"]
    BY DEF EndLoop, Throw, Goto
  <2>3. UNCHANGED others
    BY DEF EndLoop
  <2>4. QED
    BY <1>1, <2>1, <2>2, <2>3 DEF Runner, Pcs
<1>4. TypeOK'
  BY <1>1, <1>2, <1>3 DEF IInv, TypeOK, others
<1>5. OpenIsNext' /\ OpenIsHere' /\ PassedStagesAreDone'
  BY <1>1, <1>2, <1>3, StepElsewhere, FlowFacts DEF Gone
<1>6. Placed'
  BY <1>1, <1>2, <1>3, FlowFacts DEF IInv, Placed, FromFinalizer, Gone, Open
<1>7. Reported'
  BY <1>1, <1>2, <1>3, FlowFacts DEF IInv, Reported, Placed, Here
<1>8. Waiting'
  BY <1>1, <1>2, <1>3, FlowFacts DEF IInv, Waiting
<1>9. QED
  BY <1>2, <1>4, <1>5, <1>6, <1>7, <1>8 DEF IInv, Unrecorded

\* The hooks of the Flow.
LEMMA HookEvents ==
  ASSUME IInv, HookThrows, runner.err = "none"
  PROVE  /\ log' \in Log /\ log'.st = log.st /\ log'.done = log.done
         /\ log'.verdict = log.verdict
         /\ log' = log \/ log'.status = "failed"
         /\ runner' \in Runner /\ runner'.i = runner.i /\ runner'.from = runner.from
         /\ \/ runner'.pc = "catch" /\ runner'.err \in {"failed", "cancelled"}
            \/ runner'.pc = "left" /\ runner'.err = "none"
<1>1. log \in Log /\ runner \in Runner
  BY DEF IInv, TypeOK
<1>2. log' = log \/ log' = Ended(log, "failed")
  BY DEF HookThrows
<1>3. \/ \E err \in {"failed", "cancelled"} :
           runner' = [runner EXCEPT !.pc = "catch", !.err = err]
      \/ runner' = [runner EXCEPT !.pc = "left"]
  BY DEF HookThrows, Throw, Goto
<1>4. /\ log' \in Log /\ log'.st = log.st /\ log'.done = log.done
      /\ log'.verdict = log.verdict /\ (log' = log \/ log'.status = "failed")
  <2>1. CASE log' = log BY <1>1, <2>1
  <2>2. CASE log' = Ended(log, "failed") BY <1>1, <2>2, EndedLog DEF Ends
  <2>3. QED BY <1>2, <2>1, <2>2
<1>5. /\ runner' \in Runner /\ runner'.i = runner.i /\ runner'.from = runner.from
      /\ \/ runner'.pc = "catch" /\ runner'.err \in {"failed", "cancelled"}
         \/ runner'.pc = "left" /\ runner'.err = "none"
  BY <1>1, <1>3 DEF Runner, Pcs, Gone
<1>6. QED
  BY <1>4, <1>5

LEMMA FailPreRunKeeps ==
  ASSUME IInv, FailPreRun PROVE IInv' /\ Unrecorded
<1>1. runner.pc \in {"top", "run", "post", "policy"} /\ runner.i <= Len(Order)
  BY DEF FailPreRun, AtStage, At
<1>2. /\ runner.i \in DOMAIN Order /\ Here \in Main /\ Here \in Stages
      /\ runner.err = "none" /\ runner.pc \notin Gone
      /\ log \in Log /\ runner \in Runner
      /\ log.st \in [Stages -> StageStatus]
  BY <1>1, AtStageFacts
<1>3. /\ log' \in Log /\ log'.st = log.st
      /\ log'.done = log.done
      /\ log'.verdict = log.verdict
      /\ log' = log \/ log'.status = "failed"
  BY <1>2, HookEvents DEF FailPreRun
<1>4. /\ runner' \in Runner /\ runner'.i = runner.i /\ runner'.from = runner.from
      /\ \/ runner'.pc = "catch" /\ runner'.err \in {"failed", "cancelled"}
         \/ runner'.pc = "left" /\ runner'.err = "none"
      /\ UNCHANGED others
  BY <1>2, HookEvents DEF FailPreRun
<1>5. TypeOK'
  BY <1>2, <1>3, <1>4 DEF IInv, TypeOK, others
<1>6. OpenIsNext' /\ OpenIsHere' /\ PassedStagesAreDone'
  BY <1>2, <1>3, <1>4, StepHere, FlowFacts
<1>7. Placed'
  BY <1>2, <1>4, FlowFacts DEF IInv, Placed, FromFinalizer, Gone
<1>8. Reported'
  BY <1>2, <1>3, <1>4 DEF IInv, Reported, Here
<1>9. Waiting'
  BY <1>2, <1>3, <1>4, FlowFacts DEF IInv, Waiting
<1>10. QED
  BY <1>3, <1>5, <1>6, <1>7, <1>8, <1>9 DEF IInv, Unrecorded

LEMMA FailPostRunKeeps ==
  ASSUME IInv, FailPostRun PROVE IInv' /\ Unrecorded
<1>1. log \in Log /\ runner \in Runner /\ log.st \in [Stages -> StageStatus]
  BY DEF IInv, TypeOK, Log
<1>2. runner.pc = "top" /\ runner.err = "none" /\ UNCHANGED others
  BY DEF FailPostRun, At, IInv, Placed
<1>3. /\ log' \in Log /\ log'.st = log.st /\ log'.done = log.done
      /\ log'.verdict = log.verdict
      /\ log' = log \/ log'.status = "failed"
      /\ runner' \in Runner /\ runner'.i = runner.i /\ runner'.from = runner.from
      /\ \/ runner'.pc = "catch" /\ runner'.err \in {"failed", "cancelled"}
         \/ runner'.pc = "left" /\ runner'.err = "none"
  BY <1>2, HookEvents DEF FailPostRun
<1>4. TypeOK'
  BY <1>1, <1>2, <1>3 DEF IInv, TypeOK, others
<1>5. OpenIsNext' /\ OpenIsHere' /\ PassedStagesAreDone'
  BY <1>1, <1>2, <1>3, StepElsewhere, FlowFacts DEF Gone
<1>6. Placed'
  BY <1>1, <1>2, <1>3, FlowFacts DEF IInv, Placed, FromFinalizer, Gone, Open
<1>7. Reported'
  BY <1>1, <1>2, <1>3, FlowFacts DEF IInv, Reported, Placed, Here
<1>8. Waiting'
  BY <1>1, <1>2, <1>3, FlowFacts DEF IInv, Waiting
<1>9. QED
  BY <1>3, <1>4, <1>5, <1>6, <1>7, <1>8 DEF IInv, Unrecorded

LEMMA CatchKeeps ==
  ASSUME IInv, Catch PROVE IInv' /\ Unrecorded
<1>1. log \in Log /\ runner \in Runner /\ log.st \in [Stages -> StageStatus]
  BY DEF IInv, TypeOK, Log
<1>2. /\ log' \in Log /\ log'.st = log.st /\ log'.done = log.done
      /\ log'.verdict = log.verdict
      /\ \/ log' = log \/ log'.status # "completed"
         \/ log'.status = log.status /\ log'.ended = log.ended
  <2>1. runner.err \in Ends \ {"completed"}
    BY <1>1 DEF Catch, At, IInv, Placed, Runner, Ends
  <2>2. log' = log \/ log' = Ended(log, runner.err)
    BY DEF Catch
  <2>3. CASE log' = log
    BY <1>1, <2>3
  <2>4. CASE log' = Ended(log, runner.err)
    BY <1>1, <2>1, <2>4, EndedLog
  <2>5. QED
    BY <2>2, <2>3, <2>4
<1>3. /\ runner.pc = "catch" /\ runner.err # "none"
      /\ runner' \in Runner /\ runner'.i = runner.i /\ runner'.from = runner.from
      /\ runner'.pc \in {"finalize", "left"} /\ runner'.err = runner.err
      /\ UNCHANGED others
  <2>1. runner.pc = "catch" /\ runner.err # "none"
    BY DEF Catch, At, IInv, Placed
  <2>2. \/ runner' = [runner EXCEPT !.pc = "finalize"]
        \/ runner' = [runner EXCEPT !.pc = "left"]
    BY DEF Catch, Goto
  <2>3. UNCHANGED others
    BY DEF Catch
  <2>4. QED
    BY <1>1, <2>1, <2>2, <2>3 DEF Runner, Pcs, Gone
<1>4. TypeOK'
  BY <1>1, <1>2, <1>3 DEF IInv, TypeOK, others
<1>5. OpenIsNext' /\ OpenIsHere' /\ PassedStagesAreDone'
  BY <1>1, <1>2, <1>3, StepElsewhere, FlowFacts DEF Gone
<1>6. Placed'
  BY <1>1, <1>2, <1>3, FlowFacts DEF IInv, Placed, FromFinalizer, Gone, Open
<1>7. Reported'
  BY <1>1, <1>2, <1>3, FlowFacts DEF IInv, Reported, Placed, Here
<1>8. Waiting'
  BY <1>1, <1>2, <1>3, FlowFacts DEF IInv, Waiting
<1>9. QED
  BY <1>2, <1>4, <1>5, <1>6, <1>7, <1>8 DEF IInv, Unrecorded

LEMMA SkipFinalizersKeeps ==
  ASSUME IInv, SkipFinalizers PROVE IInv' /\ Unrecorded
<1>1. log \in Log /\ runner \in Runner /\ log.st \in [Stages -> StageStatus]
  BY DEF IInv, TypeOK, Log
<1>2. log' = log
  BY DEF SkipFinalizers
<1>3. /\ runner.pc = "finalize" /\ runner'.err = runner.err
      /\ runner' \in Runner /\ runner'.i = runner.i /\ runner'.from = runner.from
      /\ \/ runner'.pc = "left"
         \/ runner'.pc = "finish" /\ runner.err = "none"
      /\ UNCHANGED others
  <2>1. runner.pc = "finalize"
    BY DEF SkipFinalizers, At
  <2>2. \/ runner' = [runner EXCEPT !.pc = "left"]
        \/ runner' = [runner EXCEPT !.pc = "finish"] /\ runner.err = "none"
    BY DEF SkipFinalizers, Over, Goto
  <2>3. UNCHANGED others
    BY DEF SkipFinalizers
  <2>4. QED
    BY <1>1, <2>1, <2>2, <2>3 DEF Runner, Pcs, Gone
<1>4. TypeOK'
  BY <1>1, <1>2, <1>3 DEF IInv, TypeOK, others
<1>5. OpenIsNext' /\ OpenIsHere' /\ PassedStagesAreDone'
  BY <1>1, <1>2, <1>3, StepElsewhere, FlowFacts DEF Gone
<1>6. Placed'
  BY <1>1, <1>2, <1>3, FlowFacts DEF IInv, Placed, FromFinalizer, Gone, Open
<1>7. Reported'
  BY <1>1, <1>2, <1>3, FlowFacts DEF IInv, Reported, Placed, Here
<1>8. Waiting'
  BY <1>1, <1>2, <1>3, FlowFacts DEF IInv, Waiting
<1>9. QED
  BY <1>2, <1>4, <1>5, <1>6, <1>7, <1>8 DEF IInv, Unrecorded

LEMMA BeginFinalizerKeeps ==
  ASSUME IInv, BeginFinalizer PROVE IInv' /\ Unrecorded
<1>1. log \in Log /\ runner \in Runner /\ log.st \in [Stages -> StageStatus]
  BY DEF IInv, TypeOK, Log
<1>2. /\ log' \in Log
      /\ \A s \in Main : log'.st[s] = log.st[s]
      /\ \A s \in Main : s \in log'.done <=> s \in log.done
      /\ \A a \in Approvals : log'.verdict[a] = "pending" => log.verdict[a] = "pending"
      /\ log'.ended = log.ended
      /\ log'.status = log.status \/ log'.status = "running"
  <2>1. PICK f \in Finalizer :
            log' = Started(log, f, (IF runner.fresh THEN runner.tries[f] ELSE log.tries[f]) + 1)
    BY DEF BeginFinalizer
  <2> DEFINE n == (IF runner.fresh THEN runner.tries[f] ELSE log.tries[f]) + 1
  <2>2. n \in Nat /\ f \in Stages /\ f \notin Main
    BY <1>1, FlowFacts DEF Runner, Log
  <2>3. log' = Started(log, f, n)
    BY <2>1
  <2> HIDE DEF n
  <2>4. /\ log' \in Log /\ log'.st = [log.st EXCEPT ![f] = "started"]
        /\ log'.done = log.done /\ log'.ended = log.ended
        /\ log'.status = log.status \/ log'.status = "running"
        /\ \A a \in Approvals : log'.verdict[a] # "none" =>
             a # f /\ log'.verdict[a] = log.verdict[a]
    BY <1>1, <2>2, <2>3, StartedLog
  <2>5. QED
    BY <1>1, <2>2, <2>4, FlowFacts
<1>3. /\ runner.pc = "finalize" /\ runner'.err = runner.err
      /\ runner' \in Runner /\ runner'.i = runner.i /\ runner'.from = runner.from
      /\ runner'.pc = "finalizer"
      /\ UNCHANGED others
  <2>1. PICK f \in Finalizer :
            runner' = [runner EXCEPT
              !.tries[f] = (IF runner.fresh THEN runner.tries[f] ELSE log.tries[f]) + 1,
              !.pc = "finalizer"]
    BY DEF BeginFinalizer
  <2> DEFINE T == [runner.tries EXCEPT
                     ![f] = (IF runner.fresh THEN runner.tries[f] ELSE log.tries[f]) + 1]
  <2>2. T \in [Stages -> Nat]
    BY <1>1, FlowFacts DEF Runner, Log
  <2>3. runner' = [runner EXCEPT !.tries = T, !.pc = "finalizer"]
    BY <1>1, <2>1 DEF Runner
  <2>4. UNCHANGED others /\ runner.pc = "finalize"
    BY DEF BeginFinalizer, At
  <2> HIDE DEF T
  <2>5. QED
    BY <1>1, <2>2, <2>3, <2>4 DEF Runner, Pcs
<1>4. TypeOK'
  BY <1>1, <1>2, <1>3 DEF IInv, TypeOK, others
<1>5. OpenIsNext' /\ OpenIsHere' /\ PassedStagesAreDone'
  BY <1>1, <1>2, <1>3, StepElsewhere, FlowFacts DEF Gone
<1>6. Placed'
  BY <1>1, <1>2, <1>3, FlowFacts DEF IInv, Placed, FromFinalizer, Gone, Open
<1>7. Reported'
  BY <1>1, <1>2, <1>3, FlowFacts DEF IInv, Reported, Placed, Here
<1>8. Waiting'
  BY <1>1, <1>2, <1>3, FlowFacts DEF IInv, Waiting
<1>9. QED
  BY <1>2, <1>4, <1>5, <1>6, <1>7, <1>8 DEF IInv, Unrecorded

LEMMA EndFinalizerKeeps ==
  ASSUME IInv, EndFinalizer PROVE IInv' /\ Unrecorded
<1>1. log \in Log /\ runner \in Runner /\ log.st \in [Stages -> StageStatus]
  BY DEF IInv, TypeOK, Log
<1>2. /\ log' \in Log
      /\ \A s \in Main : log'.st[s] = log.st[s]
      /\ \A s \in Main : s \in log'.done <=> s \in log.done
      /\ log'.verdict = log.verdict
      /\ log'.ended = log.ended /\ log'.status = log.status
  <2>1. PICK f \in Finalizer : log' = Completed(log, f) \/ log' = Failed(log, f)
    BY DEF EndFinalizer
  <2>2. f \in Stages /\ f \notin Main
    BY FlowFacts
  <2>3. CASE log' = Completed(log, f)
    <3>1. /\ log' \in Log /\ log'.st = [log.st EXCEPT ![f] = "completed"]
          /\ log'.done = log.done \cup {f} /\ log'.verdict = log.verdict
          /\ log'.ended = log.ended /\ log'.status = log.status
      BY <1>1, <2>2, <2>3, CompletedLog
    <3>2. QED
      BY <1>1, <2>2, <3>1, FlowFacts
  <2>4. CASE log' = Failed(log, f)
    <3>1. /\ log' \in Log /\ log'.st = [log.st EXCEPT ![f] = "failed"]
          /\ log'.done = log.done \ {f} /\ log'.verdict = log.verdict
          /\ log'.ended = log.ended /\ log'.status = log.status
      BY <1>1, <2>2, <2>4, FailedLog
    <3>2. QED
      BY <1>1, <2>2, <3>1, FlowFacts
  <2>5. QED
    BY <2>1, <2>3, <2>4
<1>3. /\ runner.pc = "finalizer" /\ runner'.err = runner.err
      /\ runner' \in Runner /\ runner'.i = runner.i /\ runner'.from = runner.from
      /\ \/ runner'.pc = "left"
         \/ runner'.pc = "finish" /\ runner.err = "none"
      /\ UNCHANGED others
  <2>1. PICK f \in Finalizer :
          \/ runner' = [runner EXCEPT !.done = @ \cup {f}, !.pc = Over]
          \/ runner' = [runner EXCEPT !.pc = Over]
    BY DEF EndFinalizer, Goto
  <2>2. /\ runner.err = "none" => Over = "finish"
        /\ runner.err # "none" => Over = "left"
    BY DEF Over
  <2>3. f \in Stages /\ runner.pc = "finalizer" /\ UNCHANGED others
    BY FlowFacts DEF EndFinalizer, At
  <2>4. \E d \in SUBSET Stages :
          runner' = [runner EXCEPT !.done = d, !.pc = Over]
    <3>1. runner = [runner EXCEPT !.done = runner.done]
      BY <1>1 DEF Runner
    <3>2. runner.done \cup {f} \in SUBSET Stages /\ runner.done \in SUBSET Stages
      BY <1>1, <2>3 DEF Runner
    <3>3. QED
      BY <1>1, <2>1, <3>1, <3>2 DEF Runner
  <2>5. PICK d \in SUBSET Stages :
          runner' = [runner EXCEPT !.done = d, !.pc = Over]
    BY <2>4
  <2>6. CASE runner.err = "none"
    BY <1>1, <2>2, <2>3, <2>5, <2>6 DEF Runner, Pcs
  <2>7. CASE runner.err # "none"
    BY <1>1, <2>2, <2>3, <2>5, <2>7 DEF Runner, Pcs, Gone
  <2>8. QED
    BY <2>6, <2>7
<1>4. TypeOK'
  BY <1>1, <1>2, <1>3 DEF IInv, TypeOK, others
<1>5. OpenIsNext' /\ OpenIsHere' /\ PassedStagesAreDone'
  BY <1>1, <1>2, <1>3, StepElsewhere, FlowFacts DEF Gone
<1>6. Placed'
  BY <1>1, <1>2, <1>3, FlowFacts DEF IInv, Placed, FromFinalizer, Gone, Open
<1>7. Reported'
  BY <1>1, <1>2, <1>3, FlowFacts DEF IInv, Reported, Placed, Here
<1>8. Waiting'
  BY <1>1, <1>2, <1>3, FlowFacts DEF IInv, Waiting
<1>9. QED
  BY <1>2, <1>4, <1>5, <1>6, <1>7, <1>8 DEF IInv, Unrecorded

LEMMA FinishRunKeeps ==
  ASSUME IInv, FinishRun PROVE IInv'
<1>1. log \in Log /\ runner \in Runner /\ log.st \in [Stages -> StageStatus]
  BY DEF IInv, TypeOK, Log
<1>2. /\ log' \in Log /\ log'.st = log.st /\ log'.done = log.done
      /\ log'.verdict = log.verdict
  BY <1>1, EndedLog DEF FinishRun, Ends
<1>3. /\ runner.pc = "finish" /\ runner'.err = runner.err
      /\ runner' \in Runner /\ runner'.i = runner.i /\ runner'.from = runner.from
      /\ runner'.pc = "left"
      /\ UNCHANGED others
  <2>1. runner' = [runner EXCEPT !.pc = "left"] /\ runner.pc = "finish" /\ UNCHANGED others
    BY DEF FinishRun, Goto, At
  <2>2. QED
    BY <1>1, <2>1 DEF Runner, Pcs, Gone
<1>4. TypeOK'
  BY <1>1, <1>2, <1>3 DEF IInv, TypeOK, others
<1>5. OpenIsNext' /\ OpenIsHere' /\ PassedStagesAreDone'
  BY <1>1, <1>2, <1>3, StepElsewhere, FlowFacts DEF Gone
<1>6. Placed'
  BY <1>1, <1>2, <1>3, FlowFacts DEF IInv, Placed, FromFinalizer, Gone, Open
<1>7. Reported'
  BY <1>1, <1>2, <1>3, FlowFacts DEF IInv, Reported, Placed, Here
<1>8. Waiting'
  BY <1>1, <1>2, <1>3, FlowFacts DEF IInv, Waiting
<1>9. QED
  BY <1>4, <1>5, <1>6, <1>7, <1>8 DEF IInv

----------------------------------------------------------------------------
(* The operators, and a crash.                                             *)

LEMMA CancelRunKeeps ==
  ASSUME IInv, CancelRun PROVE IInv' /\ Unrecorded
<1>1. log \in Log /\ runner \in Runner /\ log.st \in [Stages -> StageStatus]
  BY DEF IInv, TypeOK, Log
<1>2. /\ log' \in Log /\ log'.st = log.st /\ log'.done = log.done
      /\ log'.verdict = log.verdict
      /\ log'.status # "completed"
  BY <1>1, EndedLog DEF CancelRun, Ends
<1>3. /\ runner' = runner /\ signal' \in BOOLEAN
      /\ UNCHANGED <<over, denying, resumes, crashes>>
  <2>1. signal \in BOOLEAN
    BY DEF IInv, TypeOK
  <2>2. QED
    BY <2>1 DEF CancelRun
<1>4. TypeOK'
  BY <1>1, <1>2, <1>3 DEF IInv, TypeOK, others
<1>5. OpenIsNext' /\ OpenIsHere' /\ PassedStagesAreDone'
  BY <1>1, <1>2, <1>3, StepElsewhere, FlowFacts DEF Gone
<1>6. Placed'
  BY <1>1, <1>2, <1>3, FlowFacts DEF IInv, Placed, FromFinalizer, Gone, Open
<1>7. Reported'
  BY <1>1, <1>2, <1>3, FlowFacts DEF IInv, Reported, Placed, Here
<1>8. Waiting'
  BY <1>1, <1>2, <1>3, FlowFacts DEF IInv, Waiting
<1>9. QED
  BY <1>2, <1>4, <1>5, <1>6, <1>7, <1>8 DEF IInv, Unrecorded

LEMMA ApproveRunKeeps ==
  ASSUME IInv, ApproveRun PROVE IInv' /\ Unrecorded
<1>1. log \in Log /\ runner \in Runner /\ log.st \in [Stages -> StageStatus]
  BY DEF IInv, TypeOK, Log
<1>2. /\ log' \in Log /\ log'.st = log.st /\ log'.done = log.done
      /\ \A a \in Approvals : log'.verdict[a] = "pending" => log.verdict[a] = "pending"
      /\ log'.ended = log.ended
      /\ log'.status = log.status \/ log'.status = "awaiting"
  <2>1. PICK a \in Approvals :
            log.verdict[a] = "pending" /\ log' = Asked(log, a, "approved")
    BY DEF ApproveRun
  <2>2. log.st[a] = "awaiting" /\ a \in Stages /\ Approvals \subseteq Stages
    BY <2>1, FlowFacts DEF IInv, Waiting
  <2>3. /\ log' \in Log /\ log'.st = [log.st EXCEPT ![a] = "awaiting"]
        /\ log'.done = log.done /\ log'.ended = log.ended
        /\ log'.status = log.status \/ log'.status = "awaiting"
        /\ log'.verdict = [log.verdict EXCEPT ![a] = "approved"]
    BY <1>1, <2>1, <2>2, AskedLog
  <2>4. QED
    BY <1>1, <2>2, <2>3 DEF Log
<1>3. runner' = runner /\ UNCHANGED others
  BY DEF ApproveRun
<1>4. TypeOK'
  BY <1>1, <1>2, <1>3 DEF IInv, TypeOK, others
<1>5. OpenIsNext' /\ OpenIsHere' /\ PassedStagesAreDone'
  BY <1>1, <1>2, <1>3, StepElsewhere, FlowFacts DEF Gone
<1>6. Placed'
  BY <1>1, <1>2, <1>3, FlowFacts DEF IInv, Placed, FromFinalizer, Gone, Open
<1>7. Reported'
  BY <1>1, <1>2, <1>3, FlowFacts DEF IInv, Reported, Placed, Here
<1>8. Waiting'
  BY <1>1, <1>2, <1>3, FlowFacts DEF IInv, Waiting
<1>9. QED
  BY <1>2, <1>4, <1>5, <1>6, <1>7, <1>8 DEF IInv, Unrecorded

LEMMA DenyApprovalKeeps ==
  ASSUME IInv, DenyApproval PROVE IInv' /\ Unrecorded
<1>1. log \in Log /\ runner \in Runner /\ log.st \in [Stages -> StageStatus]
  BY DEF IInv, TypeOK, Log
<1>2. /\ log' \in Log /\ log'.st = log.st /\ log'.done = log.done
      /\ \A a \in Approvals : log'.verdict[a] = "pending" => log.verdict[a] = "pending"
      /\ log'.ended = log.ended
      /\ log'.status = log.status \/ log'.status = "awaiting"
  <2>1. PICK a \in Approvals :
            log.verdict[a] = "pending" /\ log' = Asked(log, a, "denied")
    BY DEF DenyApproval
  <2>2. log.st[a] = "awaiting" /\ a \in Stages /\ Approvals \subseteq Stages
    BY <2>1, FlowFacts DEF IInv, Waiting
  <2>3. /\ log' \in Log /\ log'.st = [log.st EXCEPT ![a] = "awaiting"]
        /\ log'.done = log.done /\ log'.ended = log.ended
        /\ log'.status = log.status \/ log'.status = "awaiting"
        /\ log'.verdict = [log.verdict EXCEPT ![a] = "denied"]
    BY <1>1, <2>1, <2>2, AskedLog
  <2>4. QED
    BY <1>1, <2>2, <2>3 DEF Log
<1>3. /\ runner' = runner /\ denying' = "look"
      /\ UNCHANGED <<signal, over, resumes, crashes>>
  BY DEF DenyApproval
<1>4. TypeOK'
  BY <1>1, <1>2, <1>3 DEF IInv, TypeOK, others
<1>5. OpenIsNext' /\ OpenIsHere' /\ PassedStagesAreDone'
  BY <1>1, <1>2, <1>3, StepElsewhere, FlowFacts DEF Gone
<1>6. Placed'
  BY <1>1, <1>2, <1>3, FlowFacts DEF IInv, Placed, FromFinalizer, Gone, Open
<1>7. Reported'
  BY <1>1, <1>2, <1>3, FlowFacts DEF IInv, Reported, Placed, Here
<1>8. Waiting'
  BY <1>1, <1>2, <1>3, FlowFacts DEF IInv, Waiting
<1>9. QED
  BY <1>2, <1>4, <1>5, <1>6, <1>7, <1>8 DEF IInv, Unrecorded

LEMMA LookAtDeniedKeeps ==
  ASSUME IInv, LookAtDenied PROVE IInv' /\ Unrecorded
<1>1. log \in Log /\ runner \in Runner /\ log.st \in [Stages -> StageStatus]
  BY DEF IInv, TypeOK, Log
<1>2. log' = log
  BY DEF LookAtDenied
<1>3. /\ runner' = runner /\ denying' \in {"no", "fail"}
      /\ UNCHANGED <<signal, over, resumes, crashes>>
  BY DEF LookAtDenied
<1>4. TypeOK'
  BY <1>1, <1>2, <1>3 DEF IInv, TypeOK, others
<1>5. OpenIsNext' /\ OpenIsHere' /\ PassedStagesAreDone'
  BY <1>1, <1>2, <1>3, StepElsewhere, FlowFacts DEF Gone
<1>6. Placed'
  BY <1>1, <1>2, <1>3, FlowFacts DEF IInv, Placed, FromFinalizer, Gone, Open
<1>7. Reported'
  BY <1>1, <1>2, <1>3, FlowFacts DEF IInv, Reported, Placed, Here
<1>8. Waiting'
  BY <1>1, <1>2, <1>3, FlowFacts DEF IInv, Waiting
<1>9. QED
  BY <1>2, <1>4, <1>5, <1>6, <1>7, <1>8 DEF IInv, Unrecorded

LEMMA FailDeniedKeeps ==
  ASSUME IInv, FailDenied PROVE IInv' /\ Unrecorded
<1>1. log \in Log /\ runner \in Runner /\ log.st \in [Stages -> StageStatus]
  BY DEF IInv, TypeOK, Log
<1>2. /\ log' \in Log /\ log'.st = log.st /\ log'.done = log.done
      /\ log'.verdict = log.verdict
      /\ log'.status # "completed"
  BY <1>1, EndedLog DEF FailDenied, Ends
<1>3. /\ runner' = runner /\ denying' = "no"
      /\ UNCHANGED <<signal, over, resumes, crashes>>
  BY DEF FailDenied
<1>4. TypeOK'
  BY <1>1, <1>2, <1>3 DEF IInv, TypeOK, others
<1>5. OpenIsNext' /\ OpenIsHere' /\ PassedStagesAreDone'
  BY <1>1, <1>2, <1>3, StepElsewhere, FlowFacts DEF Gone
<1>6. Placed'
  BY <1>1, <1>2, <1>3, FlowFacts DEF IInv, Placed, FromFinalizer, Gone, Open
<1>7. Reported'
  BY <1>1, <1>2, <1>3, FlowFacts DEF IInv, Reported, Placed, Here
<1>8. Waiting'
  BY <1>1, <1>2, <1>3, FlowFacts DEF IInv, Waiting
<1>9. QED
  BY <1>2, <1>4, <1>5, <1>6, <1>7, <1>8 DEF IInv, Unrecorded

LEMMA RaiseCapKeeps ==
  ASSUME IInv, RaiseCap PROVE IInv' /\ Unrecorded
<1>1. log \in Log /\ runner \in Runner /\ log.st \in [Stages -> StageStatus]
  BY DEF IInv, TypeOK, Log
<1>2. log' = log
  BY DEF RaiseCap
<1>3. /\ runner' = runner /\ over' = FALSE
      /\ UNCHANGED <<signal, denying, resumes, crashes>>
  BY DEF RaiseCap
<1>4. TypeOK'
  BY <1>1, <1>2, <1>3 DEF IInv, TypeOK, others
<1>5. OpenIsNext' /\ OpenIsHere' /\ PassedStagesAreDone'
  BY <1>1, <1>2, <1>3, StepElsewhere, FlowFacts DEF Gone
<1>6. Placed'
  BY <1>1, <1>2, <1>3, FlowFacts DEF IInv, Placed, FromFinalizer, Gone, Open
<1>7. Reported'
  BY <1>1, <1>2, <1>3, FlowFacts DEF IInv, Reported, Placed, Here
<1>8. Waiting'
  BY <1>1, <1>2, <1>3, FlowFacts DEF IInv, Waiting
<1>9. QED
  BY <1>2, <1>4, <1>5, <1>6, <1>7, <1>8 DEF IInv, Unrecorded

LEMMA CrashKeeps ==
  ASSUME IInv, Crash PROVE IInv' /\ Unrecorded
<1>1. log \in Log /\ runner \in Runner /\ log.st \in [Stages -> StageStatus]
  BY DEF IInv, TypeOK, Log
<1>2. log' = log
  BY DEF Crash
<1>3. /\ crashes' \in 0..MaxCrashes
      /\ runner' \in Runner /\ runner'.i = runner.i /\ runner'.from = runner.from
      /\ runner'.err = runner.err /\ runner'.pc = "crash"
      /\ UNCHANGED <<signal, over, denying, resumes>>
  <2>1. crashes' \in 0..MaxCrashes
    BY FlowAssumption DEF Crash, IInv, TypeOK, FlowAssumption
  <2>2. runner' = [runner EXCEPT !.pc = "crash"] /\ UNCHANGED <<signal, over, denying, resumes>>
    BY DEF Crash, Goto
  <2>3. QED
    BY <1>1, <2>1, <2>2 DEF Runner, Pcs, Gone
<1>4. TypeOK'
  BY <1>1, <1>2, <1>3 DEF IInv, TypeOK, others
<1>5. OpenIsNext' /\ OpenIsHere' /\ PassedStagesAreDone'
  BY <1>1, <1>2, <1>3, StepElsewhere, FlowFacts DEF Gone
<1>6. Placed'
  BY <1>1, <1>2, <1>3, FlowFacts DEF IInv, Placed, FromFinalizer, Gone, Open
<1>7. Reported'
  BY <1>1, <1>2, <1>3, FlowFacts DEF IInv, Reported, Placed, Here
<1>8. Waiting'
  BY <1>1, <1>2, <1>3, FlowFacts DEF IInv, Waiting
<1>9. QED
  BY <1>2, <1>4, <1>5, <1>6, <1>7, <1>8 DEF IInv, Unrecorded

----------------------------------------------------------------------------
(* The steps that move a runner to another stage.                          *)

LEMMA AdvanceKeeps ==
  ASSUME IInv, Advance PROVE IInv' /\ Unrecorded
<1>1. /\ runner.i \in DOMAIN Order /\ runner.err = "none" /\ runner.pc = "post"
      /\ log.st[Here] = "completed" /\ Here \in log.done
      /\ runner \in Runner
  BY DEF Advance, At, IInv, Placed, Reported, TypeOK
<1>2. runner' = [runner EXCEPT !.i = @ + 1, !.pc = "top"]
  BY DEF Advance
<1>3. log' = log /\ UNCHANGED others
  BY DEF Advance
<1>4. /\ runner' \in Runner /\ runner'.i = runner.i + 1
      /\ runner'.from = runner.from
      /\ runner'.pc = "top" /\ runner'.err = "none"
  <2>1. runner.i + 1 \in 1..Len(Order) + 1
    BY <1>1, FlowFacts
  <2> DEFINE m == runner.i + 1
  <2>2. runner' = [runner EXCEPT !.i = m, !.pc = "top"]
    BY <1>2
  <2> HIDE DEF m
  <2>3. /\ runner' \in Runner /\ runner'.i = m
        /\ runner'.from = runner.from
        /\ runner'.pc = "top" /\ runner'.err = "none"
    BY <1>1, <2>1, <2>2 DEF Runner, Pcs, m
  <2>4. QED
    BY <2>3 DEF m
<1>5. TypeOK'
  BY <1>3, <1>4 DEF IInv, TypeOK, others
<1>6. ~FromFinalizer /\ FromFinalizer' = FromFinalizer
  BY <1>1, <1>4, FlowFacts DEF IInv, Placed, FromFinalizer, Gone
<1>7. \A k \in DOMAIN Order : ~Open(k)
  BY <1>1, <1>6 DEF IInv, OpenIsHere, Gone, Open, Here
<1>8. OpenIsNext' /\ OpenIsHere'
  BY <1>3, <1>7 DEF OpenIsNext, OpenIsHere, Open
<1>9. PassedStagesAreDone'
  <2>1. \A j \in 1..runner.i - 1 : Order[j] \in log.done
    BY <1>1, <1>6 DEF IInv, PassedStagesAreDone, Gone
  <2>2. \A j \in 1..runner'.i - 1 : Order[j] \in log.done
    BY <1>1, <1>4, <2>1, FlowFacts DEF Here
  <2>3. QED
    BY <1>3, <2>2 DEF PassedStagesAreDone
<1>10. Placed' /\ Reported' /\ Waiting'
  BY <1>3, <1>4, <1>6 DEF IInv, Placed, Reported, Waiting, Gone
<1>11. QED
  BY <1>3, <1>5, <1>8, <1>9, <1>10 DEF IInv, Unrecorded

LEMMA RequestReworkKeeps ==
  ASSUME IInv, RequestRework PROVE IInv' /\ Unrecorded
<1>1. runner.pc = "policy" /\ runner.i <= Len(Order)
  BY DEF RequestRework, AtStage, At
<1>2. /\ runner.i \in DOMAIN Order /\ Here \in Main /\ Here \in Stages
      /\ runner.err = "none" /\ runner.pc \notin Gone
      /\ log \in Log /\ runner \in Runner
  BY <1>1, AtStageFacts
<1>3. PICK t \in Target[Here] :
        runner' = [runner EXCEPT !.i = Index(t), !.pc = "top",
                                 !.done = Invalidated(Index(t))]
  BY DEF RequestRework
<1>4. t \in Main /\ Index(t) \in DOMAIN Order /\ Index(t) <= runner.i
  <2>1. t \in Main
    BY <1>2, FlowAssumption DEF FlowAssumption
  <2>2. Index(t) \in DOMAIN Order /\ Order[Index(t)] = t
    BY <2>1, IndexOf
  <2>3. QED
    BY <1>2, <2>1, <2>2, FlowAssumption DEF FlowAssumption, Here
<1>5. /\ log' \in Log /\ log'.st = log.st /\ log'.done = log.done
      /\ log'.verdict = log.verdict
      /\ log'.ended = log.ended /\ log'.status = log.status
  BY <1>2, ReworkedLog DEF RequestRework
<1>6. UNCHANGED others
  BY DEF RequestRework
<1>7. /\ runner' \in Runner /\ runner'.i = Index(t)
      /\ runner'.from = runner.from
      /\ runner'.pc = "top" /\ runner'.err = "none"
  <2>1. Invalidated(Index(t)) \in SUBSET Stages
    BY <1>2 DEF Invalidated, Runner
  <2>2. Index(t) \in 1..Len(Order) + 1
    BY <1>4, FlowFacts
  <2>3. QED
    BY <1>2, <1>3, <2>1, <2>2 DEF Runner, Pcs
<1>8. TypeOK'
  BY <1>5, <1>6, <1>7 DEF IInv, TypeOK, others
<1>9. ~FromFinalizer /\ FromFinalizer' = FromFinalizer
  BY <1>2, <1>7, FlowFacts DEF IInv, Placed, FromFinalizer
<1>10. \A k \in DOMAIN Order : ~Open(k)
  BY <1>1, <1>2, <1>9 DEF IInv, OpenIsHere, Reported, Open, Here
<1>11. OpenIsNext' /\ OpenIsHere'
  BY <1>5, <1>10 DEF OpenIsNext, OpenIsHere, Open
<1>12. PassedStagesAreDone'
  <2>1. \A j \in 1..runner.i - 1 : Order[j] \in log.done
    BY <1>2, <1>9 DEF IInv, PassedStagesAreDone
  <2>2. \A j \in 1..runner'.i - 1 : Order[j] \in log.done
    BY <1>2, <1>4, <1>7, <2>1, FlowFacts
  <2>3. QED
    BY <1>5, <2>2 DEF PassedStagesAreDone
<1>13. Placed' /\ Reported' /\ Waiting'
  BY <1>5, <1>7, <1>9 DEF IInv, Placed, Reported, Waiting, Gone
<1>14. QED
  BY <1>5, <1>8, <1>11, <1>12, <1>13 DEF IInv, Unrecorded

LEMMA StartKeeps ==
  ASSUME IInv, Start PROVE IInv' /\ Unrecorded
<1>1. runner = NoRunner /\ \A k \in DOMAIN Order : ~Open(k)
  BY DEF Start, At, IInv, Placed
<1>2. log' = log /\ UNCHANGED others
  BY DEF Start
<1>3. /\ runner' \in Runner /\ runner'.pc = "top" /\ runner'.err = "none"
      /\ runner'.i = 1 /\ runner'.from = {}
  BY <1>1, FlowFacts DEF Start, Goto, NoRunner, IInv, TypeOK, Runner, Pcs
<1>4. TypeOK'
  BY <1>2, <1>3 DEF IInv, TypeOK, others
<1>5. OpenIsNext' /\ OpenIsHere' /\ PassedStagesAreDone'
  BY <1>1, <1>2, <1>3 DEF OpenIsNext, OpenIsHere, PassedStagesAreDone, Open
<1>6. Placed' /\ Reported' /\ Waiting'
  BY <1>2, <1>3 DEF IInv, Placed, Reported, Waiting, FromFinalizer, Gone
<1>7. QED
  BY <1>2, <1>4, <1>5, <1>6 DEF IInv, Unrecorded

\* A runner that resumes where the log allows it.
LEMMA ResumeAtKeeps ==
  ASSUME IInv, NEW s \in Stages, NEW l \in Log,
         l.st = log.st, l.done = log.done, l.verdict = log.verdict,
         l.ended = log.ended, l.status = log.status \/ l.status = "running",
         ResumeAt(s, l),
         s \in Main =>
           /\ \A j \in 1..Index(s) - 1 : IsDone(j)
           /\ \A k \in DOMAIN Order : Open(k) => k = Index(s)
  PROVE  IInv' /\ Unrecorded
<1>1. /\ log' = l /\ signal' = FALSE /\ resumes' \in 0..MaxResumes
      /\ UNCHANGED <<over, denying, crashes>>
  BY FlowAssumption DEF ResumeAt, IInv, TypeOK, FlowAssumption
<1>2. /\ runner' \in Runner /\ runner'.pc = "top" /\ runner'.err = "none"
      /\ runner'.i = Index(s) /\ runner'.from = {s}
  <2>1. /\ Index(s) \in 1..Len(Order) + 1 /\ l.done \in SUBSET Stages
        /\ l.tries \in [Stages -> Nat] /\ Resumable(l) \in SUBSET Stages
    BY IndexOf DEF Log, Resumable
  <2>2. NoRunner \in Runner /\ NoRunner.err = "none"
    BY FlowFacts DEF NoRunner, Runner, Pcs, Gone
  <2>3. runner' = [NoRunner EXCEPT
                     !.pc = "top", !.fresh = FALSE, !.i = Index(s), !.done = l.done,
                     !.tries = l.tries, !.cont = Resumable(l), !.from = {s}]
    BY DEF ResumeAt
  <2> HIDE DEF NoRunner
  <2>4. QED
    BY <2>1, <2>2, <2>3 DEF Runner, Pcs
<1>3. TypeOK'
  BY <1>1, <1>2 DEF IInv, TypeOK
<1>4. FromFinalizer' => s \notin Main
  BY <1>2, FlowFacts DEF FromFinalizer
<1>5. s \notin Main => FromFinalizer' /\ Index(s) = Len(Order) + 1
  <2>1. s \notin Main => s \in Finalizer
    BY FlowAssumption DEF FlowAssumption
  <2>2. QED
    BY <1>2, <2>1, IndexOf DEF FromFinalizer
<1>6. \A k \in DOMAIN Order : Open(k)' = Open(k) /\ IsDone(k)' = IsDone(k)
  BY <1>1 DEF Open, IsDone
<1>7. OpenIsNext'
  BY <1>6, FlowFacts DEF IInv, OpenIsNext, IsDone, Open
<1>8. OpenIsHere'
  BY <1>2, <1>5, <1>6 DEF OpenIsHere
<1>9. PassedStagesAreDone'
  BY <1>1, <1>2, <1>5 DEF PassedStagesAreDone, IsDone
<1>10. Placed'
  BY <1>2, <1>4, <1>5, IndexOf DEF Placed, Gone
<1>11. Reported' /\ Waiting'
  BY <1>1, <1>2 DEF IInv, Reported, Waiting
<1>12. QED
  BY <1>1, <1>3, <1>7, <1>8, <1>9, <1>10, <1>11 DEF IInv, Unrecorded

LEMMA ResumeKeeps ==
  ASSUME IInv, Resume PROVE IInv' /\ Unrecorded
<1>1. PICK s \in Resumable(log) : ResumeAt(s, log)
  BY DEF Resume
<1>2. s \in Stages /\ log \in Log /\ log.st[s] \in {"started", "blocked", "awaiting"}
  BY DEF Resumable, IInv, TypeOK
<1>3. ASSUME s \in Main
      PROVE  /\ \A j \in 1..Index(s) - 1 : IsDone(j)
             /\ \A k \in DOMAIN Order : Open(k) => k = Index(s)
  <2>1. Index(s) \in DOMAIN Order /\ Open(Index(s))
    BY <1>2, <1>3, IndexOf DEF Open
  <2>2. QED
    BY <2>1 DEF IInv, OpenIsNext
<1>4. QED
  BY <1>1, <1>2, <1>3, ResumeAtKeeps

LEMMA ResumeBudgetKeeps ==
  ASSUME IInv, ResumeBudget PROVE IInv' /\ Unrecorded
<1>1. PICK i \in DOMAIN Order :
        /\ \A j \in 1..i - 1 : Order[j] \in log.done
        /\ ResumeAt(Order[i], Resumed(log))
  BY DEF ResumeBudget
<1>2. log \in Log /\ Order[i] \in Main /\ Order[i] \in Stages
  BY FlowFacts DEF IInv, TypeOK
<1>3. Index(Order[i]) = i
  BY <1>2, IndexOf, FlowFacts
<1>4. \A k \in DOMAIN Order : ~Open(k)
  BY FlowFacts DEF ResumeBudget, BudgetAllows, Resumable, Open
<1>5. QED
  BY <1>1, <1>2, <1>3, <1>4, ResumedLog, ResumeAtKeeps DEF IsDone

----------------------------------------------------------------------------
(* The theorems.                                                           *)

LEMMA InitInvariant == Init => IInv
<1> SUFFICES ASSUME Init PROVE IInv
  OBVIOUS
<1>1. log = NewLog /\ runner = NoRunner
  BY DEF Init
<1>2. NewLog \in Log /\ NoRunner \in Runner
  BY FlowFacts DEF NewLog, Log, RunStatus, StageStatus, NoRunner, Runner, Pcs, Gone
<1>3. TypeOK
  <2>1. MaxResumes \in Nat /\ MaxCrashes \in Nat
    BY FlowAssumption DEF FlowAssumption
  <2>2. 0 \in 0..MaxResumes /\ 0 \in 0..MaxCrashes
    BY <2>1
  <2>3. QED
    BY <1>1, <1>2, <2>2 DEF Init, TypeOK
<1>4. \A k \in DOMAIN Order : ~Open(k)
  BY <1>1, FlowFacts DEF NewLog, Open
<1>5. Placed /\ Reported /\ Waiting
  BY <1>1, <1>4 DEF Placed, Reported, Waiting, NoRunner, NewLog, Gone
<1>6. OpenIsNext /\ OpenIsHere /\ PassedStagesAreDone
  BY <1>1, <1>4 DEF OpenIsNext, OpenIsHere, PassedStagesAreDone, NoRunner, Gone
<1>7. QED
  BY <1>3, <1>5, <1>6 DEF IInv

\* Every step but FinishRun keeps the invariant and records no completion.
LEMMA StepKeeps ==
  ASSUME IInv, [Next]_vars, ~FinishRun PROVE IInv' /\ Unrecorded
<1>1. CASE UNCHANGED vars
  <2>1. /\ log' = log /\ runner' = runner /\ signal' = signal /\ over' = over
        /\ denying' = denying /\ resumes' = resumes /\ crashes' = crashes
    BY <1>1 DEF vars
  <2>2. TypeOK'
    BY <2>1 DEF IInv, TypeOK
  <2>3. Placed' /\ Reported' /\ Waiting'
    BY <2>1 DEF IInv, Placed, Reported, Waiting, Open, Here, FromFinalizer
  <2>4. OpenIsNext' /\ OpenIsHere' /\ PassedStagesAreDone'
    BY <2>1 DEF IInv, OpenIsNext, OpenIsHere, PassedStagesAreDone, Open, IsDone,
                FromFinalizer
  <2>5. QED
    BY <2>1, <2>2, <2>3, <2>4 DEF IInv, Unrecorded
<1>2. CASE Start \/ Resume \/ ResumeBudget
  BY <1>2, StartKeeps, ResumeKeeps, ResumeBudgetKeeps
<1>3. CASE Run
  BY <1>3, CloseInterruptedKeeps, BeginPolicyKeeps, ExhaustedKeeps,
     BeginStepKeeps, CollideKeeps, CompleteKeeps, AdvanceKeeps, AwaitKeeps,
     FailAttemptKeeps, StopOnBudgetKeeps, BlockRunKeeps, SeeCancelKeeps,
     RetryKeeps, RequestReworkKeeps, GiveUpKeeps, FailPreRunKeeps,
     EndLoopKeeps, FailPostRunKeeps, CatchKeeps, SkipFinalizersKeeps, BeginFinalizerKeeps,
     EndFinalizerKeeps
     DEF Run
<1>4. CASE Operate
  BY <1>4, CancelRunKeeps, ApproveRunKeeps, DenyApprovalKeeps,
     LookAtDeniedKeeps, FailDeniedKeeps, RaiseCapKeeps
     DEF Operate
<1>5. CASE Crash
  BY <1>5, CrashKeeps
<1>6. QED
  BY <1>1, <1>2, <1>3, <1>4, <1>5 DEF Next

LEMMA NextInvariant == IInv /\ [Next]_vars => IInv'
  BY StepKeeps, FinishRunKeeps

\* The log and the runner of FlowRun have their types: every event is
\* projected to a run of the enumerated states, and a runner stands at a stage
\* of the order or right behind it.
THEOREM FlowTypeCorrect == Spec => []TypeOK
<1>1. IInv => TypeOK
  BY DEF IInv
<1>2. QED
  BY InitInvariant, NextInvariant, <1>1, PTL DEF Spec

\* Every stage before the one a runner is at has completed in the log, after
\* any reworks, crashes, resumes and raised caps.
THEOREM PassedStagesAreDoneAlways == Spec => []PassedStagesAreDone
<1>1. IInv => PassedStagesAreDone
  BY DEF IInv
<1>2. QED
  BY InitInvariant, NextInvariant, <1>1, PTL DEF Spec

LEMMA UnrecordedStep ==
  ASSUME IInv, Unrecorded PROVE ~Recorded("completed")
<1> SUFFICES ASSUME log' # log, log' = Ended(log, "completed") PROVE FALSE
  BY DEF Recorded
<1>1. log \in Log
  BY DEF IInv, TypeOK
<1>2. log'.status = "completed" /\ log'.ended = log.ended \cup {"completed"}
  BY <1>1 DEF Ended, Log
<1>3. log.status = "completed" /\ log.ended = log.ended \cup {"completed"}
  BY <1>2 DEF Unrecorded
<1>4. Ended(log, "completed") =
        [log EXCEPT !.status = "completed", !.ended = log.ended \cup {"completed"},
                    !.budget = log.budget]
  BY <1>1 DEF Ended, Log
<1>5. log = [log EXCEPT !.status = log.status, !.ended = log.ended, !.budget = log.budget]
  BY <1>1 DEF Log
<1>6. QED
  BY <1>3, <1>4, <1>5

\* Behind run.completed stands every stage of the Flow, unless the Run was
\* resumed in its finalizer: finishing a Run finds each of them completed.
THEOREM CompletedIsCompleteAlways == Spec => CompletedIsComplete
<1>1. ASSUME IInv, [Next]_vars
      PROVE  [Recorded("completed") /\ ~FromFinalizer => Main \subseteq log.done]_vars
  <2>1. CASE FinishRun
    <3>1. runner.pc = "finish" /\ runner.err = "none" /\ runner.i = Len(Order) + 1
      BY <1>1, <2>1 DEF FinishRun, At, IInv, Placed
    <3>2. ~FromFinalizer => \A j \in 1..Len(Order) : Order[j] \in log.done
      BY <1>1, <3>1, FlowFacts DEF IInv, PassedStagesAreDone, Gone
    <3>3. ~FromFinalizer => Main \subseteq log.done
      BY <3>2, FlowFacts
    <3>4. QED
      BY <3>3
  <2>2. CASE ~FinishRun
    BY <1>1, <2>2, StepKeeps, UnrecordedStep
  <2>3. QED
    BY <2>1, <2>2
<1>2. QED
  BY InitInvariant, NextInvariant, <1>1, PTL DEF Spec, CompletedIsComplete
=============================================================================
