--------------------------- MODULE FlowEndsProofs ---------------------------
(***************************************************************************)
(* Theorems about FlowRun that rest on how its attempts begin and how its  *)
(* runners end: an approval is passed on an answer of its own, no attempt  *)
(* number is used twice, and a runner that returned has reported an end or *)
(* has left a stage to resume.  With them, FlowRun implements RunStages.   *)
(***************************************************************************)
EXTENDS FlowRunProofs

----------------------------------------------------------------------------
(* What the events of the log leave alone.                                 *)

LEMMA StartedRest ==
  ASSUME NEW l \in Log, NEW s \in Stages, NEW n \in Nat
  PROVE  /\ Started(l, s, n).tries =
              [l.tries EXCEPT ![s] = IF n > l.tries[s] THEN n ELSE l.tries[s]]
         /\ Started(l, s, n).resumed = l.resumed
         /\ \A a \in Approvals : Started(l, s, n).verdict[a] =
                                 IF a = s THEN "none" ELSE l.verdict[a]
         /\ Started(l, s, n).status = l.status \/ l.status = "created"
BY DEF Started, Log

LEMMA CompletedRest ==
  ASSUME NEW l \in Log, NEW s \in Stages
  PROVE  Completed(l, s).tries = l.tries /\ Completed(l, s).resumed = l.resumed
BY DEF Completed, Log

LEMMA FailedRest ==
  ASSUME NEW l \in Log, NEW s \in Stages
  PROVE  Failed(l, s).tries = l.tries /\ Failed(l, s).resumed = l.resumed
BY DEF Failed, Log

LEMMA ReworkedRest ==
  ASSUME NEW l \in Log, NEW s \in Stages
  PROVE  Reworked(l, s).tries = l.tries /\ Reworked(l, s).resumed = l.resumed
BY DEF Reworked, Log

LEMMA AskedRest ==
  ASSUME NEW l \in Log, NEW a \in Approvals, Approvals \subseteq Stages,
         NEW v \in {"none", "pending", "approved", "denied"}
  PROVE  /\ Asked(l, a, v).tries = l.tries /\ Asked(l, a, v).resumed = l.resumed
         /\ Asked(l, a, v).status = IF l.status \in Ends THEN l.status ELSE "awaiting"
BY DEF Asked, Log

LEMMA EndedRest ==
  ASSUME NEW l \in Log, NEW end \in Ends
  PROVE  /\ Ended(l, end).tries = l.tries /\ Ended(l, end).resumed = l.resumed
         /\ Ended(l, end).ended = l.ended \cup {end}
BY DEF Ended, Log

LEMMA BudgetStoppedRest ==
  ASSUME NEW l \in Log
  PROVE  /\ BudgetStopped(l).tries = l.tries /\ BudgetStopped(l).resumed = l.resumed
         /\ BudgetStopped(l).ended = l.ended \cup {"failed"}
BY DEF BudgetStopped, Ended, Log

LEMMA BlockedRest ==
  ASSUME NEW l \in Log, NEW s \in Stages
  PROVE  /\ Blocked(l, s).tries = l.tries /\ Blocked(l, s).resumed = l.resumed
         /\ Blocked(l, s).ended = l.ended \cup {"blocked"}
BY DEF Blocked, Ended, Log

----------------------------------------------------------------------------
(* The inductive invariant.                                                *)

OpenStatus == {"started", "blocked", "awaiting"}
Closing == {"completed", "failed", "cancelled"}
CountedStages == {s \in Stages : s \in Finalizer \/ (s \in Main /\ Kind[s] = "policy")}

\* An attempt of an approval begins without a verdict, and has one only when
\* it waits.
Answered ==
  /\ \A a \in Approvals : log.st[a] = "started" => log.verdict[a] = "none"
  /\ runner.pc = "run" /\ Here \in Approvals => log.st[Here] \in {"started", "awaiting"}
\* A runner knows of every attempt of the stages that it counts itself.
Counted == \A s \in CountedStages : log.tries[s] <= runner.tries[s]
\* What a runner finds open at the top of its loop is for it to continue.
Continued ==
  /\ runner.fresh => runner.cont = {} /\ runner.from = {}
  /\ runner.pc = "top" /\ runner.i <= Len(Order) /\ log.st[Here] \in OpenStatus
       => Here \in runner.cont
\* A runner that was blocked left a blocked stage.
Blocks ==
  runner.err = "blocked" =>
    runner.i \in DOMAIN Order /\ Kind[Here] = "policy" /\ log.st[Here] = "blocked"
\* A cancel ends the log, and only a stage that blocks reopens it.
Signalled == signal /\ runner.err # "blocked" => log.status \in Closing
FreshEnds ==
  runner.fresh /\ log.ended # {} /\ runner.err # "blocked" => log.status \in Closing

\* The rest is about Runs without a run.resumed.  A stage that blocks opens a Run
\* again behind its run.failed.
Again == log.status = "blocked" /\ "failed" \in log.ended
FailureEnds == "failed" \in log.ended => log.status \in Closing \/ Again
\* A runner that threw has an end in the log, or writes one.
Thrown ==
  /\ runner.pc = "catch" /\ runner.err = "cancelled" => log.status \in Closing
  /\ runner.pc = "catch" /\ runner.err = "failed" =>
       log.status \in Closing \/ Again \/ (runner.fresh /\ log.ended = {})
  /\ runner.pc \in {"finalize", "finalizer"} /\ runner.err \in {"failed", "cancelled"}
       => log.status \in Closing \/ Again
Left == runner.pc = "left" => HasEnd \/ Again
Unresumed == ~log.resumed => Thrown /\ FailureEnds /\ Left

EndsInv ==
  /\ Answered /\ Counted /\ Continued /\ Blocks /\ Signalled /\ FreshEnds /\ Unresumed

LEMMA FlowTypes ==
  ASSUME IInv
  PROVE  /\ log \in Log /\ runner \in Runner
         /\ log.st \in [Stages -> StageStatus] /\ log.tries \in [Stages -> Nat]
         /\ log.verdict \in [Approvals -> {"none", "pending", "approved", "denied"}]
         /\ log.status \in RunStatus /\ log.ended \subseteq Ends
         /\ runner.tries \in [Stages -> Nat] /\ runner.i \in 1..Len(Order) + 1
         /\ runner.pc \in Pcs /\ runner.fresh \in BOOLEAN
         /\ signal \in BOOLEAN /\ log.resumed \in BOOLEAN
         /\ runner.err \in {"none", "failed", "blocked", "cancelled"}
BY DEF IInv, TypeOK, Log, Runner

\* A runner within the loop stands at the only stage that may be open.
LEMMA OnlyHere ==
  ASSUME IInv, runner.pc \notin Gone, runner.i <= Len(Order)
  PROVE  /\ runner.i \in DOMAIN Order /\ Here \in Main
         /\ ~FromFinalizer
         /\ \A s \in Main : log.st[s] \in OpenStatus => s = Here
<1>1. runner.i \in DOMAIN Order BY FlowTypes, FlowFacts
<1>2. ~FromFinalizer BY <1>1, FlowFacts DEF IInv, Placed
<1>3. ASSUME NEW s \in Main, log.st[s] \in OpenStatus PROVE s = Here
  <2>1. PICK k \in DOMAIN Order : Order[k] = s BY FlowFacts
  <2>2. k = runner.i BY <1>2, <1>3, <2>1 DEF IInv, OpenIsHere, Open, OpenStatus
  <2> QED BY <2>1, <2>2 DEF Here
<1> QED BY <1>1, <1>2, <1>3, FlowFacts DEF Here

\* A stage is started by a new attempt, and an approval completed by an answer.
Progress ==
  \A s \in Stages :
    /\ log.st[s] # "started" /\ log'.st[s] = "started" => log'.tries[s] > log.tries[s]
    /\ s \in Approvals /\ log.st[s] # "completed" /\ log'.st[s] = "completed"
         => log.st[s] = "awaiting" /\ log.verdict[s] = "approved"

----------------------------------------------------------------------------
(* The steps of a runner.                                                  *)

LEMMA CloseInterruptedEnds ==
  ASSUME IInv, EndsInv, CloseInterrupted PROVE EndsInv' /\ Progress
<1>1. /\ runner.pc = "top" /\ runner.i <= Len(Order) /\ log.st[Here] = "started"
      /\ ~runner.fresh
  BY DEF CloseInterrupted, AtStage, At
<1>2. /\ runner.i \in DOMAIN Order /\ Here \in Main /\ Here \in Stages
      /\ runner.err = "none" /\ runner.pc \notin Gone
      /\ \A s \in Main : log.st[s] \in OpenStatus => s = Here
  BY <1>1, AtStageFacts, OnlyHere
<1>3. /\ log'.st = [log.st EXCEPT ![Here] = "failed"] /\ log'.tries = log.tries
      /\ log'.verdict = log.verdict /\ log'.status = log.status
      /\ log'.ended = log.ended /\ log'.resumed = log.resumed
  BY FlowTypes, <1>2, FailedLog, FailedRest DEF CloseInterrupted
<1>4. runner' = runner /\ signal' = signal
  BY DEF CloseInterrupted, others
<1>5. Answered' /\ Counted' /\ Continued' /\ Blocks' /\ Signalled' /\ FreshEnds'
  BY <1>1, <1>3, <1>4
   DEF EndsInv, Answered, Here, Counted, CountedStages, Continued, OpenStatus, Blocks,
       Signalled, Closing, FreshEnds
<1>6. Progress
  BY <1>3 DEF EndsInv, Progress, Answered
<1>7. Unresumed'
  <2> SUFFICES ASSUME ~log'.resumed PROVE Thrown' /\ FailureEnds' /\ Left'
    BY DEF Unresumed
  <2>1. Thrown /\ FailureEnds /\ Left
    BY <1>3 DEF EndsInv, Unresumed
  <2> QED
    BY <2>1, <1>1, <1>3, <1>4
     DEF Thrown, FailureEnds, Again, EndsInv, Signalled, FreshEnds, Closing, Blocks, Left,
         HasEnd, Resumable
<1> QED BY <1>5, <1>6, <1>7 DEF EndsInv

LEMMA BeginPolicyEnds ==
  ASSUME IInv, EndsInv, BeginPolicy PROVE EndsInv' /\ Progress
<1>1. /\ runner.pc = "top" /\ runner.i <= Len(Order) /\ log.st[Here] # "started"
      /\ Kind[Here] = "policy"
  BY DEF BeginPolicy, AtStage, At
<1>2. /\ runner.i \in DOMAIN Order /\ Here \in Main /\ Here \in Stages
      /\ runner.err = "none" /\ runner.pc \notin Gone
      /\ \A s \in Main : log.st[s] \in OpenStatus => s = Here
  BY <1>1, AtStageFacts, OnlyHere
<1>3. /\ log'.st = [log.st EXCEPT ![Here] = "started"]
      /\ log'.tries = [log.tries EXCEPT ![Here] =
           IF runner.tries[Here] + 1 > log.tries[Here] THEN runner.tries[Here] + 1
           ELSE log.tries[Here]]
      /\ \A a \in Approvals :
           log'.verdict[a] = IF a = Here THEN "none" ELSE log.verdict[a]
      /\ log'.status = log.status \/ log.status = "created"
      /\ log'.ended = log.ended /\ log'.resumed = log.resumed
  <2> DEFINE n == runner.tries[Here] + 1
  <2>1. n \in Nat /\ log' = Started(log, Here, n) BY FlowTypes, <1>2 DEF BeginPolicy
  <2> HIDE DEF n
  <2>2. log'.st = [log.st EXCEPT ![Here] = "started"] /\ log'.ended = log.ended
    BY FlowTypes, <1>2, <2>1, StartedLog
  <2>3. log \in Log /\ Here \in Stages BY FlowTypes, <1>2
  <2>4. /\ log'.tries = [log.tries EXCEPT ![Here] = IF n > log.tries[Here] THEN n
                                                   ELSE log.tries[Here]]
        /\ \A a \in Approvals :
             log'.verdict[a] = IF a = Here THEN "none" ELSE log.verdict[a]
        /\ log'.resumed = log.resumed
        /\ log'.status = log.status \/ log.status = "created"
    BY <2>1, <2>3, StartedRest
  <2> QED BY <2>2, <2>4 DEF n
<1>4. /\ runner'.i = runner.i /\ runner'.fresh = runner.fresh /\ runner'.from = runner.from
      /\ runner'.tries = [runner.tries EXCEPT ![Here] = runner.tries[Here] + 1]
      /\ runner'.cont = runner.cont \ {Here}
      /\ \/ signal /\ runner'.pc = "catch" /\ runner'.err = "cancelled"
         \/ runner'.pc = "run" /\ runner'.err = "none"
      /\ signal' = signal
  BY FlowTypes, <1>2 DEF BeginPolicy, others, Runner
<1>5. Answered' /\ Counted' /\ Continued' /\ Blocks' /\ Signalled' /\ FreshEnds'
  BY FlowTypes, <1>2, <1>3, <1>4, FlowFacts
   DEF EndsInv, Answered, Here, Counted, CountedStages, Continued, OpenStatus, Blocks,
       Signalled, Closing, FreshEnds
<1>6. Progress
  BY FlowTypes, <1>1, <1>2, <1>3, FlowFacts DEF Progress, EndsInv, Counted, CountedStages
<1>7. Unresumed'
  <2> SUFFICES ASSUME ~log'.resumed PROVE Thrown' /\ FailureEnds' /\ Left'
    BY DEF Unresumed
  <2>1. Thrown /\ FailureEnds /\ Left
    BY <1>3 DEF EndsInv, Unresumed
  <2> QED
    BY <2>1, <1>2, <1>3, <1>4
     DEF Thrown, FailureEnds, Again, EndsInv, Signalled, FreshEnds, Closing, Blocks, Left,
         HasEnd, Resumable
<1> QED BY <1>5, <1>6, <1>7 DEF EndsInv

LEMMA ExhaustedEnds ==
  ASSUME IInv, EndsInv, Exhausted PROVE EndsInv' /\ Progress
<1>1. /\ runner.pc = "top" /\ runner.i <= Len(Order) /\ log.st[Here] # "started"
      /\ Kind[Here] = "policy" /\ Here \notin runner.cont
  BY DEF Exhausted, AtStage, At, MayBegin
<1>2. /\ runner.i \in DOMAIN Order /\ Here \in Main /\ Here \in Stages
      /\ runner.err = "none" /\ runner.pc \notin Gone
      /\ \A s \in Main : log.st[s] \in OpenStatus => s = Here
  BY <1>1, AtStageFacts, OnlyHere
<1>3. \A s \in Main : log.st[s] \notin OpenStatus
  BY <1>1, <1>2 DEF EndsInv, Continued
<1>4. /\ \A s \in Stages : log'.st[s] = log.st[s] \/ log'.st[s] = "failed"
      /\ log'.tries = log.tries /\ log'.verdict = log.verdict /\ log'.resumed = log.resumed
      /\ \/ log'.status = "failed" /\ log'.ended = log.ended \cup {"failed"}
         \/ /\ ~runner.fresh /\ "failed" \in log.ended
            /\ log'.status = log.status /\ log'.ended = log.ended
  <2> DEFINE l == IF runner.fresh \/ log.st[Here] = "failed" THEN log ELSE Failed(log, Here)
  <2>1. log' = IF ~runner.fresh /\ "failed" \in log.ended THEN l ELSE Ended(l, "failed")
    BY DEF Exhausted
  <2>2. l = log \/ l = Failed(log, Here) OBVIOUS
  <2> HIDE DEF l
  <2>3. /\ l \in Log /\ l.tries = log.tries /\ l.verdict = log.verdict
        /\ l.status = log.status /\ l.ended = log.ended /\ l.resumed = log.resumed
        /\ \A s \in Stages : l.st[s] = log.st[s] \/ l.st[s] = "failed"
    <3>1. CASE l = log BY FlowTypes, <3>1
    <3>2. CASE l = Failed(log, Here)
      <4>1. log \in Log /\ Here \in Stages BY FlowTypes, <1>2
      <4>2. /\ l \in Log /\ l.st = [log.st EXCEPT ![Here] = "failed"]
            /\ l.verdict = log.verdict /\ l.status = log.status /\ l.ended = log.ended
        BY <3>2, <4>1, FailedLog
      <4>3. l.tries = log.tries /\ l.resumed = log.resumed BY <3>2, <4>1, FailedRest
      <4> QED BY FlowTypes, <4>1, <4>2, <4>3
    <3> QED BY <2>2, <3>1, <3>2
  <2>4. "failed" \in Ends BY DEF Ends
  <2>5. CASE log' = l /\ ~runner.fresh /\ "failed" \in log.ended BY <2>3, <2>5
  <2>6. CASE log' = Ended(l, "failed") BY <2>3, <2>4, <2>6, EndedLog, EndedRest
  <2> QED BY <2>1, <2>5, <2>6
<1>5. /\ runner'.pc = "catch" /\ runner'.err = "failed"
      /\ runner'.i = runner.i
      /\ runner'.fresh = runner.fresh /\ runner'.from = runner.from
      /\ runner'.cont = runner.cont /\ runner'.tries = runner.tries
      /\ signal' = signal
  BY FlowTypes DEF Exhausted, Throw, others, Runner
<1>6. Answered' /\ Counted' /\ Continued' /\ Blocks' /\ Signalled' /\ FreshEnds'
  BY <1>3, <1>4, <1>5, FlowFacts
   DEF EndsInv, Answered, Here, Counted, CountedStages, Continued, OpenStatus, Blocks,
       Signalled, Closing, FreshEnds
<1>7. Progress
  BY <1>4 DEF EndsInv, Progress, Answered
<1>8. Unresumed'
  <2> SUFFICES ASSUME ~log'.resumed PROVE Thrown' /\ FailureEnds' /\ Left'
    BY DEF Unresumed
  <2>1. Thrown /\ FailureEnds /\ Left
    BY <1>4 DEF EndsInv, Unresumed
  <2> QED
    BY <2>1, <1>4, <1>5
     DEF Thrown, FailureEnds, Again, EndsInv, Signalled, FreshEnds, Closing, Blocks, Left,
         HasEnd, Resumable
<1> QED BY <1>6, <1>7, <1>8 DEF EndsInv

LEMMA BeginStepEnds ==
  ASSUME IInv, EndsInv, BeginStep PROVE EndsInv' /\ Progress
<1>1. /\ runner.pc = "top" /\ runner.i <= Len(Order) /\ log.st[Here] # "started"
      /\ Kind[Here] # "policy" /\ ~(runner.fresh /\ log.tries[Here] > 0)
  BY DEF BeginStep, AtStage, At, Collides
<1>2. /\ runner.i \in DOMAIN Order /\ Here \in Main /\ Here \in Stages
      /\ runner.err = "none" /\ runner.pc \notin Gone
      /\ \A s \in Main : log.st[s] \in OpenStatus => s = Here
  BY <1>1, AtStageFacts, OnlyHere
<1>3. \/ log' = log /\ Continues
      \/ /\ log'.st = [log.st EXCEPT ![Here] = "started"] /\ ~Continues
         /\ \A s \in Stages \ {Here} : log'.tries[s] = log.tries[s]
         /\ log'.tries[Here] > log.tries[Here]
         /\ \A a \in Approvals :
              log'.verdict[a] = IF a = Here THEN "none" ELSE log.verdict[a]
         /\ log'.status = log.status \/ log.status = "created"
         /\ log'.ended = log.ended /\ log'.resumed = log.resumed
  <2> DEFINE n == IF runner.fresh THEN 1 ELSE log.tries[Here] + 1
  <2>1. log' = IF Continues THEN log ELSE Started(log, Here, n) BY DEF BeginStep
  <2>2. n \in Nat /\ log \in Log /\ Here \in Stages /\ log.tries \in [Stages -> Nat]
    BY FlowTypes, <1>2
  <2>3. log.st \in [Stages -> StageStatus]
    BY FlowTypes
  <2> HIDE DEF n
  <2>4. ASSUME log' = Started(log, Here, n)
        PROVE  log'.st = [log.st EXCEPT ![Here] = "started"] /\ log'.ended = log.ended
    BY <2>2, <2>3, <2>4, StartedLog
  <2>5. ASSUME log' = Started(log, Here, n)
        PROVE  /\ log'.tries = [log.tries EXCEPT ![Here] = IF n > log.tries[Here] THEN n
                                                          ELSE log.tries[Here]]
               /\ \A a \in Approvals :
                    log'.verdict[a] = IF a = Here THEN "none" ELSE log.verdict[a]
               /\ log'.resumed = log.resumed
               /\ log'.status = log.status \/ log.status = "created"
    BY <2>2, <2>5, StartedRest
  <2>6. n > log.tries[Here] BY <1>1, <2>2 DEF n
  <2>7. ASSUME log' = Started(log, Here, n)
        PROVE  /\ \A s \in Stages \ {Here} : log'.tries[s] = log.tries[s]
               /\ log'.tries[Here] > log.tries[Here]
    BY <2>2, <2>5, <2>6, <2>7
  <2> QED BY <2>1, <2>4, <2>5, <2>7
<1>4. /\ runner'.i = runner.i /\ runner'.fresh = runner.fresh /\ runner'.from = runner.from
      /\ runner'.tries = runner.tries /\ runner'.cont = runner.cont \ {Here}
      /\ \/ runner'.pc = "run" /\ runner'.err = "none"
         \/ signal /\ runner'.pc = "catch" /\ runner'.err = "cancelled"
         \/ signal /\ runner'.pc = "left" /\ runner'.err = "none"
      /\ signal' = signal
  BY FlowTypes, <1>2 DEF BeginStep, others, Runner
<1>5. log'.st[Here] \in {"started", "awaiting"}
  BY FlowTypes, <1>2, <1>3 DEF Continues
<1>6. Answered' /\ Continued' /\ Blocks' /\ Signalled' /\ FreshEnds'
  BY FlowTypes, <1>2, <1>3, <1>4, <1>5, FlowFacts
   DEF EndsInv, Answered, Here, Continued, OpenStatus, Blocks, Signalled, Closing, FreshEnds
<1>7. Counted'
  <2>1. Here \notin CountedStages BY <1>1, <1>2, FlowFacts DEF CountedStages
  <2>2. \A s \in CountedStages : log'.tries[s] = log.tries[s] /\ runner'.tries[s] = runner.tries[s]
    BY <1>3, <1>4, <2>1 DEF CountedStages
  <2> QED BY <2>2 DEF EndsInv, Counted
<1>8. Progress
  BY FlowTypes, <1>3 DEF EndsInv, Progress, Answered
<1>9. Unresumed'
  <2> SUFFICES ASSUME ~log'.resumed PROVE Thrown' /\ FailureEnds' /\ Left'
    BY DEF Unresumed
  <2>1. Thrown /\ FailureEnds /\ Left
    BY <1>3 DEF EndsInv, Unresumed
  <2> QED
    BY <2>1, <1>2, <1>3, <1>4
     DEF Thrown, FailureEnds, Again, EndsInv, Signalled, FreshEnds, Closing, Blocks, Left,
         HasEnd, Resumable
<1> QED BY <1>6, <1>7, <1>8, <1>9 DEF EndsInv

LEMMA CollideEnds ==
  ASSUME IInv, EndsInv, Collide PROVE EndsInv' /\ Progress
<1>1. /\ runner.pc = "top" /\ runner.i <= Len(Order) /\ runner.fresh
  BY DEF Collide, AtStage, At, Collides
<1>2. /\ runner.i \in DOMAIN Order /\ Here \in Main /\ Here \in Stages
      /\ runner.err = "none" /\ runner.pc \notin Gone
      /\ \A s \in Main : log.st[s] \in OpenStatus => s = Here
  BY <1>1, AtStageFacts, OnlyHere
<1>3. /\ log'.st = log.st /\ log'.tries = log.tries /\ log'.verdict = log.verdict
      /\ log'.status = log.status /\ log'.ended = log.ended /\ log'.resumed = log.resumed
  BY DEF Collide
<1>4. /\ runner'.pc = "catch" /\ runner'.err = "failed"
      /\ runner'.i = runner.i
      /\ runner'.fresh = runner.fresh /\ runner'.from = runner.from
      /\ runner'.cont = runner.cont /\ runner'.tries = runner.tries
      /\ signal' = signal
  BY FlowTypes DEF Collide, Throw, others, Runner
<1>5. \A s \in Main : log.st[s] \notin OpenStatus
  BY <1>1, <1>2 DEF EndsInv, Continued
<1>6. Answered' /\ Counted' /\ Continued' /\ Blocks' /\ Signalled' /\ FreshEnds'
  BY <1>2, <1>3, <1>4, <1>5
   DEF EndsInv, Answered, Here, Counted, CountedStages, Continued, OpenStatus, Blocks,
       Signalled, Closing, FreshEnds
<1>7. Progress
  BY <1>3 DEF EndsInv, Progress, Answered
<1>8. Unresumed'
  <2> SUFFICES ASSUME ~log'.resumed PROVE Thrown' /\ FailureEnds' /\ Left'
    BY DEF Unresumed
  <2>1. Thrown /\ FailureEnds /\ Left
    BY <1>3 DEF EndsInv, Unresumed
  <2> QED
    BY <1>1, <1>2, <1>3, <1>4
     DEF Thrown, FailureEnds, Again, EndsInv, Signalled, FreshEnds, Closing, Blocks, Left,
         HasEnd, Resumable
<1> QED BY <1>6, <1>7, <1>8 DEF EndsInv

LEMMA CompleteEnds ==
  ASSUME IInv, EndsInv, Complete PROVE EndsInv' /\ Progress
<1>1. /\ runner.pc = "run" /\ runner.i <= Len(Order)
      /\ Here \in Approvals => log.verdict[Here] = "approved"
  <2>1. runner.i \in DOMAIN Order /\ Here \in Main
    BY FlowTypes, FlowFacts DEF Complete, AtStage, At, Here
  <2> QED BY <2>1, FlowFacts DEF Complete, AtStage, At
<1>2. /\ runner.i \in DOMAIN Order /\ Here \in Main /\ Here \in Stages
      /\ runner.err = "none" /\ runner.pc \notin Gone
      /\ \A s \in Main : log.st[s] \in OpenStatus => s = Here
  BY <1>1, AtStageFacts, OnlyHere
<1>3. /\ log'.st = [log.st EXCEPT ![Here] = "completed"] /\ log'.tries = log.tries
      /\ log'.verdict = log.verdict /\ log'.status = log.status
      /\ log'.ended = log.ended /\ log'.resumed = log.resumed
  BY FlowTypes, <1>2, CompletedLog, CompletedRest DEF Complete
<1>4. /\ runner'.pc = "post" /\ runner'.err = runner.err
      /\ runner'.i = runner.i
      /\ runner'.fresh = runner.fresh /\ runner'.from = runner.from
      /\ runner'.cont = runner.cont /\ runner'.tries = runner.tries
      /\ signal' = signal
  BY FlowTypes DEF Complete, others, Runner
<1>5. Answered' /\ Counted' /\ Continued' /\ Blocks' /\ Signalled' /\ FreshEnds'
  BY <1>2, <1>3, <1>4
   DEF EndsInv, Answered, Here, Counted, CountedStages, Continued, OpenStatus, Blocks,
       Signalled, Closing, FreshEnds
<1>6. Progress
  BY <1>1, <1>3 DEF EndsInv, Progress, Answered
<1>7. Unresumed'
  <2> SUFFICES ASSUME ~log'.resumed PROVE Thrown' /\ FailureEnds' /\ Left'
    BY DEF Unresumed
  <2>1. Thrown /\ FailureEnds /\ Left
    BY <1>3 DEF EndsInv, Unresumed
  <2> QED
    BY <2>1, <1>3, <1>4
     DEF Thrown, FailureEnds, Again, EndsInv, Signalled, FreshEnds, Closing, Blocks, Left,
         HasEnd, Resumable
<1> QED BY <1>5, <1>6, <1>7 DEF EndsInv

LEMMA AdvanceEnds ==
  ASSUME IInv, EndsInv, Advance PROVE EndsInv' /\ Progress
<1>1. /\ runner.pc = "post" /\ runner.i <= Len(Order) /\ log.st[Here] = "completed"
  BY FlowFacts DEF Advance, At, IInv, Placed, Reported
<1>2. /\ runner.i \in DOMAIN Order /\ Here \in Main /\ Here \in Stages
      /\ runner.err = "none" /\ runner.pc \notin Gone
      /\ \A s \in Main : log.st[s] \in OpenStatus => s = Here
  BY <1>1, AtStageFacts, OnlyHere
<1>3. /\ log'.st = log.st /\ log'.tries = log.tries /\ log'.verdict = log.verdict
      /\ log'.status = log.status /\ log'.ended = log.ended /\ log'.resumed = log.resumed
  BY DEF Advance
<1>4. /\ runner'.pc = "top" /\ runner'.err = runner.err /\ runner'.i = runner.i + 1
      /\ runner'.fresh = runner.fresh /\ runner'.from = runner.from
      /\ runner'.cont = runner.cont /\ runner'.tries = runner.tries
      /\ signal' = signal
  BY FlowTypes DEF Advance, others, Runner
<1>5. Answered' /\ Counted' /\ Signalled' /\ FreshEnds'
  BY <1>3, <1>4
   DEF EndsInv, Answered, Here, Counted, CountedStages, Signalled, Closing, FreshEnds, OpenStatus
<1>6. Continued'
  <2>1. \A s \in Main : log.st[s] \notin OpenStatus BY <1>1, <1>2 DEF OpenStatus
  <2>2. runner'.i <= Len(Order) => Order[runner'.i] \in Main BY FlowTypes, <1>4, FlowFacts
  <2> QED BY <1>3, <1>4, <2>1, <2>2 DEF EndsInv, Continued, Here
<1>7. Blocks'
  BY <1>2, <1>4 DEF Blocks
<1>8. Progress
  BY <1>3 DEF EndsInv, Progress, Answered
<1>9. Unresumed'
  <2> SUFFICES ASSUME ~log'.resumed PROVE Thrown' /\ FailureEnds' /\ Left'
    BY DEF Unresumed
  <2>1. Thrown /\ FailureEnds /\ Left
    BY <1>3 DEF EndsInv, Unresumed
  <2> QED
    BY <2>1, <1>3, <1>4
     DEF Thrown, FailureEnds, Again, EndsInv, Signalled, FreshEnds, Closing, Blocks, Left,
         HasEnd, Resumable
<1> QED BY <1>5, <1>6, <1>7, <1>8, <1>9 DEF EndsInv

LEMMA AwaitEnds ==
  ASSUME IInv, EndsInv, Await PROVE EndsInv' /\ Progress
<1>1. /\ runner.pc = "run" /\ runner.i <= Len(Order)
      /\ Here \in Approvals /\ log.verdict[Here] \in {"none", "pending"}
  <2>1. runner.i \in DOMAIN Order /\ Here \in Main
    BY FlowTypes, FlowFacts DEF Await, AtStage, At, Here
  <2> QED BY <2>1, FlowFacts DEF Await, AtStage, At
<1>2. /\ runner.i \in DOMAIN Order /\ Here \in Main /\ Here \in Stages
      /\ runner.err = "none" /\ runner.pc \notin Gone
      /\ \A s \in Main : log.st[s] \in OpenStatus => s = Here
  BY <1>1, AtStageFacts, OnlyHere
<1>3. /\ log'.st = [log.st EXCEPT ![Here] = "awaiting"] /\ log'.tries = log.tries
      /\ log'.verdict = [log.verdict EXCEPT ![Here] = "pending"]
      /\ log.status \in Closing \cup {"blocked"} => log'.status = log.status
      /\ log'.ended = log.ended /\ log'.resumed = log.resumed
  <2>1. CASE log.verdict[Here] = "none"
    <3>1. log' = Asked(log, Here, "pending") BY <2>1 DEF Await
    <3>2. Approvals \subseteq Stages /\ log \in Log BY FlowTypes, FlowFacts
    <3>3. /\ log'.st = [log.st EXCEPT ![Here] = "awaiting"] /\ log'.ended = log.ended
          /\ log'.verdict = [log.verdict EXCEPT ![Here] = "pending"]
      BY <1>1, <3>1, <3>2, AskedLog
    <3>4. /\ log'.tries = log.tries /\ log'.resumed = log.resumed
          /\ log'.status = IF log.status \in Ends THEN log.status ELSE "awaiting"
      BY <1>1, <3>1, <3>2, AskedRest
    <3> QED BY <3>3, <3>4 DEF Closing, Ends
  <2>2. CASE log.verdict[Here] = "pending"
    <3>1. log' = log BY <2>2 DEF Await
    <3>2. log.st[Here] = "awaiting" BY <1>1, <2>2 DEF IInv, Waiting
    <3> QED BY FlowTypes, <1>2, <2>2, <3>1, <3>2
  <2> QED BY <1>1, <2>1, <2>2
<1>4. /\ runner'.pc = "left" /\ runner'.err = runner.err
      /\ runner'.i = runner.i
      /\ runner'.fresh = runner.fresh /\ runner'.from = runner.from
      /\ runner'.cont = runner.cont /\ runner'.tries = runner.tries
      /\ signal' = signal
  BY FlowTypes DEF Await, Goto, others, Runner
<1>5. Answered' /\ Counted' /\ Continued' /\ Blocks' /\ Signalled' /\ FreshEnds'
  BY FlowTypes, <1>2, <1>3, <1>4
   DEF EndsInv, Answered, Here, Counted, CountedStages, Continued, OpenStatus, Blocks,
       Signalled, Closing, FreshEnds
<1>6. Progress
  BY <1>3 DEF EndsInv, Progress, Answered
<1>7. Unresumed'
  <2> SUFFICES ASSUME ~log'.resumed PROVE Thrown' /\ FailureEnds' /\ Left'
    BY DEF Unresumed
  <2>1. Thrown /\ FailureEnds /\ Left
    BY <1>3 DEF EndsInv, Unresumed
  <2> QED
    BY <2>1, FlowTypes, <1>2, <1>3, <1>4
     DEF Thrown, FailureEnds, Again, EndsInv, Signalled, FreshEnds, Closing, Blocks, Left,
         HasEnd, Resumable
<1> QED BY <1>5, <1>6, <1>7 DEF EndsInv

LEMMA FailAttemptEnds ==
  ASSUME IInv, EndsInv, FailAttempt PROVE EndsInv' /\ Progress
<1>1. /\ runner.pc \in {"run", "post"} /\ runner.i <= Len(Order)
  BY DEF FailAttempt, AtStage, At
<1>2. /\ runner.i \in DOMAIN Order /\ Here \in Main /\ Here \in Stages
      /\ runner.err = "none" /\ runner.pc \notin Gone
      /\ \A s \in Main : log.st[s] \in OpenStatus => s = Here
  BY <1>1, AtStageFacts, OnlyHere
<1>3. /\ log'.st = [log.st EXCEPT ![Here] = "failed"] /\ log'.tries = log.tries
      /\ log'.verdict = log.verdict /\ log'.status = log.status
      /\ log'.ended = log.ended /\ log'.resumed = log.resumed
  BY FlowTypes, <1>2, FailedLog, FailedRest DEF FailAttempt
<1>4. /\ runner'.pc = "policy" /\ runner'.err = runner.err
      /\ runner'.i = runner.i
      /\ runner'.fresh = runner.fresh /\ runner'.from = runner.from
      /\ runner'.cont = runner.cont /\ runner'.tries = runner.tries
      /\ signal' = signal
  BY FlowTypes DEF FailAttempt, others, Runner
<1>5. Answered' /\ Counted' /\ Continued' /\ Blocks' /\ Signalled' /\ FreshEnds'
  BY <1>2, <1>3, <1>4
   DEF EndsInv, Answered, Here, Counted, CountedStages, Continued, OpenStatus, Blocks,
       Signalled, Closing, FreshEnds
<1>6. Progress
  BY <1>3 DEF EndsInv, Progress, Answered
<1>7. Unresumed'
  <2> SUFFICES ASSUME ~log'.resumed PROVE Thrown' /\ FailureEnds' /\ Left'
    BY DEF Unresumed
  <2>1. Thrown /\ FailureEnds /\ Left
    BY <1>3 DEF EndsInv, Unresumed
  <2> QED
    BY <2>1, <1>3, <1>4
     DEF Thrown, FailureEnds, Again, EndsInv, Signalled, FreshEnds, Closing, Blocks, Left,
         HasEnd, Resumable
<1> QED BY <1>5, <1>6, <1>7 DEF EndsInv

LEMMA StopOnBudgetEnds ==
  ASSUME IInv, EndsInv, StopOnBudget PROVE EndsInv' /\ Progress
<1>1. /\ runner.pc \in {"run", "post"} /\ runner.i <= Len(Order)
  BY DEF StopOnBudget, AtStage, At
<1>2. /\ runner.i \in DOMAIN Order /\ Here \in Main /\ Here \in Stages
      /\ runner.err = "none" /\ runner.pc \notin Gone
      /\ \A s \in Main : log.st[s] \in OpenStatus => s = Here
  BY <1>1, AtStageFacts, OnlyHere
<1>3. /\ \A s \in Stages : log'.st[s] = log.st[s] \/ log'.st[s] = "failed"
      /\ \A s \in Main : log'.st[s] \notin OpenStatus
      /\ log'.tries = log.tries /\ log'.verdict = log.verdict /\ log'.resumed = log.resumed
      /\ log'.status = "failed" /\ log'.ended = log.ended \cup {"failed"}
  <2> DEFINE l == IF At("post") THEN log ELSE Failed(log, Here)
  <2>1. log' = BudgetStopped(l) BY DEF StopOnBudget
  <2>2. (runner.pc = "post" /\ l = log) \/ l = Failed(log, Here) BY DEF At
  <2> HIDE DEF l
  <2>3. /\ l \in Log /\ l.tries = log.tries /\ l.verdict = log.verdict
        /\ l.status = log.status /\ l.ended = log.ended /\ l.resumed = log.resumed
        /\ \A s \in Stages : l.st[s] = log.st[s] \/ l.st[s] = "failed"
        /\ l.st[Here] \in {"completed", "failed"}
    <3>1. CASE runner.pc = "post" /\ l = log BY FlowTypes, <3>1 DEF IInv, Reported
    <3>2. CASE l = Failed(log, Here)
      <4>1. log \in Log /\ Here \in Stages BY FlowTypes, <1>2
      <4>2. /\ l \in Log /\ l.st = [log.st EXCEPT ![Here] = "failed"]
            /\ l.verdict = log.verdict /\ l.status = log.status /\ l.ended = log.ended
        BY <3>2, <4>1, FailedLog
      <4>3. l.tries = log.tries /\ l.resumed = log.resumed BY <3>2, <4>1, FailedRest
      <4> QED BY FlowTypes, <4>1, <4>2, <4>3
    <3> QED BY <2>2, <3>1, <3>2
  <2>4. \A s \in Main : l.st[s] \notin OpenStatus BY <1>2, <2>3, FlowFacts DEF OpenStatus
  <2> QED BY <2>1, <2>3, <2>4, BudgetStoppedLog, BudgetStoppedRest
<1>4. /\ runner'.pc = "catch" /\ runner'.err = "failed"
      /\ runner'.i = runner.i
      /\ runner'.fresh = runner.fresh /\ runner'.from = runner.from
      /\ runner'.cont = runner.cont /\ runner'.tries = runner.tries
      /\ signal' = signal
  BY FlowTypes DEF StopOnBudget, Runner
<1>5. Answered' /\ Counted' /\ Continued' /\ Blocks' /\ Signalled' /\ FreshEnds'
  BY <1>3, <1>4, FlowFacts
   DEF EndsInv, Answered, Here, Counted, CountedStages, Continued, OpenStatus, Blocks,
       Signalled, Closing, FreshEnds
<1>6. Progress
  BY <1>3 DEF EndsInv, Progress, Answered
<1>7. Unresumed'
  <2> SUFFICES ASSUME ~log'.resumed PROVE Thrown' /\ FailureEnds' /\ Left'
    BY DEF Unresumed
  <2>1. Thrown /\ FailureEnds /\ Left
    BY <1>3 DEF EndsInv, Unresumed
  <2> QED
    BY <1>3
     DEF Thrown, FailureEnds, Again, EndsInv, Signalled, FreshEnds, Closing, Blocks, Left,
         HasEnd, Resumable
<1> QED BY <1>5, <1>6, <1>7 DEF EndsInv

LEMMA BlockRunEnds ==
  ASSUME IInv, EndsInv, BlockRun PROVE EndsInv' /\ Progress
<1>1. /\ runner.pc = "run" /\ runner.i <= Len(Order) /\ Kind[Here] = "policy"
  BY DEF BlockRun, AtStage, At
<1>2. /\ runner.i \in DOMAIN Order /\ Here \in Main /\ Here \in Stages
      /\ runner.err = "none" /\ runner.pc \notin Gone
      /\ \A s \in Main : log.st[s] \in OpenStatus => s = Here
  BY <1>1, AtStageFacts, OnlyHere
<1>3. /\ log'.st = [log.st EXCEPT ![Here] = "blocked"] /\ log'.tries = log.tries
      /\ log'.verdict = log.verdict /\ log'.resumed = log.resumed
      /\ log'.ended = log.ended \cup {"blocked"} /\ log'.status = "blocked"
  BY FlowTypes, <1>2, BlockedLog, BlockedRest DEF BlockRun
<1>4. /\ runner'.pc = "catch" /\ runner'.err = "blocked"
      /\ runner'.i = runner.i
      /\ runner'.fresh = runner.fresh /\ runner'.from = runner.from
      /\ runner'.cont = runner.cont /\ runner'.tries = runner.tries
      /\ signal' = signal
  BY FlowTypes DEF BlockRun, Throw, others, Runner
<1>5. Answered' /\ Counted' /\ Continued' /\ Blocks' /\ Signalled' /\ FreshEnds'
  BY FlowTypes, <1>1, <1>2, <1>3, <1>4
   DEF EndsInv, Answered, Here, Counted, CountedStages, Continued, OpenStatus, Blocks,
       Signalled, Closing, FreshEnds
<1>6. Progress
  BY <1>3 DEF EndsInv, Progress, Answered
<1>7. Unresumed'
  <2> SUFFICES ASSUME ~log'.resumed PROVE Thrown' /\ FailureEnds' /\ Left'
    BY DEF Unresumed
  <2>1. Thrown /\ FailureEnds /\ Left
    BY <1>3 DEF EndsInv, Unresumed
  <2>2. Thrown' /\ Left'
    BY <1>4
     DEF Thrown, FailureEnds, Again, EndsInv, Signalled, FreshEnds, Closing, Blocks, Left,
         HasEnd, Resumable
  <2>3. FailureEnds'
    BY <1>3 DEF FailureEnds, Again
  <2> QED BY <2>2, <2>3
<1> QED BY <1>5, <1>6, <1>7 DEF EndsInv

LEMMA SeeCancelEnds ==
  ASSUME IInv, EndsInv, SeeCancel PROVE EndsInv' /\ Progress
<1>1. /\ runner.pc \in {"run", "post"} /\ runner.i <= Len(Order) /\ signal
  BY FlowFacts DEF SeeCancel, IInv, Placed
<1>2. /\ runner.i \in DOMAIN Order /\ Here \in Main /\ Here \in Stages
      /\ runner.err = "none" /\ runner.pc \notin Gone
      /\ \A s \in Main : log.st[s] \in OpenStatus => s = Here
  BY <1>1, AtStageFacts, OnlyHere
<1>3. /\ log'.st = log.st /\ log'.tries = log.tries /\ log'.verdict = log.verdict
      /\ log'.status = log.status /\ log'.ended = log.ended /\ log'.resumed = log.resumed
  BY DEF SeeCancel
<1>4. /\ runner'.pc = "catch" /\ runner'.err = "cancelled"
      /\ runner'.i = runner.i
      /\ runner'.fresh = runner.fresh /\ runner'.from = runner.from
      /\ runner'.cont = runner.cont /\ runner'.tries = runner.tries
      /\ signal' = signal
  BY FlowTypes DEF SeeCancel, Throw, others, Runner
<1>5. Answered' /\ Counted' /\ Continued' /\ Blocks' /\ Signalled' /\ FreshEnds'
  BY <1>2, <1>3, <1>4
   DEF EndsInv, Answered, Here, Counted, CountedStages, Continued, OpenStatus, Blocks,
       Signalled, Closing, FreshEnds
<1>6. Progress
  BY <1>3 DEF EndsInv, Progress, Answered
<1>7. Unresumed'
  <2> SUFFICES ASSUME ~log'.resumed PROVE Thrown' /\ FailureEnds' /\ Left'
    BY DEF Unresumed
  <2>1. Thrown /\ FailureEnds /\ Left
    BY <1>3 DEF EndsInv, Unresumed
  <2> QED
    BY <1>1, <1>2, <1>3
     DEF Thrown, FailureEnds, Again, EndsInv, Signalled, FreshEnds, Closing, Blocks, Left,
         HasEnd, Resumable
<1> QED BY <1>5, <1>6, <1>7 DEF EndsInv

LEMMA RetryEnds ==
  ASSUME IInv, EndsInv, Retry PROVE EndsInv' /\ Progress
<1>1. /\ runner.pc = "policy" /\ runner.i <= Len(Order) /\ Kind[Here] = "policy"
      /\ log.st[Here] = "failed"
  BY DEF Retry, AtStage, At, IInv, Reported
<1>2. /\ log'.st = log.st /\ log'.tries = log.tries /\ log'.verdict = log.verdict
      /\ log'.status = log.status /\ log'.ended = log.ended /\ log'.resumed = log.resumed
  BY DEF Retry
<1>3. /\ runner'.pc = "top" /\ runner'.err = runner.err
      /\ runner'.i = runner.i
      /\ runner'.fresh = runner.fresh /\ runner'.from = runner.from
      /\ runner'.cont = runner.cont /\ runner'.tries = runner.tries
      /\ signal' = signal
  BY FlowTypes DEF Retry, Goto, others, Runner
<1>4. Answered' /\ Counted' /\ Continued' /\ Blocks' /\ Signalled' /\ FreshEnds'
  BY <1>1, <1>2, <1>3
   DEF EndsInv, Answered, Here, Counted, CountedStages, Continued, OpenStatus, Blocks,
       Signalled, Closing, FreshEnds
<1>5. Progress
  BY <1>2 DEF EndsInv, Progress, Answered
<1>6. Unresumed'
  <2> SUFFICES ASSUME ~log'.resumed PROVE Thrown' /\ FailureEnds' /\ Left'
    BY DEF Unresumed
  <2>1. Thrown /\ FailureEnds /\ Left
    BY <1>2 DEF EndsInv, Unresumed
  <2> QED
    BY <2>1, <1>2, <1>3
     DEF Thrown, FailureEnds, Again, EndsInv, Signalled, FreshEnds, Closing, Blocks, Left,
         HasEnd, Resumable
<1> QED BY <1>4, <1>5, <1>6 DEF EndsInv

LEMMA RequestReworkEnds ==
  ASSUME IInv, EndsInv, RequestRework PROVE EndsInv' /\ Progress
<1>1. /\ runner.pc = "policy" /\ runner.i <= Len(Order) /\ Kind[Here] = "policy"
      /\ log.st[Here] = "failed"
  BY DEF RequestRework, AtStage, At, IInv, Reported
<1>2. /\ runner.i \in DOMAIN Order /\ Here \in Main /\ Here \in Stages
      /\ runner.err = "none" /\ runner.pc \notin Gone
      /\ \A s \in Main : log.st[s] \in OpenStatus => s = Here
  BY <1>1, AtStageFacts, OnlyHere
<1>3. /\ log'.st = log.st /\ log'.tries = log.tries /\ log'.verdict = log.verdict
      /\ log'.status = log.status /\ log'.ended = log.ended /\ log'.resumed = log.resumed
  BY FlowTypes, <1>2, ReworkedLog, ReworkedRest DEF RequestRework
<1>4. /\ runner'.pc = "top" /\ runner'.err = runner.err /\ runner'.i \in 1..Len(Order)
      /\ runner'.fresh = runner.fresh /\ runner'.from = runner.from
      /\ runner'.cont = runner.cont /\ runner'.tries = runner.tries
      /\ signal' = signal
  <2>1. PICK t \in Target[Here] :
          runner' = [runner EXCEPT !.i = Index(t), !.pc = "top", !.done = Invalidated(Index(t))]
    BY DEF RequestRework
  <2>2. t \in Main BY <1>2, FlowAssumption DEF FlowAssumption
  <2>3. Index(t) \in 1..Len(Order) BY <2>2, IndexOf, FlowFacts
  <2> QED BY FlowTypes, <2>1, <2>3 DEF Runner, RequestRework, others
<1>5. \A s \in Main : log.st[s] \notin OpenStatus
  BY <1>1, <1>2 DEF OpenStatus
<1>6. Answered' /\ Counted' /\ Signalled' /\ FreshEnds'
  BY <1>3, <1>4
   DEF EndsInv, Answered, Here, Counted, CountedStages, Signalled, Closing, FreshEnds, OpenStatus
<1>7. Continued'
  <2>1. Order[runner'.i] \in Main BY <1>4, FlowFacts
  <2> QED BY <1>3, <1>4, <1>5, <2>1 DEF EndsInv, Continued, Here
<1>8. Blocks'
  BY <1>2, <1>4 DEF Blocks
<1>9. Progress
  BY <1>3 DEF EndsInv, Progress, Answered
<1>10. Unresumed'
  <2> SUFFICES ASSUME ~log'.resumed PROVE Thrown' /\ FailureEnds' /\ Left'
    BY DEF Unresumed
  <2>1. Thrown /\ FailureEnds /\ Left
    BY <1>3 DEF EndsInv, Unresumed
  <2> QED
    BY <2>1, <1>3, <1>4
     DEF Thrown, FailureEnds, Again, EndsInv, Signalled, FreshEnds, Closing, Blocks, Left,
         HasEnd, Resumable
<1> QED BY <1>6, <1>7, <1>8, <1>9, <1>10 DEF EndsInv

LEMMA GiveUpEnds ==
  ASSUME IInv, EndsInv, GiveUp PROVE EndsInv' /\ Progress
<1>1. /\ runner.pc = "policy" /\ runner.i <= Len(Order) /\ log.st[Here] = "failed"
  BY FlowFacts DEF GiveUp, At, IInv, Placed, Reported
<1>2. /\ runner.i \in DOMAIN Order /\ Here \in Main /\ Here \in Stages
      /\ runner.err = "none" /\ runner.pc \notin Gone
      /\ \A s \in Main : log.st[s] \in OpenStatus => s = Here
  BY <1>1, AtStageFacts, OnlyHere
<1>3. /\ log'.st = log.st /\ log'.tries = log.tries /\ log'.verdict = log.verdict
      /\ log'.resumed = log.resumed
      /\ log'.status = "failed" /\ log'.ended = log.ended \cup {"failed"}
  BY FlowTypes, EndedLog, EndedRest DEF GiveUp, Ends
<1>4. /\ runner'.pc = "catch" /\ runner'.err = "failed"
      /\ runner'.i = runner.i
      /\ runner'.fresh = runner.fresh /\ runner'.from = runner.from
      /\ runner'.cont = runner.cont /\ runner'.tries = runner.tries
      /\ signal' = signal
  BY FlowTypes DEF GiveUp, Throw, others, Runner
<1>5. \A s \in Main : log.st[s] \notin OpenStatus
  BY <1>1, <1>2 DEF OpenStatus
<1>6. Answered' /\ Counted' /\ Continued' /\ Blocks' /\ Signalled' /\ FreshEnds'
  BY <1>3, <1>4, <1>5
   DEF EndsInv, Answered, Here, Counted, CountedStages, Continued, OpenStatus, Blocks,
       Signalled, Closing, FreshEnds
<1>7. Progress
  BY <1>3 DEF EndsInv, Progress, Answered
<1>8. Unresumed'
  <2> SUFFICES ASSUME ~log'.resumed PROVE Thrown' /\ FailureEnds' /\ Left'
    BY DEF Unresumed
  <2>1. Thrown /\ FailureEnds /\ Left
    BY <1>3 DEF EndsInv, Unresumed
  <2> QED
    BY <1>3
     DEF Thrown, FailureEnds, Again, EndsInv, Signalled, FreshEnds, Closing, Blocks, Left,
         HasEnd, Resumable
<1> QED BY <1>6, <1>7, <1>8 DEF EndsInv

LEMMA EndLoopEnds ==
  ASSUME IInv, EndsInv, EndLoop PROVE EndsInv' /\ Progress
<1>1. runner.pc = "top" /\ runner.i > Len(Order) /\ runner.err = "none"
  BY DEF EndLoop, At, IInv, Placed
<1>2. /\ log'.st = log.st /\ log'.tries = log.tries /\ log'.verdict = log.verdict
      /\ log'.status = log.status /\ log'.ended = log.ended /\ log'.resumed = log.resumed
  BY DEF EndLoop
<1>3. /\ \/ signal /\ runner'.pc = "catch" /\ runner'.err = "cancelled"
         \/ runner'.pc = "finalize" /\ runner'.err = "none"
      /\ runner'.i = runner.i
      /\ runner'.fresh = runner.fresh /\ runner'.from = runner.from
      /\ runner'.cont = runner.cont /\ runner'.tries = runner.tries
      /\ signal' = signal
  BY FlowTypes, <1>1 DEF EndLoop, Goto, Throw, others, Runner
<1>4. Answered' /\ Counted' /\ Continued' /\ Blocks' /\ Signalled' /\ FreshEnds'
  BY <1>1, <1>2, <1>3
   DEF EndsInv, Answered, Here, Counted, CountedStages, Continued, OpenStatus, Blocks,
       Signalled, Closing, FreshEnds
<1>5. Progress
  BY <1>2 DEF EndsInv, Progress, Answered
<1>6. Unresumed'
  <2> SUFFICES ASSUME ~log'.resumed PROVE Thrown' /\ FailureEnds' /\ Left'
    BY DEF Unresumed
  <2>1. Thrown /\ FailureEnds /\ Left
    BY <1>2 DEF EndsInv, Unresumed
  <2> QED
    BY <2>1, <1>1, <1>2, <1>3
     DEF Thrown, FailureEnds, Again, EndsInv, Signalled, FreshEnds, Closing, Blocks, Left,
         HasEnd, Resumable
<1> QED BY <1>4, <1>5, <1>6 DEF EndsInv

LEMMA HookEnds ==
  ASSUME IInv, EndsInv, HookThrows, runner.pc = "top", runner.err = "none", UNCHANGED others
  PROVE  EndsInv' /\ Progress
<1>1. \/ /\ log' = Ended(log, "failed")
         /\ \/ runner' = [runner EXCEPT !.pc = "catch", !.err = "failed"]
            \/ runner' = [runner EXCEPT !.pc = "left"]
      \/ /\ signal /\ log' = log
         /\ \/ runner' = [runner EXCEPT !.pc = "catch", !.err = "cancelled"]
            \/ runner' = [runner EXCEPT !.pc = "left"]
  BY DEF HookThrows, Throw, Goto
<1>2. /\ log'.st = log.st /\ log'.tries = log.tries /\ log'.verdict = log.verdict
      /\ log'.resumed = log.resumed
      /\ \/ log'.status = "failed" /\ log'.ended = log.ended \cup {"failed"}
         \/ signal /\ log'.status = log.status /\ log'.ended = log.ended
  <2>1. log \in Log BY FlowTypes
  <2>2. CASE log' = Ended(log, "failed") BY <2>1, <2>2, EndedLog, EndedRest DEF Ends
  <2>3. CASE signal /\ log' = log BY <2>3
  <2> QED BY <1>1, <2>2, <2>3
<1>3. /\ \/ runner'.pc = "catch" /\ runner'.err \in {"failed", "cancelled"}
         \/ runner'.pc = "left" /\ runner'.err = "none"
      /\ runner'.i = runner.i
      /\ runner'.fresh = runner.fresh /\ runner'.from = runner.from
      /\ runner'.cont = runner.cont /\ runner'.tries = runner.tries
      /\ signal' = signal
  <2>1. runner \in Runner BY FlowTypes
  <2> QED BY <1>1, <2>1 DEF Runner, others
<1>4. log'.status \in Closing
  BY <1>2 DEF EndsInv, Signalled, Closing
<1>5. Answered' /\ Counted' /\ Continued' /\ Blocks' /\ Signalled' /\ FreshEnds'
  BY <1>2, <1>3, <1>4
   DEF EndsInv, Answered, Here, Counted, CountedStages, Continued, Blocks, Signalled, FreshEnds
<1>6. Progress
  BY <1>2 DEF EndsInv, Progress, Answered
<1>7. Unresumed'
  BY <1>3, <1>4 DEF Unresumed, Thrown, FailureEnds, Left, HasEnd, Closing
<1> QED BY <1>5, <1>6, <1>7 DEF EndsInv

LEMMA FailPreRunEnds ==
  ASSUME IInv, EndsInv, FailPreRun PROVE EndsInv' /\ Progress
  BY HookEnds DEF FailPreRun, AtStage, At, IInv, Placed

LEMMA FailPostRunEnds ==
  ASSUME IInv, EndsInv, FailPostRun PROVE EndsInv' /\ Progress
  BY HookEnds DEF FailPostRun, At, IInv, Placed

LEMMA CatchEnds ==
  ASSUME IInv, EndsInv, Catch PROVE EndsInv' /\ Progress
<1>1. runner.pc = "catch" /\ runner.err \in {"failed", "blocked", "cancelled"}
  BY FlowTypes DEF Catch, At, IInv, Placed
<1>2. /\ log'.st = log.st /\ log'.tries = log.tries /\ log'.verdict = log.verdict
      /\ log'.resumed = log.resumed
      /\ \/ /\ log'.status = log.status /\ log'.ended = log.ended
            /\ log.ended # {} \/ (runner.err = "failed" /\ ~runner.fresh)
         \/ /\ log'.status = runner.err /\ log'.ended = {runner.err}
            /\ log.ended = {} /\ ~(runner.err = "failed" /\ ~runner.fresh)
  <2>1. CASE log.ended # {} \/ (runner.err = "failed" /\ ~runner.fresh)
    BY <2>1 DEF Catch
  <2>2. CASE ~(log.ended # {} \/ (runner.err = "failed" /\ ~runner.fresh))
    <3>1. log' = Ended(log, runner.err) /\ runner.err \in Ends BY <1>1, <2>2 DEF Catch, Ends
    <3> QED BY FlowTypes, <2>2, <3>1, EndedLog, EndedRest
  <2> QED BY <2>1, <2>2
<1>3. /\ \/ runner'.pc = "finalize"
         \/ runner'.pc = "left" /\ runner.err \in {"blocked", "cancelled"}
      /\ runner'.err = runner.err
      /\ runner'.i = runner.i
      /\ runner'.fresh = runner.fresh /\ runner'.from = runner.from
      /\ runner'.cont = runner.cont /\ runner'.tries = runner.tries
      /\ signal' = signal
  BY FlowTypes, <1>1 DEF Catch, Goto, others, Runner
<1>4. Answered' /\ Counted' /\ Continued' /\ Blocks' /\ Signalled' /\ FreshEnds'
  BY <1>1, <1>2, <1>3
   DEF EndsInv, Answered, Here, Counted, CountedStages, Continued, OpenStatus, Blocks,
       Signalled, Closing, FreshEnds
<1>5. Progress
  BY <1>2 DEF EndsInv, Progress, Answered
<1>6. Unresumed'
  <2> SUFFICES ASSUME ~log'.resumed PROVE Thrown' /\ FailureEnds' /\ Left'
    BY DEF Unresumed
  <2>1. Thrown /\ FailureEnds /\ Left
    BY <1>2 DEF EndsInv, Unresumed
  <2>2. Thrown' /\ FailureEnds'
    BY <2>1, <1>1, <1>2, <1>3
     DEF Thrown, FailureEnds, Again, EndsInv, Signalled, FreshEnds, Closing
  <2>3. Left'
    <3>1. CASE runner.err = "blocked"
      <4>1. Here \in Stages /\ log'.st[Here] \in OpenStatus
        BY <3>1, FlowTypes, <1>1, <1>2, <1>3, FlowFacts DEF EndsInv, Blocks, Here, OpenStatus
      <4> QED BY <4>1 DEF Left, HasEnd, Resumable, OpenStatus
    <3>2. CASE runner.err # "blocked"
      BY <2>1, <3>2, FlowTypes, <1>1, <1>2, <1>3 DEF EndsInv, Signalled, Thrown, Again, Left,
         HasEnd, Closing
    <3> QED BY <3>1, <3>2
  <2> QED BY <2>2, <2>3
<1> QED BY <1>4, <1>5, <1>6 DEF EndsInv

LEMMA SkipFinalizersEnds ==
  ASSUME IInv, EndsInv, SkipFinalizers PROVE EndsInv' /\ Progress
<1>1. runner.pc = "finalize"
  BY DEF SkipFinalizers, At
<1>2. /\ log'.st = log.st /\ log'.tries = log.tries /\ log'.verdict = log.verdict
      /\ log'.status = log.status /\ log'.ended = log.ended /\ log'.resumed = log.resumed
  BY DEF SkipFinalizers
<1>3. /\ \/ runner.err = "none" /\ runner'.pc = "finish"
         \/ runner.err # "none" /\ runner'.pc = "left"
         \/ runner.err = "none" /\ signal /\ runner'.pc = "left"
      /\ runner'.err = runner.err
      /\ runner'.i = runner.i
      /\ runner'.fresh = runner.fresh /\ runner'.from = runner.from
      /\ runner'.cont = runner.cont /\ runner'.tries = runner.tries
      /\ signal' = signal
  BY FlowTypes DEF SkipFinalizers, Goto, Over, others, Runner
<1>4. runner.err \in {"none", "failed", "blocked", "cancelled"}
  BY FlowTypes
<1>5. Answered' /\ Counted' /\ Continued' /\ Blocks' /\ Signalled' /\ FreshEnds'
  BY <1>2, <1>3
   DEF EndsInv, Answered, Here, Counted, CountedStages, Continued, OpenStatus, Blocks,
       Signalled, Closing, FreshEnds
<1>6. Progress
  BY <1>2 DEF EndsInv, Progress, Answered
<1>7. Unresumed'
  <2> SUFFICES ASSUME ~log'.resumed PROVE Thrown' /\ FailureEnds' /\ Left'
    BY DEF Unresumed
  <2>1. Thrown /\ FailureEnds /\ Left
    BY <1>2 DEF EndsInv, Unresumed
  <2>2. Thrown' /\ FailureEnds'
    BY <2>1, <1>2, <1>3 DEF Thrown, FailureEnds, Again, EndsInv, Signalled, FreshEnds, Closing
  <2>3. Left'
    <3>1. CASE runner.err = "blocked"
      <4>1. Here \in Stages /\ log'.st[Here] \in OpenStatus
        BY <3>1, FlowTypes, <1>1, <1>2, <1>3, <1>4, FlowFacts DEF EndsInv, Blocks, Here, OpenStatus
      <4> QED BY <4>1 DEF Left, HasEnd, Resumable, OpenStatus
    <3>2. CASE runner.err # "blocked"
      BY <2>1, <3>2, FlowTypes, <1>1, <1>2, <1>3, <1>4 DEF EndsInv, Signalled, Thrown, Again, Left,
         HasEnd, Closing
    <3> QED BY <3>1, <3>2
  <2> QED BY <2>2, <2>3
<1> QED BY <1>5, <1>6, <1>7 DEF EndsInv

LEMMA BeginFinalizerEnds ==
  ASSUME IInv, EndsInv, BeginFinalizer PROVE EndsInv' /\ Progress
<1>1. PICK f \in Finalizer, n \in Nat :
        /\ n = (IF runner.fresh THEN runner.tries[f] ELSE log.tries[f]) + 1
        /\ log' = Started(log, f, n)
        /\ runner' = [runner EXCEPT !.tries[f] = n, !.pc = "finalizer"]
  <2>1. PICK f \in Finalizer :
          LET n == (IF runner.fresh THEN runner.tries[f] ELSE log.tries[f]) + 1 IN
          /\ log' = Started(log, f, n)
          /\ runner' = [runner EXCEPT !.tries[f] = n, !.pc = "finalizer"]
    BY DEF BeginFinalizer
  <2>2. runner.tries[f] \in Nat /\ log.tries[f] \in Nat BY FlowTypes, FlowFacts
  <2> DEFINE n == (IF runner.fresh THEN runner.tries[f] ELSE log.tries[f]) + 1
  <2>3. n \in Nat BY <2>2
  <2>4. log' = Started(log, f, n) /\ runner' = [runner EXCEPT !.tries[f] = n, !.pc = "finalizer"]
    BY <2>1
  <2> QED BY <2>3, <2>4
<1>2. /\ runner.pc = "finalize" /\ f \in Stages /\ n \in Nat
      /\ f \notin Main
  BY <1>1, FlowTypes, FlowFacts DEF BeginFinalizer, At
<1>3. /\ log'.st = [log.st EXCEPT ![f] = "started"] /\ log'.ended = log.ended
      /\ f \in Stages
  <2>1. log \in Log BY FlowTypes
  <2> QED BY <1>1, <1>2, <2>1, StartedLog
<1>4. /\ log'.tries = [log.tries EXCEPT ![f] = IF n > log.tries[f] THEN n
                                               ELSE log.tries[f]]
      /\ \A a \in Approvals : log'.verdict[a] = IF a = f THEN "none" ELSE log.verdict[a]
      /\ log'.status = log.status \/ log.status = "created"
      /\ log'.resumed = log.resumed
  <2>1. log \in Log BY FlowTypes
  <2> QED BY <1>1, <1>2, <2>1, StartedRest
<1>5. /\ runner'.pc = "finalizer" /\ runner'.err = runner.err /\ runner'.i = runner.i
      /\ runner'.tries = [runner.tries EXCEPT ![f] = n]
      /\ runner'.fresh = runner.fresh /\ runner'.from = runner.from
      /\ runner'.cont = runner.cont
      /\ signal' = signal
  BY <1>1, FlowTypes, <1>2 DEF BeginFinalizer, others, Runner
<1>6. Answered' /\ Continued' /\ Blocks' /\ Signalled' /\ FreshEnds'
  BY <1>3, <1>4, <1>5, FlowFacts
   DEF EndsInv, Answered, Here, Continued, OpenStatus, Blocks, Signalled, Closing, FreshEnds
<1>7. Counted'
  <2>1. f \in CountedStages BY <1>1, <1>2 DEF CountedStages
  <2>2. log.tries[f] <= runner.tries[f] BY <2>1 DEF EndsInv, Counted
  <2>3. log'.tries[f] <= runner'.tries[f] BY <1>1, FlowTypes, <1>2, <1>4, <1>5, <2>2
  <2>4. \A s \in CountedStages \ {f} : log'.tries[s] <= runner'.tries[s]
    BY FlowTypes, <1>2, <1>4, <1>5 DEF EndsInv, Counted, CountedStages
  <2> QED BY <2>3, <2>4 DEF Counted
<1>8. Progress
  <2>1. f \in CountedStages BY <1>1, <1>2 DEF CountedStages
  <2>2. log.tries[f] <= runner.tries[f] BY <2>1 DEF EndsInv, Counted
  <2>3. log'.tries[f] > log.tries[f] BY <1>1, FlowTypes, <1>2, <1>4, <2>2
  <2>4. \A s \in Stages \ {f} : log'.st[s] = log.st[s] BY FlowTypes, <1>3
  <2>5. log'.st[f] = "started" /\ f \notin Approvals BY FlowTypes, <1>2, <1>3, FlowFacts
  <2> QED BY <2>3, <2>4, <2>5 DEF Progress
<1>9. Unresumed'
  <2> SUFFICES ASSUME ~log'.resumed PROVE Thrown' /\ FailureEnds' /\ Left'
    BY DEF Unresumed
  <2>1. Thrown /\ FailureEnds /\ Left
    BY <1>4 DEF EndsInv, Unresumed
  <2> QED
    BY <2>1, <1>2, <1>3, <1>4, <1>5
     DEF Thrown, FailureEnds, Again, EndsInv, Signalled, FreshEnds, Closing, Blocks, Left,
         HasEnd, Resumable
<1> QED BY <1>6, <1>7, <1>8, <1>9 DEF EndsInv

LEMMA EndFinalizerEnds ==
  ASSUME IInv, EndsInv, EndFinalizer PROVE EndsInv' /\ Progress
<1>1. PICK f \in Finalizer :
        \/ /\ log' = Completed(log, f)
           /\ runner' = [runner EXCEPT !.done = @ \cup {f}, !.pc = Over]
        \/ log' = Failed(log, f) /\ Goto(Over)
  BY DEF EndFinalizer
<1>2. /\ runner.pc = "finalizer" /\ f \in Stages /\ f \notin Main
  BY <1>1, FlowFacts DEF EndFinalizer, At
<1>3. /\ \E status \in {"completed", "failed"} : log'.st = [log.st EXCEPT ![f] = status]
      /\ log'.tries = log.tries /\ log'.verdict = log.verdict
      /\ log'.status = log.status /\ log'.ended = log.ended /\ log'.resumed = log.resumed
  <2>1. CASE log' = Completed(log, f) BY FlowTypes, <1>2, <2>1, CompletedLog, CompletedRest
  <2>2. CASE log' = Failed(log, f) BY FlowTypes, <1>2, <2>2, FailedLog, FailedRest
  <2> QED BY <1>1, <2>1, <2>2
<1>4. /\ \/ runner.err = "none" /\ runner'.pc = "finish"
         \/ runner.err # "none" /\ runner'.pc = "left"
      /\ runner'.err = runner.err
      /\ runner'.i = runner.i
      /\ runner'.fresh = runner.fresh /\ runner'.from = runner.from
      /\ runner'.cont = runner.cont /\ runner'.tries = runner.tries
      /\ signal' = signal
  BY <1>1, FlowTypes DEF EndFinalizer, Goto, Over, others, Runner
<1>5. runner.err \in {"none", "failed", "blocked", "cancelled"}
  BY FlowTypes
<1>6. \A s \in Main : log'.st[s] = log.st[s] /\ s # f
  BY FlowTypes, <1>2, <1>3, FlowFacts
<1>7. Answered' /\ Counted' /\ Continued' /\ Blocks' /\ Signalled' /\ FreshEnds'
  BY <1>3, <1>4, FlowFacts
   DEF EndsInv, Answered, Here, Counted, CountedStages, Continued, OpenStatus, Blocks,
       Signalled, Closing, FreshEnds
<1>8. Progress
  BY <1>3, FlowFacts DEF EndsInv, Progress, Answered
<1>9. Unresumed'
  <2> SUFFICES ASSUME ~log'.resumed PROVE Thrown' /\ FailureEnds' /\ Left'
    BY DEF Unresumed
  <2>1. Thrown /\ FailureEnds /\ Left
    BY <1>3 DEF EndsInv, Unresumed
  <2>2. Thrown' /\ FailureEnds'
    BY <2>1, <1>3, <1>4 DEF Thrown, FailureEnds, Again, EndsInv, Signalled, FreshEnds, Closing
  <2>3. Left'
    <3>1. CASE runner.err = "blocked"
      <4>1. Here \in Stages /\ log'.st[Here] \in OpenStatus
        BY <3>1, FlowTypes, <1>2, <1>3, <1>4, <1>5, <1>6, FlowFacts DEF EndsInv, Blocks, Here, OpenStatus
      <4> QED BY <4>1 DEF Left, HasEnd, Resumable, OpenStatus
    <3>2. CASE runner.err # "blocked"
      BY <2>1, <3>2, FlowTypes, <1>2, <1>3, <1>4, <1>5, <1>6 DEF EndsInv, Signalled, Thrown, Again, Left,
         HasEnd, Closing
    <3> QED BY <3>1, <3>2
  <2> QED BY <2>2, <2>3
<1> QED BY <1>7, <1>8, <1>9 DEF EndsInv

LEMMA FinishRunEnds ==
  ASSUME IInv, EndsInv, FinishRun PROVE EndsInv' /\ Progress
<1>1. /\ log'.st = log.st /\ log'.tries = log.tries /\ log'.verdict = log.verdict
      /\ log'.resumed = log.resumed /\ log'.status \in {"completed", "cancelled"}
      /\ "failed" \in log'.ended => "failed" \in log.ended
  BY FlowTypes, EndedLog, EndedRest DEF FinishRun, Ends
<1>2. /\ runner'.pc = "left" /\ runner'.err = runner.err
      /\ runner'.i = runner.i
      /\ runner'.fresh = runner.fresh /\ runner'.from = runner.from
      /\ runner'.cont = runner.cont /\ runner'.tries = runner.tries
      /\ signal' = signal
  BY FlowTypes DEF FinishRun, Goto, others, Runner
<1>3. Answered' /\ Counted' /\ Continued' /\ Blocks' /\ Signalled' /\ FreshEnds'
  BY <1>1, <1>2
   DEF EndsInv, Answered, Here, Counted, CountedStages, Continued, OpenStatus, Blocks,
       Signalled, Closing, FreshEnds
<1>4. Progress
  BY <1>1 DEF EndsInv, Progress, Answered
<1>5. Unresumed'
  <2> SUFFICES ASSUME ~log'.resumed PROVE Thrown' /\ FailureEnds' /\ Left'
    BY DEF Unresumed
  <2>1. Thrown /\ FailureEnds /\ Left
    BY <1>1 DEF EndsInv, Unresumed
  <2> QED
    BY <1>1
     DEF Thrown, FailureEnds, Again, EndsInv, Signalled, FreshEnds, Closing, Blocks, Left,
         HasEnd, Resumable
<1> QED BY <1>3, <1>4, <1>5 DEF EndsInv

LEMMA StartEnds ==
  ASSUME IInv, EndsInv, Start PROVE EndsInv' /\ Progress
<1>1. /\ runner.pc = "none" /\ runner.i = 1 /\ runner.err = "none"
      /\ \A s \in Main : log.st[s] \notin OpenStatus
  <2>1. runner.pc = "none" BY DEF Start, At
  <2>2. runner = NoRunner /\ \A k \in DOMAIN Order : ~Open(k) BY <2>1 DEF IInv, Placed
  <2> QED BY <2>1, <2>2, FlowFacts DEF NoRunner, Open, OpenStatus
<1>2. /\ log'.st = log.st /\ log'.tries = log.tries /\ log'.verdict = log.verdict
      /\ log'.status = log.status /\ log'.ended = log.ended /\ log'.resumed = log.resumed
  BY DEF Start
<1>3. /\ runner'.pc = "top" /\ runner'.err = runner.err
      /\ runner'.i = runner.i
      /\ runner'.fresh = runner.fresh /\ runner'.from = runner.from
      /\ runner'.cont = runner.cont /\ runner'.tries = runner.tries
      /\ signal' = signal
  BY FlowTypes DEF Start, Goto, others, Runner
<1>4. runner.i <= Len(Order) => Here \in Main
  BY FlowTypes, FlowFacts DEF Here
<1>5. Answered' /\ Counted' /\ Continued' /\ Blocks' /\ Signalled' /\ FreshEnds'
  BY <1>1, <1>2, <1>3, <1>4
   DEF EndsInv, Answered, Here, Counted, CountedStages, Continued, OpenStatus, Blocks,
       Signalled, Closing, FreshEnds
<1>6. Progress
  BY <1>2 DEF EndsInv, Progress, Answered
<1>7. Unresumed'
  <2> SUFFICES ASSUME ~log'.resumed PROVE Thrown' /\ FailureEnds' /\ Left'
    BY DEF Unresumed
  <2>1. Thrown /\ FailureEnds /\ Left
    BY <1>2 DEF EndsInv, Unresumed
  <2> QED
    BY <2>1, <1>2, <1>3
     DEF Thrown, FailureEnds, Again, EndsInv, Signalled, FreshEnds, Closing, Blocks, Left,
         HasEnd, Resumable
<1> QED BY <1>5, <1>6, <1>7 DEF EndsInv

LEMMA ResumeEnds ==
  ASSUME IInv, EndsInv, Resume PROVE EndsInv' /\ Progress
<1>1. PICK s \in Stages : s \in Resumable(log) /\ ResumeAt(s, log)
  BY DEF Resume, Resumable
<1>2. /\ runner.pc # "none" /\ log.st[s] \in OpenStatus
  BY <1>1 DEF Resume, Resumable, Gone, OpenStatus
<1>3. /\ log'.st = log.st /\ log'.tries = log.tries /\ log'.verdict = log.verdict
      /\ log'.status = log.status /\ log'.ended = log.ended /\ log'.resumed = log.resumed
  BY <1>1 DEF ResumeAt
<1>4. /\ runner'.pc = "top" /\ runner'.err = "none" /\ ~runner'.fresh
      /\ runner'.i = Index(s) /\ runner'.tries = log.tries
      /\ runner'.cont = Resumable(log)
      /\ signal' = FALSE
  BY <1>1 DEF ResumeAt, NoRunner
<1>5. runner'.i <= Len(Order) => s \in Main /\ Order[runner'.i] = s
  BY <1>4, IndexOf, FlowFacts
<1>6. Answered' /\ Counted' /\ Blocks' /\ Signalled' /\ FreshEnds'
  BY FlowTypes, <1>3, <1>4
   DEF EndsInv, Answered, Here, Counted, CountedStages, Blocks, Signalled, Closing,
       FreshEnds, OpenStatus
<1>7. Continued'
  BY <1>1, <1>2, <1>3, <1>4, <1>5 DEF Continued, Here
<1>8. Progress
  BY <1>3 DEF EndsInv, Progress, Answered
<1>9. Unresumed'
  <2> SUFFICES ASSUME ~log'.resumed PROVE Thrown' /\ FailureEnds' /\ Left'
    BY DEF Unresumed
  <2>1. Thrown /\ FailureEnds /\ Left
    BY <1>3 DEF EndsInv, Unresumed
  <2> QED
    BY <2>1, <1>3, <1>4
     DEF Thrown, FailureEnds, Again, EndsInv, Signalled, FreshEnds, Closing, Blocks, Left,
         HasEnd, Resumable
<1> QED BY <1>6, <1>7, <1>8, <1>9 DEF EndsInv

\* The log then has a run.resumed.
LEMMA ResumeBudgetEnds ==
  ASSUME IInv, EndsInv, ResumeBudget PROVE EndsInv' /\ Progress
<1>1. PICK j \in DOMAIN Order : ResumeAt(Order[j], Resumed(log))
  BY DEF ResumeBudget
<1> DEFINE s == Order[j]
<1>2. /\ s \in Main /\ s \in Stages /\ Order[Index(s)] = s /\ Index(s) \in 1..Len(Order)
      /\ log.st[s] \notin OpenStatus
  BY FlowFacts, IndexOf DEF ResumeBudget, BudgetAllows, Resumable, OpenStatus
<1>3. /\ log'.st = log.st /\ log'.tries = log.tries /\ log'.verdict = log.verdict
      /\ log'.resumed
  <2>1. log' = Resumed(log) BY <1>1 DEF ResumeAt
  <2> QED BY FlowTypes, <2>1, ResumedLog DEF Resumed, Log
<1>4. /\ runner'.pc = "top" /\ runner'.err = "none" /\ ~runner'.fresh
      /\ runner'.i = Index(s) /\ runner'.tries = log.tries
      /\ runner'.cont = Resumable(log)
      /\ signal' = FALSE
  <2>1. /\ runner' = [NoRunner EXCEPT !.pc = "top", !.fresh = FALSE, !.i = Index(s),
                         !.done = Resumed(log).done, !.tries = Resumed(log).tries,
                         !.cont = Resumable(Resumed(log)), !.from = {s}]
        /\ signal' = FALSE
    BY <1>1 DEF ResumeAt
  <2>2. Resumed(log).tries = log.tries /\ Resumable(Resumed(log)) = Resumable(log)
    BY FlowTypes, ResumedLog DEF Resumable
  <2> QED BY <2>1, <2>2 DEF NoRunner
<1>5. Answered' /\ Counted' /\ Blocks' /\ Signalled' /\ FreshEnds'
  BY FlowTypes, <1>3, <1>4
   DEF EndsInv, Answered, Here, Counted, CountedStages, Blocks, Signalled, Closing,
       FreshEnds, OpenStatus
<1>6. Continued'
  BY <1>2, <1>3, <1>4 DEF Continued, Here
<1>7. Progress
  BY <1>3 DEF EndsInv, Progress, Answered
<1>8. Unresumed'
  BY <1>3 DEF Unresumed
<1> QED BY <1>5, <1>6, <1>7, <1>8 DEF EndsInv

LEMMA CancelRunEnds ==
  ASSUME IInv, EndsInv, CancelRun PROVE EndsInv' /\ Progress
<1>1. /\ log'.st = log.st /\ log'.tries = log.tries /\ log'.verdict = log.verdict
      /\ log'.resumed = log.resumed /\ log'.status = "cancelled"
      /\ log'.ended = log.ended \cup {"cancelled"}
  BY FlowTypes, EndedLog, EndedRest DEF CancelRun, Ends
<1>2. runner' = runner
  BY DEF CancelRun
<1>3. Answered' /\ Counted' /\ Continued' /\ Blocks' /\ Signalled' /\ FreshEnds'
  BY <1>1, <1>2
   DEF EndsInv, Answered, Here, Counted, CountedStages, Continued, OpenStatus, Blocks,
       Signalled, Closing, FreshEnds
<1>4. Progress
  BY <1>1 DEF EndsInv, Progress, Answered
<1>5. Unresumed'
  <2> SUFFICES ASSUME ~log'.resumed PROVE Thrown' /\ FailureEnds' /\ Left'
    BY DEF Unresumed
  <2>1. Thrown /\ FailureEnds /\ Left
    BY <1>1 DEF EndsInv, Unresumed
  <2> QED
    BY <1>1
     DEF Thrown, FailureEnds, Again, EndsInv, Signalled, FreshEnds, Closing, Blocks, Left,
         HasEnd, Resumable
<1> QED BY <1>3, <1>4, <1>5 DEF EndsInv

LEMMA ApproveRunEnds ==
  ASSUME IInv, EndsInv, ApproveRun PROVE EndsInv' /\ Progress
<1>1. PICK a \in Approvals : log.verdict[a] = "pending" /\ log' = Asked(log, a, "approved")
  BY DEF ApproveRun
<1>2. /\ a \in Main /\ a \in Stages /\ log.verdict[a] = "pending" /\ log.st[a] = "awaiting"
  BY <1>1, FlowFacts DEF IInv, Waiting
<1>3. /\ log'.st = log.st /\ log'.tries = log.tries
      /\ log'.verdict = [log.verdict EXCEPT ![a] = "approved"]
      /\ log.status \in Closing \cup {"blocked"} => log'.status = log.status
      /\ log'.ended = log.ended /\ log'.resumed = log.resumed
  <2>1. Approvals \subseteq Stages /\ log \in Log BY FlowTypes, FlowFacts
  <2>2. /\ log'.st = [log.st EXCEPT ![a] = "awaiting"] /\ log'.ended = log.ended
        /\ log'.verdict = [log.verdict EXCEPT ![a] = "approved"]
    BY <1>1, <2>1, AskedLog
  <2>3. /\ log'.tries = log.tries /\ log'.resumed = log.resumed
        /\ log'.status = IF log.status \in Ends THEN log.status ELSE "awaiting"
    BY <1>1, <2>1, AskedRest
  <2>4. log.st \in [Stages -> StageStatus] BY FlowTypes
  <2>5. log'.st = log.st BY <1>2, <2>2, <2>4
  <2> QED BY <2>2, <2>3, <2>5 DEF Closing, Ends
<1>4. /\ runner' = runner /\ signal' = signal
  BY DEF ApproveRun, others
<1>5. Answered' /\ Counted' /\ Continued' /\ Blocks' /\ Signalled' /\ FreshEnds'
  BY <1>2, <1>3, <1>4
   DEF EndsInv, Answered, Here, Counted, CountedStages, Continued, OpenStatus, Blocks,
       Signalled, Closing, FreshEnds
<1>6. Progress
  BY <1>3 DEF EndsInv, Progress, Answered
<1>7. Unresumed'
  <2> SUFFICES ASSUME ~log'.resumed PROVE Thrown' /\ FailureEnds' /\ Left'
    BY DEF Unresumed
  <2>1. Thrown /\ FailureEnds /\ Left
    BY <1>3 DEF EndsInv, Unresumed
  <2> QED
    BY <2>1, <1>3, <1>4
     DEF Thrown, FailureEnds, Again, EndsInv, Signalled, FreshEnds, Closing, Blocks, Left,
         HasEnd, Resumable
<1> QED BY <1>5, <1>6, <1>7 DEF EndsInv

LEMMA DenyApprovalEnds ==
  ASSUME IInv, EndsInv, DenyApproval PROVE EndsInv' /\ Progress
<1>1. PICK a \in Approvals : log.verdict[a] = "pending" /\ log' = Asked(log, a, "denied")
  BY DEF DenyApproval
<1>2. /\ a \in Main /\ a \in Stages /\ log.verdict[a] = "pending" /\ log.st[a] = "awaiting"
  BY <1>1, FlowFacts DEF IInv, Waiting
<1>3. /\ log'.st = log.st /\ log'.tries = log.tries
      /\ log'.verdict = [log.verdict EXCEPT ![a] = "denied"]
      /\ log.status \in Closing \cup {"blocked"} => log'.status = log.status
      /\ log'.ended = log.ended /\ log'.resumed = log.resumed
  <2>1. Approvals \subseteq Stages /\ log \in Log BY FlowTypes, FlowFacts
  <2>2. /\ log'.st = [log.st EXCEPT ![a] = "awaiting"] /\ log'.ended = log.ended
        /\ log'.verdict = [log.verdict EXCEPT ![a] = "denied"]
    BY <1>1, <2>1, AskedLog
  <2>3. /\ log'.tries = log.tries /\ log'.resumed = log.resumed
        /\ log'.status = IF log.status \in Ends THEN log.status ELSE "awaiting"
    BY <1>1, <2>1, AskedRest
  <2>4. log.st \in [Stages -> StageStatus] BY FlowTypes
  <2>5. log'.st = log.st BY <1>2, <2>2, <2>4
  <2> QED BY <2>2, <2>3, <2>5 DEF Closing, Ends
<1>4. /\ runner' = runner /\ signal' = signal
  BY DEF DenyApproval, others
<1>5. Answered' /\ Counted' /\ Continued' /\ Blocks' /\ Signalled' /\ FreshEnds'
  BY <1>2, <1>3, <1>4
   DEF EndsInv, Answered, Here, Counted, CountedStages, Continued, OpenStatus, Blocks,
       Signalled, Closing, FreshEnds
<1>6. Progress
  BY <1>3 DEF EndsInv, Progress, Answered
<1>7. Unresumed'
  <2> SUFFICES ASSUME ~log'.resumed PROVE Thrown' /\ FailureEnds' /\ Left'
    BY DEF Unresumed
  <2>1. Thrown /\ FailureEnds /\ Left
    BY <1>3 DEF EndsInv, Unresumed
  <2> QED
    BY <2>1, <1>3, <1>4
     DEF Thrown, FailureEnds, Again, EndsInv, Signalled, FreshEnds, Closing, Blocks, Left,
         HasEnd, Resumable
<1> QED BY <1>5, <1>6, <1>7 DEF EndsInv

LEMMA FailDeniedEnds ==
  ASSUME IInv, EndsInv, FailDenied PROVE EndsInv' /\ Progress
<1>1. /\ log'.st = log.st /\ log'.tries = log.tries /\ log'.verdict = log.verdict
      /\ log'.resumed = log.resumed /\ log'.status = "failed"
      /\ log'.ended = log.ended \cup {"failed"}
  BY FlowTypes, EndedLog, EndedRest DEF FailDenied, Ends
<1>2. runner' = runner /\ signal' = signal
  BY DEF FailDenied
<1>3. Answered' /\ Counted' /\ Continued' /\ Blocks' /\ Signalled' /\ FreshEnds'
  BY <1>1, <1>2
   DEF EndsInv, Answered, Here, Counted, CountedStages, Continued, OpenStatus, Blocks,
       Signalled, Closing, FreshEnds
<1>4. Progress
  BY <1>1 DEF EndsInv, Progress, Answered
<1>5. Unresumed'
  <2> SUFFICES ASSUME ~log'.resumed PROVE Thrown' /\ FailureEnds' /\ Left'
    BY DEF Unresumed
  <2>1. Thrown /\ FailureEnds /\ Left
    BY <1>1 DEF EndsInv, Unresumed
  <2> QED
    BY <1>1
     DEF Thrown, FailureEnds, Again, EndsInv, Signalled, FreshEnds, Closing, Blocks, Left,
         HasEnd, Resumable
<1> QED BY <1>3, <1>4, <1>5 DEF EndsInv

\* Steps that only look.
LEMMA QuietEnds ==
  ASSUME IInv, EndsInv, log' = log, runner' = runner, signal' = signal
  PROVE  EndsInv' /\ Progress
<1>1. Answered' /\ Counted' /\ Continued' /\ Blocks' /\ Signalled' /\ FreshEnds'
  BY
   DEF EndsInv, Answered, Here, Counted, CountedStages, Continued, OpenStatus, Blocks,
       Signalled, Closing, FreshEnds
<1>2. Progress
  BY DEF EndsInv, Progress, Answered
<1>3. Unresumed'
  <2> SUFFICES ASSUME ~log'.resumed PROVE Thrown' /\ FailureEnds' /\ Left'
    BY DEF Unresumed
  <2>1. Thrown /\ FailureEnds /\ Left
    BY  DEF EndsInv, Unresumed
  <2> QED
    BY <2>1
     DEF Thrown, FailureEnds, Again, EndsInv, Signalled, FreshEnds, Closing, Blocks, Left,
         HasEnd, Resumable
<1> QED BY <1>1, <1>2, <1>3 DEF EndsInv

LEMMA CrashEnds ==
  ASSUME IInv, EndsInv, Crash PROVE EndsInv' /\ Progress
<1>1. /\ log' = log /\ signal' = signal
  BY DEF Crash
<1>2. runner \in Runner /\ runner.pc # "none"
  BY FlowTypes DEF Crash, Gone
<1>3. /\ runner'.pc = "crash" /\ runner'.err = runner.err
      /\ runner'.i = runner.i
      /\ runner'.fresh = runner.fresh /\ runner'.from = runner.from
      /\ runner'.cont = runner.cont /\ runner'.tries = runner.tries
  BY <1>2 DEF Crash, Goto, Runner
<1>4. Answered' /\ Counted' /\ Continued' /\ Blocks' /\ Signalled' /\ FreshEnds'
  BY <1>1, <1>3
   DEF EndsInv, Answered, Here, Counted, CountedStages, Continued, OpenStatus, Blocks,
       Signalled, Closing, FreshEnds
<1>5. Progress
  BY <1>1 DEF EndsInv, Progress, Answered
<1>6. Unresumed'
  <2> SUFFICES ASSUME ~log'.resumed PROVE Thrown' /\ FailureEnds' /\ Left'
    BY DEF Unresumed
  <2>1. Thrown /\ FailureEnds /\ Left
    BY <1>1 DEF EndsInv, Unresumed
  <2> QED
    BY <2>1, <1>1, <1>3
     DEF Thrown, FailureEnds, Again, EndsInv, Signalled, FreshEnds, Closing, Blocks, Left,
         HasEnd, Resumable
<1> QED BY <1>4, <1>5, <1>6 DEF EndsInv

----------------------------------------------------------------------------
(* The theorems.                                                           *)

LEMMA InitEnds == Init => EndsInv
<1> SUFFICES ASSUME Init PROVE EndsInv
  OBVIOUS
<1>1. log = NewLog /\ runner = NoRunner /\ ~signal
  BY DEF Init
<1>2. Answered /\ Continued /\ Blocks /\ Signalled /\ FreshEnds
  BY <1>1, FlowFacts DEF Answered, Continued, Blocks, Signalled, FreshEnds,
     NewLog, NoRunner, OpenStatus, Here
<1>3. Counted BY <1>1 DEF Counted, CountedStages, NewLog, NoRunner
<1>4. Thrown /\ FailureEnds /\ Left
  BY <1>1 DEF Thrown, FailureEnds, Left, NewLog, NoRunner
<1> QED BY <1>2, <1>3, <1>4 DEF EndsInv, Unresumed

LEMMA NextEnds == IInv /\ EndsInv /\ [Next]_vars => EndsInv' /\ Progress
<1> SUFFICES ASSUME IInv, EndsInv, [Next]_vars PROVE EndsInv' /\ Progress
  OBVIOUS
<1>1. CASE UNCHANGED vars \/ LookAtDenied \/ RaiseCap
  BY <1>1, QuietEnds DEF vars, LookAtDenied, RaiseCap
<1>2. CASE Start \/ Resume \/ ResumeBudget \/ Crash
  BY <1>2, StartEnds, ResumeEnds, ResumeBudgetEnds, CrashEnds
<1>3. CASE Run
  BY <1>3, CloseInterruptedEnds, BeginPolicyEnds, ExhaustedEnds, BeginStepEnds,
     CollideEnds, CompleteEnds, AdvanceEnds, AwaitEnds, FailAttemptEnds,
     StopOnBudgetEnds, BlockRunEnds, SeeCancelEnds, RetryEnds, RequestReworkEnds,
     GiveUpEnds, FailPreRunEnds, EndLoopEnds, FailPostRunEnds, CatchEnds, SkipFinalizersEnds,
     BeginFinalizerEnds, EndFinalizerEnds, FinishRunEnds
     DEF Run
<1>4. CASE CancelRun \/ ApproveRun \/ DenyApproval \/ FailDenied
  BY <1>4, CancelRunEnds, ApproveRunEnds, DenyApprovalEnds, FailDeniedEnds
<1> QED BY <1>1, <1>2, <1>3, <1>4 DEF Next, Operate

LEMMA EndsInvariant == Spec => [](IInv /\ EndsInv)
BY InitInvariant, NextInvariant, InitEnds, NextEnds, PTL DEF Spec

\* A runner that returned leaves an end in the log, or a stage that a resume can
\* take up: nobody waits for a Run on which nothing works, unless the Run went on
\* behind its run.failed.
THEOREM ReturnedRunHasEndAlways == Spec => []ReturnedRunHasEnd
<1>1. EndsInv => ReturnedRunHasEnd
  BY DEF EndsInv, Unresumed, Left, Again, Reopened, ReturnedRunHasEnd
<1> QED BY <1>1, EndsInvariant, PTL

\* An approval is passed only while it waits and on an operator's answer to this
\* very attempt: the answer to an earlier one does not count after a rework.
THEOREM PassIsApprovedAlways == Spec => PassIsApproved
<1>1. IInv /\ EndsInv /\ [Next]_vars =>
        [\A a \in Approvals : log.st[a] # "completed" /\ log'.st[a] = "completed"
           => log.st[a] = "awaiting" /\ log.verdict[a] = "approved"]_vars
  BY NextEnds, FlowFacts DEF Progress
<1> QED BY <1>1, EndsInvariant, PTL DEF Spec, PassIsApproved

\* An attempt that begins has a number that no attempt of its stage had before,
\* whichever runner began those.
THEOREM AttemptsAreFreshAlways == Spec => AttemptsAreFresh
<1>1. IInv /\ EndsInv /\ [Next]_vars =>
        [\A s \in Stages : log.st[s] # "started" /\ log'.st[s] = "started"
           => log'.tries[s] > log.tries[s]]_vars
  BY NextEnds DEF Progress
<1> QED BY <1>1, EndsInvariant, PTL DEF Spec, AttemptsAreFresh

----------------------------------------------------------------------------
(* The log is one of RunStages.                                            *)

\* A stage that waits is an approval that was asked for.
Waits ==
  \A s \in Stages : log.st[s] = "awaiting" => s \in Approvals /\ log.verdict[s] # "none"
\* A stage at work that is none has an attempt.
Attempts ==
  runner.pc = "run" /\ Here \notin Approvals => log.st[Here] = "started"
WalkInv == Waits /\ Attempts

LEMMA WalkSame ==
  ASSUME WalkInv, log'.st = log.st, log'.tries = log.tries, log'.done = log.done,
         log'.verdict = log.verdict,
         "completed" \in log'.ended <=> "completed" \in log.ended,
         runner'.from = runner.from,
         runner'.pc = "run" => runner.pc = "run" /\ runner'.i = runner.i
  PROVE  WalkInv' /\ UNCHANGED Walk!vars
<1>1. WalkInv' BY DEF WalkInv, Waits, Attempts, Here
<1>2. FromFinalizer' = FromFinalizer BY DEF FromFinalizer
<1>3. ("completed" \in log.ended)' = ("completed" \in log.ended) OBVIOUS
<1> QED BY <1>1, <1>2, <1>3 DEF Walk!vars

\* It is the turn of the stage a runner is at.
LEMMA TurnHere ==
  ASSUME IInv, runner.pc \notin Gone, runner.err = "none", runner.i <= Len(Order)
  PROVE  /\ runner.i \in DOMAIN Order /\ Here \in Main /\ Here \in Stages
         /\ Order[runner.i] = Here
         /\ Walk!Turn(runner.i)
<1>1. runner.i \in DOMAIN Order /\ Here \in Main /\ ~FromFinalizer
  BY OnlyHere
<1>2. \A j \in 1..runner.i - 1 : Order[j] \in log.done
  BY <1>1 DEF IInv, PassedStagesAreDone
<1>3. \A j \in DOMAIN Order \ {runner.i} : ~Walk!Open(Order[j])
  BY <1>1 DEF IInv, OpenIsHere, Open, Walk!Open
<1> QED BY <1>1, <1>2, <1>3, FlowFacts DEF Walk!Turn, Here

LEMMA WalkStarts ==
  ASSUME IInv, WalkInv, runner.pc = "top", runner.i <= Len(Order), log.st[Here] # "started",
         NEW n \in Nat, n > log.tries[Here], log' = Started(log, Here, n),
         runner'.from = runner.from, runner'.i = runner.i
  PROVE  WalkInv' /\ Walk!Next
<1>1. /\ runner.i \in DOMAIN Order /\ Here \in Main /\ Here \in Stages
      /\ Order[runner.i] = Here /\ Walk!Turn(runner.i)
  BY TurnHere DEF IInv, Placed, Gone
<1>2. log \in Log /\ log.st \in [Stages -> StageStatus] /\ log.tries \in [Stages -> Nat]
  BY FlowTypes
<1>3. /\ log'.st = [log.st EXCEPT ![Here] = "started"]
      /\ log'.done = log.done /\ log'.ended = log.ended
  BY <1>1, <1>2, StartedLog
<1>4. log'.tries = [log.tries EXCEPT ![Here] = n]
  BY <1>1, <1>2, StartedRest
<1>5. log'.verdict = [a \in Approvals |-> IF a = Here THEN "none" ELSE log.verdict[a]]
  BY <1>2 DEF Started, Log
<1>6. FromFinalizer' = FromFinalizer BY DEF FromFinalizer
<1>7. Walk!NewAttempt(Here)
  BY <1>1, <1>2, <1>3, <1>4, <1>5, <1>6 DEF Walk!NewAttempt, Walk!Mark
<1>8. Walk!Begin(runner.i) BY <1>1, <1>7 DEF Walk!Begin
<1>9. WalkInv'
  BY <1>1, <1>2, <1>3, <1>5 DEF WalkInv, Waits, Attempts, Here
<1> QED BY <1>1, <1>8, <1>9 DEF Walk!Next

LEMMA WalkFails ==
  ASSUME IInv, WalkInv, runner.pc \notin Gone, runner.err = "none", runner.i <= Len(Order),
         log.st[Here] = "awaiting" => log.verdict[Here] = "denied",
         log'.st = [log.st EXCEPT ![Here] = "failed"], log'.done = log.done \ {Here},
         log'.tries = log.tries, log'.verdict = log.verdict,
         "completed" \in log'.ended <=> "completed" \in log.ended,
         runner'.from = runner.from, runner'.pc # "run"
  PROVE  WalkInv' /\ Walk!Next
<1>1. /\ runner.i \in DOMAIN Order /\ Here \in Main /\ Here \in Stages
      /\ Order[runner.i] = Here /\ Walk!Turn(runner.i)
  BY TurnHere
<1>2. log.st \in [Stages -> StageStatus]
  BY FlowTypes
<1>3. FromFinalizer' = FromFinalizer BY DEF FromFinalizer
<1>4. ("completed" \in log.ended)' = ("completed" \in log.ended) OBVIOUS
<1>5. Walk!Fail(runner.i) BY <1>1, <1>3, <1>4 DEF Walk!Fail, Walk!Mark
<1>6. WalkInv' BY <1>1, <1>2 DEF WalkInv, Waits, Attempts
<1> QED BY <1>1, <1>5, <1>6 DEF Walk!Next

\* The failure of the stage a runner is at, alone or with run.failed.
LEMMA FailureEvents ==
  ASSUME IInv, NEW s \in Stages, NEW l,
         l = Failed(log, s) \/ l = Ended(Failed(log, s), "failed")
                            \/ l = BudgetStopped(Failed(log, s))
  PROVE  /\ l.st = [log.st EXCEPT ![s] = "failed"] /\ l.done = log.done \ {s}
         /\ l.tries = log.tries /\ l.verdict = log.verdict
         /\ "completed" \in l.ended <=> "completed" \in log.ended
<1>1. log \in Log BY FlowTypes
<1> DEFINE m == Failed(log, s)
<1>2. /\ m \in Log /\ m.st = [log.st EXCEPT ![s] = "failed"] /\ m.done = log.done \ {s}
      /\ m.tries = log.tries /\ m.verdict = log.verdict /\ m.ended = log.ended
  BY <1>1, FailedLog, FailedRest
<1> HIDE DEF m
<1>3. CASE l = m BY <1>2, <1>3
<1>4. CASE l = Ended(m, "failed")
  BY <1>2, <1>4, EndedLog, EndedRest DEF Ends
<1>5. CASE l = BudgetStopped(m)
  BY <1>2, <1>5, BudgetStoppedLog, BudgetStoppedRest
<1> QED BY <1>3, <1>4, <1>5 DEF m

\* An end other than run.completed, or a request for rework.
LEMMA EndEvents ==
  ASSUME IInv, NEW l,
         \/ l = log \/ l = BudgetStopped(log) \/ l = Resumed(log)
         \/ \E end \in Ends \ {"completed"} : l = Ended(log, end)
         \/ \E s \in Stages : l = Reworked(log, s)
  PROVE  /\ l.st = log.st /\ l.done = log.done
         /\ l.tries = log.tries /\ l.verdict = log.verdict
         /\ "completed" \in l.ended <=> "completed" \in log.ended
<1>1. log \in Log BY FlowTypes
<1>2. CASE l = BudgetStopped(log)
  BY <1>1, <1>2, BudgetStoppedLog, BudgetStoppedRest
<1>3. CASE l = Resumed(log) BY <1>1, <1>3, ResumedLog
<1>4. ASSUME NEW end \in Ends \ {"completed"}, l = Ended(log, end)
      PROVE  /\ l.st = log.st /\ l.done = log.done
             /\ l.tries = log.tries /\ l.verdict = log.verdict
             /\ "completed" \in l.ended <=> "completed" \in log.ended
  BY <1>1, <1>4, EndedLog, EndedRest
<1>5. ASSUME NEW s \in Stages, l = Reworked(log, s)
      PROVE  /\ l.st = log.st /\ l.done = log.done
             /\ l.tries = log.tries /\ l.verdict = log.verdict
             /\ "completed" \in l.ended <=> "completed" \in log.ended
  BY <1>1, <1>5, ReworkedLog, ReworkedRest
<1> QED BY <1>2, <1>3, <1>4, <1>5

\* The steps that walk no stage.
LEMMA QuietWalks ==
  ASSUME IInv, WalkInv,
         \/ Start \/ Collide \/ Advance \/ SeeCancel \/ Retry \/ RequestRework \/ GiveUp
         \/ FailPreRun \/ EndLoop \/ FailPostRun \/ Catch \/ SkipFinalizers \/ Crash
  PROVE  WalkInv' /\ [Walk!Next]_(Walk!vars)
<1>1. runner \in Runner /\ log \in Log
  BY FlowTypes
<1>2. runner'.from = runner.from /\ runner'.pc # "run"
  <2>1. CASE Start \/ Advance \/ Retry \/ EndLoop \/ SkipFinalizers \/ Crash
    BY <1>1, <2>1
     DEF Start, Advance, Retry, EndLoop, SkipFinalizers, Crash, Goto, Throw, Over, Runner
  <2>2. CASE Collide \/ SeeCancel \/ RequestRework \/ GiveUp \/ Catch
    BY <1>1, <2>2 DEF Collide, SeeCancel, RequestRework, GiveUp, Catch, Goto, Throw, Runner
  <2>3. CASE FailPreRun \/ FailPostRun
    BY <1>1, <2>3 DEF FailPreRun, FailPostRun, HookThrows, Goto, Throw, Runner
  <2> QED BY <2>1, <2>2, <2>3
<1>3. \/ log' = log
      \/ \E end \in Ends \ {"completed"} : log' = Ended(log, end)
      \/ \E s \in Stages : log' = Reworked(log, s)
  <2>1. CASE Catch
    <3>1. runner.err \in Ends \ {"completed"}
      BY <1>1, <2>1 DEF Catch, At, IInv, Placed, Runner, Ends
    <3> QED BY <2>1, <3>1 DEF Catch
  <2>2. CASE RequestRework
    <3>1. Here \in Stages
      BY <2>2, AtStageFacts DEF RequestRework, AtStage, At
    <3> QED BY <2>2, <3>1 DEF RequestRework
  <2>3. CASE GiveUp
    BY <2>3 DEF GiveUp, Ends
  <2>4. CASE FailPreRun \/ FailPostRun
    BY <2>4 DEF FailPreRun, FailPostRun, HookThrows, Ends
  <2> QED
    BY <2>1, <2>2, <2>3, <2>4
     DEF Start, Collide, Advance, SeeCancel, Retry, EndLoop, SkipFinalizers, Crash
<1>4. /\ log'.st = log.st /\ log'.done = log.done
      /\ log'.tries = log.tries /\ log'.verdict = log.verdict
      /\ "completed" \in log'.ended <=> "completed" \in log.ended
  BY <1>3, EndEvents
<1> QED BY <1>2, <1>4, WalkSame

\* Those of the operators that answer nothing.
LEMMA OperatorWalks ==
  ASSUME IInv, WalkInv, CancelRun \/ LookAtDenied \/ FailDenied \/ RaiseCap \/ UNCHANGED vars
  PROVE  WalkInv' /\ [Walk!Next]_(Walk!vars)
<1>1. runner' = runner
  BY DEF CancelRun, LookAtDenied, FailDenied, RaiseCap, vars
<1>2. log' = log \/ \E end \in Ends \ {"completed"} : log' = Ended(log, end)
  BY DEF CancelRun, LookAtDenied, FailDenied, RaiseCap, vars, Ends
<1>3. /\ log'.st = log.st /\ log'.done = log.done
      /\ log'.tries = log.tries /\ log'.verdict = log.verdict
      /\ "completed" \in log'.ended <=> "completed" \in log.ended
  BY <1>2, EndEvents
<1> QED BY <1>1, <1>3, WalkSame

LEMMA ResumeWalks ==
  ASSUME IInv, WalkInv, Resume \/ ResumeBudget
  PROVE  WalkInv' /\ [Walk!Next]_(Walk!vars)
<1>1. PICK s \in Stages, l \in {log, Resumed(log)} :
        ResumeAt(s, l) /\ (s \in Finalizer => Walk!Open(s))
  <2>1. CASE Resume
    <3>1. PICK s \in Resumable(log) : ResumeAt(s, log)
      BY <2>1 DEF Resume
    <3> QED BY <3>1 DEF Resumable, Walk!Open
  <2>2. CASE ResumeBudget
    <3>1. PICK i \in DOMAIN Order : ResumeAt(Order[i], Resumed(log))
      BY <2>2 DEF ResumeBudget
    <3> QED BY <3>1, FlowFacts
  <2> QED BY <2>1, <2>2
<1>2. runner'.from = {s} /\ runner'.pc = "top"
  BY <1>1 DEF ResumeAt, NoRunner
<1>3. /\ log'.st = log.st /\ log'.done = log.done
      /\ log'.tries = log.tries /\ log'.verdict = log.verdict
      /\ "completed" \in log'.ended <=> "completed" \in log.ended
  BY <1>1, EndEvents DEF ResumeAt
<1>4. FromFinalizer' <=> s \in Finalizer
  BY <1>2 DEF FromFinalizer
<1>5. WalkInv'
  BY <1>2, <1>3 DEF WalkInv, Waits, Attempts
<1>6. ("completed" \in log.ended)' = ("completed" \in log.ended)
  BY <1>3
<1>7. Walk!TakeUp
  <2>1. FromFinalizer' \in BOOLEAN BY DEF FromFinalizer
  <2>2. FromFinalizer' => \E f \in Finalizer : Walk!Open(f)
    BY <1>1, <1>4
  <2> QED BY <1>3, <1>6, <2>1, <2>2 DEF Walk!TakeUp
<1> QED BY <1>5, <1>7 DEF Walk!Next

LEMMA BeginPolicyWalks ==
  ASSUME IInv, EndsInv, WalkInv, BeginPolicy
  PROVE  WalkInv' /\ [Walk!Next]_(Walk!vars)
<1>1. /\ runner.pc = "top" /\ runner.i <= Len(Order) /\ log.st[Here] # "started"
      /\ Kind[Here] = "policy"
  BY DEF BeginPolicy, AtStage, At
<1>2. Here \in Main /\ Here \in Stages
  BY <1>1, AtStageFacts
<1>3. runner \in Runner /\ runner.tries \in [Stages -> Nat] /\ log.tries \in [Stages -> Nat]
  BY FlowTypes
<1>4. log.tries[Here] <= runner.tries[Here]
  BY <1>1, <1>2 DEF EndsInv, Counted, CountedStages
<1>5. runner.tries[Here] + 1 \in Nat /\ runner.tries[Here] + 1 > log.tries[Here]
  BY <1>2, <1>3, <1>4
<1>6. log' = Started(log, Here, runner.tries[Here] + 1)
  BY DEF BeginPolicy
<1>7. runner'.from = runner.from /\ runner'.i = runner.i
  BY <1>3 DEF BeginPolicy, Runner
<1> QED BY <1>1, <1>5, <1>6, <1>7, WalkStarts

LEMMA BeginStepWalks ==
  ASSUME IInv, EndsInv, WalkInv, BeginStep
  PROVE  WalkInv' /\ [Walk!Next]_(Walk!vars)
<1>1. /\ runner.pc = "top" /\ runner.i <= Len(Order) /\ log.st[Here] # "started"
      /\ ~(runner.fresh /\ log.tries[Here] > 0)
  BY DEF BeginStep, AtStage, At, Collides
<1>2. Here \in Main /\ Here \in Stages
  BY <1>1, AtStageFacts
<1>3. runner \in Runner /\ log.tries \in [Stages -> Nat]
  BY FlowTypes
<1>4. runner'.from = runner.from /\ runner'.i = runner.i
  BY <1>3 DEF BeginStep, Runner
<1>5. CASE Continues
  <2>1. log' = log BY <1>5 DEF BeginStep
  <2>2. Here \in Approvals BY <1>2, <1>5 DEF Continues, WalkInv, Waits
  <2>3. WalkInv' BY <1>4, <2>1, <2>2 DEF WalkInv, Waits, Attempts, Here
  <2>4. UNCHANGED Walk!vars BY <1>4, <2>1 DEF Walk!vars, FromFinalizer
  <2> QED BY <2>3, <2>4
<1>6. CASE ~Continues
  <2> DEFINE n == IF runner.fresh THEN 1 ELSE log.tries[Here] + 1
  <2>1. n \in Nat /\ n > log.tries[Here] BY <1>1, <1>2, <1>3
  <2>2. log' = Started(log, Here, n) BY <1>6 DEF BeginStep
  <2> HIDE DEF n
  <2> QED BY <1>1, <1>4, <2>1, <2>2, WalkStarts
<1> QED BY <1>5, <1>6

LEMMA FailureWalks ==
  ASSUME IInv, EndsInv, WalkInv, CloseInterrupted \/ Exhausted \/ FailAttempt \/ StopOnBudget
  PROVE  WalkInv' /\ [Walk!Next]_(Walk!vars)
<1>1. runner.pc \in {"top", "run", "post"} /\ runner.i <= Len(Order)
  BY DEF CloseInterrupted, Exhausted, FailAttempt, StopOnBudget, AtStage, At
<1>2. Here \in Main /\ Here \in Stages /\ runner.err = "none" /\ runner.pc \notin Gone
  BY <1>1, AtStageFacts
<1>3. runner \in Runner /\ log \in Log
  BY FlowTypes
<1>4. runner'.from = runner.from /\ runner'.pc # "run"
  <2>1. CASE CloseInterrupted
    BY <2>1 DEF CloseInterrupted, AtStage, At
  <2>2. CASE Exhausted
    BY <1>3, <2>2 DEF Exhausted, Throw, Runner
  <2>3. CASE FailAttempt
    BY <1>3, <2>3 DEF FailAttempt, Runner
  <2>4. CASE StopOnBudget
    BY <1>3, <2>4 DEF StopOnBudget, Runner
  <2> QED BY <2>1, <2>2, <2>3, <2>4
<1>5. \/ log' = log \/ log' = Ended(log, "failed") \/ log' = BudgetStopped(log)
      \/ log' = Failed(log, Here) \/ log' = Ended(Failed(log, Here), "failed")
      \/ log' = BudgetStopped(Failed(log, Here))
  BY DEF CloseInterrupted, Exhausted, FailAttempt, StopOnBudget
<1>6. log.st[Here] = "awaiting" => log.verdict[Here] = "denied"
  <2> SUFFICES ASSUME log.st[Here] = "awaiting" PROVE log.verdict[Here] = "denied"
    OBVIOUS
  <2>1. Here \in Approvals /\ Kind[Here] = "approval"
    BY <1>2, FlowFacts DEF WalkInv, Waits
  <2>2. ~CloseInterrupted /\ ~Exhausted /\ ~StopOnBudget
    BY <2>1 DEF CloseInterrupted, Exhausted, StopOnBudget, AtStage
  <2>3. FailAttempt /\ runner.pc # "post"
    BY <2>2 DEF IInv, Reported
  <2> QED BY <2>1, <2>3 DEF FailAttempt, AtStage, At
<1>7. CASE log' = log \/ log' = Ended(log, "failed") \/ log' = BudgetStopped(log)
  <2>1. /\ log'.st = log.st /\ log'.done = log.done
        /\ log'.tries = log.tries /\ log'.verdict = log.verdict
        /\ "completed" \in log'.ended <=> "completed" \in log.ended
    BY <1>7, EndEvents DEF Ends
  <2> QED BY <1>4, <2>1, WalkSame
<1>8. CASE \/ log' = Failed(log, Here) \/ log' = Ended(Failed(log, Here), "failed")
           \/ log' = BudgetStopped(Failed(log, Here))
  <2>1. /\ log'.st = [log.st EXCEPT ![Here] = "failed"] /\ log'.done = log.done \ {Here}
        /\ log'.tries = log.tries /\ log'.verdict = log.verdict
        /\ "completed" \in log'.ended <=> "completed" \in log.ended
    BY <1>2, <1>8, FailureEvents
  <2> QED BY <1>1, <1>2, <1>4, <1>6, <2>1, WalkFails
<1> QED BY <1>5, <1>7, <1>8

LEMMA CompleteWalks ==
  ASSUME IInv, EndsInv, WalkInv, Complete
  PROVE  WalkInv' /\ [Walk!Next]_(Walk!vars)
<1>1. /\ runner.pc = "run" /\ runner.i <= Len(Order)
      /\ Kind[Here] = "approval" => log.verdict[Here] = "approved"
  BY DEF Complete, AtStage, At
<1>2. runner.err = "none" /\ runner.pc \notin Gone
  BY <1>1, AtStageFacts
<1>3. /\ runner.i \in DOMAIN Order /\ Here \in Main /\ Here \in Stages
      /\ Order[runner.i] = Here /\ Walk!Turn(runner.i)
  BY <1>1, <1>2, TurnHere
<1>4. runner \in Runner /\ log \in Log /\ log.st \in [Stages -> StageStatus]
  BY FlowTypes
<1>5. runner'.from = runner.from /\ runner'.pc = "post"
  BY <1>4 DEF Complete, Runner
<1>6. /\ log'.st = [log.st EXCEPT ![Here] = "completed"] /\ log'.done = log.done \cup {Here}
      /\ log'.tries = log.tries /\ log'.verdict = log.verdict /\ log'.ended = log.ended
  BY <1>3, <1>4, CompletedLog, CompletedRest DEF Complete
<1>7. IF Here \in Approvals
      THEN log.st[Here] = "awaiting" /\ log.verdict[Here] = "approved"
      ELSE log.st[Here] = "started"
  <2>1. CASE Here \in Approvals
    <3>1. log.verdict[Here] = "approved" BY <1>1, <1>3, <2>1, FlowFacts
    <3>2. log.st[Here] \in {"started", "awaiting"}
      BY <1>1, <2>1 DEF EndsInv, Answered
    <3>3. log.st[Here] # "started" BY <2>1, <3>1 DEF EndsInv, Answered
    <3> QED BY <2>1, <3>1, <3>2, <3>3
  <2>2. CASE Here \notin Approvals
    BY <1>1, <2>2 DEF WalkInv, Attempts
  <2> QED BY <2>1, <2>2
<1>8. FromFinalizer' = FromFinalizer BY <1>5 DEF FromFinalizer
<1>9. Walk!Pass(runner.i)
  BY <1>3, <1>6, <1>7, <1>8 DEF Walk!Pass, Walk!Mark
<1>10. WalkInv' BY <1>3, <1>4, <1>5, <1>6 DEF WalkInv, Waits, Attempts
<1> QED BY <1>3, <1>9, <1>10 DEF Walk!Next

LEMMA AwaitWalks ==
  ASSUME IInv, EndsInv, WalkInv, Await
  PROVE  WalkInv' /\ [Walk!Next]_(Walk!vars)
<1>1. /\ runner.pc = "run" /\ runner.i <= Len(Order) /\ Kind[Here] = "approval"
  BY DEF Await, AtStage, At
<1>2. runner.err = "none" /\ runner.pc \notin Gone
  BY <1>1, AtStageFacts
<1>3. /\ runner.i \in DOMAIN Order /\ Here \in Main /\ Here \in Stages
      /\ Order[runner.i] = Here /\ Walk!Turn(runner.i) /\ Here \in Approvals
  BY <1>1, <1>2, TurnHere, FlowFacts
<1>4. runner \in Runner /\ log \in Log /\ log.st \in [Stages -> StageStatus]
      /\ log.verdict \in [Approvals -> {"none", "pending", "approved", "denied"}]
  BY FlowTypes
<1>5. runner'.from = runner.from /\ runner'.pc = "left"
  BY <1>4 DEF Await, Goto, Runner
<1>6. CASE log.verdict[Here] # "none"
  <2>1. log' = log BY <1>6 DEF Await
  <2> QED BY <1>5, <2>1, WalkSame
<1>7. CASE log.verdict[Here] = "none"
  <2>1. log' = Asked(log, Here, "pending") BY <1>7 DEF Await
  <2>2. /\ log'.st = [log.st EXCEPT ![Here] = "awaiting"] /\ log'.done = log.done
        /\ log'.verdict = [log.verdict EXCEPT ![Here] = "pending"]
        /\ log'.ended = log.ended /\ log'.tries = log.tries
    <3>1. Approvals \subseteq Stages BY FlowFacts
    <3>2. /\ log'.st = [log.st EXCEPT ![Here] = "awaiting"] /\ log'.done = log.done
          /\ log'.verdict = [log.verdict EXCEPT ![Here] = "pending"]
          /\ log'.ended = log.ended
      BY <1>3, <1>4, <2>1, <3>1, AskedLog
    <3>3. log'.tries = log.tries BY <1>3, <1>4, <2>1, <3>1, AskedRest
    <3> QED BY <3>2, <3>3
  <2>3. log.st[Here] = "started"
    BY <1>1, <1>3, <1>7 DEF EndsInv, Answered, WalkInv, Waits
  <2>4. FromFinalizer' = FromFinalizer BY <1>5 DEF FromFinalizer
  <2>5. Walk!Ask(runner.i)
    BY <1>3, <1>7, <2>2, <2>3, <2>4 DEF Walk!Ask, Walk!Mark
  <2>6. WalkInv' BY <1>3, <1>4, <1>5, <2>2 DEF WalkInv, Waits, Attempts
  <2> QED BY <1>3, <2>5, <2>6 DEF Walk!Next
<1> QED BY <1>6, <1>7

LEMMA BlockRunWalks ==
  ASSUME IInv, EndsInv, WalkInv, BlockRun
  PROVE  WalkInv' /\ [Walk!Next]_(Walk!vars)
<1>1. /\ runner.pc = "run" /\ runner.i <= Len(Order) /\ Kind[Here] = "policy"
  BY DEF BlockRun, AtStage, At
<1>2. runner.err = "none" /\ runner.pc \notin Gone
  BY <1>1, AtStageFacts
<1>3. /\ runner.i \in DOMAIN Order /\ Here \in Main /\ Here \in Stages
      /\ Order[runner.i] = Here /\ Walk!Turn(runner.i) /\ Here \notin Approvals
  BY <1>1, <1>2, TurnHere, FlowFacts
<1>4. runner \in Runner /\ log \in Log /\ log.st \in [Stages -> StageStatus]
  BY FlowTypes
<1>5. runner'.from = runner.from /\ runner'.pc = "catch"
  BY <1>4 DEF BlockRun, Throw, Runner
<1>6. /\ log'.st = [log.st EXCEPT ![Here] = "blocked"] /\ log'.done = log.done \ {Here}
      /\ log'.tries = log.tries /\ log'.verdict = log.verdict
      /\ log'.ended = log.ended \cup {"blocked"}
  BY <1>3, <1>4, BlockedLog, BlockedRest DEF BlockRun
<1>7. log.st[Here] = "started" BY <1>1, <1>3 DEF WalkInv, Attempts
<1>8. FromFinalizer' = FromFinalizer BY <1>5 DEF FromFinalizer
<1>9. ("completed" \in log.ended)' = ("completed" \in log.ended) BY <1>6
<1>10. Walk!Block(runner.i)
  BY <1>3, <1>6, <1>7, <1>8, <1>9 DEF Walk!Block, Walk!Mark
<1>11. WalkInv' BY <1>3, <1>4, <1>5, <1>6 DEF WalkInv, Waits, Attempts
<1> QED BY <1>3, <1>10, <1>11 DEF Walk!Next

LEMMA BeginFinalizerWalks ==
  ASSUME IInv, EndsInv, WalkInv, BeginFinalizer
  PROVE  WalkInv' /\ [Walk!Next]_(Walk!vars)
<1> DEFINE N(f) == (IF runner.fresh THEN runner.tries[f] ELSE log.tries[f]) + 1
<1>1. PICK f \in Finalizer :
        /\ log' = Started(log, f, N(f))
        /\ runner' = [runner EXCEPT !.tries[f] = N(f), !.pc = "finalizer"]
  BY DEF BeginFinalizer
<1>2. f \in Stages /\ f \notin Approvals BY FlowFacts
<1>3. /\ runner \in Runner /\ log \in Log /\ log.st \in [Stages -> StageStatus]
      /\ log.tries \in [Stages -> Nat] /\ runner.tries \in [Stages -> Nat]
      /\ log.verdict \in [Approvals -> {"none", "pending", "approved", "denied"}]
  BY FlowTypes
<1>4. log.tries[f] <= runner.tries[f]
  BY <1>2 DEF EndsInv, Counted, CountedStages
<1>5. N(f) \in Nat /\ N(f) > log.tries[f] BY <1>2, <1>3, <1>4
<1>6. runner'.from = runner.from /\ runner'.pc = "finalizer"
  BY <1>1, <1>3 DEF Runner
<1> HIDE DEF N
<1>7. /\ log'.st = [log.st EXCEPT ![f] = "started"]
      /\ log'.done = log.done /\ log'.ended = log.ended
  BY <1>1, <1>2, <1>3, <1>5, StartedLog
<1>8. log'.tries = [log.tries EXCEPT ![f] = N(f)]
  BY <1>1, <1>2, <1>3, <1>5, StartedRest
<1>9. log'.verdict = [a \in Approvals |-> IF a = f THEN "none" ELSE log.verdict[a]]
  BY <1>1, <1>3 DEF Started, Log
<1>10. FromFinalizer' = FromFinalizer BY <1>6 DEF FromFinalizer
<1>11. Walk!NewAttempt(f)
  BY <1>2, <1>3, <1>5, <1>7, <1>8, <1>9, <1>10 DEF Walk!NewAttempt, Walk!Mark
<1>12. WalkInv'
  BY <1>2, <1>3, <1>6, <1>7, <1>9 DEF WalkInv, Waits, Attempts
<1> QED BY <1>11, <1>12 DEF Walk!Next, Walk!Finalize

LEMMA EndFinalizerWalks ==
  ASSUME IInv, EndsInv, WalkInv, EndFinalizer
  PROVE  WalkInv' /\ [Walk!Next]_(Walk!vars)
<1>1. PICK f \in Finalizer :
        log' = Completed(log, f) \/ log' = Failed(log, f)
  BY DEF EndFinalizer
<1>2. f \in Stages /\ f \notin Approvals BY FlowFacts
<1>3. runner \in Runner /\ log \in Log /\ log.st \in [Stages -> StageStatus]
  BY FlowTypes
<1>4. runner'.from = runner.from /\ runner'.pc # "run"
  BY <1>3 DEF EndFinalizer, Goto, Over, Runner
<1>5. /\ \/ log'.st = [log.st EXCEPT ![f] = "completed"] /\ log'.done = log.done \cup {f}
         \/ log'.st = [log.st EXCEPT ![f] = "failed"] /\ log'.done = log.done \ {f}
      /\ log'.tries = log.tries /\ log'.verdict = log.verdict /\ log'.ended = log.ended
  BY <1>1, <1>2, <1>3, CompletedLog, CompletedRest, FailedLog, FailedRest
<1>6. FromFinalizer' = FromFinalizer BY <1>4 DEF FromFinalizer
<1>7. Walk!Finalize(f) BY <1>5, <1>6 DEF Walk!Finalize, Walk!Mark
<1>8. WalkInv' BY <1>2, <1>3, <1>4, <1>5 DEF WalkInv, Waits, Attempts
<1> QED BY <1>7, <1>8 DEF Walk!Next

LEMMA FinishRunWalks ==
  ASSUME IInv, EndsInv, WalkInv, FinishRun
  PROVE  WalkInv' /\ [Walk!Next]_(Walk!vars)
<1>1. runner.pc = "finish" /\ runner.err = "none" /\ runner.i = Len(Order) + 1
  BY DEF FinishRun, At, IInv, Placed
<1>2. FromFinalizer \/ \A k \in DOMAIN Order : Order[k] \in log.done
  BY <1>1, FlowFacts DEF IInv, PassedStagesAreDone, Gone
<1>3. runner \in Runner /\ log \in Log
  BY FlowTypes
<1>4. runner'.from = runner.from /\ runner'.pc = "left"
  BY <1>3 DEF FinishRun, Goto, Runner
<1>5. CASE log' = log BY <1>4, <1>5, WalkSame
<1>6. CASE log' = Ended(log, "completed")
  <2>1. /\ log'.st = log.st /\ log'.done = log.done /\ log'.verdict = log.verdict
        /\ log'.tries = log.tries /\ log'.ended = log.ended \cup {"completed"}
    BY <1>3, <1>6, EndedLog, EndedRest DEF Ends
  <2>2. FromFinalizer' = FromFinalizer BY <1>4 DEF FromFinalizer
  <2>3. ("completed" \in log.ended)' = TRUE BY <2>1
  <2>4. Walk!Finish BY <1>2, <2>1, <2>2, <2>3 DEF Walk!Finish
  <2>5. WalkInv' BY <1>4, <2>1 DEF WalkInv, Waits, Attempts
  <2> QED BY <2>4, <2>5 DEF Walk!Next
<1> QED BY <1>5, <1>6 DEF FinishRun

LEMMA AnswerWalks ==
  ASSUME IInv, EndsInv, WalkInv, ApproveRun \/ DenyApproval
  PROVE  WalkInv' /\ [Walk!Next]_(Walk!vars)
<1>1. PICK a \in Approvals, v \in {"approved", "denied"} :
        log.verdict[a] = "pending" /\ log' = Asked(log, a, v)
  BY DEF ApproveRun, DenyApproval
<1>2. runner' = runner BY DEF ApproveRun, DenyApproval
<1>3. /\ log \in Log /\ log.st \in [Stages -> StageStatus] /\ a \in Stages
      /\ log.verdict \in [Approvals -> {"none", "pending", "approved", "denied"}]
  BY FlowTypes, FlowFacts
<1>4. log.st[a] = "awaiting" BY <1>1 DEF IInv, Waiting
<1>5. /\ log'.st = [log.st EXCEPT ![a] = "awaiting"] /\ log'.done = log.done
      /\ log'.verdict = [log.verdict EXCEPT ![a] = v]
      /\ log'.ended = log.ended /\ log'.tries = log.tries
  <2>1. Approvals \subseteq Stages BY FlowFacts
  <2>2. v \in {"none", "pending", "approved", "denied"} OBVIOUS
  <2>3. /\ log'.st = [log.st EXCEPT ![a] = "awaiting"] /\ log'.done = log.done
        /\ log'.verdict = [log.verdict EXCEPT ![a] = v]
        /\ log'.ended = log.ended
    <3>1. CASE v = "approved" BY <1>1, <1>3, <2>1, <3>1, AskedLog
    <3>2. CASE v = "denied" BY <1>1, <1>3, <2>1, <3>2, AskedLog
    <3> QED BY <3>1, <3>2
  <2>4. log'.tries = log.tries BY <1>1, <1>3, <2>1, <2>2, AskedRest
  <2> QED BY <2>3, <2>4
<1>6. log'.st = log.st BY <1>3, <1>4, <1>5
<1>7. FromFinalizer' = FromFinalizer BY <1>2 DEF FromFinalizer
<1>8. Walk!Answer(a) BY <1>1, <1>4, <1>5, <1>6, <1>7 DEF Walk!Answer
<1>9. WalkInv' BY <1>2, <1>3, <1>5, <1>6 DEF WalkInv, Waits, Attempts, Here
<1> QED BY <1>8, <1>9 DEF Walk!Next

LEMMA NextWalks ==
  ASSUME IInv, EndsInv, WalkInv, [Next]_vars
  PROVE  WalkInv' /\ [Walk!Next]_(Walk!vars)
<1>1. CASE Start \/ Crash \/ Resume \/ ResumeBudget
  BY <1>1, QuietWalks, ResumeWalks
<1>2. CASE Run
  BY <1>2, QuietWalks, BeginPolicyWalks, BeginStepWalks, FailureWalks, CompleteWalks,
     AwaitWalks, BlockRunWalks, BeginFinalizerWalks, EndFinalizerWalks, FinishRunWalks
   DEF Run
<1>3. CASE Operate \/ UNCHANGED vars
  BY <1>3, OperatorWalks, AnswerWalks DEF Operate
<1> QED BY <1>1, <1>2, <1>3 DEF Next

LEMMA InitWalks == Init => WalkInv /\ Walk!Init
<1> SUFFICES ASSUME Init PROVE WalkInv /\ Walk!Init
  OBVIOUS
<1>1. log = NewLog /\ runner = NoRunner BY DEF Init
<1>2. WalkInv BY <1>1 DEF WalkInv, Waits, Attempts, NewLog, NoRunner
<1>3. FromFinalizer = FALSE /\ ("completed" \in log.ended) = FALSE
  BY <1>1 DEF FromFinalizer, NewLog, NoRunner
<1> QED BY <1>1, <1>2, <1>3 DEF Walk!Init, NewLog

\* The runners, the operators and the crashes of FlowRun make logs of RunStages: the
\* stages are walked in their order, one attempt at a time, and the Run completes when
\* every stage has.
THEOREM StagesRefinedAlways == Spec => StagesRefined
<1>1. Spec => [](IInv /\ EndsInv) BY EndsInvariant
<1> QED
  BY <1>1, InitWalks, NextWalks, PTL DEF Spec, StagesRefined, Walk!Spec
=============================================================================
