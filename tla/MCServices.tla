----------------------------- MODULE MCServices -----------------------------
(* Components that do not interact, each checked alone in one of the        *)
(* settings below: a behaviour chooses one and moves nothing else.          *)
(*   claims WorkClaims on one GitHub issue: a Run that publishes a branch   *)
(*          for it, two that update the pull request of the first, and a CI *)
(*          repair of that pull request;                                    *)
(*   alone  WebhookIntake: one web server, an activation and two review     *)
(*          comments, and a status publisher;                               *)
(*   pair   WebhookIntake: two servers and two activations of an issue, d2  *)
(*          the newer;                                                      *)
(*   scan   Schedules: a scheduler and a schedule of any policy, with a     *)
(*          scan that stops somewhere;                                      *)
(*   pause  Schedules: the same with an operator who pauses and resumes;    *)
(*   byhand Schedules: the same with an operator who fires by hand.         *)
EXTENDS MCWorkClaims

CONSTANTS d1, d2, NoDelivery, NoProc, Dead

\* The two comments are alike; they take the names of the two updating Runs,
\* which are alike too, so that one symmetry serves every setting.
c1 == u1
c2 == u2

VARIABLES setting, record, wake, lock, task, acc, due, at, locals, sends, failed,
  clock, schedule, occ, work, dependsOn, candidates, place, scan, stops

AloneDeliveries == {d1, c1, c2}
AloneServers == {p1}
AloneKind == (d1 :> "issue") @@ (c1 :> "comment") @@ (c2 :> "comment")
AloneWork == (d1 :> "issue") @@ (c1 :> "c1") @@ (c2 :> "c2")
AloneCursor == [d \in AloneDeliveries |-> 1]
Alone == INSTANCE WebhookIntakeProps WITH
  Deliveries <- AloneDeliveries, Procs <- AloneServers, Restarted <- AloneServers, Publishes <- TRUE,
  Kind <- AloneKind, Domain <- AloneWork, Cursor <- AloneCursor,
  WakeLimit <- 1, MaxPasses <- 2, MaxSends <- 2, MaxFaults <- 1,
  pc <- at, loc <- locals, faults <- failed

PairDeliveries == {d1, d2}
PairServers == {p1, p2}
PairKind == [d \in PairDeliveries |-> "issue"]
PairCursor == (d1 :> 1) @@ (d2 :> 2)
Pair == INSTANCE WebhookIntakeProps WITH
  Deliveries <- PairDeliveries, Procs <- PairServers, Restarted <- {}, Publishes <- FALSE,
  Kind <- PairKind, Domain <- PairKind, Cursor <- PairCursor,
  WakeLimit <- 1, MaxPasses <- 2, MaxSends <- 2, MaxFaults <- 1,
  pc <- at, loc <- locals, faults <- failed

intakeVars == <<record, wake, lock, task, acc, due, at, locals, sends, failed>>

EveryTrigger == {"once", "repeats"}
EveryMisfire == {"skip", "run_once_now", "catch_up"}
EveryOverlap == {"allow", "skip", "queue"}
EveryAdmission == {"auto", "review"}
Auto == {"auto"}
ThreeInstants == 1..3
TwoInstants == 1..2
Scheduler == {"scheduler"}
Operator == {"operator"}
ByHandOccurrences == {10}
Scan == INSTANCE SchedulesProps WITH
  Grid <- ThreeInstants, Horizon <- 4, Triggers <- EveryTrigger,
  Misfires <- EveryMisfire, Overlaps <- EveryOverlap, Admissions <- Auto,
  Limit <- 2, MaxSkips <- 1, Manual <- {}, MaxStops <- 1,
  Scanners <- Scheduler, Pausers <- {}, Firers <- {}, task <- work, pc <- place, loc <- scan
Pause == INSTANCE SchedulesProps WITH
  Grid <- TwoInstants, Horizon <- 2, Triggers <- EveryTrigger,
  Misfires <- {"catch_up"}, Overlaps <- {"queue"}, Admissions <- EveryAdmission,
  Limit <- 1, MaxSkips <- 1, Manual <- {}, MaxStops <- 1,
  Scanners <- Scheduler, Pausers <- Operator, Firers <- {},
  task <- work, pc <- place, loc <- scan
ByHand == INSTANCE SchedulesProps WITH
  Grid <- TwoInstants, Horizon <- 2, Triggers <- {"repeats"},
  Misfires <- {"catch_up"}, Overlaps <- {"allow"}, Admissions <- Auto,
  Limit <- 1, MaxSkips <- 1, Manual <- ByHandOccurrences, MaxStops <- 0,
  Scanners <- Scheduler, Pausers <- {}, Firers <- Operator,
  task <- work, pc <- place, loc <- scan

scanVars == <<clock, schedule, occ, work, dependsOn, candidates, place, scan, stops>>
allVars == <<setting, vars, intakeVars, scanVars>>

ServicesInit ==
  /\ Init
  /\ \/ /\ \/ setting \in {"claims", "pair"} /\ Pair!Init
           \/ setting = "alone" /\ Alone!Init
        /\ clock = 0 /\ schedule = 0 /\ occ = 0 /\ work = 0 /\ dependsOn = 0
        /\ candidates = 0 /\ place = 0 /\ scan = 0 /\ stops = 0
     \/ /\ \/ setting = "scan" /\ Scan!Init
           \/ setting = "pause" /\ Pause!Init
           \/ setting = "byhand" /\ ByHand!Init
        /\ record = 0 /\ wake = 0 /\ lock = 0 /\ task = 0 /\ acc = 0 /\ due = 0
        /\ at = 0 /\ locals = 0 /\ sends = 0 /\ failed = 0
ServicesNext ==
  /\ UNCHANGED setting
  /\ \/ setting = "claims" /\ Next /\ UNCHANGED <<intakeVars, scanVars>>
     \/ setting = "alone" /\ Alone!Next /\ UNCHANGED <<vars, scanVars>>
     \/ setting = "pair" /\ Pair!Next /\ UNCHANGED <<vars, scanVars>>
     \/ setting = "scan" /\ Scan!Next /\ UNCHANGED <<vars, intakeVars>>
     \/ setting = "pause" /\ Pause!Next /\ UNCHANGED <<vars, intakeVars>>
     \/ setting = "byhand" /\ ByHand!Next /\ UNCHANGED <<vars, intakeVars>>
ServicesSpec == ServicesInit /\ [][ServicesNext]_allVars

\* TypeOK is that of WorkClaims; this is that of the other two.
IntakeTypeOK ==
  /\ setting = "alone" => Alone!TypeOK
  /\ setting = "pair" => Pair!TypeOK
SchedulesTypeOK ==
  /\ setting = "scan" => Scan!Parameters /\ Scan!TypeOK
  /\ setting = "pause" => Pause!Parameters /\ Pause!TypeOK
  /\ setting = "byhand" => ByHand!Parameters /\ ByHand!TypeOK
OthersTypeOK == IntakeTypeOK /\ SchedulesTypeOK

\* The properties of WebhookIntakeProps.
LeadIsNewest ==
  [][/\ setting = "alone" => Alone!LeadFollows
     /\ setting = "pair" => Pair!LeadFollows]_intakeVars
CompletedHasTask ==
  (setting = "alone" => Alone!CompletedHasTask) /\ (setting = "pair" => Pair!CompletedHasTask)
OnlyOwnerEndsLease == [][setting = "pair" => Pair!OwnerEndsLease]_intakeVars
TakenTaskKept == [][setting = "alone" => Alone!TaskKept]_intakeVars

\* And those of SchedulesProps.
CatchUpIsBounded ==
  /\ setting = "scan" => Scan!CatchUpIsBounded
  /\ setting = "byhand" => ByHand!CatchUpIsBounded
OneAtATime == setting = "scan" => Scan!OneAtATime
NothingPassedOver == [][setting = "scan" => Scan!PassesDecided]_scanVars
NoWorkTwice ==
  [][/\ setting = "scan" => Scan!TaskKept
     /\ setting = "pause" => Pause!TaskKept]_scanVars
NothingLeftPending ==
  [][/\ setting = "scan" => Scan!ScanLeavesNothing
     /\ setting = "pause" => Pause!ScanLeavesNothing]_scanVars
=============================================================================
