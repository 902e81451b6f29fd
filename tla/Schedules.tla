------------------------------ MODULE Schedules ------------------------------
(* One schedule and the work that its firings create:                       *)
(* src/src/schedules/materialize.ts, store.ts, trigger.ts. A scan finishes  *)
(* what an earlier scan left pending, decides about every instant missed    *)
(* since the stored next firing, and then advances the schedule; the web    *)
(* server fires it by hand, pauses and resumes it. Schedules, occurrences,  *)
(* Work items and candidates are files without a lock, so each call reads   *)
(* one, and writes it back, in steps that others come between.              *)
EXTENDS Integers, FiniteSets

CONSTANTS
  Grid,        \* the instants of a repeating trigger, positive numbers
  Horizon,     \* bound on the time that passes
  Triggers,    \* kinds of trigger that the schedule may have
  Misfires,    \* misfire policies that the schedule may have
  Overlaps,    \* overlap policies that it may have
  Admissions,  \* admission modes that it may have
  Limit,       \* `limit` of a catch-up policy
  MaxSkips,    \* MAX_SKIPS_RECORDED
  Manual,      \* occurrences that an operator may fire by hand
  Scanners,    \* scheduler processes: each scans, then starts Work items
  Pausers,     \* operators who pause and resume the schedule
  Firers,      \* operators who fire it by hand
  MaxStops     \* bound on calls that die, or that a store stops

VARIABLES
  clock,       \* the time
  schedule,    \* the schedule's record
  occ,         \* occurrences.json: the status of each occurrence
  task,        \* Work items: the one that each occurrence creates
  dependsOn,   \* their dependencies
  candidates,  \* the occurrences whose candidate is in the Factory queue
  pc, loc,     \* where each call is, and its local variables
  stops        \* calls that were stopped

vars == <<clock, schedule, occ, task, dependsOn, candidates, pc, loc, stops>>

Never == Horizon + 1
NoOcc == 0
Instants == {t \in Grid : t <= Horizon}
Ids == Instants \cup Manual
Calls == Scanners \cup Pausers \cup Firers

\* A skipped occurrence whose reason counts the ones after it is a `summary`.
Statuses == {"none", "pending", "materialized", "skipped", "summary"}

NoSchedule == [enabled |-> FALSE, completed |-> FALSE, next |-> Never, last |-> NoOcc,
               trigger |-> "repeats", misfire |-> "skip", overlap |-> "allow", admission |-> "auto"]
NoFile == [i \in Ids |-> "none"]

\* `sched` and `file` are what a call has read of the two files, `at` is the
\* instant it decides about, and `id` the occurrence it works on.
Idle ==
  [sched |-> NoSchedule, now |-> 0, at |-> Never, id |-> NoOcc, status |-> "none",
   file |-> NoFile, skips |-> 0, fired |-> NoOcc, dep |-> NoOcc, pending |-> {}]

-----------------------------------------------------------------------------
(* What the code computes.                                                  *)

\* The instants of the trigger; a `once` trigger has the first one only.
Fires(s) == {t \in Instants : s.trigger = "once" => \A u \in Instants : t <= u}

\* Of a set of instants the first, if there is one.
First(S) == IF S = {} THEN Never ELSE CHOOSE t \in S : \A u \in S : t <= u
NextAfter(s, t) == First({u \in Fires(s) : u > t})

\* The instants from the stored next firing up to now.
Missed(l) == {t \in Fires(l.sched) : l.sched.next <= t /\ t <= l.now}
IsLatest(l) == \A t \in Missed(l) : t <= l.at
Index(l) == Cardinality({t \in Missed(l) : t < l.at})

MayFire_OneMore(l, onTime) ==
  CASE l.sched.misfire = "skip" -> onTime /\ Cardinality(Missed(l)) = 1
    [] l.sched.misfire = "run_once_now" -> IsLatest(l)
    [] OTHER -> Index(l) <= Limit

\* Whether the scan may fire the instant. A single instant is on time or late:
\* how late is left open.
MayFire(l, onTime) ==
  CASE l.sched.misfire = "skip" -> onTime /\ Cardinality(Missed(l)) = 1
    [] l.sched.misfire = "run_once_now" -> IsLatest(l)
    [] OTHER -> Index(l) < Limit

ActivePredecessor_Running(l) ==
  LET previous == IF l.fired # NoOcc THEN l.fired ELSE l.sched.last
  IN  IF previous # NoOcc /\ occ[previous] = "materialized" /\ task[previous] = "running"
      THEN previous ELSE NoOcc

\* The Work item of the previous firing, when it is still ready or running.
ActivePredecessor(l) ==
  LET previous == IF l.fired # NoOcc THEN l.fired ELSE l.sched.last
  IN  IF previous # NoOcc /\ occ[previous] = "materialized"
         /\ task[previous] \in {"ready", "running", "again"}
      THEN previous ELSE NoOcc

Undecided(l) == occ[l.at] \in {"none", "pending"}
Blocked(l) == l.sched.overlap = "skip" /\ ActivePredecessor(l) # NoOcc
Firing(s) == s.enabled /\ ~s.completed

\* It fires, and has a next firing: a `once` trigger has none after its instant,
\* and that of a repeating one may lie beyond the horizon.
Armed(s) == Firing(s) /\ ~(s.trigger = "once" /\ s.next = Never)

Pcs == {"idle", "pending", "left", "decide", "queue", "task", "create", "depend", "candidate",
        "save", "write", "advance", "advanced", "set"}
TriggerKinds == {"once", "repeats"}
MisfirePolicies == {"skip", "run_once_now", "catch_up"}
OverlapPolicies == {"allow", "skip", "queue"}
AdmissionModes == {"auto", "review"}

\* A Work item is a draft until its planning is approved; `again` is the Run of
\* one that has ended and that a person started once more.
TaskStatuses == {"none", "draft", "ready", "running", "done", "again"}
Schedule ==
  [enabled : BOOLEAN, completed : BOOLEAN, next : Instants \cup {Never},
   last : Ids \cup {NoOcc}, trigger : TriggerKinds, misfire : MisfirePolicies,
   overlap : OverlapPolicies, admission : AdmissionModes]
Local ==
  [sched : Schedule, now : 0..Horizon, at : Instants \cup {Never}, id : Ids \cup {NoOcc},
   status : Statuses, file : [Ids -> Statuses], skips : Nat, fired : Ids \cup {NoOcc},
   dep : Ids \cup {NoOcc}, pending : SUBSET Ids]

\* What the parameters have to be.
Parameters ==
  /\ Grid \cup Manual \subseteq Nat \ {NoOcc} /\ Horizon \in Nat
  /\ Triggers \subseteq TriggerKinds /\ Misfires \subseteq MisfirePolicies
  /\ Overlaps \subseteq OverlapPolicies /\ Admissions \subseteq AdmissionModes
  /\ {Limit, MaxSkips, MaxStops} \subseteq Nat

TypeOK ==
  /\ clock \in 0..Horizon
  /\ schedule \in Schedule
  /\ occ \in [Ids -> Statuses]
  /\ task \in [Ids -> TaskStatuses]
  /\ dependsOn \in [Ids -> SUBSET Ids]
  /\ candidates \subseteq Ids
  /\ pc \in [Calls -> Pcs]
  /\ loc \in [Calls -> Local]
  /\ stops \in 0..MaxStops

-----------------------------------------------------------------------------
Init ==
  /\ clock = 0
  /\ \E g \in Triggers, m \in Misfires, o \in Overlaps, a \in Admissions :
       schedule = [NoSchedule EXCEPT !.enabled = TRUE, !.trigger = g, !.misfire = m, !.overlap = o,
                                     !.admission = a, !.next = First(Instants)]
  /\ occ = [i \in Ids |-> "none"]
  /\ task = [i \in Ids |-> "none"]
  /\ dependsOn = [i \in Ids |-> {}]
  /\ candidates = {}
  /\ pc = [p \in Calls |-> "idle"]
  /\ loc = [p \in Calls |-> Idle]
  /\ stops = 0

At(p, c) == pc[p] = c
Go(p, c, l) == pc' = [pc EXCEPT ![p] = c] /\ loc' = [loc EXCEPT ![p] = l]
Files == <<schedule, occ, task, dependsOn, candidates>>

\* On to the next instant to decide about.
GoOn(p, l) ==
  LET n == First({t \in Missed(l) : t > l.at})
  IN  Go(p, IF n = Never THEN "advance" ELSE "decide", [l EXCEPT !.at = n])

-----------------------------------------------------------------------------
(* A scan.                                                                  *)

StartScan(p) ==
  /\ At(p, "idle") /\ p \in Scanners
  /\ Go(p, "pending", [Idle EXCEPT !.sched = schedule, !.now = clock])
  /\ UNCHANGED <<clock, Files, stops>>

ReadPending_Enabled(p) ==
  /\ At(p, "pending")
  /\ Go(p, "left", [loc[p] EXCEPT !.pending =
       {i \in Ids : occ[i] = "pending" /\ Firing(loc[p].sched)}])
  /\ UNCHANGED <<clock, Files, stops>>

\* Occurrences left pending come first, whether or not the schedule is enabled.
ReadPending(p) ==
  /\ At(p, "pending")
  /\ Go(p, "left", [loc[p] EXCEPT !.pending = {i \in Ids : occ[i] = "pending"}])
  /\ UNCHANGED <<clock, Files, stops>>

FinishPending(p) ==
  /\ At(p, "left")
  /\ \E i \in loc[p].pending :
       Go(p, "task", [loc[p] EXCEPT !.id = i, !.pending = @ \ {i}])
  /\ UNCHANGED <<clock, Files, stops>>

\* A schedule that has no next firing advances if something was left of it.
AdvanceInactive(p) ==
  LET l == loc[p]
  IN  /\ At(p, "left") /\ l.pending = {} /\ l.id # NoOcc /\ ~Armed(l.sched)
      /\ Go(p, "advance", [l EXCEPT !.fired = l.id])
      /\ UNCHANGED <<clock, Files, stops>>

NothingDue(p) ==
  LET l == loc[p]
  IN  /\ At(p, "left") /\ l.pending = {}
      /\ IF Armed(l.sched) THEN Missed(l) = {} ELSE l.id = NoOcc
      /\ Go(p, "idle", Idle)
      /\ UNCHANGED <<clock, Files, stops>>

BeginDecisions(p) ==
  LET l == loc[p]
  IN  /\ At(p, "left") /\ l.pending = {} /\ Armed(l.sched) /\ Missed(l) # {}
      /\ Go(p, "decide", [l EXCEPT !.at = l.sched.next, !.id = NoOcc])
      /\ UNCHANGED <<clock, Files, stops>>

\* An earlier scan, which did not come to its end, decided about the instant.
PassDecided(p) ==
  LET l == loc[p]
  IN  /\ At(p, "decide") /\ ~Undecided(l)
      /\ GoOn(p, IF occ[l.at] = "materialized" THEN [l EXCEPT !.fired = l.at] ELSE l)
      /\ UNCHANGED <<clock, Files, stops>>

Fire(p) ==
  LET l == [loc[p] EXCEPT !.id = loc[p].at, !.status = "pending"]
  IN  /\ At(p, "decide") /\ Undecided(l) /\ ~Blocked(l)
      /\ \E onTime \in BOOLEAN : MayFire(l, onTime)
      /\ Go(p, IF occ[l.at] = "none" THEN "save" ELSE "queue", l)
      /\ UNCHANGED <<clock, Files, stops>>

\* After MaxSkips records, one more stands for all the instants that follow,
\* and the scan decides about none of them.
Skip(p) ==
  LET l == loc[p]
  IN  /\ At(p, "decide") /\ Undecided(l)
      /\ Blocked(l) \/ \E onTime \in BOOLEAN : ~MayFire(l, onTime)
      /\ Go(p, "save", [l EXCEPT !.id = l.at, !.skips = @ + 1,
                                 !.status = IF l.skips >= MaxSkips THEN "summary" ELSE "skipped"])
      /\ UNCHANGED <<clock, Files, stops>>

\* A Work item that has to wait for the previous one.
FindPredecessor(p) ==
  /\ At(p, "queue")
  /\ Go(p, "task", [loc[p] EXCEPT !.dep =
       IF loc[p].sched.overlap = "queue" THEN ActivePredecessor(loc[p]) ELSE NoOcc])
  /\ UNCHANGED <<clock, Files, stops>>

\* advance: the schedule is read again, and its next firing follows the scan's
\* time.
ReadSchedule(p) ==
  /\ At(p, "advance")
  /\ Go(p, "advanced", [loc[p] EXCEPT !.sched = schedule])
  /\ UNCHANGED <<clock, Files, stops>>

Advance_FromNow(p) ==
  LET l == loc[p] s == l.sched
  IN  /\ At(p, "advanced")
      /\ schedule' = [s EXCEPT
           !.next = IF Firing(s) THEN NextAfter(s, clock) ELSE Never,
           !.last = IF l.fired # NoOcc THEN l.fired ELSE @,
           !.completed = @ \/ s.trigger = "once"]
      /\ Go(p, "idle", Idle)
      /\ UNCHANGED <<clock, occ, task, dependsOn, candidates, stops>>

Advance(p) ==
  LET l == loc[p] s == l.sched
  IN  /\ At(p, "advanced")
      /\ schedule' = [s EXCEPT
           !.next = IF Firing(s) THEN NextAfter(s, l.now) ELSE Never,
           !.last = IF l.fired # NoOcc THEN l.fired ELSE @,
           !.completed = @ \/ s.trigger = "once"]
      /\ Go(p, "idle", Idle)
      /\ UNCHANGED <<clock, occ, task, dependsOn, candidates, stops>>

-----------------------------------------------------------------------------
(* completeOccurrence, in a scan or by hand.                                *)

LookUpTask_Creates(p) ==
  /\ At(p, "task") /\ Go(p, "create", loc[p])
  /\ UNCHANGED <<clock, Files, stops>>

LookUpTask(p) ==
  /\ At(p, "task")
  /\ Go(p, IF task[loc[p].id] = "none" THEN "create" ELSE "depend", loc[p])
  /\ UNCHANGED <<clock, Files, stops>>

CreateTask(p) ==
  /\ At(p, "create")
  /\ task' = [task EXCEPT ![loc[p].id] = IF loc[p].sched.admission = "auto" THEN "ready"
                                                                         ELSE "draft"]
  /\ dependsOn' = [dependsOn EXCEPT ![loc[p].id] = {}]
  /\ Go(p, "depend", loc[p])
  /\ UNCHANGED <<clock, schedule, occ, candidates, stops>>

UpdateDependencies(p) ==
  /\ At(p, "depend")
  /\ dependsOn' = [dependsOn EXCEPT ![loc[p].id] = @ \cup ({loc[p].dep} \ {NoOcc})]
  /\ Go(p, "candidate", [loc[p] EXCEPT !.dep = NoOcc])
  /\ UNCHANGED <<clock, schedule, occ, task, candidates, stops>>

UpsertCandidate(p) ==
  /\ At(p, "candidate")
  /\ candidates' = candidates \cup {loc[p].id}
  /\ Go(p, "save", [loc[p] EXCEPT !.status = "materialized"])
  /\ UNCHANGED <<clock, schedule, occ, task, dependsOn, stops>>

-----------------------------------------------------------------------------
(* saveOccurrence: the file is read, changed and written whole.             *)

ReadOccurrences(p) ==
  /\ At(p, "save")
  /\ Go(p, "write", [loc[p] EXCEPT !.file = occ])
  /\ UNCHANGED <<clock, Files, stops>>

WriteOccurrences(p) ==
  LET l == [loc[p] EXCEPT !.file = NoFile, !.status = "none"]
  IN  /\ At(p, "write")
      /\ occ' = [loc[p].file EXCEPT ![l.id] = loc[p].status]
      /\ CASE loc[p].status = "pending" -> Go(p, IF p \in Firers THEN "task" ELSE "queue", l)
           [] loc[p].status = "summary" -> Go(p, "advance", [l EXCEPT !.at = Never])
           [] loc[p].status = "skipped" -> GoOn(p, l)
           [] OTHER ->
                IF p \in Firers THEN Go(p, "idle", Idle)
                ELSE IF l.at = Never THEN Go(p, "left", l)
                ELSE GoOn(p, [l EXCEPT !.fired = l.id])
      /\ UNCHANGED <<clock, schedule, task, dependsOn, candidates, stops>>

-----------------------------------------------------------------------------
(* The web server.                                                          *)

\* materializeScheduleNow: an occurrence of its own, fired at once.
FireNow(p) ==
  /\ At(p, "idle") /\ p \in Firers
  /\ \E i \in Manual :
       /\ occ[i] = "none" /\ task[i] = "none" /\ \A q \in Calls : loc[q].id # i
       /\ Go(p, "save", [Idle EXCEPT !.sched = schedule, !.id = i, !.status = "pending"])
  /\ UNCHANGED <<clock, Files, stops>>

\* setScheduleEnabled: a pause clears the next firing, a resume computes it.
ReadToSet(p) ==
  /\ At(p, "idle") /\ p \in Pausers
  /\ Go(p, "set", [Idle EXCEPT !.sched = schedule, !.now = clock])
  /\ UNCHANGED <<clock, Files, stops>>

SetEnabled(p) ==
  LET s == [loc[p].sched EXCEPT !.enabled = ~@]
  IN  /\ At(p, "set")
      /\ schedule' = [s EXCEPT !.next = IF Firing(s) THEN NextAfter(s, loc[p].now)
                                                                  ELSE Never]
      /\ Go(p, "idle", Idle)
      /\ UNCHANGED <<clock, occ, task, dependsOn, candidates, stops>>

-----------------------------------------------------------------------------
(* Time, the Work items' Runs, and calls that do not return.                *)

Tick ==
  /\ clock < Horizon /\ clock' = clock + 1
  /\ UNCHANGED <<Files, pc, loc, stops>>

\* A cycle starts Work items only after its scan.
StartTask(p, i) ==
  /\ At(p, "idle") /\ p \in Scanners
  /\ task[i] = "ready" /\ \A d \in dependsOn[i] : task[d] = "done"
  /\ task' = [task EXCEPT ![i] = "running"]
  /\ UNCHANGED <<clock, schedule, occ, dependsOn, candidates, pc, loc, stops>>

EndTask(i) ==
  /\ task[i] \in {"running", "again"}
  /\ task' = [task EXCEPT ![i] = "done"]
  /\ UNCHANGED <<clock, schedule, occ, dependsOn, candidates, pc, loc, stops>>

\* The specification and the technical design of a draft are approved.
ApproveTask(i) ==
  /\ task[i] = "draft"
  /\ task' = [task EXCEPT ![i] = "ready"]
  /\ UNCHANGED <<clock, schedule, occ, dependsOn, candidates, pc, loc, stops>>

\* A person starts an item that has ended once more.
StartAgain(i) ==
  /\ task[i] = "done"
  /\ task' = [task EXCEPT ![i] = "again"]
  /\ UNCHANGED <<clock, schedule, occ, dependsOn, candidates, pc, loc, stops>>

Stop(p) ==
  /\ ~At(p, "idle") /\ stops < MaxStops
  /\ stops' = stops + 1
  /\ Go(p, "idle", Idle)
  /\ UNCHANGED <<clock, Files>>

\* A scan, or a call of the web server, goes on.
Step(p) ==
  \/ ReadPending(p) \/ FinishPending(p) \/ AdvanceInactive(p) \/ NothingDue(p)
  \/ BeginDecisions(p) \/ PassDecided(p) \/ Fire(p) \/ Skip(p) \/ FindPredecessor(p)
  \/ ReadSchedule(p) \/ Advance(p)
  \/ LookUpTask(p) \/ CreateTask(p) \/ UpdateDependencies(p) \/ UpsertCandidate(p)
  \/ ReadOccurrences(p) \/ WriteOccurrences(p) \/ SetEnabled(p)

Next ==
  \/ \E p \in Calls : StartScan(p) \/ Step(p) \/ FireNow(p) \/ ReadToSet(p) \/ Stop(p)
  \/ \E p \in Scanners, i \in Ids : StartTask(p, i)
  \/ \E i \in Ids : EndTask(i) \/ ApproveTask(i) \/ StartAgain(i)
  \/ Tick

Spec == Init /\ [][Next]_vars
==============================================================================
