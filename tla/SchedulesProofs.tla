--------------------------- MODULE SchedulesProofs ---------------------------
(* Theorems about Schedules for any instants, trigger, policies and bounds, *)
(* wherever calls stop: its types for any calls at once; and for a single   *)
(* scheduler that it decides about every instant the schedule passes,       *)
(* creates no Work item twice and leaves no occurrence pending. The         *)
(* invariants say what a scan knows at each step of what it has read, which *)
(* stays true because no other call writes what it holds.                   *)
EXTENDS SchedulesProps, FiniteSetTheorems, TLAPS

-----------------------------------------------------------------------------
(* The first of a set of instants: it exists, since an instant is a natural *)
(* number and of the parts of the set below its members one is the least.   *)

LEMMA FirstOf ==
  ASSUME NEW S \in SUBSET Nat, S # {}
  PROVE  First(S) \in S /\ \A u \in S : First(S) <= u
<1> DEFINE Below(x) == {y \in S : y < x}
           Sections == {Below(x) : x \in S}
<1>0. \A y \in S : y \in Nat
  OBVIOUS
<1>1. \A x \in S : Below(x) \in FiniteSubsetsOf(S)
  <2> SUFFICES ASSUME NEW x \in S PROVE Below(x) \in FiniteSubsetsOf(S)
    OBVIOUS
  <2> DEFINE B == Below(x)
  <2>0. x \in Nat
    BY <1>0
  <2>1. B \in SUBSET Nat
    BY <1>0
  <2>4. \A y \in B : y <= x
    BY <1>0, <2>0
  <2> HIDE DEF B
  <2>2. IsFiniteSet(B)
    BY <2>0, <2>1, <2>4, FS_BoundedSetOfNaturals
  <2>3. QED
    BY <2>2 DEF FiniteSubsetsOf, B
<1>2. IsWellFoundedOn(StrictSubsetOrdering(S), FiniteSubsetsOf(S))
  BY FS_StrictSubsetOrderingWellFounded
<1>3. Sections \subseteq FiniteSubsetsOf(S) /\ Sections # {}
  BY <1>1
<1> HIDE DEF Sections
<1>4. \E X \in Sections : \A Y \in Sections : ~ (<<Y, X>> \in StrictSubsetOrdering(S))
  BY <1>2, <1>3, WFMin
<1>5. PICK x \in S : \A y \in S : ~ (<<Below(y), Below(x)>> \in StrictSubsetOrdering(S))
  BY <1>4 DEF Sections
<1>6. \A y \in S : x <= y
  <2> SUFFICES ASSUME NEW y \in S, y < x PROVE FALSE
    BY <1>0
  <2>0. x \in Nat /\ y \in Nat
    BY <1>0
  <2>4. ~ (y < y) /\ \A z \in Nat : z < y => z < x
    BY <2>0
  <2>1. Below(y) \subseteq Below(x) /\ y \in Below(x) /\ y \notin Below(y)
    BY <1>0, <2>0, <2>4
  <2>2. Below(y) \in SUBSET S /\ Below(x) \in SUBSET S /\ Below(y) # Below(x)
    BY <2>1
  <2>3. QED
    BY <2>1, <2>2, <1>5 DEF StrictSubsetOrdering
<1>7. QED
  BY <1>6 DEF First

LEMMA FirstType ==
  ASSUME Parameters, NEW S \in SUBSET Instants
  PROVE  /\ First(S) \in S \cup {Never}
         /\ S # {} => First(S) \in S
         /\ S # {} => \A u \in S : First(S) <= u
<1>1. S \in SUBSET Nat
  BY DEF Parameters, Instants
<1>2. CASE S = {}
  BY <1>2 DEF First
<1>3. CASE S # {}
  BY <1>1, <1>3, FirstOf
<1>4. QED
  BY <1>2, <1>3

LEMMA NextAfterType ==
  ASSUME Parameters, NEW s \in Schedule, NEW t
  PROVE  NextAfter(s, t) \in Instants \cup {Never}
  BY FirstType DEF NextAfter, Fires

-----------------------------------------------------------------------------
(* Types.                                                                   *)

WorkPcs == {"queue", "task", "create", "depend", "candidate", "save", "write"}
LocalOK(p) ==
  /\ pc[p] = "decide" => loc[p].at \in Instants
  /\ pc[p] \in WorkPcs => loc[p].id \in Ids
TypeInv == TypeOK /\ \A p \in Calls : LocalOK(p)

LEMMA IdleType ==
  ASSUME Parameters
  PROVE  Idle \in Local /\ NoSchedule \in Schedule /\ NoFile \in [Ids -> Statuses]
<1>1. NoSchedule \in Schedule
  BY DEF NoSchedule, Schedule, TriggerKinds, MisfirePolicies, OverlapPolicies, AdmissionModes
<1>2. NoFile \in [Ids -> Statuses]
  BY DEF NoFile, Statuses
<1>3. QED
  BY <1>1, <1>2 DEF Idle, Local, Statuses, Parameters

LEMMA GoOK ==
  ASSUME TypeInv, NEW p \in Calls, NEW c \in Pcs, NEW l \in Local, Go(p, c, l),
         c = "decide" => l.at \in Instants,
         c \in WorkPcs => l.id \in Ids
  PROVE  /\ pc' \in [Calls -> Pcs] /\ loc' \in [Calls -> Local]
         /\ \A q \in Calls : LocalOK(q)'
         /\ pc'[p] = c /\ loc'[p] = l
<1>1. pc \in [Calls -> Pcs] /\ loc \in [Calls -> Local]
  BY DEF TypeInv, TypeOK
<1>2. /\ pc'[p] = c /\ loc'[p] = l
      /\ \A q \in Calls \ {p} : pc'[q] = pc[q] /\ loc'[q] = loc[q]
  BY <1>1 DEF Go
<1>3. LocalOK(p)'
  BY <1>2 DEF LocalOK
<1>4. ASSUME NEW q \in Calls \ {p} PROVE LocalOK(q)'
  BY <1>2, <1>4 DEF LocalOK, TypeInv
<1>5. pc' \in [Calls -> Pcs] /\ loc' \in [Calls -> Local]
  BY <1>1 DEF Go
<1>6. QED
  BY <1>2, <1>3, <1>4, <1>5

LEMMA GoOnOK ==
  ASSUME Parameters, TypeInv, NEW p \in Calls, NEW l \in Local, GoOn(p, l)
  PROVE  /\ pc' \in [Calls -> Pcs] /\ loc' \in [Calls -> Local]
         /\ \A q \in Calls : LocalOK(q)'
         /\ LET n == First({t \in Missed(l) : t > l.at})
            IN  pc'[p] = (IF n = Never THEN "advance" ELSE "decide")
                /\ loc'[p] = [l EXCEPT !.at = n]
<1> DEFINE n == First({t \in Missed(l) : t > l.at})
           c == IF n = Never THEN "advance" ELSE "decide"
           m == [l EXCEPT !.at = n]
<1>1. n \in Instants \cup {Never}
  BY FirstType DEF Missed, Fires
<1> HIDE DEF n
<1>2. m \in Local /\ m.at = n
  BY <1>1 DEF Local
<1>3. c \in Pcs /\ (c = "decide" => m.at \in Instants) /\ c \notin WorkPcs
  BY <1>1, <1>2 DEF Pcs, WorkPcs
<1>4. Go(p, c, m)
  BY DEF GoOn, n
<1> HIDE DEF c, m
<1>5. QED
  BY <1>2, <1>3, <1>4, GoOK DEF c, m, n

LEMMA GoType ==
  ASSUME TypeInv, NEW p \in Calls, NEW c \in Pcs, NEW l \in Local, Go(p, c, l),
         c = "decide" => l.at \in Instants,
         c \in WorkPcs => l.id \in Ids,
         UNCHANGED <<clock, Files, stops>>
  PROVE  TypeInv'
  BY GoOK DEF TypeInv, TypeOK, Files

\* What a call holds, and what it reads.
LEMMA Types ==
  ASSUME TypeInv
  PROVE  /\ clock \in 0..Horizon /\ schedule \in Schedule /\ occ \in [Ids -> Statuses]
         /\ \A p \in Calls :
              /\ loc[p] \in Local /\ loc[p].sched \in Schedule
              /\ loc[p].id \in Ids \cup {NoOcc} /\ loc[p].at \in Instants \cup {Never}
              /\ loc[p].fired \in Ids \cup {NoOcc} /\ loc[p].dep \in Ids \cup {NoOcc}
              /\ loc[p].file \in [Ids -> Statuses] /\ loc[p].status \in Statuses
              /\ loc[p].skips \in Nat /\ loc[p].pending \subseteq Ids
              /\ loc[p].now \in 0..Horizon
              /\ pc[p] = "decide" => loc[p].at \in Instants
              /\ pc[p] \in WorkPcs => loc[p].id \in Ids
  BY DEF TypeInv, TypeOK, Local, LocalOK

LEMMA PredecessorType ==
  ASSUME NEW l \in Local
  PROVE  ActivePredecessor(l) \in Ids \cup {NoOcc}
<1>1. l.fired \in Ids \cup {NoOcc} /\ l.sched.last \in Ids \cup {NoOcc}
  BY DEF Local, Schedule
<1>2. QED
  BY <1>1 DEF ActivePredecessor

LEMMA StartScanType ==
  ASSUME Parameters, TypeInv, NEW p \in Calls, StartScan(p)
  PROVE  TypeInv'
<1> DEFINE l == [Idle EXCEPT !.sched = schedule, !.now = clock]
<1>1. l \in Local
  BY Types, IdleType DEF Local
<1>2. Go(p, "pending", l)
  BY DEF StartScan
<1> HIDE DEF l
<1>3. QED
  BY <1>1, <1>2, GoType DEF Pcs, WorkPcs, StartScan

LEMMA ReadPendingType ==
  ASSUME Parameters, TypeInv, NEW p \in Calls, ReadPending(p)
  PROVE  TypeInv'
<1> DEFINE l == [loc[p] EXCEPT !.pending = {i \in Ids : occ[i] = "pending"}]
<1>1. l \in Local
  BY Types DEF Local
<1>2. Go(p, "left", l)
  BY DEF ReadPending
<1> HIDE DEF l
<1>3. QED
  BY <1>1, <1>2, GoType DEF Pcs, WorkPcs, ReadPending

LEMMA FinishPendingType ==
  ASSUME Parameters, TypeInv, NEW p \in Calls, FinishPending(p)
  PROVE  TypeInv'
<1>1. PICK i \in loc[p].pending :
        Go(p, "task", [loc[p] EXCEPT !.id = i, !.pending = @ \ {i}])
  BY DEF FinishPending
<1> DEFINE l == [loc[p] EXCEPT !.id = i, !.pending = @ \ {i}]
<1>2. l \in Local /\ l.id \in Ids
  BY Types DEF Local
<1> HIDE DEF l
<1>3. QED
  BY <1>1, <1>2, GoType DEF Pcs, WorkPcs, FinishPending, l

LEMMA AdvanceInactiveType ==
  ASSUME Parameters, TypeInv, NEW p \in Calls, AdvanceInactive(p)
  PROVE  TypeInv'
<1> DEFINE l == [loc[p] EXCEPT !.fired = loc[p].id]
<1>1. l \in Local
  BY Types DEF Local
<1>2. Go(p, "advance", l)
  BY DEF AdvanceInactive
<1> HIDE DEF l
<1>3. QED
  BY <1>1, <1>2, GoType DEF Pcs, WorkPcs, AdvanceInactive

LEMMA NothingDueType ==
  ASSUME Parameters, TypeInv, NEW p \in Calls, NothingDue(p)
  PROVE  TypeInv'
  BY IdleType, GoType DEF Pcs, WorkPcs, NothingDue

LEMMA BeginDecisionsType ==
  ASSUME Parameters, TypeInv, NEW p \in Calls, BeginDecisions(p)
  PROVE  TypeInv'
<1> DEFINE l == [loc[p] EXCEPT !.at = loc[p].sched.next, !.id = NoOcc]
<1>1. loc[p].sched.next \in Instants \cup {Never}
  BY Types DEF Schedule
<1>2. l \in Local /\ l.at = loc[p].sched.next
  BY <1>1, Types DEF Local
<1>3. l.at \in Instants
  <2>1. PICK t \in Missed(loc[p]) : TRUE
    BY DEF BeginDecisions
  <2>2. loc[p].sched.next <= t /\ t <= loc[p].now /\ t \in Nat
    BY <2>1 DEF Missed, Fires, Instants, Parameters
  <2>3. loc[p].sched.next # Never
    BY <2>2, Types DEF Never, Parameters
  <2>4. QED
    BY <1>1, <1>2, <2>3
<1>4. Go(p, "decide", l)
  BY DEF BeginDecisions
<1> HIDE DEF l
<1>5. QED
  BY <1>2, <1>3, <1>4, GoType DEF Pcs, WorkPcs, BeginDecisions

LEMMA PassDecidedType ==
  ASSUME Parameters, TypeInv, NEW p \in Calls, PassDecided(p)
  PROVE  TypeInv'
<1> DEFINE l == IF occ[loc[p].at] = "materialized"
                THEN [loc[p] EXCEPT !.fired = loc[p].at] ELSE loc[p]
<1>1. loc[p].at \in Instants
  BY Types DEF PassDecided, At
<1>2. l \in Local
  BY <1>1, Types DEF Local, Ids
<1>3. GoOn(p, l)
  BY DEF PassDecided
<1> HIDE DEF l
<1>4. QED
  BY <1>2, <1>3, GoOnOK DEF PassDecided, TypeInv, TypeOK, Files

LEMMA FireType ==
  ASSUME Parameters, TypeInv, NEW p \in Calls, Fire(p)
  PROVE  TypeInv'
<1> DEFINE l == [loc[p] EXCEPT !.id = loc[p].at, !.status = "pending"]
<1>1. loc[p].at \in Instants
  BY Types DEF Fire, At
<1>2. l \in Local /\ l.id \in Ids
  BY <1>1, Types DEF Local, Ids, Statuses
<1>3. Go(p, "save", l) \/ Go(p, "queue", l)
  BY DEF Fire
<1> HIDE DEF l
<1>4. QED
  BY <1>2, <1>3, GoType DEF Pcs, WorkPcs, Fire

LEMMA SkipType ==
  ASSUME Parameters, TypeInv, NEW p \in Calls, Skip(p)
  PROVE  TypeInv'
<1> DEFINE s == IF loc[p].skips >= MaxSkips THEN "summary" ELSE "skipped"
           k == loc[p].skips + 1
           l == [loc[p] EXCEPT !.id = loc[p].at, !.skips = k, !.status = s]
<1>1. loc[p].at \in Instants /\ k \in Nat
  BY Types DEF Skip, At
<1>2. s \in Statuses
  BY DEF Statuses
<1>3. Go(p, "save", l)
  BY DEF Skip
<1> HIDE DEF s, k
<1>4. l \in Local /\ l.id \in Ids
  BY <1>1, <1>2, Types DEF Local, Ids
<1> HIDE DEF l
<1>5. QED
  BY <1>3, <1>4, GoType DEF Pcs, WorkPcs, Skip

LEMMA FindPredecessorType ==
  ASSUME Parameters, TypeInv, NEW p \in Calls, FindPredecessor(p)
  PROVE  TypeInv'
<1> DEFINE d == IF loc[p].sched.overlap = "queue" THEN ActivePredecessor(loc[p]) ELSE NoOcc
           l == [loc[p] EXCEPT !.dep = d]
<1>1. d \in Ids \cup {NoOcc} /\ loc[p].id \in Ids
  BY Types, PredecessorType DEF FindPredecessor, At, WorkPcs
<1>2. Go(p, "task", l)
  BY DEF FindPredecessor
<1> HIDE DEF d
<1>3. l \in Local /\ l.id \in Ids
  BY <1>1, Types DEF Local
<1> HIDE DEF l
<1>4. QED
  BY <1>2, <1>3, GoType DEF Pcs, WorkPcs, FindPredecessor

LEMMA ReadScheduleType ==
  ASSUME Parameters, TypeInv, NEW p \in Calls, ReadSchedule(p)
  PROVE  TypeInv'
<1> DEFINE l == [loc[p] EXCEPT !.sched = schedule]
<1>1. l \in Local
  BY Types DEF Local
<1>2. Go(p, "advanced", l)
  BY DEF ReadSchedule
<1> HIDE DEF l
<1>3. QED
  BY <1>1, <1>2, GoType DEF Pcs, WorkPcs, ReadSchedule

\* A new record of the schedule, as Advance and SetEnabled write it.
LEMMA WriteScheduleType ==
  ASSUME Parameters, TypeInv, NEW p \in Calls, schedule' \in Schedule, Go(p, "idle", Idle),
         UNCHANGED <<clock, occ, task, dependsOn, candidates, stops>>
  PROVE  TypeInv'
  BY GoOK, IdleType DEF TypeInv, TypeOK, Pcs, WorkPcs

LEMMA AdvanceType ==
  ASSUME Parameters, TypeInv, NEW p \in Calls, Advance(p)
  PROVE  TypeInv'
<1> DEFINE l == loc[p]
           s == loc[p].sched
           n == IF Firing(s) THEN NextAfter(s, l.now) ELSE Never
           f == IF l.fired # NoOcc THEN l.fired ELSE s.last
           c == s.completed \/ s.trigger = "once"
<1>1. s \in Schedule /\ f \in Ids \cup {NoOcc} /\ c \in BOOLEAN
  BY Types DEF Schedule
<1>2. n \in Instants \cup {Never}
  BY <1>1, NextAfterType
<1>3. schedule' = [s EXCEPT !.next = n, !.last = f, !.completed = c]
  BY DEF Advance
<1> HIDE DEF s, n, f, c
<1>4. schedule' \in Schedule
  BY <1>1, <1>2, <1>3 DEF Schedule
<1>5. QED
  BY <1>4, WriteScheduleType DEF Advance

LEMMA SetEnabledType ==
  ASSUME Parameters, TypeInv, NEW p \in Calls, SetEnabled(p)
  PROVE  TypeInv'
<1> DEFINE s == [loc[p].sched EXCEPT !.enabled = ~@]
           n == IF Firing(s) THEN NextAfter(s, loc[p].now) ELSE Never
<1>1. s \in Schedule
  BY Types DEF Schedule
<1>2. n \in Instants \cup {Never}
  BY <1>1, NextAfterType
<1>3. schedule' = [s EXCEPT !.next = n]
  BY DEF SetEnabled
<1> HIDE DEF s, n
<1>4. schedule' \in Schedule
  BY <1>1, <1>2, <1>3 DEF Schedule
<1>5. QED
  BY <1>4, WriteScheduleType DEF SetEnabled

LEMMA LookUpTaskType ==
  ASSUME Parameters, TypeInv, NEW p \in Calls, LookUpTask(p)
  PROVE  TypeInv'
<1>1. Go(p, "create", loc[p]) \/ Go(p, "depend", loc[p])
  BY DEF LookUpTask
<1>2. loc[p] \in Local /\ loc[p].id \in Ids
  BY Types DEF LookUpTask, At, WorkPcs
<1>3. QED
  BY <1>1, <1>2, GoType DEF Pcs, WorkPcs, LookUpTask

\* A new Work item is ready, or a draft.
LEMMA NewTask ==
  ASSUME NEW p, CreateTask(p)
  PROVE  \E s \in {"ready", "draft"} : task' = [task EXCEPT ![loc[p].id] = s]
  BY DEF CreateTask

LEMMA CreateTaskType ==
  ASSUME Parameters, TypeInv, NEW p \in Calls, CreateTask(p)
  PROVE  TypeInv'
<1>1. Go(p, "depend", loc[p]) /\ loc[p] \in Local /\ loc[p].id \in Ids
  BY Types DEF CreateTask, At, WorkPcs
<1>2. /\ task' \in [Ids -> TaskStatuses]
      /\ dependsOn' \in [Ids -> SUBSET Ids]
  <2>1. PICK s \in {"ready", "draft"} : task' = [task EXCEPT ![loc[p].id] = s]
    BY NewTask
  <2>2. QED
    BY <1>1, <2>1 DEF CreateTask, TypeInv, TypeOK, TaskStatuses
<1>3. QED
  BY <1>1, <1>2, GoOK DEF Pcs, WorkPcs, CreateTask, TypeInv, TypeOK

LEMMA UpdateDependenciesType ==
  ASSUME Parameters, TypeInv, NEW p \in Calls, UpdateDependencies(p)
  PROVE  TypeInv'
<1> DEFINE l == [loc[p] EXCEPT !.dep = NoOcc]
<1>1. l \in Local /\ l.id \in Ids
  BY Types DEF Local, UpdateDependencies, At, WorkPcs
<1>2. Go(p, "candidate", l)
  BY DEF UpdateDependencies
<1>3. dependsOn' \in [Ids -> SUBSET Ids]
  <2>1. {loc[p].dep} \ {NoOcc} \subseteq Ids
    BY Types
  <2>2. QED
    BY <2>1 DEF UpdateDependencies, TypeInv, TypeOK
<1> HIDE DEF l
<1>4. QED
  BY <1>1, <1>2, <1>3, GoOK DEF Pcs, WorkPcs, UpdateDependencies, TypeInv, TypeOK

LEMMA UpsertCandidateType ==
  ASSUME Parameters, TypeInv, NEW p \in Calls, UpsertCandidate(p)
  PROVE  TypeInv'
<1> DEFINE l == [loc[p] EXCEPT !.status = "materialized"]
<1>1. l \in Local /\ l.id \in Ids /\ loc[p].id \in Ids
  BY Types DEF Local, UpsertCandidate, At, WorkPcs, Statuses
<1>2. Go(p, "save", l)
  BY DEF UpsertCandidate
<1> HIDE DEF l
<1>3. QED
  BY <1>1, <1>2, GoOK DEF Pcs, WorkPcs, UpsertCandidate, TypeInv, TypeOK

LEMMA ReadOccurrencesType ==
  ASSUME Parameters, TypeInv, NEW p \in Calls, ReadOccurrences(p)
  PROVE  TypeInv'
<1> DEFINE l == [loc[p] EXCEPT !.file = occ]
<1>1. l \in Local /\ l.id \in Ids
  BY Types DEF Local, ReadOccurrences, At, WorkPcs
<1>2. Go(p, "write", l)
  BY DEF ReadOccurrences
<1> HIDE DEF l
<1>3. QED
  BY <1>1, <1>2, GoType DEF Pcs, WorkPcs, ReadOccurrences

LEMMA WriteOccurrencesType ==
  ASSUME Parameters, TypeInv, NEW p \in Calls, WriteOccurrences(p)
  PROVE  TypeInv'
<1> DEFINE l == [loc[p] EXCEPT !.file = NoFile, !.status = "none"]
           m == [l EXCEPT !.at = Never]
           k == [l EXCEPT !.fired = l.id]
<1>1. l \in Local /\ l.id \in Ids
  BY Types, IdleType DEF Local, WriteOccurrences, At, WorkPcs, Statuses
<1>2. m \in Local /\ k \in Local
  BY <1>1 DEF Local
<1>3. \/ Go(p, "task", l) \/ Go(p, "queue", l) \/ Go(p, "advance", m) \/ GoOn(p, l)
      \/ Go(p, "idle", Idle) \/ Go(p, "left", l) \/ GoOn(p, k)
  BY DEF WriteOccurrences
<1>4. occ' \in [Ids -> Statuses]
  BY Types DEF WriteOccurrences
<1> HIDE DEF l, m, k
<1>5. /\ pc' \in [Calls -> Pcs] /\ loc' \in [Calls -> Local]
      /\ \A q \in Calls : LocalOK(q)'
  <2>1. CASE Go(p, "task", l) \/ Go(p, "queue", l)
    BY <1>1, <2>1, GoOK DEF Pcs, WorkPcs
  <2>2. CASE Go(p, "advance", m) \/ Go(p, "left", l)
    BY <1>1, <1>2, <2>2, GoOK DEF Pcs, WorkPcs
  <2>3. CASE Go(p, "idle", Idle)
    BY <2>3, IdleType, GoOK DEF Pcs, WorkPcs
  <2>4. CASE GoOn(p, l) \/ GoOn(p, k)
    BY <1>1, <1>2, <2>4, GoOnOK
  <2>5. QED
    BY <1>3, <2>1, <2>2, <2>3, <2>4
<1>6. QED
  BY <1>4, <1>5 DEF WriteOccurrences, TypeInv, TypeOK

LEMMA FireNowType ==
  ASSUME Parameters, TypeInv, NEW p \in Calls, FireNow(p)
  PROVE  TypeInv'
<1>1. PICK i \in Manual : Go(p, "save", [Idle EXCEPT !.sched = schedule, !.id = i, !.status = "pending"])
  BY DEF FireNow
<1> DEFINE l == [Idle EXCEPT !.sched = schedule, !.id = i, !.status = "pending"]
<1>2. l \in Local /\ l.id \in Ids
  BY IdleType, Types DEF Local, Ids, Statuses
<1> HIDE DEF l
<1>3. QED
  BY <1>1, <1>2, GoType DEF Pcs, WorkPcs, FireNow, l

LEMMA ReadToSetType ==
  ASSUME Parameters, TypeInv, NEW p \in Calls, ReadToSet(p)
  PROVE  TypeInv'
<1> DEFINE l == [Idle EXCEPT !.sched = schedule, !.now = clock]
<1>1. l \in Local
  BY Types, IdleType DEF Local
<1>2. Go(p, "set", l)
  BY DEF ReadToSet
<1> HIDE DEF l
<1>3. QED
  BY <1>1, <1>2, GoType DEF Pcs, WorkPcs, ReadToSet

LEMMA StopType ==
  ASSUME Parameters, TypeInv, NEW p \in Calls, Stop(p)
  PROVE  TypeInv'
<1>1. stops' \in 0..MaxStops
  BY DEF Stop, TypeInv, TypeOK, Parameters
<1>2. QED
  BY <1>1, IdleType, GoOK DEF Stop, Pcs, WorkPcs, TypeInv, TypeOK, Files

LEMMA OtherType ==
  ASSUME Parameters, TypeInv,
         \/ Tick \/ \E i \in Ids : EndTask(i) \/ ApproveTask(i) \/ StartAgain(i)
         \/ \E p \in Scanners, i \in Ids : StartTask(p, i)
  PROVE  TypeInv'
<1>1. UNCHANGED <<schedule, occ, dependsOn, candidates, pc, loc, stops>>
  BY DEF Tick, EndTask, ApproveTask, StartAgain, StartTask, Files
<1>2. clock' \in 0..Horizon
  BY DEF Tick, EndTask, ApproveTask, StartAgain, StartTask, TypeInv, TypeOK, Parameters
<1>3. task' \in [Ids -> TaskStatuses]
  BY DEF Tick, EndTask, ApproveTask, StartAgain, StartTask, TypeInv, TypeOK, TaskStatuses,
            Files
<1>4. QED
  BY <1>1, <1>2, <1>3 DEF TypeInv, TypeOK, LocalOK

LEMMA InitType ==
  ASSUME Parameters, Init
  PROVE  TypeInv
<1>1. First(Instants) \in Instants \cup {Never}
  BY FirstType
<1>2. schedule \in Schedule
  <2>1. PICK g \in Triggers, m \in Misfires, o \in Overlaps, a \in Admissions :
          schedule = [NoSchedule EXCEPT !.enabled = TRUE, !.trigger = g, !.misfire = m,
                                        !.overlap = o, !.admission = a, !.next = First(Instants)]
    BY DEF Init
  <2>2. g \in TriggerKinds /\ m \in MisfirePolicies /\ o \in OverlapPolicies
        /\ a \in AdmissionModes
    BY DEF Parameters
  <2>3. QED
    BY <1>1, <2>1, <2>2, IdleType DEF Schedule
<1>3. \A p \in Calls : pc[p] = "idle" /\ loc[p] = Idle
  BY DEF Init
<1>4. pc \in [Calls -> Pcs] /\ loc \in [Calls -> Local]
  BY IdleType DEF Init, Pcs
<1>5. /\ clock \in 0..Horizon /\ stops \in 0..MaxStops /\ candidates \subseteq Ids
      /\ occ \in [Ids -> Statuses] /\ dependsOn \in [Ids -> SUBSET Ids]
      /\ task \in [Ids -> TaskStatuses]
  <2>1. Horizon \in Nat /\ MaxStops \in Nat
    BY DEF Parameters
  <2>2. clock = 0 /\ stops = 0 /\ candidates = {} /\ dependsOn = [i \in Ids |-> {}]
        /\ occ = [i \in Ids |-> "none"] /\ task = [i \in Ids |-> "none"]
    BY DEF Init
  <2>3. QED
    BY <2>1, <2>2 DEF Statuses, TaskStatuses
<1>6. QED
  BY <1>2, <1>3, <1>4, <1>5 DEF TypeInv, TypeOK, LocalOK, WorkPcs

LEMMA TypeInvariant ==
  ASSUME Parameters PROVE Spec => []TypeInv
<1>1. Init => TypeInv
  BY InitType
<1>2. TypeInv /\ [Next]_vars => TypeInv'
  <2> SUFFICES ASSUME TypeInv, [Next]_vars PROVE TypeInv'
    OBVIOUS
  <2>1. CASE UNCHANGED vars
    BY <2>1 DEF vars, TypeInv, TypeOK, LocalOK
  <2>2. ASSUME NEW p \in Calls, Step(p) PROVE TypeInv'
    BY <2>2, ReadPendingType, FinishPendingType, AdvanceInactiveType, NothingDueType,
       BeginDecisionsType, PassDecidedType, FireType, SkipType, FindPredecessorType,
       ReadScheduleType, AdvanceType, LookUpTaskType, CreateTaskType,
       UpdateDependenciesType, UpsertCandidateType, ReadOccurrencesType,
       WriteOccurrencesType, SetEnabledType DEF Step
  <2>3. ASSUME NEW p \in Calls, StartScan(p) \/ FireNow(p) \/ ReadToSet(p) \/ Stop(p)
        PROVE  TypeInv'
    BY <2>3, StartScanType, FireNowType, ReadToSetType, StopType
  <2>4. QED
    BY <2>1, <2>2, <2>3, OtherType DEF Next
<1>3. QED
  BY <1>1, <1>2, PTL DEF Spec

\* Whatever the trigger, the policies, the calls at once and the stops, every file and
\* every call holds what it may.
THEOREM SchedulesTypeCorrect ==
  ASSUME Parameters PROVE Spec => []TypeOK
<1>1. TypeInv => TypeOK
  BY DEF TypeInv
<1>2. QED
  BY <1>1, TypeInvariant, PTL

-----------------------------------------------------------------------------
(* One scheduler alone: no scan passes an instant that it has not decided.  *)

Sole == Pausers = {} /\ Firers = {} /\ \A p, q \in Scanners : p = q

\* In the occurrences `o`, the instant is decided for good.
Settled(t, o) == o[t] \notin {"none", "pending"}

\* A scan with the locals `l` decides about the instants in their order, and
\* comes to the schedule's advance when all are settled or summed up.
Deciding(l, o) ==
  /\ Firing(l.sched) /\ l.at \in Missed(l)
  /\ \A t \in Missed(l) : t < l.at => Settled(t, o)
Passing(l, o) ==
  Armed(l.sched) =>
    /\ Missed(l) # {}
    /\ \A t \in Missed(l) :
         Settled(t, o) \/ \E u \in Missed(l) : u < t /\ o[u] = "summary"

\* What a scan at `c` with the locals `l` knows of the schedule `s`, the
\* occurrences `o`, the Work items `w` and the candidates `f`.
ScanOK(c, l, s, o, w, f) ==
  /\ c # "set"
  /\ c # "idle" => l.sched = s
  /\ c \in {"pending", "left"} => l.at = Never
  /\ c = "queue" => l.at # Never
  /\ c = "decide" => Deciding(l, o)
  /\ c \in WorkPcs /\ l.at # Never => l.id = l.at /\ Deciding(l, o)
  /\ c \in {"advance", "advanced"} => Passing(l, o)
  /\ c = "create" => w[l.id] = "none"
  /\ c \in {"depend", "candidate"} => w[l.id] # "none"
  /\ c \in {"save", "write"} =>
       /\ l.status # "none"
       /\ l.status = "pending" => ~Settled(l.id, o)
       /\ l.status = "materialized" => w[l.id] # "none" /\ l.id \in f
       /\ l.at = Never => l.status = "materialized"
  /\ c = "write" => l.file = o

\* Unless it is paused, a `once` trigger is without a next firing only once it
\* has fired.
OnceFires(s) ==
  s.trigger = "once" /\ s.next = Never => s.completed \/ Fires(s) = {}
ScheduleInv ==
  /\ schedule.enabled
  /\ schedule.next \in Fires(schedule) \cup {Never}
  /\ schedule.completed => schedule.next = Never
  /\ OnceFires(schedule)
RecordsInv ==
  \A i \in Ids : occ[i] = "materialized" => task[i] # "none" /\ i \in candidates
ScanInv ==
  /\ TypeInv /\ ScheduleInv /\ RecordsInv
  /\ \A p \in Calls : ScanOK(pc[p], loc[p], schedule, occ, task, candidates)

\* A schedule starts at its first instant, if there is one.
LEMMA FirstOfAll ==
  ASSUME Parameters, First(Instants) = Never
  PROVE  Instants = {}
<1>1. Never \notin Instants
  BY DEF Never, Instants, Parameters
<1>2. QED
  BY <1>1, FirstType

\* What a scan has missed depends on the schedule and the time that it read.
LEMMA SameMissed ==
  ASSUME NEW l, NEW m, l.sched = m.sched, l.now = m.now, NEW o
  PROVE  /\ Missed(l) = Missed(m)
         /\ Passing(l, o) => Passing(m, o)
         /\ l.at = m.at /\ Deciding(l, o) => Deciding(m, o)
<1>1. Missed(l) = Missed(m)
  BY DEF Missed
<1>2. Passing(l, o) => Passing(m, o)
  BY <1>1 DEF Passing
<1>3. l.at = m.at /\ Deciding(l, o) => Deciding(m, o)
  BY <1>1 DEF Deciding
<1>4. QED
  BY <1>1, <1>2, <1>3

\* The one call there is goes on, and everything else is as it has to be.
LEMMA GoInv ==
  ASSUME Sole, ScanInv, TypeInv', ScheduleInv', RecordsInv',
         NEW p \in Calls, NEW c, NEW l, Go(p, c, l),
         ScanOK(c, l, schedule', occ', task', candidates')
  PROVE  ScanInv'
<1>1. pc'[p] = c /\ loc'[p] = l
  BY DEF Go, ScanInv, TypeInv, TypeOK
<1>2. \A q \in Calls : q = p
  BY DEF Sole, Calls
<1>3. QED
  BY <1>1, <1>2 DEF ScanInv

LEMMA GoSame ==
  ASSUME Sole, ScanInv, TypeInv', UNCHANGED Files,
         NEW p \in Calls, NEW c, NEW l, Go(p, c, l),
         ScanOK(c, l, schedule, occ, task, candidates)
  PROVE  ScanInv'
<1>1. UNCHANGED <<schedule, occ, task, candidates>>
  BY DEF Files
<1>2. ScheduleInv'
  BY <1>1 DEF ScanInv, ScheduleInv, OnceFires, Fires, Firing
<1>3. RecordsInv'
  BY <1>1 DEF ScanInv, RecordsInv
<1>4. QED
  BY <1>1, <1>2, <1>3, GoInv

LEMMA GoOnInv ==
  ASSUME Parameters, Sole, ScanInv, TypeInv', ScheduleInv', RecordsInv',
         NEW p \in Calls, NEW l \in Local, GoOn(p, l),
         l.sched = schedule', Firing(l.sched), l.at \in Missed(l),
         \A t \in Missed(l) : t <= l.at => Settled(t, occ')
  PROVE  ScanInv'
<1> DEFINE R == {t \in Missed(l) : t > l.at}
           n == First(R)
           c == IF n = Never THEN "advance" ELSE "decide"
           m == [l EXCEPT !.at = n]
<1>0. \A t \in Missed(l) : t \in Nat /\ t <= Horizon
  BY DEF Missed, Fires, Instants, Parameters
<1>1. /\ n \in R \cup {Never}
      /\ R # {} => n \in R /\ \A u \in R : n <= u
  BY FirstType DEF Missed, Fires
<1>2. Never \notin R
  BY <1>0 DEF Never, Parameters
<1>3. m.sched = l.sched /\ m.now = l.now /\ m.at = n
  BY DEF Local
<1>4. Missed(m) = Missed(l)
  BY <1>3, SameMissed
<1>5. Go(p, c, m)
  BY DEF GoOn
<1>6. CASE n = Never
  <2>1. R = {}
    BY <1>1, <1>2, <1>6
  <2>2. \A t \in Missed(l) : Settled(t, occ')
    BY <2>1, <1>0
  <2>3. Passing(m, occ')
    BY <2>2, <1>4 DEF Passing
  <2>4. c = "advance"
    BY <1>6
  <2>5. ScanOK(c, m, schedule', occ', task', candidates')
    BY <2>3, <2>4, <1>3 DEF ScanOK, WorkPcs
  <2>6. QED
    BY <2>5, <1>5, GoInv
<1>7. CASE n # Never
  <2>1. n \in R
    BY <1>1, <1>7
  <2>2. \A t \in Missed(l) : t < n => t <= l.at
    BY <2>1, <1>0, <1>1
  <2>3. Deciding(m, occ')
    BY <2>1, <2>2, <1>3, <1>4 DEF Deciding
  <2>4. c = "decide"
    BY <1>7
  <2>5. ScanOK(c, m, schedule', occ', task', candidates')
    BY <2>3, <2>4, <1>3 DEF ScanOK, WorkPcs
  <2>6. QED
    BY <2>5, <1>5, GoInv
<1>8. QED
  BY <1>6, <1>7

\* What the scan's invariant says of one call.
LEMMA ScanFacts ==
  ASSUME ScanInv, NEW p \in Calls
  PROVE  TypeInv /\ ScanOK(pc[p], loc[p], schedule, occ, task, candidates)
  BY DEF ScanInv

LEMMA StartScanInv ==
  ASSUME Parameters, Sole, ScanInv, NEW p \in Calls, StartScan(p)
  PROVE  ScanInv'
<1>0. TypeInv /\ TypeInv'
  BY StartScanType DEF ScanInv
<1> DEFINE l == [Idle EXCEPT !.sched = schedule, !.now = clock]
<1>1. pc[p] = "idle" /\ Go(p, "pending", l) /\ UNCHANGED Files
  BY DEF StartScan, At
<1>2. ScanOK("pending", l, schedule, occ, task, candidates)
  BY <1>0, <1>1, ScanFacts, Types, SameMissed DEF ScanOK, WorkPcs, Local, Idle
<1> HIDE DEF l
<1>3. QED
  BY <1>0, <1>1, <1>2, GoSame

LEMMA ReadPendingInv ==
  ASSUME Parameters, Sole, ScanInv, NEW p \in Calls, ReadPending(p)
  PROVE  ScanInv'
<1>0. TypeInv /\ TypeInv'
  BY ReadPendingType DEF ScanInv
<1> DEFINE l == [loc[p] EXCEPT !.pending = {i \in Ids : occ[i] = "pending"}]
<1>1. pc[p] = "pending" /\ Go(p, "left", l) /\ UNCHANGED Files
  BY DEF ReadPending, At
<1>2. ScanOK("left", l, schedule, occ, task, candidates)
  BY <1>0, <1>1, ScanFacts, Types, SameMissed DEF ScanOK, WorkPcs, Local
<1> HIDE DEF l
<1>3. QED
  BY <1>0, <1>1, <1>2, GoSame

LEMMA FinishPendingInv ==
  ASSUME Parameters, Sole, ScanInv, NEW p \in Calls, FinishPending(p)
  PROVE  ScanInv'
<1>0. TypeInv /\ TypeInv'
  BY FinishPendingType DEF ScanInv
<1>1. PICK i \in loc[p].pending :
        Go(p, "task", [loc[p] EXCEPT !.id = i, !.pending = @ \ {i}])
  BY DEF FinishPending
<1> DEFINE l == [loc[p] EXCEPT !.id = i, !.pending = @ \ {i}]
<1>2. pc[p] = "left" /\ UNCHANGED Files
  BY DEF FinishPending, At
<1>3. ScanOK("task", l, schedule, occ, task, candidates)
  BY <1>0, <1>2, ScanFacts, Types DEF ScanOK, WorkPcs, Local
<1> HIDE DEF l
<1>4. QED
  BY <1>0, <1>1, <1>2, <1>3, GoSame DEF l

LEMMA AdvanceInactiveInv ==
  ASSUME Parameters, Sole, ScanInv, NEW p \in Calls, AdvanceInactive(p)
  PROVE  ScanInv'
<1>0. TypeInv /\ TypeInv'
  BY AdvanceInactiveType DEF ScanInv
<1> DEFINE l == [loc[p] EXCEPT !.fired = loc[p].id]
<1>1. pc[p] = "left" /\ Go(p, "advance", l) /\ UNCHANGED Files /\ ~Armed(loc[p].sched)
  BY DEF AdvanceInactive, At
<1>2. l.sched = loc[p].sched
  BY <1>0, Types DEF Local
<1>3. Passing(l, occ)
  BY <1>1, <1>2 DEF Passing
<1> HIDE DEF l
<1>4. ScanOK("advance", l, schedule, occ, task, candidates)
  BY <1>1, <1>2, <1>3, ScanFacts DEF ScanOK, WorkPcs
<1>5. QED
  BY <1>0, <1>1, <1>4, GoSame

LEMMA IdleScan == ScanOK("idle", Idle, schedule, occ, task, candidates)
  BY DEF ScanOK, WorkPcs, Idle

LEMMA NothingDueInv ==
  ASSUME Parameters, Sole, ScanInv, NEW p \in Calls, NothingDue(p)
  PROVE  ScanInv'
<1>0. TypeInv /\ TypeInv'
  BY NothingDueType DEF ScanInv
<1>1. QED
  BY <1>0, IdleScan, GoSame DEF NothingDue

LEMMA BeginDecisionsInv ==
  ASSUME Parameters, Sole, ScanInv, NEW p \in Calls, BeginDecisions(p)
  PROVE  ScanInv'
<1>0. TypeInv /\ TypeInv'
  BY BeginDecisionsType DEF ScanInv
<1> DEFINE l == [loc[p] EXCEPT !.at = loc[p].sched.next, !.id = NoOcc]
<1>1. /\ pc[p] = "left" /\ Go(p, "decide", l) /\ UNCHANGED Files
      /\ Firing(loc[p].sched) /\ Missed(loc[p]) # {}
  BY DEF BeginDecisions, Armed, At
<1>2. l.sched = loc[p].sched /\ l.now = loc[p].now /\ l.at = loc[p].sched.next
  BY <1>0, Types DEF Local
<1>3. loc[p].sched = schedule
  BY <1>1, ScanFacts DEF ScanOK
<1>4. Missed(l) = Missed(loc[p])
  BY <1>2, SameMissed
<1>5. PICK t \in Missed(l) : TRUE
  BY <1>1, <1>4
<1> DEFINE n == schedule.next
<1>6. n <= t /\ t <= l.now /\ t \in Nat /\ t <= Horizon /\ l.now \in Nat
  BY <1>0, <1>2, <1>3, <1>5, Types DEF Missed, Fires, Instants, Parameters
<1>7. n \in Fires(schedule)
  BY <1>6 DEF ScanInv, ScheduleInv, Never, Parameters
<1>8. n \in Nat /\ n <= l.now
  BY <1>6, <1>7 DEF Fires, Instants, Parameters
<1>9. n \in Missed(l) /\ \A u \in Missed(l) : ~ (u < n)
  BY <1>2, <1>3, <1>7, <1>8 DEF Missed, Fires, Instants, Parameters
<1>10. Deciding(l, occ)
  BY <1>1, <1>2, <1>3, <1>9 DEF Deciding
<1> HIDE DEF l, n
<1>11. ScanOK("decide", l, schedule, occ, task, candidates)
  BY <1>2, <1>3, <1>10 DEF ScanOK, WorkPcs
<1>12. QED
  BY <1>0, <1>1, <1>11, GoSame

LEMMA PassDecidedInv ==
  ASSUME Parameters, Sole, ScanInv, NEW p \in Calls, PassDecided(p)
  PROVE  ScanInv'
<1>0. TypeInv /\ TypeInv'
  BY PassDecidedType DEF ScanInv
<1> DEFINE l == IF occ[loc[p].at] = "materialized"
                THEN [loc[p] EXCEPT !.fired = loc[p].at] ELSE loc[p]
<1>1. /\ pc[p] = "decide" /\ GoOn(p, l) /\ UNCHANGED Files
      /\ Settled(loc[p].at, occ)
  BY DEF PassDecided, At, Undecided, Settled
<1>2. loc[p].at \in Instants
  BY <1>0, <1>1, Types
<1>3. l \in Local /\ l.sched = loc[p].sched /\ l.now = loc[p].now /\ l.at = loc[p].at
  BY <1>0, <1>2, Types DEF Local, Ids
<1>4. loc[p].sched = schedule /\ Deciding(loc[p], occ)
  BY <1>1, ScanFacts DEF ScanOK
<1>5. Deciding(l, occ)
  BY <1>3, <1>4, SameMissed
<1> HIDE DEF l
<1>6. UNCHANGED <<schedule, occ, task, candidates>>
  BY <1>1 DEF Files
<1>7. \A t \in Missed(l) : t <= l.at => Settled(t, occ')
  <2>1. \A t \in Missed(l) : t \in Nat
    BY DEF Missed, Fires, Instants, Parameters
  <2>2. \A t \in Missed(l) : t <= l.at => t < l.at \/ t = l.at
    BY <2>1, <1>5 DEF Deciding
  <2>3. QED
    BY <2>2, <1>1, <1>3, <1>5, <1>6 DEF Deciding
<1>8. ScheduleInv' /\ RecordsInv'
  BY <1>6 DEF ScanInv, ScheduleInv, RecordsInv, OnceFires, Fires
<1>9. QED
  BY <1>0, <1>1, <1>3, <1>4, <1>5, <1>6, <1>7, <1>8, GoOnInv DEF Deciding

LEMMA FireInv ==
  ASSUME Parameters, Sole, ScanInv, NEW p \in Calls, Fire(p)
  PROVE  ScanInv'
<1>0. TypeInv /\ TypeInv'
  BY FireType DEF ScanInv
<1> DEFINE l == [loc[p] EXCEPT !.id = loc[p].at, !.status = "pending"]
<1>1. /\ pc[p] = "decide" /\ UNCHANGED Files
      /\ \/ Go(p, "save", l) /\ occ[loc[p].at] = "none"
         \/ Go(p, "queue", l)
  <2>1. l.at = loc[p].at
    BY <1>0, Types DEF Local
  <2>2. QED
    BY <2>1 DEF Fire, At
<1>2. /\ l.sched = loc[p].sched /\ l.now = loc[p].now /\ l.at = loc[p].at
      /\ l.id = loc[p].at /\ l.status = "pending"
  BY <1>0, Types DEF Local
<1>3. loc[p].at \in Instants /\ loc[p].at # Never
  BY <1>0, <1>1, Types DEF Instants, Never, Parameters
<1>4. loc[p].sched = schedule /\ Deciding(l, occ)
  <2>1. loc[p].sched = schedule /\ Deciding(loc[p], occ)
    BY <1>1, ScanFacts DEF ScanOK
  <2>2. QED
    BY <2>1, <1>2, SameMissed
<1> HIDE DEF l
<1>5. ScanOK("queue", l, schedule, occ, task, candidates)
  BY <1>2, <1>3, <1>4 DEF ScanOK, WorkPcs
<1>6. occ[loc[p].at] = "none" => ScanOK("save", l, schedule, occ, task, candidates)
  BY <1>2, <1>3, <1>4 DEF ScanOK, WorkPcs, Settled
<1>7. QED
  BY <1>0, <1>1, <1>5, <1>6, GoSame

LEMMA SkipInv ==
  ASSUME Parameters, Sole, ScanInv, NEW p \in Calls, Skip(p)
  PROVE  ScanInv'
<1>0. TypeInv /\ TypeInv'
  BY SkipType DEF ScanInv
<1> DEFINE s == IF loc[p].skips >= MaxSkips THEN "summary" ELSE "skipped"
           k == loc[p].skips + 1
           l == [loc[p] EXCEPT !.id = loc[p].at, !.skips = k, !.status = s]
<1>1. pc[p] = "decide" /\ Go(p, "save", l) /\ UNCHANGED Files
  BY DEF Skip, At
<1>2. s \in {"summary", "skipped"}
  OBVIOUS
<1> HIDE DEF s, k
<1>3. /\ l.sched = loc[p].sched /\ l.now = loc[p].now /\ l.at = loc[p].at
      /\ l.id = loc[p].at /\ l.status = s
  BY <1>0, Types DEF Local
<1>4. loc[p].at # Never
  BY <1>0, <1>1, Types DEF Instants, Never, Parameters
<1>5. loc[p].sched = schedule /\ Deciding(l, occ)
  <2>1. loc[p].sched = schedule /\ Deciding(loc[p], occ)
    BY <1>1, ScanFacts DEF ScanOK
  <2>2. QED
    BY <2>1, <1>3, SameMissed
<1> HIDE DEF l
<1>6. ScanOK("save", l, schedule, occ, task, candidates)
  BY <1>2, <1>3, <1>4, <1>5 DEF ScanOK, WorkPcs
<1>7. QED
  BY <1>0, <1>1, <1>6, GoSame

LEMMA FindPredecessorInv ==
  ASSUME Parameters, Sole, ScanInv, NEW p \in Calls, FindPredecessor(p)
  PROVE  ScanInv'
<1>0. TypeInv /\ TypeInv'
  BY FindPredecessorType DEF ScanInv
<1> DEFINE l == [loc[p] EXCEPT !.dep =
                IF loc[p].sched.overlap = "queue" THEN ActivePredecessor(loc[p]) ELSE NoOcc]
<1>1. pc[p] = "queue" /\ Go(p, "task", l) /\ UNCHANGED Files
  BY DEF FindPredecessor, At
<1>2. /\ l.sched = loc[p].sched /\ l.now = loc[p].now /\ l.at = loc[p].at
      /\ l.id = loc[p].id /\ l.status = loc[p].status
  BY <1>0, Types DEF Local
<1> HIDE DEF l
<1>3. ScanOK("task", l, schedule, occ, task, candidates)
  BY <1>1, <1>2, ScanFacts, SameMissed DEF ScanOK, WorkPcs
<1>4. QED
  BY <1>0, <1>1, <1>3, GoSame

LEMMA ReadScheduleInv ==
  ASSUME Parameters, Sole, ScanInv, NEW p \in Calls, ReadSchedule(p)
  PROVE  ScanInv'
<1>0. TypeInv /\ TypeInv'
  BY ReadScheduleType DEF ScanInv
<1> DEFINE l == [loc[p] EXCEPT !.sched = schedule]
<1>1. pc[p] = "advance" /\ Go(p, "advanced", l) /\ UNCHANGED Files
  BY DEF ReadSchedule, At
<1>2. loc[p].sched = schedule /\ Passing(loc[p], occ)
  BY <1>1, ScanFacts DEF ScanOK
<1>3. l.sched = loc[p].sched /\ l.now = loc[p].now
  BY <1>0, <1>2, Types DEF Local
<1> HIDE DEF l
<1>4. ScanOK("advanced", l, schedule, occ, task, candidates)
  BY <1>2, <1>3, SameMissed DEF ScanOK, WorkPcs
<1>5. QED
  BY <1>0, <1>1, <1>4, GoSame

LEMMA LookUpTaskInv ==
  ASSUME Parameters, Sole, ScanInv, NEW p \in Calls, LookUpTask(p)
  PROVE  ScanInv'
<1>0. TypeInv /\ TypeInv'
  BY LookUpTaskType DEF ScanInv
<1> DEFINE c == IF task[loc[p].id] = "none" THEN "create" ELSE "depend"
<1>1. pc[p] = "task" /\ Go(p, c, loc[p]) /\ UNCHANGED Files
  BY DEF LookUpTask, At
<1>2. ScanOK(c, loc[p], schedule, occ, task, candidates)
  BY <1>1, ScanFacts DEF ScanOK, WorkPcs
<1> HIDE DEF c
<1>3. QED
  BY <1>0, <1>1, <1>2, GoSame

LEMMA CreateTaskInv ==
  ASSUME Parameters, Sole, ScanInv, NEW p \in Calls, CreateTask(p)
  PROVE  ScanInv'
<1>0. TypeInv /\ TypeInv'
  BY CreateTaskType DEF ScanInv
<1>1. /\ pc[p] = "create" /\ Go(p, "depend", loc[p]) /\ UNCHANGED <<schedule, occ, candidates>>
  BY DEF CreateTask, At
<1> PICK s \in {"ready", "draft"} : task' = [task EXCEPT ![loc[p].id] = s]
  BY NewTask
<1>2. loc[p].id \in Ids /\ task'[loc[p].id] # "none"
  BY <1>0, <1>1, Types DEF WorkPcs, TypeInv, TypeOK
<1>3. \A i \in Ids : task[i] # "none" => task'[i] # "none"
  BY <1>0, <1>1 DEF TypeInv, TypeOK
<1>4. ScheduleInv' /\ RecordsInv'
  BY <1>1, <1>3 DEF ScanInv, ScheduleInv, RecordsInv, OnceFires, Fires
<1>5. ScanOK("depend", loc[p], schedule', occ', task', candidates')
  BY <1>1, <1>2, ScanFacts DEF ScanOK, WorkPcs
<1>6. QED
  BY <1>0, <1>1, <1>4, <1>5, GoInv

LEMMA UpdateDependenciesInv ==
  ASSUME Parameters, Sole, ScanInv, NEW p \in Calls, UpdateDependencies(p)
  PROVE  ScanInv'
<1>0. TypeInv /\ TypeInv'
  BY UpdateDependenciesType DEF ScanInv
<1> DEFINE l == [loc[p] EXCEPT !.dep = NoOcc]
<1>1. /\ pc[p] = "depend" /\ Go(p, "candidate", l)
      /\ UNCHANGED <<schedule, occ, task, candidates>>
  BY DEF UpdateDependencies, At
<1>2. /\ l.sched = loc[p].sched /\ l.now = loc[p].now /\ l.at = loc[p].at
      /\ l.id = loc[p].id /\ l.status = loc[p].status
  BY <1>0, Types DEF Local
<1> HIDE DEF l
<1>3. ScanOK("candidate", l, schedule, occ, task, candidates)
  BY <1>1, <1>2, ScanFacts, SameMissed DEF ScanOK, WorkPcs
<1>4. ScheduleInv' /\ RecordsInv'
  BY <1>1 DEF ScanInv, ScheduleInv, RecordsInv, OnceFires, Fires
<1>5. QED
  BY <1>0, <1>1, <1>3, <1>4, GoInv

LEMMA UpsertCandidateInv ==
  ASSUME Parameters, Sole, ScanInv, NEW p \in Calls, UpsertCandidate(p)
  PROVE  ScanInv'
<1>0. TypeInv /\ TypeInv'
  BY UpsertCandidateType DEF ScanInv
<1> DEFINE l == [loc[p] EXCEPT !.status = "materialized"]
<1>1. /\ pc[p] = "candidate" /\ Go(p, "save", l)
      /\ candidates' = candidates \cup {loc[p].id}
      /\ UNCHANGED <<schedule, occ, task>>
  BY DEF UpsertCandidate, At
<1>2. /\ l.sched = loc[p].sched /\ l.now = loc[p].now /\ l.at = loc[p].at
      /\ l.id = loc[p].id /\ l.status = "materialized"
  BY <1>0, Types DEF Local
<1> HIDE DEF l
<1>3. ScanOK("save", l, schedule, occ, task, candidates')
  BY <1>1, <1>2, ScanFacts, SameMissed DEF ScanOK, WorkPcs
<1>4. ScheduleInv' /\ RecordsInv'
  BY <1>1 DEF ScanInv, ScheduleInv, RecordsInv, OnceFires, Fires
<1>5. QED
  BY <1>0, <1>1, <1>3, <1>4, GoInv

LEMMA ReadOccurrencesInv ==
  ASSUME Parameters, Sole, ScanInv, NEW p \in Calls, ReadOccurrences(p)
  PROVE  ScanInv'
<1>0. TypeInv /\ TypeInv'
  BY ReadOccurrencesType DEF ScanInv
<1> DEFINE l == [loc[p] EXCEPT !.file = occ]
<1>1. pc[p] = "save" /\ Go(p, "write", l) /\ UNCHANGED Files
  BY DEF ReadOccurrences, At
<1>2. /\ l.sched = loc[p].sched /\ l.now = loc[p].now /\ l.at = loc[p].at
      /\ l.id = loc[p].id /\ l.status = loc[p].status /\ l.file = occ
  BY <1>0, Types DEF Local
<1> HIDE DEF l
<1>3. ScanOK("write", l, schedule, occ, task, candidates)
  BY <1>1, <1>2, ScanFacts, SameMissed DEF ScanOK, WorkPcs
<1>4. QED
  BY <1>0, <1>1, <1>3, GoSame

LEMMA WriteOccurrencesInv ==
  ASSUME Parameters, Sole, ScanInv, NEW p \in Calls, WriteOccurrences(p)
  PROVE  ScanInv'
<1>0. TypeInv /\ TypeInv'
  BY WriteOccurrencesType DEF ScanInv
<1> DEFINE st == loc[p].status
           l == [loc[p] EXCEPT !.file = NoFile, !.status = "none"]
           m == [l EXCEPT !.at = Never]
           k == [l EXCEPT !.fired = l.id]
<1>1. pc[p] = "write" /\ UNCHANGED <<schedule, task, candidates>> /\ p \notin Firers
  BY DEF WriteOccurrences, At, Sole
<1>2. /\ l.sched = loc[p].sched /\ l.now = loc[p].now /\ l.at = loc[p].at
      /\ l.id = loc[p].id /\ l \in Local /\ l.id \in Ids
  BY <1>0, <1>1, Types, IdleType DEF Local, WorkPcs, Statuses
<1>3. /\ m.sched = l.sched /\ m.now = l.now
      /\ k.sched = l.sched /\ k.now = l.now /\ k.at = l.at /\ k \in Local
  BY <1>2 DEF Local
<1>4. ScanOK("write", loc[p], schedule, occ, task, candidates)
  BY <1>1, ScanFacts
<1>5. occ' = [occ EXCEPT ![l.id] = st] /\ st \in Statuses \ {"none"}
  BY <1>0, <1>2, <1>4, Types DEF WriteOccurrences, ScanOK
<1>6. \/ st = "pending" /\ Go(p, "queue", l)
      \/ st = "summary" /\ Go(p, "advance", m)
      \/ st = "skipped" /\ GoOn(p, l)
      \/ st = "materialized" /\ l.at = Never /\ Go(p, "left", l)
      \/ st = "materialized" /\ l.at # Never /\ GoOn(p, k)
  <2>1. CASE st = "pending"
    BY <2>1, <1>1 DEF WriteOccurrences
  <2>2. CASE st = "summary"
    BY <2>2, <1>1 DEF WriteOccurrences
  <2>3. CASE st = "skipped"
    BY <2>3, <1>1 DEF WriteOccurrences
  <2>4. CASE st = "materialized"
    BY <2>4, <1>1 DEF WriteOccurrences
  <2>5. QED
    BY <2>1, <2>2, <2>3, <2>4, <1>5 DEF Statuses
<1> HIDE DEF st, l, m, k
<1>7. occ'[l.id] = st /\ \A t \in Ids : Settled(t, occ) => Settled(t, occ')
  <2>1. st = "pending" => ~Settled(l.id, occ)
    BY <1>2, <1>4 DEF ScanOK, st
  <2>2. occ \in [Ids -> Statuses]
    BY <1>0, Types
  <2>3. QED
    BY <2>1, <2>2, <1>2, <1>5 DEF Settled
<1>8. ScheduleInv' /\ RecordsInv'
  <2>1. st = "materialized" => task[l.id] # "none" /\ l.id \in candidates
    BY <1>2, <1>4 DEF ScanOK, st
  <2>2. occ \in [Ids -> Statuses]
    BY <1>0, Types
  <2>3. RecordsInv'
    BY <2>1, <2>2, <1>1, <1>2, <1>5 DEF ScanInv, RecordsInv
  <2>4. QED
    BY <2>3, <1>1 DEF ScanInv, ScheduleInv, OnceFires, Fires
<1>9. l.at = Never => st = "materialized"
  BY <1>2, <1>4 DEF ScanOK, st
<1>10. l.sched = schedule'
  BY <1>1, <1>2, <1>4 DEF ScanOK
<1>11. \A t \in Missed(l) : t \in Nat /\ t \in Ids
  BY DEF Missed, Fires, Instants, Ids, Parameters
<1>12. ASSUME l.at # Never
       PROVE  /\ l.id = l.at /\ Firing(l.sched) /\ l.at \in Missed(l)
              /\ \A t \in Missed(l) : t < l.at => Settled(t, occ')
  <2>1. l.id = l.at /\ Deciding(loc[p], occ)
    BY <1>12, <1>2, <1>4 DEF ScanOK, WorkPcs
  <2>2. Deciding(l, occ)
    BY <2>1, <1>2, SameMissed
  <2>3. QED
    BY <2>1, <2>2, <1>7, <1>11 DEF Deciding
<1>13. ASSUME l.at # Never, st # "pending"
       PROVE  \A t \in Missed(l) : t <= l.at => Settled(t, occ')
  <2>1. Settled(l.at, occ')
    BY <1>5, <1>7, <1>12, <1>13 DEF Settled
  <2>2. \A t \in Missed(l) : t <= l.at => t < l.at \/ t = l.at
    BY <1>11, <1>12, <1>13
  <2>3. QED
    BY <2>1, <2>2, <1>12, <1>13
<1>14. CASE st = "pending" /\ Go(p, "queue", l)
  <2>1. l.at # Never
    BY <1>9, <1>14
  <2>2. Deciding(l, occ')
    BY <2>1, <1>12 DEF Deciding
  <2>3. ScanOK("queue", l, schedule', occ', task', candidates')
    BY <2>1, <2>2, <1>10, <1>12 DEF ScanOK, WorkPcs
  <2>4. QED
    BY <2>3, <1>0, <1>8, <1>14, GoInv
<1>15. CASE st = "summary" /\ Go(p, "advance", m)
  <2>1. l.at # Never
    BY <1>9, <1>15
  <2>2. Missed(m) = Missed(l) /\ occ'[l.at] = "summary"
    BY <2>1, <1>3, <1>7, <1>12, <1>15, SameMissed
  <2>3. \A t \in Missed(l) : t <= l.at \/ l.at < t
    BY <2>1, <1>11, <1>12
  <2>4. Passing(m, occ')
    BY <2>1, <2>2, <2>3, <1>12, <1>13, <1>15 DEF Passing
  <2>5. ScanOK("advance", m, schedule', occ', task', candidates')
    BY <2>4, <1>3, <1>10 DEF ScanOK, WorkPcs
  <2>6. QED
    BY <2>5, <1>0, <1>8, <1>15, GoInv
<1>16. CASE st = "skipped" /\ GoOn(p, l)
  <2>1. l.at # Never
    BY <1>9, <1>16
  <2>2. /\ Firing(l.sched) /\ l.at \in Missed(l)
        /\ \A t \in Missed(l) : t <= l.at => Settled(t, occ')
    BY <2>1, <1>12, <1>13, <1>16
  <2>3. QED
    BY <2>2, <1>0, <1>2, <1>8, <1>10, <1>16, GoOnInv
<1>17. CASE st = "materialized" /\ l.at = Never /\ Go(p, "left", l)
  <2>1. ScanOK("left", l, schedule', occ', task', candidates')
    BY <1>10, <1>17 DEF ScanOK, WorkPcs
  <2>2. QED
    BY <2>1, <1>0, <1>8, <1>17, GoInv
<1>18. CASE st = "materialized" /\ l.at # Never /\ GoOn(p, k)
  <2>1. /\ Firing(l.sched) /\ l.at \in Missed(l)
        /\ \A t \in Missed(l) : t <= l.at => Settled(t, occ')
    BY <1>12, <1>13, <1>18
  <2>2. Missed(k) = Missed(l)
    BY <1>3, SameMissed
  <2>3. /\ k \in Local /\ k.sched = schedule' /\ Firing(k.sched) /\ k.at \in Missed(k)
        /\ \A t \in Missed(k) : t <= k.at => Settled(t, occ')
    BY <2>1, <2>2, <1>3, <1>10
  <2>4. QED
    BY <2>3, <1>0, <1>8, <1>18, GoOnInv
<1>19. QED
  BY <1>6, <1>14, <1>15, <1>16, <1>17, <1>18

\* What a step of Advance passes is what its scan has missed.
LEMMA AdvanceFacts ==
  ASSUME Parameters, Sole, ScanInv, NEW p \in Calls, Advance(p)
  PROVE  /\ TypeInv /\ TypeInv'
         /\ ScheduleInv'
         /\ Passing(loc[p], occ) /\ loc[p].sched = schedule
         /\ Passed = IF Armed(schedule) THEN Missed(loc[p]) ELSE {}
<1> DEFINE l == loc[p]
           n == IF Firing(schedule) THEN NextAfter(schedule, l.now) ELSE Never
           R == {u \in Fires(schedule) : u > l.now}
<1>0. TypeInv /\ TypeInv'
  BY AdvanceType DEF ScanInv
<1>1. pc[p] = "advanced"
  BY DEF Advance, At
<1>2. l.sched = schedule /\ Passing(l, occ)
  BY <1>1, ScanFacts DEF ScanOK
<1>3. /\ schedule'.enabled = schedule.enabled /\ schedule'.trigger = schedule.trigger
      /\ schedule'.next = n
      /\ schedule'.completed = (schedule.completed \/ schedule.trigger = "once")
  <2>1. schedule \in Schedule
    BY <1>0, Types
  <2>2. QED
    BY <2>1, <1>2 DEF Advance, Schedule
<1>4. /\ schedule.enabled /\ schedule.next \in Fires(schedule) \cup {Never}
      /\ schedule.completed => schedule.next = Never
  BY DEF ScanInv, ScheduleInv
<1>5. \A t \in Fires(schedule) : t \in Nat /\ t < Never
  BY DEF Fires, Instants, Never, Parameters
<1>6. l.now \in Nat /\ l.now < Never /\ Never \in Nat
  BY <1>0, Types DEF Never, Parameters
<1>7. /\ NextAfter(schedule, l.now) \in R \cup {Never}
      /\ R # {} => NextAfter(schedule, l.now) \in R
                   /\ \A u \in R : NextAfter(schedule, l.now) <= u
  BY FirstType DEF NextAfter, Fires
<1>8. /\ R = {} => NextAfter(schedule, l.now) = Never
      /\ \A t \in Fires(schedule) : t <= l.now <=> t < NextAfter(schedule, l.now)
  <2>1. R = {} => NextAfter(schedule, l.now) = Never
    BY <1>7
  <2>2. ASSUME NEW t \in Fires(schedule), t <= l.now PROVE t < NextAfter(schedule, l.now)
    BY <2>2, <1>5, <1>6, <1>7
  <2>3. ASSUME NEW t \in Fires(schedule), ~ (t <= l.now)
        PROVE  ~ (t < NextAfter(schedule, l.now))
    <3>1. t \in R
      BY <2>3, <1>5, <1>6
    <3>2. NextAfter(schedule, l.now) <= t /\ NextAfter(schedule, l.now) \in Nat
      BY <3>1, <1>5, <1>7
    <3>3. QED
      BY <3>2, <1>5, <2>3
  <2>4. QED
    BY <2>1, <2>2, <2>3
<1>9. Fires(schedule)' = Fires(schedule)
  BY <1>3 DEF Fires
<1> HIDE DEF l
<1>10. Passed = IF Armed(schedule) THEN Missed(l) ELSE {}
  <2>1. CASE Armed(schedule)
    <3>1. Missed(l) = {t \in Fires(schedule) : schedule.next <= t /\ t <= l.now}
      BY <1>2 DEF Missed
    <3>2. QED
      BY <2>1, <3>1, <1>3, <1>8 DEF Passed, Armed
  <2>2. CASE ~Armed(schedule)
    <3>1. schedule.next = Never
      BY <2>2, <1>4 DEF Armed, Firing
    <3>2. \A t \in Fires(schedule) : ~ (Never <= t)
      BY <1>5, <1>6
    <3>3. QED
      BY <2>2, <3>1, <3>2 DEF Passed
  <2>3. QED
    BY <2>1, <2>2
<1>11. ScheduleInv'
  <2>1. schedule'.next \in Fires(schedule) \cup {Never}
    BY <1>3, <1>7
  <2>2. ASSUME Armed(schedule), schedule.trigger = "once" PROVE n = Never
    <3>1. PICK t \in Missed(l) : TRUE
      BY <2>2, <1>2 DEF Passing
    <3>2. t \in Fires(schedule) /\ t <= l.now
      BY <3>1, <1>2 DEF Missed
    <3>3. \A u \in Fires(schedule) : u <= t
      BY <2>2, <3>2 DEF Fires
    <3>4. R = {}
      BY <3>2, <3>3, <1>5, <1>6
    <3>5. QED
      BY <3>4, <1>8
  <2>3. ASSUME ~Armed(schedule), schedule.trigger = "once" PROVE n = Never
    <3>1. ~Firing(schedule) \/ Fires(schedule) = {}
      BY <2>3 DEF Armed, Firing, ScanInv, ScheduleInv, OnceFires
    <3>2. QED
      BY <3>1, <1>8
  <2>5. schedule'.completed => n = Never
    BY <2>2, <2>3, <1>3, <1>4 DEF Firing
  <2>4. QED
    BY <2>1, <2>5, <1>3, <1>4, <1>9 DEF ScheduleInv, OnceFires
<1>12. QED
  BY <1>0, <1>2, <1>10, <1>11 DEF l

LEMMA AdvanceInv ==
  ASSUME Parameters, Sole, ScanInv, NEW p \in Calls, Advance(p)
  PROVE  ScanInv'
<1>1. TypeInv' /\ ScheduleInv'
  BY AdvanceFacts
<1>2. Go(p, "idle", Idle) /\ UNCHANGED <<occ, task, candidates>>
  BY DEF Advance
<1>3. RecordsInv'
  BY <1>2 DEF ScanInv, RecordsInv
<1>4. ScanOK("idle", Idle, schedule', occ', task', candidates')
  BY DEF ScanOK, WorkPcs, Idle
<1>5. QED
  BY <1>1, <1>2, <1>3, <1>4, GoInv

LEMMA StopInv ==
  ASSUME Parameters, Sole, ScanInv, NEW p \in Calls, Stop(p)
  PROVE  ScanInv'
<1>0. TypeInv /\ TypeInv'
  BY StopType DEF ScanInv
<1>1. QED
  BY <1>0, IdleScan, GoSame DEF Stop

\* Time and the Work items' Runs.
LEMMA OtherInv ==
  ASSUME Parameters, Sole, ScanInv,
         \/ Tick \/ \E i \in Ids : EndTask(i) \/ ApproveTask(i) \/ StartAgain(i)
         \/ \E p \in Scanners, i \in Ids : StartTask(p, i)
  PROVE  ScanInv'
<1>1. UNCHANGED <<schedule, occ, candidates, pc, loc>>
  BY DEF Tick, EndTask, ApproveTask, StartAgain, StartTask, Files
<1>2. TypeInv /\ TypeInv'
  BY OtherType DEF ScanInv
<1>3. \A i \in Ids : task'[i] = "none" <=> task[i] = "none"
  BY <1>2 DEF Tick, EndTask, ApproveTask, StartAgain, StartTask, Files, TypeInv, TypeOK
<1>4. ScheduleInv' /\ RecordsInv'
  BY <1>1, <1>3 DEF ScanInv, ScheduleInv, RecordsInv, OnceFires, Fires
<1>5. ASSUME NEW p \in Calls PROVE ScanOK(pc[p], loc[p], schedule, occ, task', candidates)
  <2>1. pc[p] \in WorkPcs => loc[p].id \in Ids
    BY <1>2, Types
  <2>2. QED
    BY <2>1, <1>3, ScanFacts DEF ScanOK, WorkPcs
<1>6. QED
  BY <1>1, <1>2, <1>4, <1>5 DEF ScanInv

LEMMA InitInv ==
  ASSUME Parameters, Init
  PROVE  ScanInv
<1>1. TypeInv
  BY InitType
<1>2. PICK g \in Triggers, m \in Misfires, o \in Overlaps, a \in Admissions :
        schedule = [NoSchedule EXCEPT !.enabled = TRUE, !.trigger = g, !.misfire = m,
                                      !.overlap = o, !.admission = a, !.next = First(Instants)]
  BY DEF Init
<1>3. schedule.enabled /\ ~schedule.completed /\ schedule.next = First(Instants)
  BY <1>2 DEF NoSchedule
<1>4. First(Instants) \in Fires(schedule) \cup {Never}
  BY FirstType DEF Fires
<1>5. RecordsInv /\ \A p \in Calls : pc[p] = "idle" /\ loc[p] = Idle
  BY DEF Init, RecordsInv
<1>6. OnceFires(schedule)
  BY <1>3, FirstOfAll DEF OnceFires, Fires
<1>7. QED
  BY <1>1, <1>3, <1>4, <1>5, <1>6, IdleScan DEF ScanInv, ScheduleInv

LEMMA NextInv ==
  ASSUME Parameters, Sole, ScanInv, [Next]_vars
  PROVE  ScanInv'
<1>1. CASE UNCHANGED vars
  <2>1. UNCHANGED <<clock, schedule, occ, task, dependsOn, candidates, pc, loc, stops>>
    BY <1>1 DEF vars
  <2>2. TypeInv'
    BY <2>1 DEF ScanInv, TypeInv, TypeOK, LocalOK
  <2>3. ScheduleInv' /\ RecordsInv'
    BY <2>1 DEF ScanInv, ScheduleInv, RecordsInv, OnceFires, Fires
  <2>4. QED
    BY <2>1, <2>2, <2>3 DEF ScanInv
<1>2. ASSUME NEW p \in Calls, Step(p) PROVE ScanInv'
  <2>1. ~SetEnabled(p)
    BY ScanFacts DEF SetEnabled, At, ScanOK
  <2>2. QED
    BY <1>2, <2>1, ReadPendingInv, FinishPendingInv, AdvanceInactiveInv, NothingDueInv,
       BeginDecisionsInv, PassDecidedInv, FireInv, SkipInv, FindPredecessorInv,
       ReadScheduleInv, AdvanceInv, LookUpTaskInv, CreateTaskInv,
       UpdateDependenciesInv, UpsertCandidateInv, ReadOccurrencesInv,
       WriteOccurrencesInv DEF Step
<1>3. ASSUME NEW p \in Calls, StartScan(p) \/ FireNow(p) \/ ReadToSet(p) \/ Stop(p)
      PROVE  ScanInv'
  BY <1>3, StartScanInv, StopInv DEF FireNow, ReadToSet, Sole
<1>4. QED
  BY <1>1, <1>2, <1>3, OtherInv DEF Next

\* Every step but the schedule's advance passes nothing.
LEMMA NothingPassed ==
  ASSUME Parameters, TypeInv, UNCHANGED schedule
  PROVE  Passed = {}
<1>1. \A t \in Fires(schedule) : t \in Nat
  BY DEF Fires, Instants, Parameters
<1>2. schedule.next \in Nat
  BY Types DEF Schedule, Instants, Never, Parameters
<1>3. QED
  BY <1>1, <1>2 DEF Passed

\* Whatever the trigger, the policies, the instants and the bounds, and wherever scans
\* were stopped before: an instant that one scheduler passes has its Work item and its
\* candidate, or was skipped on the record.
THEOREM NothingPassedOverAlways ==
  ASSUME Parameters, Sole PROVE Spec => NothingPassedOver
<1>1. ASSUME ScanInv, [Next]_vars PROVE [PassesDecided]_vars
  <2>1. CASE \E p \in Calls : Advance(p)
    <3>1. PICK p \in Calls : Advance(p)
      BY <2>1
    <3>2. /\ Passing(loc[p], occ) /\ loc[p].sched = schedule
          /\ Passed = IF Armed(schedule) THEN Missed(loc[p]) ELSE {}
      BY <1>1, <3>1, AdvanceFacts
    <3>3. UNCHANGED <<occ, task, candidates>>
      BY <3>1 DEF Advance
    <3>4. \A t \in Passed : Settled(t, occ) => Decided(t)'
      <4>1. \A t \in Passed : t \in Ids
        BY DEF Passed, Fires, Ids
      <4>2. occ \in [Ids -> Statuses]
        BY <1>1, Types DEF ScanInv
      <4>3. QED
        BY <4>1, <4>2, <3>3, <1>1 DEF Settled, Decided, ScanInv, RecordsInv, Statuses
    <3>5. PassesDecided
      BY <3>2, <3>3, <3>4 DEF PassesDecided, Passing
    <3>6. QED
      BY <3>5
  <2>2. CASE ~ \E p \in Calls : Advance(p)
    <3>1. UNCHANGED schedule
      <4>1. \A p \in Calls : ~SetEnabled(p)
        BY <1>1, ScanFacts DEF SetEnabled, At, ScanOK
      <4>2. CASE UNCHANGED vars
        BY <4>2 DEF vars
      <4>3. ASSUME NEW p \in Calls, Step(p) PROVE UNCHANGED schedule
        BY <4>1, <4>3, <2>2 DEF Step, ReadPending, FinishPending, AdvanceInactive,
           NothingDue, BeginDecisions, PassDecided, Fire, Skip, FindPredecessor,
           ReadSchedule, LookUpTask, CreateTask, UpdateDependencies, UpsertCandidate,
           ReadOccurrences, WriteOccurrences, Files
      <4>4. ASSUME NEW p \in Calls, StartScan(p) \/ FireNow(p) \/ ReadToSet(p) \/ Stop(p)
            PROVE  UNCHANGED schedule
        BY <4>4 DEF StartScan, FireNow, ReadToSet, Stop, Files
      <4>5. QED
        BY <1>1, <4>2, <4>3, <4>4 DEF Next, StartTask, EndTask, ApproveTask, StartAgain, Tick, Files
    <3>2. Passed = {}
      BY <1>1, <3>1, NothingPassed DEF ScanInv
    <3>3. QED
      BY <3>2 DEF PassesDecided
  <2>3. QED
    BY <2>1, <2>2
<1>2. ASSUME Init PROVE ScanInv
  BY <1>2, InitInv
<1>3. ASSUME ScanInv, [Next]_vars PROVE ScanInv'
  BY <1>3, NextInv
<1>4. QED
  BY <1>1, <1>2, <1>3, PTL DEF Spec, NothingPassedOver

-----------------------------------------------------------------------------
(* One scheduler, and operators who pause and resume the schedule: a scan   *)
(* that returns leaves no occurrence pending.                               *)

OneScanner ==
  Firers = {} /\ Scanners \cap Pausers = {} /\ \A p, q \in Scanners : p = q

\* A scan past its first reading still has to finish whatever is pending.
Pending(o) == {i \in Ids : o[i] = "pending"}
LeftOK(c, l, o) ==
  /\ c # "set"
  /\ c \in {"pending", "left"} => l.at = Never
  /\ c = "write" => l.file = o
  /\ c \in {"decide", "queue", "advance", "advanced"} => l.pending = {}
  /\ c \in WorkPcs /\ l.at # Never => l.pending = {}
  /\ c \in {"save", "write"} /\ l.status # "materialized" => l.pending = {}
  /\ c \in {"left", "decide", "advance", "advanced"} => Pending(o) \subseteq l.pending
  /\ c \in WorkPcs => Pending(o) \subseteq l.pending \cup {l.id}

PendingInv ==
  /\ TypeInv
  /\ \A p \in Scanners : LeftOK(pc[p], loc[p], occ)
  /\ \A p \in Calls \ Scanners : pc[p] \in {"idle", "set"}

LEMMA LeftFacts ==
  ASSUME PendingInv, NEW p \in Scanners
  PROVE  TypeInv /\ p \in Calls /\ LeftOK(pc[p], loc[p], occ)
  BY DEF PendingInv, Calls

LEMMA GoLeft ==
  ASSUME OneScanner, PendingInv, TypeInv', NEW p \in Scanners, NEW c, NEW l,
         Go(p, c, l), LeftOK(c, l, occ')
  PROVE  PendingInv'
<1>1. /\ pc'[p] = c /\ loc'[p] = l
      /\ \A q \in Calls \ {p} : pc'[q] = pc[q]
  BY DEF Go, PendingInv, TypeInv, TypeOK, Calls
<1>2. \A q \in Scanners : q = p
  BY DEF OneScanner
<1>3. QED
  BY <1>1, <1>2 DEF PendingInv

LEMMA GoOnLeft ==
  ASSUME Parameters, OneScanner, PendingInv, TypeInv', NEW p \in Scanners,
         NEW l \in Local, GoOn(p, l), l.pending = {}, Pending(occ') = {}
  PROVE  PendingInv'
<1> DEFINE n == First({t \in Missed(l) : t > l.at})
           c == IF n = Never THEN "advance" ELSE "decide"
           m == [l EXCEPT !.at = n]
<1>1. Go(p, c, m)
  BY DEF GoOn
<1>2. m.pending = {}
  BY DEF Local
<1>3. c \in {"advance", "decide"}
  OBVIOUS
<1> HIDE DEF c, m
<1>4. LeftOK(c, m, occ')
  BY <1>2, <1>3 DEF LeftOK, WorkPcs
<1>5. QED
  BY <1>1, <1>4, GoLeft

LEMMA StartScanLeft ==
  ASSUME Parameters, OneScanner, PendingInv, NEW p \in Scanners, StartScan(p)
  PROVE  PendingInv'
<1>0. TypeInv /\ TypeInv' /\ p \in Calls
  BY StartScanType, LeftFacts
<1> DEFINE l == [Idle EXCEPT !.sched = schedule, !.now = clock]
<1>1. pc[p] = "idle" /\ Go(p, "pending", l) /\ UNCHANGED occ
  BY DEF StartScan, At, Files
<1>2. /\ l.at = Never
  BY <1>0, Types DEF Local, Idle
<1> HIDE DEF l
<1>3. LeftOK("pending", l, occ')
  BY <1>1, <1>2, LeftFacts DEF LeftOK, WorkPcs
<1>4. QED
  BY <1>0, <1>1, <1>3, GoLeft

LEMMA ReadPendingLeft ==
  ASSUME Parameters, OneScanner, PendingInv, NEW p \in Scanners, ReadPending(p)
  PROVE  PendingInv'
<1>0. TypeInv /\ TypeInv' /\ p \in Calls
  BY ReadPendingType, LeftFacts
<1> DEFINE P == {i \in Ids : occ[i] = "pending"}
           l == [loc[p] EXCEPT !.pending = P]
<1>1. pc[p] = "pending" /\ Go(p, "left", l) /\ UNCHANGED occ
  BY DEF ReadPending, At, Files
<1>2. l.at = loc[p].at /\ l.pending = P
  BY <1>0, Types DEF Local
<1>3. loc[p].at = Never
  BY <1>1, LeftFacts DEF LeftOK
<1>4. Pending(occ') = l.pending
  BY <1>1, <1>2 DEF Pending
<1> HIDE DEF l, P
<1>5. LeftOK("left", l, occ')
  BY <1>2, <1>3, <1>4 DEF LeftOK, WorkPcs
<1>6. QED
  BY <1>0, <1>1, <1>5, GoLeft

LEMMA FinishPendingLeft ==
  ASSUME Parameters, OneScanner, PendingInv, NEW p \in Scanners, FinishPending(p)
  PROVE  PendingInv'
<1>0. TypeInv /\ TypeInv' /\ p \in Calls
  BY FinishPendingType, LeftFacts
<1>1. PICK i \in loc[p].pending :
        Go(p, "task", [loc[p] EXCEPT !.id = i, !.pending = @ \ {i}])
  BY DEF FinishPending
<1> DEFINE l == [loc[p] EXCEPT !.id = i, !.pending = @ \ {i}]
<1>2. pc[p] = "left" /\ UNCHANGED occ
  BY DEF FinishPending, At, Files
<1>3. l.id = i /\ l.pending = loc[p].pending \ {i} /\ l.at = loc[p].at
  BY <1>0, Types DEF Local
<1>4. Go(p, "task", l)
  BY <1>1
<1> HIDE DEF l
<1>5. LeftOK("task", l, occ')
  <2>1. LeftOK("left", loc[p], occ)
    BY <1>2, LeftFacts
  <2>2. l.at = Never /\ Pending(occ') \subseteq l.pending \cup {l.id}
    BY <2>1, <1>2, <1>3 DEF LeftOK, WorkPcs
  <2>3. QED
    BY <2>2 DEF LeftOK, WorkPcs
<1>6. QED
  BY <1>0, <1>4, <1>5, GoLeft

LEMMA AdvanceInactiveLeft ==
  ASSUME Parameters, OneScanner, PendingInv, NEW p \in Scanners, AdvanceInactive(p)
  PROVE  PendingInv'
<1>0. TypeInv /\ TypeInv' /\ p \in Calls
  BY AdvanceInactiveType, LeftFacts
<1> DEFINE l == [loc[p] EXCEPT !.fired = loc[p].id]
<1>1. pc[p] = "left" /\ Go(p, "advance", l) /\ UNCHANGED occ /\ loc[p].pending = {}
  BY DEF AdvanceInactive, At, Files
<1>2. /\ l.pending = loc[p].pending
  BY <1>0, Types DEF Local, Idle
<1> HIDE DEF l
<1>3. LeftOK("advance", l, occ')
  BY <1>1, <1>2, LeftFacts DEF LeftOK, WorkPcs
<1>4. QED
  BY <1>0, <1>1, <1>3, GoLeft

LEMMA IdleLeft == \A o : LeftOK("idle", Idle, o)
  BY DEF LeftOK, WorkPcs, Idle

LEMMA NothingDueLeft ==
  ASSUME Parameters, OneScanner, PendingInv, NEW p \in Scanners, NothingDue(p)
  PROVE  PendingInv'
<1>0. TypeInv /\ TypeInv' /\ p \in Calls
  BY NothingDueType, LeftFacts
<1>1. QED
  BY <1>0, IdleLeft, GoLeft DEF NothingDue

LEMMA BeginDecisionsLeft ==
  ASSUME Parameters, OneScanner, PendingInv, NEW p \in Scanners, BeginDecisions(p)
  PROVE  PendingInv'
<1>0. TypeInv /\ TypeInv' /\ p \in Calls
  BY BeginDecisionsType, LeftFacts
<1> DEFINE l == [loc[p] EXCEPT !.at = loc[p].sched.next, !.id = NoOcc]
<1>1. pc[p] = "left" /\ Go(p, "decide", l) /\ UNCHANGED occ /\ loc[p].pending = {}
  BY DEF BeginDecisions, At, Files
<1>2. /\ l.pending = loc[p].pending
  BY <1>0, Types DEF Local, Idle
<1> HIDE DEF l
<1>3. LeftOK("decide", l, occ')
  BY <1>1, <1>2, LeftFacts DEF LeftOK, WorkPcs
<1>4. QED
  BY <1>0, <1>1, <1>3, GoLeft

LEMMA PassDecidedLeft ==
  ASSUME Parameters, OneScanner, PendingInv, NEW p \in Scanners, PassDecided(p)
  PROVE  PendingInv'
<1>0. TypeInv /\ TypeInv' /\ p \in Calls
  BY PassDecidedType, LeftFacts
<1> DEFINE l == IF occ[loc[p].at] = "materialized"
                THEN [loc[p] EXCEPT !.fired = loc[p].at] ELSE loc[p]
<1>1. pc[p] = "decide" /\ GoOn(p, l) /\ UNCHANGED occ
  BY DEF PassDecided, At, Files
<1>2. l \in Local /\ l.pending = loc[p].pending
  BY <1>0, <1>1, Types DEF Local, Ids
<1> HIDE DEF l
<1>3. l.pending = {} /\ Pending(occ') = {}
  BY <1>1, <1>2, LeftFacts DEF LeftOK, WorkPcs
<1>4. QED
  BY <1>0, <1>1, <1>2, <1>3, GoOnLeft

LEMMA FireLeft ==
  ASSUME Parameters, OneScanner, PendingInv, NEW p \in Scanners, Fire(p)
  PROVE  PendingInv'
<1>0. TypeInv /\ TypeInv' /\ p \in Calls
  BY FireType, LeftFacts
<1> DEFINE l == [loc[p] EXCEPT !.id = loc[p].at, !.status = "pending"]
<1>1. /\ pc[p] = "decide" /\ UNCHANGED occ
      /\ Go(p, "save", l) \/ Go(p, "queue", l)
  BY DEF Fire, At, Files
<1>2. l.pending = loc[p].pending
  BY <1>0, Types DEF Local
<1> HIDE DEF l
<1>3. LeftOK("save", l, occ') /\ LeftOK("queue", l, occ')
  BY <1>1, <1>2, LeftFacts DEF LeftOK, WorkPcs
<1>4. QED
  BY <1>0, <1>1, <1>3, GoLeft

LEMMA SkipLeft ==
  ASSUME Parameters, OneScanner, PendingInv, NEW p \in Scanners, Skip(p)
  PROVE  PendingInv'
<1>0. TypeInv /\ TypeInv' /\ p \in Calls
  BY SkipType, LeftFacts
<1> DEFINE s == IF loc[p].skips >= MaxSkips THEN "summary" ELSE "skipped"
           k == loc[p].skips + 1
           l == [loc[p] EXCEPT !.id = loc[p].at, !.skips = k, !.status = s]
<1>1. pc[p] = "decide" /\ Go(p, "save", l) /\ UNCHANGED occ
  BY DEF Skip, At, Files
<1> HIDE DEF s, k
<1>2. l.pending = loc[p].pending
  BY <1>0, Types DEF Local
<1> HIDE DEF l
<1>3. LeftOK("save", l, occ')
  BY <1>1, <1>2, LeftFacts DEF LeftOK, WorkPcs
<1>4. QED
  BY <1>0, <1>1, <1>3, GoLeft

LEMMA FindPredecessorLeft ==
  ASSUME Parameters, OneScanner, PendingInv, NEW p \in Scanners, FindPredecessor(p)
  PROVE  PendingInv'
<1>0. TypeInv /\ TypeInv' /\ p \in Calls
  BY FindPredecessorType, LeftFacts
<1> DEFINE l == [loc[p] EXCEPT !.dep =
                IF loc[p].sched.overlap = "queue" THEN ActivePredecessor(loc[p]) ELSE NoOcc]
<1>1. pc[p] = "queue" /\ Go(p, "task", l) /\ UNCHANGED occ
  BY DEF FindPredecessor, At, Files
<1>2. /\ l.pending = loc[p].pending
      /\ l.id = loc[p].id
  BY <1>0, Types DEF Local, Idle
<1> HIDE DEF l
<1>3. LeftOK("task", l, occ')
  BY <1>1, <1>2, LeftFacts DEF LeftOK, WorkPcs
<1>4. QED
  BY <1>0, <1>1, <1>3, GoLeft

LEMMA ReadScheduleLeft ==
  ASSUME Parameters, OneScanner, PendingInv, NEW p \in Scanners, ReadSchedule(p)
  PROVE  PendingInv'
<1>0. TypeInv /\ TypeInv' /\ p \in Calls
  BY ReadScheduleType, LeftFacts
<1> DEFINE l == [loc[p] EXCEPT !.sched = schedule]
<1>1. pc[p] = "advance" /\ Go(p, "advanced", l) /\ UNCHANGED occ
  BY DEF ReadSchedule, At, Files
<1>2. /\ l.pending = loc[p].pending
  BY <1>0, Types DEF Local, Idle
<1> HIDE DEF l
<1>3. LeftOK("advanced", l, occ')
  BY <1>1, <1>2, LeftFacts DEF LeftOK, WorkPcs
<1>4. QED
  BY <1>0, <1>1, <1>3, GoLeft

LEMMA LookUpTaskLeft ==
  ASSUME Parameters, OneScanner, PendingInv, NEW p \in Scanners, LookUpTask(p)
  PROVE  PendingInv'
<1>0. TypeInv /\ TypeInv' /\ p \in Calls
  BY LookUpTaskType, LeftFacts
<1>1. /\ pc[p] = "task" /\ UNCHANGED occ
      /\ Go(p, "create", loc[p]) \/ Go(p, "depend", loc[p])
  BY DEF LookUpTask, At, Files
<1>2. LeftOK("create", loc[p], occ') /\ LeftOK("depend", loc[p], occ')
  BY <1>1, LeftFacts DEF LeftOK, WorkPcs
<1>3. QED
  BY <1>0, <1>1, <1>2, GoLeft

LEMMA CreateTaskLeft ==
  ASSUME Parameters, OneScanner, PendingInv, NEW p \in Scanners, CreateTask(p)
  PROVE  PendingInv'
<1>0. TypeInv /\ TypeInv' /\ p \in Calls
  BY CreateTaskType, LeftFacts
<1>1. pc[p] = "create" /\ UNCHANGED occ /\ Go(p, "depend", loc[p])
  BY DEF CreateTask, At
<1>2. LeftOK("depend", loc[p], occ')
  BY <1>1, LeftFacts DEF LeftOK, WorkPcs
<1>3. QED
  BY <1>0, <1>1, <1>2, GoLeft

LEMMA UpdateDependenciesLeft ==
  ASSUME Parameters, OneScanner, PendingInv, NEW p \in Scanners, UpdateDependencies(p)
  PROVE  PendingInv'
<1>0. TypeInv /\ TypeInv' /\ p \in Calls
  BY UpdateDependenciesType, LeftFacts
<1> DEFINE l == [loc[p] EXCEPT !.dep = NoOcc]
<1>1. pc[p] = "depend" /\ Go(p, "candidate", l) /\ UNCHANGED occ
  BY DEF UpdateDependencies, At, Files
<1>2. /\ l.at = loc[p].at
      /\ l.pending = loc[p].pending
      /\ l.id = loc[p].id
  BY <1>0, Types DEF Local, Idle
<1> HIDE DEF l
<1>3. LeftOK("candidate", l, occ')
  BY <1>1, <1>2, LeftFacts DEF LeftOK, WorkPcs
<1>4. QED
  BY <1>0, <1>1, <1>3, GoLeft

LEMMA UpsertCandidateLeft ==
  ASSUME Parameters, OneScanner, PendingInv, NEW p \in Scanners, UpsertCandidate(p)
  PROVE  PendingInv'
<1>0. TypeInv /\ TypeInv' /\ p \in Calls
  BY UpsertCandidateType, LeftFacts
<1> DEFINE l == [loc[p] EXCEPT !.status = "materialized"]
<1>1. pc[p] = "candidate" /\ Go(p, "save", l) /\ UNCHANGED occ
  BY DEF UpsertCandidate, At, Files
<1>2. /\ l.at = loc[p].at
      /\ l.pending = loc[p].pending
      /\ l.id = loc[p].id
      /\ l.status = "materialized"
  BY <1>0, Types DEF Local, Idle
<1> HIDE DEF l
<1>3. LeftOK("save", l, occ')
  BY <1>1, <1>2, LeftFacts DEF LeftOK, WorkPcs
<1>4. QED
  BY <1>0, <1>1, <1>3, GoLeft

LEMMA ReadOccurrencesLeft ==
  ASSUME Parameters, OneScanner, PendingInv, NEW p \in Scanners, ReadOccurrences(p)
  PROVE  PendingInv'
<1>0. TypeInv /\ TypeInv' /\ p \in Calls
  BY ReadOccurrencesType, LeftFacts
<1> DEFINE l == [loc[p] EXCEPT !.file = occ]
<1>1. pc[p] = "save" /\ Go(p, "write", l) /\ UNCHANGED occ
  BY DEF ReadOccurrences, At, Files
<1>2. /\ l.at = loc[p].at
      /\ l.pending = loc[p].pending
      /\ l.id = loc[p].id
      /\ l.status = loc[p].status
      /\ l.file = occ
  BY <1>0, Types DEF Local, Idle
<1> HIDE DEF l
<1>3. LeftOK("write", l, occ')
  BY <1>1, <1>2, LeftFacts DEF LeftOK, WorkPcs
<1>4. QED
  BY <1>0, <1>1, <1>3, GoLeft

LEMMA WriteOccurrencesLeft ==
  ASSUME Parameters, OneScanner, PendingInv, NEW p \in Scanners, WriteOccurrences(p)
  PROVE  PendingInv'
<1>0. TypeInv /\ TypeInv' /\ p \in Calls
  BY WriteOccurrencesType, LeftFacts
<1> DEFINE st == loc[p].status
           l == [loc[p] EXCEPT !.file = NoFile, !.status = "none"]
           m == [l EXCEPT !.at = Never]
           k == [l EXCEPT !.fired = l.id]
<1>1. pc[p] = "write" /\ p \notin Firers
  BY DEF WriteOccurrences, At, OneScanner
<1>2. /\ l.pending = loc[p].pending /\ l.id = loc[p].id /\ l.at = loc[p].at
      /\ l \in Local /\ l.id \in Ids
  BY <1>0, <1>1, Types, IdleType DEF Local, WorkPcs, Statuses
<1>3. m.pending = l.pending /\ k.pending = l.pending /\ k \in Local
  BY <1>2 DEF Local
<1>4. LeftOK("write", loc[p], occ)
  BY <1>1, LeftFacts
<1>5. occ' = [occ EXCEPT ![l.id] = st]
  BY <1>2, <1>4 DEF WriteOccurrences, LeftOK
<1>6. \/ st = "pending" /\ Go(p, "queue", l)
      \/ st = "summary" /\ Go(p, "advance", m)
      \/ st = "skipped" /\ GoOn(p, l)
      \/ st \notin {"pending", "summary", "skipped"} /\ l.at = Never /\ Go(p, "left", l)
      \/ st \notin {"pending", "summary", "skipped"} /\ l.at # Never /\ GoOn(p, k)
  <2>1. CASE st = "pending"
    BY <2>1, <1>1 DEF WriteOccurrences
  <2>2. CASE st = "summary"
    BY <2>2, <1>1 DEF WriteOccurrences
  <2>3. CASE st = "skipped"
    BY <2>3, <1>1 DEF WriteOccurrences
  <2>4. CASE st \notin {"pending", "summary", "skipped"}
    BY <2>4, <1>1 DEF WriteOccurrences
  <2>5. QED
    BY <2>1, <2>2, <2>3, <2>4
<1>7. /\ l.at # Never => l.pending = {}
      /\ st # "materialized" => l.pending = {}
      /\ Pending(occ) \subseteq l.pending \cup {l.id}
  BY <1>2, <1>4 DEF LeftOK, WorkPcs, st
<1> HIDE DEF st, l, m, k
<1>8. Pending(occ') \subseteq l.pending \cup (IF st = "pending" THEN {l.id} ELSE {})
  BY <1>0, <1>2, <1>5, <1>7 DEF TypeInv, TypeOK, Pending
<1>9. CASE st = "pending" /\ Go(p, "queue", l)
  <2>1. LeftOK("queue", l, occ')
    BY <1>7, <1>8, <1>9 DEF LeftOK, WorkPcs
  <2>2. QED
    BY <2>1, <1>0, <1>9, GoLeft
<1>10. CASE st = "summary" /\ Go(p, "advance", m)
  <2>1. LeftOK("advance", m, occ')
    BY <1>3, <1>7, <1>8, <1>10 DEF LeftOK, WorkPcs
  <2>2. QED
    BY <2>1, <1>0, <1>10, GoLeft
<1>11. CASE st = "skipped" /\ GoOn(p, l)
  <2>1. l.pending = {} /\ Pending(occ') = {}
    BY <1>7, <1>8, <1>11
  <2>2. QED
    BY <2>1, <1>0, <1>2, <1>11, GoOnLeft
<1>12. CASE /\ st \notin {"pending", "summary", "skipped"} /\ l.at = Never
            /\ Go(p, "left", l)
  <2>1. l.at = Never /\ Pending(occ') \subseteq l.pending
    BY <1>8, <1>12
  <2>2. LeftOK("left", l, occ')
    BY <2>1 DEF LeftOK, WorkPcs
  <2>3. QED
    BY <2>2, <1>0, <1>12, GoLeft
<1>13. CASE st \notin {"pending", "summary", "skipped"} /\ l.at # Never /\ GoOn(p, k)
  <2>1. k.pending = {} /\ Pending(occ') = {}
    BY <1>3, <1>7, <1>8, <1>13
  <2>2. QED
    BY <2>1, <1>0, <1>3, <1>13, GoOnLeft
<1>14. QED
  BY <1>6, <1>9, <1>10, <1>11, <1>12, <1>13

LEMMA AdvanceLeft ==
  ASSUME Parameters, OneScanner, PendingInv, NEW p \in Scanners, Advance(p)
  PROVE  PendingInv'
<1>0. TypeInv /\ TypeInv' /\ p \in Calls
  BY AdvanceType, LeftFacts
<1>1. QED
  BY <1>0, IdleLeft, GoLeft DEF Advance

LEMMA StopLeft ==
  ASSUME Parameters, OneScanner, PendingInv, NEW p \in Scanners, Stop(p)
  PROVE  PendingInv'
<1>0. TypeInv /\ TypeInv' /\ p \in Calls
  BY StopType, LeftFacts
<1>1. QED
  BY <1>0, IdleLeft, GoLeft DEF Stop, Files

\* A step of one call moves no other.
LEMMA StepMoves ==
  ASSUME TypeInv, NEW p \in Calls,
         Step(p) \/ StartScan(p) \/ FireNow(p) \/ ReadToSet(p)
  PROVE  \A q \in Calls : q # p => pc'[q] = pc[q] /\ loc'[q] = loc[q]
<1>1. pc \in [Calls -> Pcs] /\ loc \in [Calls -> Local]
  BY DEF TypeInv, TypeOK
<1>2. (\E c, l : Go(p, c, l)) =>
        \A q \in Calls : q # p => pc'[q] = pc[q] /\ loc'[q] = loc[q]
  BY <1>1 DEF Go
<1>3. \A l : GoOn(p, l) => \E c, m : Go(p, c, m)
  BY DEF GoOn
<1>4. WriteOccurrences(p) => \E c, l : Go(p, c, l)
  <2> SUFFICES ASSUME WriteOccurrences(p) PROVE \E c, l : Go(p, c, l)
    OBVIOUS
  <2> DEFINE l == [loc[p] EXCEPT !.file = NoFile, !.status = "none"]
  <2>1. \/ Go(p, "queue", l) \/ Go(p, "task", l) \/ Go(p, "advance", [l EXCEPT !.at = Never])
        \/ GoOn(p, l) \/ Go(p, "left", l) \/ Go(p, "idle", Idle)
        \/ GoOn(p, [l EXCEPT !.fired = l.id])
    BY DEF WriteOccurrences
  <2> HIDE DEF l
  <2>2. QED
    BY <2>1, <1>3
<1>5. \E c, l : Go(p, c, l)
  BY <1>3, <1>4 DEF Step, StartScan, FireNow, ReadToSet, ReadPending, FinishPending,
     AdvanceInactive, NothingDue, BeginDecisions, PassDecided, Fire, Skip, FindPredecessor,
     ReadSchedule, Advance, LookUpTask, CreateTask, UpdateDependencies, UpsertCandidate,
     ReadOccurrences, SetEnabled
<1>6. QED
  BY <1>2, <1>5

\* Time, the Work items' Runs, and the operators.
LEMMA OtherLeft ==
  ASSUME Parameters, OneScanner, PendingInv,
         \/ Tick \/ \E i \in Ids : EndTask(i) \/ ApproveTask(i) \/ StartAgain(i)
         \/ \E p \in Scanners, i \in Ids : StartTask(p, i)
  PROVE  PendingInv'
<1>1. UNCHANGED <<occ, pc, loc>>
  BY DEF Tick, EndTask, ApproveTask, StartAgain, StartTask, Files
<1>2. TypeInv'
  BY OtherType DEF PendingInv
<1>3. QED
  BY <1>1, <1>2 DEF PendingInv

LEMMA OperatorLeft ==
  ASSUME Parameters, OneScanner, PendingInv, NEW p \in Calls \ Scanners,
         ReadToSet(p) \/ SetEnabled(p) \/ Stop(p)
  PROVE  PendingInv'
<1>1. TypeInv /\ TypeInv'
  BY ReadToSetType, SetEnabledType, StopType DEF PendingInv
<1>2. UNCHANGED occ
  BY DEF ReadToSet, SetEnabled, Stop, Files
<1>3. /\ pc'[p] \in {"idle", "set"}
      /\ \A q \in Calls \ {p} : pc'[q] = pc[q] /\ loc'[q] = loc[q]
  BY <1>1 DEF ReadToSet, SetEnabled, Stop, Go, TypeInv, TypeOK
<1>4. Scanners \subseteq Calls \ {p}
  BY DEF Calls
<1>5. QED
  BY <1>1, <1>2, <1>3, <1>4 DEF PendingInv

LEMMA NextLeft ==
  ASSUME Parameters, OneScanner, PendingInv, [Next]_vars
  PROVE  PendingInv'
<1>1. CASE UNCHANGED vars
  BY <1>1 DEF vars, PendingInv, TypeInv, TypeOK, LocalOK
<1>2. ASSUME NEW p \in Scanners, Step(p) PROVE PendingInv'
  <2>1. ~SetEnabled(p)
    BY LeftFacts DEF SetEnabled, At, LeftOK
  <2>2. QED
    BY <1>2, <2>1, ReadPendingLeft, FinishPendingLeft, AdvanceInactiveLeft, NothingDueLeft,
       BeginDecisionsLeft, PassDecidedLeft, FireLeft, SkipLeft, FindPredecessorLeft,
       ReadScheduleLeft, AdvanceLeft, LookUpTaskLeft, CreateTaskLeft,
       UpdateDependenciesLeft, UpsertCandidateLeft, ReadOccurrencesLeft,
       WriteOccurrencesLeft DEF Step
<1>3. ASSUME NEW p \in Calls \ Scanners, Step(p) PROVE PendingInv'
  <2>1. pc[p] \in {"idle", "set"}
    BY DEF PendingInv
  <2>2. SetEnabled(p)
    BY <1>3, <2>1 DEF Step, ReadPending, FinishPending, AdvanceInactive, NothingDue,
       BeginDecisions, PassDecided, Fire, Skip, FindPredecessor, ReadSchedule, Advance,
       LookUpTask, CreateTask, UpdateDependencies, UpsertCandidate, ReadOccurrences,
       WriteOccurrences, At
  <2>3. QED
    BY <2>2, OperatorLeft
<1>4. ASSUME NEW p \in Calls, StartScan(p) \/ FireNow(p) \/ ReadToSet(p) \/ Stop(p)
      PROVE  PendingInv'
  <2>1. ~FireNow(p)
    BY DEF FireNow, OneScanner
  <2>2. CASE p \in Scanners
    BY <1>4, <2>1, <2>2, StartScanLeft, StopLeft DEF ReadToSet, OneScanner
  <2>3. CASE p \notin Scanners
    BY <1>4, <2>1, <2>3, OperatorLeft DEF StartScan
  <2>4. QED
    BY <2>2, <2>3
<1>5. QED
  BY <1>1, <1>2, <1>3, <1>4, OtherLeft DEF Next

\* The steps with which a scan returns: all but a stop come when nothing is left.
LEMMA ReturnSteps ==
  ASSUME Parameters, OneScanner, PendingInv, NEW p \in Scanners, Step(p), pc'[p] = "idle"
  PROVE  \A i \in Ids : occ'[i] # "pending"
<1>1. TypeInv /\ p \in Calls /\ pc \in [Calls -> Pcs] /\ pc[p] # "set" /\ p \notin Firers
  BY LeftFacts DEF LeftOK, TypeInv, TypeOK, OneScanner
<1>2. \A c, l : Go(p, c, l) => pc'[p] = c
  BY <1>1 DEF Go
<1>3. \A l : ~GoOn(p, l)
  BY <1>2 DEF GoOn
<1>4. ~ (ReadPending(p) \/ FinishPending(p) \/ AdvanceInactive(p) \/ BeginDecisions(p))
  BY <1>2 DEF ReadPending, FinishPending, AdvanceInactive, BeginDecisions
<1>5. ~ (PassDecided(p) \/ Fire(p) \/ Skip(p) \/ FindPredecessor(p) \/ ReadSchedule(p))
  BY <1>2, <1>3 DEF PassDecided, Fire, Skip, FindPredecessor, ReadSchedule
<1>6. ~ (LookUpTask(p) \/ CreateTask(p) \/ UpdateDependencies(p) \/ UpsertCandidate(p))
  BY <1>2 DEF LookUpTask, CreateTask, UpdateDependencies, UpsertCandidate
<1>7. ~ (ReadOccurrences(p) \/ SetEnabled(p))
  BY <1>1, <1>2 DEF ReadOccurrences, SetEnabled, At
<1>8. ~WriteOccurrences(p)
  <2> DEFINE st == loc[p].status
             l == [loc[p] EXCEPT !.file = NoFile, !.status = "none"]
  <2>1. WriteOccurrences(p) =>
          \/ Go(p, "queue", l) \/ Go(p, "advance", [l EXCEPT !.at = Never]) \/ GoOn(p, l)
          \/ Go(p, "left", l) \/ GoOn(p, [l EXCEPT !.fired = l.id])
    BY <1>1 DEF WriteOccurrences
  <2> HIDE DEF l
  <2>2. QED
    BY <2>1, <1>2, <1>3
<1>9. NothingDue(p) \/ Advance(p)
  BY <1>4, <1>5, <1>6, <1>7, <1>8 DEF Step
<1>10. pc[p] \in {"left", "advanced"} /\ loc[p].pending = {} /\ UNCHANGED occ
  BY <1>9, LeftFacts DEF NothingDue, Advance, At, Files, LeftOK
<1>11. QED
  BY <1>10, LeftFacts DEF LeftOK, Pending

\* Whatever the policies and the bounds, and however often operators pause and resume
\* the schedule: a scan that returns leaves no pending occurrence, those of a scan that
\* was stopped included.
THEOREM NothingLeftPendingAlways ==
  ASSUME Parameters, OneScanner PROVE Spec => NothingLeftPending
<1>1. ASSUME PendingInv, [Next]_vars PROVE [ScanLeavesNothing]_vars
  <2> SUFFICES ASSUME Next, NEW p \in Scanners, pc[p] # "idle", pc'[p] = "idle",
                      stops' = stops
               PROVE  \A i \in Ids : occ'[i] # "pending"
    BY <1>1 DEF ScanLeavesNothing
  <2>1. TypeInv /\ p \in Calls /\ pc \in [Calls -> Pcs]
    BY <1>1, LeftFacts DEF TypeInv, TypeOK
  <2>2. Step(p)
    <3>1. ASSUME NEW q \in Calls, Step(q) \/ StartScan(q) \/ FireNow(q) \/ ReadToSet(q)
          PROVE  q = p
      BY <2>1, <3>1, StepMoves
    <3>2. ~ (StartScan(p) \/ FireNow(p) \/ ReadToSet(p))
      BY DEF StartScan, FireNow, ReadToSet, At
    <3>3. \A q \in Calls : ~Stop(q)
      BY <2>1 DEF Stop, TypeInv, TypeOK
    <3>4. \/ \E q \in Calls : Step(q) \/ StartScan(q) \/ FireNow(q) \/ ReadToSet(q)
          \/ UNCHANGED pc
      BY <3>3 DEF Next, StartTask, EndTask, ApproveTask, StartAgain, Tick
    <3>5. QED
      BY <3>1, <3>2, <3>4
  <2>3. QED
    BY <2>2, <1>1, ReturnSteps
<1>2. ASSUME Init PROVE PendingInv
  <2>1. \A p \in Calls : pc[p] = "idle" /\ loc[p] = Idle
    BY <1>2 DEF Init
  <2>2. QED
    BY <1>2, <2>1, InitType, IdleLeft DEF PendingInv, Calls
<1>3. ASSUME PendingInv, [Next]_vars PROVE PendingInv'
  BY <1>3, NextLeft
<1>4. QED
  BY <1>1, <1>2, <1>3, PTL DEF Spec, NothingLeftPending

-----------------------------------------------------------------------------
(* The same scheduler and operators: no Work item is created twice.         *)

\* A Work item that a scan is about to create does not exist.
CreatesNew == \A p \in Scanners : pc[p] = "create" => task[loc[p].id] = "none"

\* A scan comes to create a Work item when it has found none, and only then makes it.
LEMMA StepCreates ==
  ASSUME TypeInv, NEW p \in Calls, Step(p)
  PROVE  /\ pc'[p] = "create" => UNCHANGED task /\ task[loc'[p].id] = "none"
         /\ CreateTask(p) \/ UNCHANGED task
<1>1. pc \in [Calls -> Pcs] /\ loc \in [Calls -> Local]
  BY DEF TypeInv, TypeOK
<1>2. \A c, l : Go(p, c, l) => pc'[p] = c /\ loc'[p] = l
  BY <1>1 DEF Go
<1>3. \A l : GoOn(p, l) => pc'[p] # "create"
  BY <1>2 DEF GoOn
<1>4. CASE WriteOccurrences(p)
  <2> DEFINE l == [loc[p] EXCEPT !.file = NoFile, !.status = "none"]
  <2>1. /\ \/ Go(p, "queue", l) \/ Go(p, "task", l) \/ Go(p, "advance", [l EXCEPT !.at = Never])
           \/ GoOn(p, l) \/ Go(p, "left", l) \/ Go(p, "idle", Idle)
           \/ GoOn(p, [l EXCEPT !.fired = l.id])
        /\ UNCHANGED task
    BY <1>4 DEF WriteOccurrences
  <2> HIDE DEF l
  <2>2. QED
    BY <2>1, <1>2, <1>3
<1>5. CASE LookUpTask(p)
  BY <1>5, <1>2 DEF LookUpTask, Files
<1>6. CASE CreateTask(p)
  BY <1>6, <1>2 DEF CreateTask
<1>7. CASE ReadPending(p) \/ FinishPending(p) \/ AdvanceInactive(p) \/ NothingDue(p)
           \/ BeginDecisions(p) \/ ReadOccurrences(p)
  <2>0. PICK c \in {"left", "task", "advance", "idle", "decide", "write"} : \E l : Go(p, c, l)
    BY <1>7 DEF ReadPending, FinishPending, AdvanceInactive, NothingDue, BeginDecisions,
       ReadOccurrences
  <2>1. PICK l : Go(p, c, l)
    BY <2>0
  <2>2. UNCHANGED task
    BY <1>7 DEF ReadPending, FinishPending, AdvanceInactive, NothingDue, BeginDecisions,
       ReadOccurrences, Files
  <2>3. QED
    BY <2>1, <2>2, <1>2
<1>8. CASE PassDecided(p) \/ Fire(p) \/ Skip(p) \/ FindPredecessor(p) \/ ReadSchedule(p)
  BY <1>8, <1>2, <1>3 DEF PassDecided, Fire, Skip, FindPredecessor, ReadSchedule, Files
<1>9. CASE Advance(p) \/ UpdateDependencies(p) \/ UpsertCandidate(p) \/ SetEnabled(p)
  BY <1>9, <1>2 DEF Advance, UpdateDependencies, UpsertCandidate, SetEnabled
<1>10. QED
  BY <1>4, <1>5, <1>6, <1>7, <1>8, <1>9 DEF Step

LEMMA NextCreates ==
  ASSUME Parameters, OneScanner, PendingInv, CreatesNew, [Next]_vars
  PROVE  CreatesNew' /\ TaskKept
<1>1. TypeInv /\ pc \in [Calls -> Pcs] /\ task \in [Ids -> TaskStatuses]
  BY DEF PendingInv, TypeInv, TypeOK
<1>2. ASSUME UNCHANGED task, \A p \in Scanners : pc'[p] # "create" \/ (pc'[p] = pc[p] /\ loc'[p] = loc[p])
      PROVE  CreatesNew' /\ TaskKept
  BY <1>2 DEF CreatesNew, TaskKept
<1>3. CASE UNCHANGED vars
  BY <1>2, <1>3 DEF vars
<1>4. ASSUME NEW p \in Scanners, Step(p) PROVE CreatesNew' /\ TaskKept
  <2>1. p \in Calls /\ \A q \in Scanners : q = p
    BY DEF Calls, OneScanner
  <2>2. CreatesNew'
    BY <1>1, <1>4, <2>1, StepCreates DEF CreatesNew
  <2>3. CASE CreateTask(p)
    <3>1. task[loc[p].id] = "none"
      BY <2>3 DEF CreateTask, At, CreatesNew
    <3>2. PICK s \in {"ready", "draft"} : task' = [task EXCEPT ![loc[p].id] = s]
      BY <2>3, NewTask
    <3>3. QED
      BY <3>1, <3>2, <2>2, <1>1 DEF TaskKept
  <2>4. CASE UNCHANGED task
    BY <2>2, <2>4 DEF TaskKept
  <2>5. QED
    BY <1>1, <1>4, <2>1, <2>3, <2>4, StepCreates
<1>5. ASSUME NEW p \in Calls \ Scanners, Step(p) PROVE CreatesNew' /\ TaskKept
  <2>1. pc[p] \in {"idle", "set"}
    BY DEF PendingInv
  <2>2. UNCHANGED task
    BY <1>1, <1>5, <2>1, StepCreates DEF CreateTask, At
  <2>3. \A q \in Scanners : q \in Calls /\ q # p
    BY DEF Calls
  <2>4. QED
    BY <1>1, <1>2, <1>5, <2>2, <2>3, StepMoves
<1>6. ASSUME NEW p \in Calls, StartScan(p) \/ FireNow(p) \/ ReadToSet(p) \/ Stop(p)
      PROVE  CreatesNew' /\ TaskKept
  <2>0. PICK c \in {"pending", "save", "set", "idle"} : \E l : Go(p, c, l)
    BY <1>6 DEF StartScan, FireNow, ReadToSet, Stop
  <2>1. PICK l : Go(p, c, l)
    BY <2>0
  <2>2. UNCHANGED task
    BY <1>6 DEF StartScan, FireNow, ReadToSet, Stop, Files
  <2>3. \A q \in Scanners : q \in Calls
    BY DEF Calls
  <2>4. loc \in [Calls -> Local]
    BY <1>1 DEF TypeInv, TypeOK
  <2>5. QED
    BY <1>1, <1>2, <2>1, <2>2, <2>3, <2>4 DEF Go
<1>7. ASSUME NEW i \in Ids, EndTask(i) \/ ApproveTask(i) \/ StartAgain(i)
                            \/ \E p \in Scanners : StartTask(p, i)
      PROVE  CreatesNew' /\ TaskKept
  <2>1. UNCHANGED <<pc, loc>> /\ task[i] # "none"
    BY <1>7 DEF EndTask, ApproveTask, StartAgain, StartTask
  <2>2. \A j \in Ids : task[j] = "none" => task'[j] = "none"
    BY <1>1, <1>7, <2>1 DEF EndTask, ApproveTask, StartAgain, StartTask
  <2>3. \A p \in Scanners : pc[p] = "create" => loc[p].id \in Ids
    BY <1>1 DEF TypeInv, LocalOK, WorkPcs, Calls
  <2>4. CreatesNew'
    BY <2>1, <2>2, <2>3 DEF CreatesNew
  <2>5. TaskKept
    BY <1>1, <1>7 DEF EndTask, ApproveTask, StartAgain, StartTask, TaskKept
  <2>6. QED
    BY <2>4, <2>5
<1>8. CASE Tick
  BY <1>2, <1>8 DEF Tick, Files
<1>9. QED
  BY <1>3, <1>4, <1>5, <1>6, <1>7, <1>8 DEF Next

\* Nor does one scheduler, wherever its scans stop and whoever pauses and resumes the
\* schedule meanwhile, create a Work item a second time.
THEOREM NoWorkTwiceAlways ==
  ASSUME Parameters, OneScanner PROVE Spec => NoWorkTwice
<1> DEFINE Inv == PendingInv /\ CreatesNew
<1>1. ASSUME Init PROVE Inv
  <2>1. \A p \in Calls : pc[p] = "idle" /\ loc[p] = Idle
    BY <1>1 DEF Init
  <2>2. QED
    BY <1>1, <2>1, InitType, IdleLeft DEF PendingInv, CreatesNew, Calls
<1>2. ASSUME Inv, [Next]_vars PROVE Inv' /\ [TaskKept]_vars
  BY <1>2, NextLeft, NextCreates
<1>3. QED
  BY <1>1, <1>2, PTL DEF Spec, NoWorkTwice
==============================================================================
