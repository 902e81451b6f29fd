------------------------ MODULE ScheduleBoundsProofs -------------------------
(***************************************************************************)
(* More theorems about Schedules: how much work the firings of a schedule  *)
(* may make. A catch-up policy starts no more than its limit of what the   *)
(* schedule has not passed yet, and an overlap policy other than `allow`   *)
(* lets one Work item run at a time.                                       *)
(***************************************************************************)
EXTENDS SchedulesProofs

-----------------------------------------------------------------------------
(* Catch-up. One scheduler, whose scans may stop anywhere, and operators   *)
(* who fire by hand occurrences of their own, whose writes may undo those  *)
(* of the scan.                                                            *)

Unpaused ==
  /\ Pausers = {} /\ Scanners \cap Firers = {} /\ Manual \cap Grid = {}
  /\ \A p, q \in Scanners : p = q

\* Instants that a call with the locals `l`, or what it will write, takes up.
Claims(c, l, t) ==
  \/ t \in l.pending \/ l.file[t] = "pending"
  \/ c \in WorkPcs /\ l.id = t /\ l.status \notin {"skipped", "summary"}

\* The limit leaves room for the instant: few enough come before it.
Before(s, t) == {u \in Fires(s) : s.next <= u /\ u < t}
Within(s, t) ==
  s.misfire = "catch_up" =>
    t \in Fires(s) /\ (s.next <= t => Cardinality(Before(s, t)) < Limit)

\* A scan holds the stored schedule, and it has missed the instant it is at.
ScanningOK(c, l, s) ==
  /\ c # "set"
  /\ c # "idle" => l.sched = s
  /\ c \in {"pending", "left"} => l.at = Never /\ l.status = "none"
  /\ c = "decide" => l.at \in Missed(l)
  /\ c \in WorkPcs /\ l.at # Never => l.at \in Missed(l)
  /\ c \in WorkPcs /\ l.status \in {"skipped", "summary"} =>
       c \in {"save", "write"} /\ l.at # Never
  /\ c \in {"advance", "advanced"} /\ Armed(l.sched) => Missed(l) # {}
FiringOK(c, l) ==
  /\ c \in WorkPcs \cup {"idle"}
  /\ c \in WorkPcs => l.id \in Manual /\ l.status \notin {"skipped", "summary"}
CallOK(p, c, l, s) ==
  /\ p \in Scanners => ScanningOK(c, l, s)
  /\ p \in Firers => FiringOK(c, l)
  /\ \A t \in Instants : Claims(c, l, t) => Within(s, t)

StoredOK(s, o, w) ==
  \A t \in Instants : w[t] # "none" \/ o[t] = "pending" => Within(s, t)
BoundInv ==
  /\ TypeInv
  /\ schedule.next \in Fires(schedule) \cup {Never}
  /\ OnceFires(schedule)
  /\ StoredOK(schedule, occ, task)
  /\ \A p \in Calls : CallOK(p, pc[p], loc[p], schedule)

LEMMA BoundFacts ==
  ASSUME Unpaused, BoundInv, NEW p \in Calls
  PROVE  /\ TypeInv /\ StoredOK(schedule, occ, task)
         /\ CallOK(p, pc[p], loc[p], schedule)
         /\ p \in Scanners \/ p \in Firers
         /\ p \in Firers => p \notin Scanners
  BY DEF BoundInv, Unpaused, Calls

LEMMA GoBound ==
  ASSUME Unpaused, BoundInv, TypeInv', UNCHANGED schedule,
         StoredOK(schedule, occ', task'),
         NEW p \in Calls, NEW c, NEW l, Go(p, c, l), CallOK(p, c, l, schedule)
  PROVE  BoundInv'
<1>1. /\ pc'[p] = c /\ loc'[p] = l
      /\ \A q \in Calls \ {p} : pc'[q] = pc[q] /\ loc'[q] = loc[q]
  BY DEF Go, BoundInv, TypeInv, TypeOK
<1>2. \A q \in Calls : CallOK(q, pc'[q], loc'[q], schedule)
  BY <1>1 DEF BoundInv
<1>3. schedule'.next \in Fires(schedule') \cup {Never}
  BY DEF BoundInv
<1> QED BY <1>2, <1>3 DEF BoundInv, OnceFires, Fires

\* A step that leaves the occurrences and the Work items alone.
LEMMA GoKept ==
  ASSUME Unpaused, BoundInv, TypeInv', UNCHANGED <<schedule, occ, task>>,
         NEW p \in Calls, NEW c, NEW l, Go(p, c, l), CallOK(p, c, l, schedule)
  PROVE  BoundInv'
<1>1. StoredOK(schedule, occ', task') BY DEF BoundInv
<1> QED BY <1>1, GoBound

\* On to the next instant: it was missed, or the scan is done with what it missed.
LEMMA GoOnCall ==
  ASSUME Parameters, Unpaused, BoundInv, TypeInv', UNCHANGED schedule,
         StoredOK(schedule, occ', task'),
         NEW p \in Scanners, p \in Calls, p \notin Firers, NEW l \in Local, GoOn(p, l),
         l.sched = schedule, l.at \in Missed(l),
         \A t \in Instants : t \in l.pending \/ l.file[t] = "pending" => Within(schedule, t)
  PROVE  BoundInv'
<1> DEFINE R == {t \in Missed(l) : t > l.at}
           n == First(R)
           c == IF n = Never THEN "advance" ELSE "decide"
           m == [l EXCEPT !.at = n]
<1>1. n \in R \cup {Never} BY FirstType DEF Missed, Fires
<1>2. Go(p, c, m) BY DEF GoOn
<1>3. m.sched = l.sched /\ m.now = l.now /\ m.at = n /\ m.pending = l.pending /\ m.file = l.file
  BY DEF Local
<1>4. Missed(m) = Missed(l) BY <1>3, SameMissed
<1>5. c \in {"advance", "decide"} /\ (c = "decide" => n # Never) OBVIOUS
<1>6. R \subseteq Missed(l) OBVIOUS
<1> HIDE DEF R, n, c, m
<1>7. ScanningOK(c, m, schedule)
  BY <1>1, <1>3, <1>4, <1>5, <1>6 DEF ScanningOK, WorkPcs
<1>8. CallOK(p, c, m, schedule)
  BY <1>3, <1>5, <1>7 DEF CallOK, Claims, WorkPcs
<1> QED BY <1>2, <1>8, GoBound

LEMMA IdleBound ==
  ASSUME NEW p, NEW s
  PROVE  CallOK(p, "idle", Idle, s)
<1>1. \A t \in Instants : ~Claims("idle", Idle, t)
  BY DEF Claims, Idle, NoFile, WorkPcs, Ids
<1>2. ScanningOK("idle", Idle, s) /\ FiringOK("idle", Idle)
  BY DEF ScanningOK, FiringOK, WorkPcs
<1> QED BY <1>1, <1>2 DEF CallOK

-----------------------------------------------------------------------------
(* The steps of a scan.                                                    *)

LEMMA StartScanBound ==
  ASSUME Parameters, Unpaused, BoundInv, NEW p \in Calls, StartScan(p)
  PROVE  BoundInv'
<1> DEFINE l == [Idle EXCEPT !.sched = schedule, !.now = clock]
<1>0. TypeInv /\ TypeInv' /\ p \notin Firers
  BY StartScanType, BoundFacts DEF StartScan
<1>1. Go(p, "pending", l) /\ UNCHANGED <<schedule, occ, task>> BY DEF StartScan, Files
<1>2. /\ l.sched = schedule /\ l.at = Never /\ l.pending = {} /\ l.file = NoFile
      /\ l.status = "none"
  BY DEF Idle
<1> HIDE DEF l
<1>3. \A t \in Instants : ~Claims("pending", l, t)
  BY <1>2 DEF Claims, NoFile, WorkPcs, Ids
<1>4. CallOK(p, "pending", l, schedule)
  BY <1>0, <1>2, <1>3 DEF CallOK, ScanningOK, WorkPcs
<1> QED BY <1>0, <1>1, <1>4, GoKept

LEMMA ReadPendingBound ==
  ASSUME Parameters, Unpaused, BoundInv, NEW p \in Calls, ReadPending(p)
  PROVE  BoundInv'
<1> DEFINE P == {i \in Ids : occ[i] = "pending"}
           l == [loc[p] EXCEPT !.pending = P]
<1>0. TypeInv /\ TypeInv' /\ CallOK(p, "pending", loc[p], schedule) /\ p \notin Firers
  BY ReadPendingType, BoundFacts DEF ReadPending, At, CallOK, FiringOK, WorkPcs
<1>1. Go(p, "left", l) /\ UNCHANGED <<schedule, occ, task>> BY DEF ReadPending, Files
<1>2. /\ l.sched = loc[p].sched /\ l.at = loc[p].at /\ l.pending = P
      /\ l.file = loc[p].file /\ l.status = loc[p].status
  BY <1>0, Types DEF Local
<1> HIDE DEF l
<1>3. ScanningOK("left", l, schedule) \/ p \notin Scanners
  BY <1>0, <1>2 DEF CallOK, ScanningOK, WorkPcs
<1>4. \A t \in Instants : Claims("left", l, t) => Within(schedule, t)
  BY <1>0, <1>2, BoundFacts DEF CallOK, Claims, WorkPcs, StoredOK
<1>5. CallOK(p, "left", l, schedule) BY <1>0, <1>3, <1>4 DEF CallOK
<1> QED BY <1>0, <1>1, <1>5, GoKept

LEMMA FinishPendingBound ==
  ASSUME Parameters, Unpaused, BoundInv, NEW p \in Calls, FinishPending(p)
  PROVE  BoundInv'
<1>1. PICK i \in loc[p].pending :
        Go(p, "task", [loc[p] EXCEPT !.id = i, !.pending = @ \ {i}])
  BY DEF FinishPending
<1> DEFINE l == [loc[p] EXCEPT !.id = i, !.pending = @ \ {i}]
<1>0. TypeInv /\ TypeInv' /\ CallOK(p, "left", loc[p], schedule) /\ p \notin Firers
  BY FinishPendingType, BoundFacts DEF FinishPending, At, CallOK, FiringOK, WorkPcs
<1>2. /\ l.sched = loc[p].sched /\ l.at = loc[p].at /\ l.id = i
      /\ l.pending \subseteq loc[p].pending /\ l.file = loc[p].file
      /\ l.status = loc[p].status
  BY <1>0, Types DEF Local
<1>3. Go(p, "task", l) /\ UNCHANGED <<schedule, occ, task>> BY <1>1 DEF FinishPending, Files
<1> HIDE DEF l
<1>4. \A t \in Instants : Claims("task", l, t) => Within(schedule, t)
  BY <1>0, <1>1, <1>2 DEF CallOK, Claims, WorkPcs
<1>5. ScanningOK("task", l, schedule) \/ p \notin Scanners
  BY <1>0, <1>2 DEF CallOK, ScanningOK, WorkPcs
<1>6. CallOK(p, "task", l, schedule) BY <1>0, <1>4, <1>5 DEF CallOK
<1> QED BY <1>0, <1>3, <1>6, GoKept

LEMMA AdvanceInactiveBound ==
  ASSUME Parameters, Unpaused, BoundInv, NEW p \in Calls, AdvanceInactive(p)
  PROVE  BoundInv'
<1> DEFINE l == [loc[p] EXCEPT !.fired = loc[p].id]
<1>0. TypeInv /\ TypeInv' /\ CallOK(p, "left", loc[p], schedule) /\ p \notin Firers
  BY AdvanceInactiveType, BoundFacts DEF AdvanceInactive, At, CallOK, FiringOK, WorkPcs
<1>1. /\ Go(p, "advance", l) /\ UNCHANGED <<schedule, occ, task>> /\ ~Armed(loc[p].sched)
  BY DEF AdvanceInactive, Files
<1>2. l.sched = loc[p].sched /\ l.pending = loc[p].pending /\ l.file = loc[p].file
  BY <1>0, Types DEF Local
<1> HIDE DEF l
<1>3. CallOK(p, "advance", l, schedule)
  BY <1>0, <1>1, <1>2 DEF CallOK, ScanningOK, Claims, WorkPcs
<1> QED BY <1>0, <1>1, <1>3, GoKept

LEMMA NothingDueBound ==
  ASSUME Parameters, Unpaused, BoundInv, NEW p \in Calls, NothingDue(p)
  PROVE  BoundInv'
<1>1. TypeInv' /\ Go(p, "idle", Idle) /\ UNCHANGED <<schedule, occ, task>>
  BY NothingDueType DEF NothingDue, BoundInv, Files
<1> QED BY <1>1, IdleBound, GoKept

LEMMA BeginDecisionsBound ==
  ASSUME Parameters, Unpaused, BoundInv, NEW p \in Calls, BeginDecisions(p)
  PROVE  BoundInv'
<1> DEFINE l == [loc[p] EXCEPT !.at = loc[p].sched.next, !.id = NoOcc]
<1>0. /\ TypeInv /\ TypeInv' /\ CallOK(p, "left", loc[p], schedule)
      /\ p \notin Firers /\ p \in Scanners
  BY BeginDecisionsType, BoundFacts DEF BeginDecisions, At, CallOK, FiringOK, WorkPcs
<1>1. /\ Go(p, "decide", l) /\ UNCHANGED <<schedule, occ, task>> /\ Missed(loc[p]) # {}
  BY DEF BeginDecisions, Files
<1>2. /\ l.sched = loc[p].sched /\ l.now = loc[p].now /\ l.at = loc[p].sched.next
      /\ l.pending = loc[p].pending /\ l.file = loc[p].file
  BY <1>0, Types DEF Local
<1>3. loc[p].sched = schedule BY <1>0 DEF CallOK, ScanningOK
<1>4. Missed(l) = Missed(loc[p]) BY <1>2, SameMissed
<1>5. PICK t \in Missed(l) : TRUE BY <1>1, <1>4
<1> DEFINE n == schedule.next
<1>6. n <= t /\ t <= l.now /\ t \in Nat /\ t <= Horizon /\ l.now \in Nat
  BY <1>0, <1>2, <1>3, <1>5, Types DEF Missed, Fires, Instants, Parameters
<1>7. n \in Fires(schedule)
  BY <1>6 DEF BoundInv, Never, Parameters
<1>8. n \in Nat /\ n <= l.now
  BY <1>6, <1>7 DEF Fires, Instants, Parameters
<1>9. l.at \in Missed(l)
  BY <1>2, <1>3, <1>7, <1>8 DEF Missed, Fires, Instants, Parameters
<1> HIDE DEF l, n
<1>10. CallOK(p, "decide", l, schedule)
  BY <1>0, <1>2, <1>3, <1>9 DEF CallOK, ScanningOK, Claims, WorkPcs
<1> QED BY <1>0, <1>1, <1>10, GoKept

LEMMA PassDecidedBound ==
  ASSUME Parameters, Unpaused, BoundInv, NEW p \in Calls, PassDecided(p)
  PROVE  BoundInv'
<1> DEFINE l == IF occ[loc[p].at] = "materialized"
                THEN [loc[p] EXCEPT !.fired = loc[p].at] ELSE loc[p]
<1>0. /\ TypeInv /\ TypeInv' /\ CallOK(p, "decide", loc[p], schedule)
      /\ p \notin Firers /\ p \in Scanners
  BY PassDecidedType, BoundFacts DEF PassDecided, At, CallOK, FiringOK, WorkPcs
<1>1. GoOn(p, l) /\ UNCHANGED <<schedule, occ, task>> BY DEF PassDecided, Files
<1>2. loc[p].at \in Instants BY <1>0, Types DEF PassDecided, At
<1>3. /\ l \in Local /\ l.sched = loc[p].sched /\ l.now = loc[p].now /\ l.at = loc[p].at
      /\ l.pending = loc[p].pending /\ l.file = loc[p].file
  BY <1>0, <1>2, Types DEF Local, Ids
<1>4. loc[p].sched = schedule /\ loc[p].at \in Missed(loc[p])
  BY <1>0 DEF CallOK, ScanningOK
<1>5. l.at \in Missed(l) BY <1>3, <1>4, SameMissed
<1> HIDE DEF l
<1>6. \A t \in Instants : t \in l.pending \/ l.file[t] = "pending" => Within(schedule, t)
  BY <1>0, <1>3 DEF CallOK, Claims
<1>7. StoredOK(schedule, occ', task') BY <1>1 DEF BoundInv
<1> QED BY <1>0, <1>1, <1>3, <1>4, <1>5, <1>6, <1>7, GoOnCall

\* The one step that takes up a new instant: the limit leaves room for it.
LEMMA FireBound ==
  ASSUME Parameters, Unpaused, BoundInv, NEW p \in Calls, Fire(p)
  PROVE  BoundInv'
<1> DEFINE l == [loc[p] EXCEPT !.id = loc[p].at, !.status = "pending"]
<1>0. /\ TypeInv /\ TypeInv' /\ CallOK(p, "decide", loc[p], schedule)
      /\ p \notin Firers /\ p \in Scanners
  BY FireType, BoundFacts DEF Fire, At, CallOK, FiringOK, WorkPcs
<1>1. /\ UNCHANGED <<schedule, occ, task>> /\ \E onTime \in BOOLEAN : MayFire(l, onTime)
      /\ Go(p, "save", l) \/ Go(p, "queue", l)
  BY DEF Fire, Files
<1>2. /\ l.sched = loc[p].sched /\ l.now = loc[p].now /\ l.at = loc[p].at
      /\ l.id = loc[p].at /\ l.status = "pending"
      /\ l.pending = loc[p].pending /\ l.file = loc[p].file
  BY <1>0, Types DEF Local
<1>3. loc[p].sched = schedule /\ loc[p].at \in Missed(loc[p])
  BY <1>0 DEF CallOK, ScanningOK
<1>4. l.at \in Missed(l) BY <1>2, <1>3, SameMissed
<1> HIDE DEF l
<1>5. Within(schedule, l.at)
  <2> SUFFICES ASSUME schedule.misfire = "catch_up"
               PROVE  l.at \in Fires(schedule) /\ Cardinality(Before(schedule, l.at)) < Limit
    BY DEF Within
  <2>1. Index(l) < Limit BY <1>1, <1>2, <1>3 DEF MayFire
  <2>2. l.at \in Fires(schedule) /\ l.at <= l.now
    BY <1>2, <1>3, <1>4 DEF Missed
  <2>3. \A u \in Fires(schedule) : u \in Nat BY DEF Fires, Instants, Parameters
  <2>4. l.now \in Nat BY <1>0, <1>2, Types
  <2>5. \A u \in Fires(schedule) : u < l.at => u <= l.now
    BY <2>2, <2>3, <2>4
  <2>6. {t \in Missed(l) : t < l.at} = Before(schedule, l.at)
    BY <1>2, <1>3, <2>5 DEF Missed, Before
  <2> QED BY <2>1, <2>2, <2>6 DEF Index
<1>6. \A t \in Instants : Claims("save", l, t) \/ Claims("queue", l, t) => Within(schedule, t)
  BY <1>0, <1>2, <1>5 DEF CallOK, Claims, WorkPcs
<1>7. ScanningOK("save", l, schedule) /\ ScanningOK("queue", l, schedule)
  BY <1>2, <1>3, <1>4 DEF ScanningOK, WorkPcs
<1>8. CallOK(p, "save", l, schedule) /\ CallOK(p, "queue", l, schedule)
  BY <1>0, <1>6, <1>7 DEF CallOK
<1> QED BY <1>0, <1>1, <1>8, GoKept

LEMMA SkipBound ==
  ASSUME Parameters, Unpaused, BoundInv, NEW p \in Calls, Skip(p)
  PROVE  BoundInv'
<1> DEFINE s == IF loc[p].skips >= MaxSkips THEN "summary" ELSE "skipped"
           k == loc[p].skips + 1
           l == [loc[p] EXCEPT !.id = loc[p].at, !.skips = k, !.status = s]
<1>0. /\ TypeInv /\ TypeInv' /\ CallOK(p, "decide", loc[p], schedule)
      /\ p \notin Firers /\ p \in Scanners
  BY SkipType, BoundFacts DEF Skip, At, CallOK, FiringOK, WorkPcs
<1>1. Go(p, "save", l) /\ UNCHANGED <<schedule, occ, task>> BY DEF Skip, Files
<1>2. s \in {"summary", "skipped"} OBVIOUS
<1> HIDE DEF s, k
<1>3. /\ l.sched = loc[p].sched /\ l.now = loc[p].now /\ l.at = loc[p].at /\ l.status = s
      /\ l.pending = loc[p].pending /\ l.file = loc[p].file
  BY <1>0, Types DEF Local
<1>4. loc[p].sched = schedule /\ loc[p].at \in Missed(loc[p]) /\ loc[p].at \in Instants
  BY <1>0, Types DEF CallOK, ScanningOK, Skip, At
<1>5. l.at \in Missed(l) BY <1>3, <1>4, SameMissed
<1> HIDE DEF l
<1>7. l.at # Never BY <1>3, <1>4 DEF Instants, Never, Parameters
<1>6. CallOK(p, "save", l, schedule)
  BY <1>0, <1>2, <1>3, <1>4, <1>5, <1>7 DEF CallOK, ScanningOK, Claims, WorkPcs
<1> QED BY <1>0, <1>1, <1>6, GoKept

LEMMA ReadScheduleBound ==
  ASSUME Parameters, Unpaused, BoundInv, NEW p \in Calls, ReadSchedule(p)
  PROVE  BoundInv'
<1> DEFINE l == [loc[p] EXCEPT !.sched = schedule]
<1>0. /\ TypeInv /\ TypeInv' /\ CallOK(p, "advance", loc[p], schedule)
      /\ p \notin Firers /\ p \in Scanners
  BY ReadScheduleType, BoundFacts DEF ReadSchedule, At, CallOK, FiringOK, WorkPcs
<1>1. Go(p, "advanced", l) /\ UNCHANGED <<schedule, occ, task>> BY DEF ReadSchedule, Files
<1>2. /\ l.sched = schedule /\ l.now = loc[p].now
      /\ l.pending = loc[p].pending /\ l.file = loc[p].file
  BY <1>0, Types DEF Local
<1>3. loc[p].sched = schedule BY <1>0 DEF CallOK, ScanningOK
<1>4. Missed(l) = Missed(loc[p]) BY <1>2, <1>3, SameMissed
<1> HIDE DEF l
<1>5. CallOK(p, "advanced", l, schedule)
  BY <1>0, <1>2, <1>3, <1>4 DEF CallOK, ScanningOK, Claims, WorkPcs
<1> QED BY <1>0, <1>1, <1>5, GoKept

\* The schedule's next firing only moves on, which leaves more room.
LEMMA AdvanceBound ==
  ASSUME Parameters, Unpaused, BoundInv, NEW p \in Calls, Advance(p)
  PROVE  BoundInv'
<1> DEFINE l == loc[p]
           n == IF Firing(schedule) THEN NextAfter(schedule, l.now) ELSE Never
<1>0. /\ TypeInv /\ TypeInv' /\ CallOK(p, "advanced", loc[p], schedule)
      /\ p \notin Firers /\ p \in Scanners
  BY AdvanceType, BoundFacts DEF Advance, At, CallOK, FiringOK, WorkPcs
<1>1. /\ l.sched = schedule /\ (Armed(schedule) => Missed(l) # {})
  BY <1>0 DEF CallOK, ScanningOK
<1>2. /\ schedule'.trigger = schedule.trigger /\ schedule'.misfire = schedule.misfire
      /\ schedule'.next = n /\ (schedule.trigger = "once" => schedule'.completed)
  <2>1. schedule \in Schedule BY <1>0, Types
  <2> QED BY <2>1, <1>1 DEF Advance, Schedule
<1>3. Fires(schedule') = Fires(schedule) BY <1>2 DEF Fires
<1>4. \A t \in Fires(schedule) : t \in Nat /\ t < Never
  BY DEF Fires, Instants, Never, Parameters
<1>5. l.now \in Nat /\ Never \in Nat /\ schedule.next \in Nat /\ schedule.next <= Never
  BY <1>0, <1>4, Types DEF BoundInv, Never, Parameters
<1>6. NextAfter(schedule, l.now) \in {u \in Fires(schedule) : u > l.now} \cup {Never}
  BY FirstType DEF NextAfter, Fires
<1>7. n \in Fires(schedule) \cup {Never} /\ n \in Nat
  BY <1>4, <1>5, <1>6
<1>8. schedule.next <= n
  <2>1. CASE Armed(schedule)
    <3>1. PICK t \in Missed(l) : TRUE BY <1>1, <2>1
    <3>2. t \in Fires(schedule) /\ schedule.next <= t /\ t <= l.now
      BY <1>1, <3>1 DEF Missed
    <3>3. n = Never \/ n > l.now BY <1>6, <2>1
    <3> QED BY <3>2, <3>3, <1>4, <1>5, <1>7
  <2>2. CASE ~Armed(schedule)
    <3>1. ~Firing(schedule) \/ Fires(schedule) = {}
      BY <2>2 DEF Armed, Firing, BoundInv, OnceFires
    <3>2. n = Never BY <3>1, <1>6
    <3> QED BY <3>2, <1>5
  <2> QED BY <2>1, <2>2
<1> HIDE DEF l, n
<1>9. ASSUME NEW t \in Instants, Within(schedule, t) PROVE Within(schedule', t)
  <2> SUFFICES ASSUME schedule.misfire = "catch_up", n <= t
               PROVE  Cardinality(Before(schedule', t)) < Limit
    BY <1>2, <1>3, <1>9 DEF Within
  <2>1. t \in Nat BY DEF Instants, Parameters
  <2>2. schedule.next <= t BY <2>1, <1>5, <1>7, <1>8
  <2>3. Cardinality(Before(schedule, t)) < Limit BY <2>2, <1>9 DEF Within
  <2>4. Before(schedule', t) \subseteq Before(schedule, t)
    <3>1. Before(schedule', t) = {u \in Fires(schedule) : n <= u /\ u < t}
      BY <1>2, <1>3 DEF Before
    <3>2. Before(schedule, t) = {u \in Fires(schedule) : schedule.next <= u /\ u < t}
      BY DEF Before
    <3>3. \A u \in Fires(schedule) : n <= u => schedule.next <= u
      BY <1>4, <1>5, <1>7, <1>8
    <3> QED BY <3>1, <3>2, <3>3
  <2>5. \A u \in Before(schedule, t) : u \in Nat /\ u <= t
    BY <2>1, <1>4 DEF Before
  <2>6. IsFiniteSet(Before(schedule, t))
    BY <2>1, <2>5, FS_BoundedSetOfNaturals
  <2>7. /\ Cardinality(Before(schedule', t)) <= Cardinality(Before(schedule, t))
        /\ IsFiniteSet(Before(schedule', t))
    BY <2>4, <2>6, FS_Subset
  <2>8. /\ Cardinality(Before(schedule, t)) \in Nat /\ Limit \in Nat
        /\ Cardinality(Before(schedule', t)) \in Nat
    BY <2>6, <2>7, FS_CardinalityType DEF Parameters
  <2> QED BY <2>3, <2>7, <2>8
<1>10. Go(p, "idle", Idle) /\ UNCHANGED <<occ, task>> BY DEF Advance
<1>11. /\ pc'[p] = "idle" /\ loc'[p] = Idle
       /\ \A q \in Calls \ {p} : pc'[q] = pc[q] /\ loc'[q] = loc[q]
  BY <1>0, <1>10 DEF Go, TypeInv, TypeOK
<1>12. StoredOK(schedule', occ', task') BY <1>9, <1>10 DEF BoundInv, StoredOK
<1>13. ASSUME NEW q \in Calls \ {p} PROVE CallOK(q, pc'[q], loc'[q], schedule')
  <2>1. q \notin Scanners BY <1>0 DEF Unpaused
  <2>2. CallOK(q, pc[q], loc[q], schedule) BY BoundFacts
  <2> QED BY <2>1, <2>2, <1>9, <1>11 DEF CallOK
<1>14. CallOK(p, pc'[p], loc'[p], schedule') BY <1>11, IdleBound
<1>15. OnceFires(schedule') BY <1>2 DEF OnceFires
<1> QED BY <1>0, <1>2, <1>3, <1>7, <1>12, <1>13, <1>14, <1>15 DEF BoundInv

-----------------------------------------------------------------------------
(* Completing an occurrence, in a scan or by hand.                         *)

LEMMA FindPredecessorBound ==
  ASSUME Parameters, Unpaused, BoundInv, NEW p \in Calls, FindPredecessor(p)
  PROVE  BoundInv'
<1> DEFINE l == [loc[p] EXCEPT !.dep =
                IF loc[p].sched.overlap = "queue" THEN ActivePredecessor(loc[p]) ELSE NoOcc]
<1>0. TypeInv /\ TypeInv' /\ CallOK(p, "queue", loc[p], schedule)
  BY FindPredecessorType, BoundFacts DEF FindPredecessor, At
<1>1. Go(p, "task", l) /\ UNCHANGED <<schedule, occ, task>> BY DEF FindPredecessor, Files
<1>2. /\ l.sched = loc[p].sched /\ l.now = loc[p].now /\ l.at = loc[p].at
      /\ l.id = loc[p].id /\ l.status = loc[p].status
      /\ l.pending = loc[p].pending /\ l.file = loc[p].file
  BY <1>0, Types DEF Local
<1> HIDE DEF l
<1>3. CallOK(p, "task", l, schedule)
  BY <1>0, <1>2, SameMissed DEF CallOK, ScanningOK, FiringOK, Claims, WorkPcs
<1> QED BY <1>0, <1>1, <1>3, GoKept

LEMMA LookUpTaskBound ==
  ASSUME Parameters, Unpaused, BoundInv, NEW p \in Calls, LookUpTask(p)
  PROVE  BoundInv'
<1>0. TypeInv /\ TypeInv' /\ CallOK(p, "task", loc[p], schedule)
  BY LookUpTaskType, BoundFacts DEF LookUpTask, At
<1>1. /\ UNCHANGED <<schedule, occ, task>>
      /\ Go(p, "create", loc[p]) \/ Go(p, "depend", loc[p])
  BY DEF LookUpTask, Files
<1>2. CallOK(p, "create", loc[p], schedule) /\ CallOK(p, "depend", loc[p], schedule)
  BY <1>0 DEF CallOK, ScanningOK, FiringOK, Claims, WorkPcs
<1> QED BY <1>0, <1>1, <1>2, GoKept

LEMMA CreateTaskBound ==
  ASSUME Parameters, Unpaused, BoundInv, NEW p \in Calls, CreateTask(p)
  PROVE  BoundInv'
<1>0. TypeInv /\ TypeInv' /\ CallOK(p, "create", loc[p], schedule)
  BY CreateTaskType, BoundFacts DEF CreateTask, At
<1>1. Go(p, "depend", loc[p]) /\ UNCHANGED <<schedule, occ>> BY DEF CreateTask
<1> PICK s \in {"ready", "draft"} : task' = [task EXCEPT ![loc[p].id] = s] BY NewTask
<1>2. CallOK(p, "depend", loc[p], schedule)
  BY <1>0 DEF CallOK, ScanningOK, FiringOK, Claims, WorkPcs
<1>3. loc[p].status \notin {"skipped", "summary"}
  BY BoundFacts DEF CallOK, ScanningOK, FiringOK, WorkPcs, CreateTask, At
<1>4. \A t \in Instants : loc[p].id = t => Within(schedule, t)
  BY <1>0, <1>3 DEF CallOK, Claims, WorkPcs
<1>5. \A t \in Ids : t # loc[p].id => task'[t] = task[t]
  BY <1>0, <1>1 DEF TypeInv, TypeOK
<1>6. StoredOK(schedule, occ', task')
  BY <1>1, <1>4, <1>5 DEF StoredOK, BoundInv, Ids
<1> QED BY <1>0, <1>1, <1>2, <1>6, GoBound

LEMMA UpdateDependenciesBound ==
  ASSUME Parameters, Unpaused, BoundInv, NEW p \in Calls, UpdateDependencies(p)
  PROVE  BoundInv'
<1> DEFINE l == [loc[p] EXCEPT !.dep = NoOcc]
<1>0. TypeInv /\ TypeInv' /\ CallOK(p, "depend", loc[p], schedule)
  BY UpdateDependenciesType, BoundFacts DEF UpdateDependencies, At
<1>1. Go(p, "candidate", l) /\ UNCHANGED <<schedule, occ, task>> BY DEF UpdateDependencies
<1>2. /\ l.sched = loc[p].sched /\ l.now = loc[p].now /\ l.at = loc[p].at
      /\ l.id = loc[p].id /\ l.status = loc[p].status
      /\ l.pending = loc[p].pending /\ l.file = loc[p].file
  BY <1>0, Types DEF Local
<1> HIDE DEF l
<1>3. CallOK(p, "candidate", l, schedule)
  BY <1>0, <1>2, SameMissed DEF CallOK, ScanningOK, FiringOK, Claims, WorkPcs
<1> QED BY <1>0, <1>1, <1>3, GoKept

LEMMA UpsertCandidateBound ==
  ASSUME Parameters, Unpaused, BoundInv, NEW p \in Calls, UpsertCandidate(p)
  PROVE  BoundInv'
<1> DEFINE l == [loc[p] EXCEPT !.status = "materialized"]
<1>0. TypeInv /\ TypeInv' /\ CallOK(p, "candidate", loc[p], schedule)
  BY UpsertCandidateType, BoundFacts DEF UpsertCandidate, At
<1>1. Go(p, "save", l) /\ UNCHANGED <<schedule, occ, task>> BY DEF UpsertCandidate
<1>2. /\ l.sched = loc[p].sched /\ l.now = loc[p].now /\ l.at = loc[p].at
      /\ l.id = loc[p].id /\ l.status = "materialized"
      /\ l.pending = loc[p].pending /\ l.file = loc[p].file
  BY <1>0, Types DEF Local
<1>3. loc[p].status \notin {"skipped", "summary"}
  BY BoundFacts DEF CallOK, ScanningOK, FiringOK, WorkPcs, UpsertCandidate, At
<1> HIDE DEF l
<1>4. CallOK(p, "save", l, schedule)
  BY <1>0, <1>2, <1>3, SameMissed DEF CallOK, ScanningOK, FiringOK, Claims, WorkPcs
<1> QED BY <1>0, <1>1, <1>4, GoKept

LEMMA ReadOccurrencesBound ==
  ASSUME Parameters, Unpaused, BoundInv, NEW p \in Calls, ReadOccurrences(p)
  PROVE  BoundInv'
<1> DEFINE l == [loc[p] EXCEPT !.file = occ]
<1>0. TypeInv /\ TypeInv' /\ CallOK(p, "save", loc[p], schedule)
  BY ReadOccurrencesType, BoundFacts DEF ReadOccurrences, At
<1>1. Go(p, "write", l) /\ UNCHANGED <<schedule, occ, task>> BY DEF ReadOccurrences, Files
<1>2. /\ l.sched = loc[p].sched /\ l.now = loc[p].now /\ l.at = loc[p].at
      /\ l.id = loc[p].id /\ l.status = loc[p].status
      /\ l.pending = loc[p].pending /\ l.file = occ
  BY <1>0, Types DEF Local
<1> HIDE DEF l
<1>3. \A t \in Instants : Claims("write", l, t) => Within(schedule, t)
  BY <1>0, <1>2, BoundFacts DEF CallOK, Claims, WorkPcs, StoredOK
<1>4. CallOK(p, "write", l, schedule)
  BY <1>0, <1>2, <1>3, SameMissed DEF CallOK, ScanningOK, FiringOK, WorkPcs
<1> QED BY <1>0, <1>1, <1>4, GoKept

\* Whatever a write of the file undoes, it brings nothing that was not taken up.
LEMMA WriteOccurrencesBound ==
  ASSUME Parameters, Unpaused, BoundInv, NEW p \in Calls, WriteOccurrences(p)
  PROVE  BoundInv'
<1> DEFINE st == loc[p].status
           l == [loc[p] EXCEPT !.file = NoFile, !.status = "none"]
           m == [l EXCEPT !.at = Never]
           k == [l EXCEPT !.fired = l.id]
<1>0. TypeInv /\ TypeInv' /\ CallOK(p, "write", loc[p], schedule)
  BY WriteOccurrencesType, BoundFacts DEF WriteOccurrences, At
<1>1. UNCHANGED <<schedule, task>> BY DEF WriteOccurrences
<1>2. /\ l.sched = loc[p].sched /\ l.now = loc[p].now /\ l.at = loc[p].at
      /\ l.id = loc[p].id /\ l.pending = loc[p].pending
      /\ l.file = NoFile /\ l.status = "none" /\ l \in Local /\ l.id \in Ids
  BY <1>0, Types, IdleType DEF Local, WriteOccurrences, At, WorkPcs, Statuses
<1>3. /\ m.sched = l.sched /\ m.now = l.now /\ m.pending = l.pending /\ m.file = l.file
      /\ k.sched = l.sched /\ k.now = l.now /\ k.at = l.at /\ k.pending = l.pending
      /\ k.file = l.file /\ k \in Local
  BY <1>2 DEF Local
<1>4. occ' = [loc[p].file EXCEPT ![l.id] = st] BY DEF WriteOccurrences
<1>5. \/ st = "pending" /\ p \notin Firers /\ Go(p, "queue", l)
      \/ st = "pending" /\ p \in Firers /\ Go(p, "task", l)
      \/ st = "summary" /\ Go(p, "advance", m)
      \/ st = "skipped" /\ GoOn(p, l)
      \/ p \in Firers /\ Go(p, "idle", Idle)
      \/ p \notin Firers /\ l.at = Never /\ Go(p, "left", l)
      \/ p \notin Firers /\ l.at # Never /\ GoOn(p, k)
  <2>1. CASE st = "pending" BY <2>1 DEF WriteOccurrences
  <2>2. CASE st = "summary" BY <2>2 DEF WriteOccurrences
  <2>3. CASE st = "skipped" BY <2>3 DEF WriteOccurrences
  <2>4. CASE st \notin {"pending", "summary", "skipped"} BY <2>4 DEF WriteOccurrences
  <2> QED BY <2>1, <2>2, <2>3, <2>4
<1>6. loc[p].file \in [Ids -> Statuses] BY <1>0, Types
<1> HIDE DEF st, l, m, k
<1>7. StoredOK(schedule, occ', task')
  <2> SUFFICES ASSUME NEW t \in Instants, occ'[t] = "pending" PROVE Within(schedule, t)
    BY <1>1, BoundFacts DEF StoredOK
  <2>1. t \in Ids BY DEF Ids
  <2>2. CASE t = l.id
    <3>1. st = "pending" BY <2>1, <2>2, <1>4, <1>6
    <3> QED BY <3>1, <2>2, <1>0, <1>2 DEF CallOK, Claims, WorkPcs, st
  <2>3. CASE t # l.id
    <3>1. loc[p].file[t] = "pending" BY <2>1, <2>3, <1>4, <1>6
    <3> QED BY <3>1, <1>0 DEF CallOK, Claims
  <2> QED BY <2>2, <2>3
<1>8. \A t \in Instants : t \in l.pending \/ l.file[t] = "pending" => Within(schedule, t)
  BY <1>0, <1>2 DEF CallOK, Claims, NoFile, Ids
<1>9. /\ p \notin Firers => p \in Scanners
      /\ p \in Firers => p \notin Scanners
      /\ p \in Scanners => l.sched = schedule
      /\ p \in Scanners /\ l.at # Never => l.at \in Missed(l)
      /\ st \in {"skipped", "summary"} => p \in Scanners /\ l.at # Never
      /\ p \in Firers => l.id \in Manual
  <2>1. l.at = loc[p].at => Missed(l) = Missed(loc[p]) BY <1>2, SameMissed
  <2> QED BY <2>1, <1>0, <1>2, BoundFacts DEF CallOK, ScanningOK, FiringOK, WorkPcs, st
<1>10. \A t \in Instants : /\ Claims("left", l, t) \/ Claims("advance", m, t) => Within(schedule, t)
                           /\ st = "pending" /\ (Claims("queue", l, t) \/ Claims("task", l, t))
                                => Within(schedule, t)
  <2>1. \A t \in Instants : st = "pending" /\ l.id = t => Within(schedule, t)
    BY <1>0, <1>2 DEF CallOK, Claims, WorkPcs, st
  <2> QED BY <2>1, <1>3, <1>8 DEF Claims, WorkPcs
<1>11. CASE st = "pending" /\ p \notin Firers /\ Go(p, "queue", l)
  <2>1. ScanningOK("queue", l, schedule) BY <1>2, <1>9, <1>11 DEF ScanningOK, WorkPcs
  <2>2. CallOK(p, "queue", l, schedule) BY <2>1, <1>10, <1>11 DEF CallOK
  <2> QED BY <2>2, <1>0, <1>1, <1>7, <1>11, GoBound
<1>12. CASE st = "pending" /\ p \in Firers /\ Go(p, "task", l)
  <2>1. FiringOK("task", l) BY <1>2, <1>9, <1>12 DEF FiringOK, WorkPcs
  <2>2. CallOK(p, "task", l, schedule) BY <2>1, <1>9, <1>10, <1>12 DEF CallOK
  <2> QED BY <2>2, <1>0, <1>1, <1>7, <1>12, GoBound
<1>13. CASE st = "summary" /\ Go(p, "advance", m)
  <2>1. Missed(m) = Missed(l) BY <1>3, SameMissed
  <2>2. ScanningOK("advance", m, schedule) \/ p \notin Scanners
    BY <2>1, <1>3, <1>9, <1>13 DEF ScanningOK, WorkPcs
  <2>3. CallOK(p, "advance", m, schedule) BY <2>2, <1>9, <1>10, <1>13 DEF CallOK
  <2> QED BY <2>3, <1>0, <1>1, <1>7, <1>13, GoBound
<1>14. CASE st = "skipped" /\ GoOn(p, l)
  <2>1. p \in Scanners /\ p \notin Firers /\ l.sched = schedule /\ l.at \in Missed(l)
    BY <1>9, <1>14
  <2> QED BY <2>1, <1>0, <1>1, <1>2, <1>7, <1>8, <1>14, GoOnCall
<1>15. CASE p \in Firers /\ Go(p, "idle", Idle)
  BY <1>0, <1>1, <1>7, <1>15, IdleBound, GoBound
<1>16. CASE p \notin Firers /\ l.at = Never /\ Go(p, "left", l)
  <2>1. ScanningOK("left", l, schedule) BY <1>2, <1>9, <1>16 DEF ScanningOK, WorkPcs
  <2>2. CallOK(p, "left", l, schedule) BY <2>1, <1>10, <1>16 DEF CallOK
  <2> QED BY <2>2, <1>0, <1>1, <1>7, <1>16, GoBound
<1>17. CASE p \notin Firers /\ l.at # Never /\ GoOn(p, k)
  <2>1. p \in Scanners /\ l.sched = schedule /\ l.at \in Missed(l) BY <1>9, <1>17
  <2>2. Missed(k) = Missed(l) BY <1>3, SameMissed
  <2>3. k.sched = schedule /\ k.at \in Missed(k) BY <2>1, <2>2, <1>3
  <2>4. \A t \in Instants : t \in k.pending \/ k.file[t] = "pending" => Within(schedule, t)
    BY <1>3, <1>8
  <2> QED BY <2>1, <2>3, <2>4, <1>0, <1>1, <1>3, <1>7, <1>17, GoOnCall
<1> QED BY <1>5, <1>11, <1>12, <1>13, <1>14, <1>15, <1>16, <1>17

LEMMA FireNowBound ==
  ASSUME Parameters, Unpaused, BoundInv, NEW p \in Calls, FireNow(p)
  PROVE  BoundInv'
<1>1. PICK i \in Manual : Go(p, "save", [Idle EXCEPT !.sched = schedule, !.id = i, !.status = "pending"])
  BY DEF FireNow
<1> DEFINE l == [Idle EXCEPT !.sched = schedule, !.id = i, !.status = "pending"]
<1>0. TypeInv /\ TypeInv' /\ p \in Firers /\ p \notin Scanners
  BY FireNowType, BoundFacts DEF FireNow
<1>2. l.id = i /\ l.status = "pending" /\ l.pending = {} /\ l.file = NoFile
  BY DEF Idle
<1>3. Go(p, "save", l) /\ UNCHANGED <<schedule, occ, task>> BY <1>1 DEF FireNow, Files
<1> HIDE DEF l
<1>4. \A t \in Instants : ~Claims("save", l, t)
  <2>1. \A t \in Instants : t # i BY DEF Instants, Unpaused
  <2> QED BY <2>1, <1>2 DEF Claims, NoFile, Ids
<1>5. CallOK(p, "save", l, schedule)
  BY <1>0, <1>2, <1>4 DEF CallOK, FiringOK, WorkPcs
<1> QED BY <1>0, <1>3, <1>5, GoKept

LEMMA StopBound ==
  ASSUME Parameters, Unpaused, BoundInv, NEW p \in Calls, Stop(p)
  PROVE  BoundInv'
<1>1. TypeInv' /\ Go(p, "idle", Idle) /\ UNCHANGED <<schedule, occ, task>>
  BY StopType DEF Stop, BoundInv, Files
<1> QED BY <1>1, IdleBound, GoKept

LEMMA OtherBound ==
  ASSUME Parameters, Unpaused, BoundInv,
         \/ Tick \/ \E i \in Ids : EndTask(i) \/ ApproveTask(i) \/ StartAgain(i)
         \/ \E p \in Scanners, i \in Ids : StartTask(p, i)
  PROVE  BoundInv'
<1>1. UNCHANGED <<schedule, occ, pc, loc>>
  BY DEF Tick, EndTask, ApproveTask, StartAgain, StartTask, Files
<1>2. TypeInv /\ TypeInv'
  BY OtherType DEF BoundInv
<1>3. \A i \in Ids : task'[i] = "none" <=> task[i] = "none"
  BY <1>2 DEF Tick, EndTask, ApproveTask, StartAgain, StartTask, Files, TypeInv, TypeOK
<1>4. StoredOK(schedule, occ', task')
  BY <1>1, <1>3 DEF BoundInv, StoredOK, Ids
<1> QED BY <1>1, <1>2, <1>4 DEF BoundInv, OnceFires, Fires

LEMMA InitBound ==
  ASSUME Parameters, Init
  PROVE  BoundInv
<1>1. PICK g \in Triggers, m \in Misfires, o \in Overlaps, a \in Admissions :
        schedule = [NoSchedule EXCEPT !.enabled = TRUE, !.trigger = g, !.misfire = m,
                                      !.overlap = o, !.admission = a, !.next = First(Instants)]
  BY DEF Init
<1>2. schedule.next = First(Instants) BY <1>1 DEF NoSchedule
<1>3. First(Instants) \in Fires(schedule) \cup {Never} BY FirstType DEF Fires
<1>4. StoredOK(schedule, occ, task) BY DEF Init, StoredOK, Ids
<1>5. \A p \in Calls : CallOK(p, pc[p], loc[p], schedule)
  BY IdleBound DEF Init
<1>6. OnceFires(schedule) BY <1>2, FirstOfAll DEF OnceFires, Fires
<1> QED BY <1>2, <1>3, <1>4, <1>5, <1>6, InitType DEF BoundInv

LEMMA NextBound ==
  ASSUME Parameters, Unpaused, BoundInv, [Next]_vars
  PROVE  BoundInv'
<1>1. CASE UNCHANGED vars
  <2>1. UNCHANGED <<clock, schedule, occ, task, dependsOn, candidates, pc, loc, stops>>
    BY <1>1 DEF vars
  <2>2. TypeInv' BY <2>1 DEF BoundInv, TypeInv, TypeOK, LocalOK
  <2> QED BY <2>1, <2>2 DEF BoundInv, OnceFires, Fires
<1>2. ASSUME NEW p \in Calls, Step(p) PROVE BoundInv'
  <2>1. ~SetEnabled(p)
    BY BoundFacts DEF SetEnabled, At, CallOK, ScanningOK, FiringOK, WorkPcs
  <2> QED
    BY <1>2, <2>1, ReadPendingBound, FinishPendingBound, AdvanceInactiveBound,
       NothingDueBound, BeginDecisionsBound, PassDecidedBound, FireBound, SkipBound,
       FindPredecessorBound, ReadScheduleBound, AdvanceBound, LookUpTaskBound,
       CreateTaskBound, UpdateDependenciesBound, UpsertCandidateBound,
       ReadOccurrencesBound, WriteOccurrencesBound DEF Step
<1>3. ASSUME NEW p \in Calls, StartScan(p) \/ FireNow(p) \/ ReadToSet(p) \/ Stop(p)
      PROVE  BoundInv'
  BY <1>3, StartScanBound, FireNowBound, StopBound DEF ReadToSet, Unpaused
<1> QED BY <1>1, <1>2, <1>3, OtherBound DEF Next

\* Of a set of instants below the horizon the last, as FirstOf has the first.
LEMMA LastOf ==
  ASSUME Parameters, NEW S \in SUBSET Instants, S # {}
  PROVE  \E m \in S : \A t \in S : t <= m
<1> DEFINE D == {Horizon - t : t \in S}
<1>1. \A t \in S : t \in Nat /\ t <= Horizon /\ Horizon \in Nat
  BY DEF Instants, Parameters
<1>2. D \in SUBSET Nat /\ D # {} BY <1>1
<1>3. First(D) \in D /\ \A d \in D : First(D) <= d
  <2> HIDE DEF D
  <2> QED BY <1>2, FirstOf
<1>4. PICK m \in S : \A d \in D : Horizon - m <= d BY <1>3
<1>5. \A t \in S : Horizon - m <= Horizon - t BY <1>4
<1> QED BY <1>1, <1>5

\* Of the instants that the schedule has not passed yet, no more than the limit are
\* started, whatever operators fire by hand and wherever scans stop.
THEOREM CatchUpIsBoundedAlways ==
  ASSUME Parameters, Unpaused PROVE Spec => []CatchUpIsBounded
<1>1. ASSUME BoundInv PROVE CatchUpIsBounded
  <2> DEFINE T == {t \in Instants : t >= schedule.next /\ task[t] # "none"}
  <2> SUFFICES ASSUME schedule.misfire = "catch_up" PROVE Cardinality(T) <= Limit
    BY DEF CatchUpIsBounded
  <2>1. \A t \in T : /\ t \in Fires(schedule) /\ schedule.next <= t
                     /\ Cardinality(Before(schedule, t)) < Limit
    <3>1. \A t \in T : t \in Instants /\ schedule.next <= t /\ task[t] # "none"
      <4>1. \A t \in Instants : t \in Nat BY DEF Instants, Parameters
      <4>2. schedule.next \in Nat
        BY <1>1, Types DEF BoundInv, Schedule, Instants, Never, Parameters
      <4> QED BY <4>1, <4>2
    <3>2. \A t \in T : Within(schedule, t) BY <3>1, <1>1 DEF BoundInv, StoredOK
    <3> QED BY <3>1, <3>2 DEF Within
  <2>2. T \subseteq Instants OBVIOUS
  <2>3. Limit \in Nat BY DEF Parameters
  <2> HIDE DEF T
  <2>4. CASE T = {}
    BY <2>3, <2>4, FS_EmptySet
  <2>5. CASE T # {}
    <3>1. PICK m \in T : \A t \in T : t <= m BY <2>2, <2>5, LastOf
    <3>2. \A t \in T : t \in Nat BY <2>2 DEF Instants, Parameters
    <3>3. T \ {m} \subseteq Before(schedule, m)
      <4>1. \A t \in T \ {m} : t < m BY <3>1, <3>2
      <4> QED BY <4>1, <2>1 DEF Before
    <3>4. \A t \in Before(schedule, m) : t \in Nat /\ t <= m
      BY <3>2 DEF Before, Fires, Instants, Parameters
    <3>5. IsFiniteSet(Before(schedule, m))
      BY <3>1, <3>2, <3>4, FS_BoundedSetOfNaturals
    <3>6. IsFiniteSet(T) BY <3>1, <3>2, FS_BoundedSetOfNaturals
    <3>7. Cardinality(T \ {m}) <= Cardinality(Before(schedule, m))
      BY <3>3, <3>5, FS_Subset
    <3>8. Cardinality(T \ {m}) = Cardinality(T) - 1 BY <3>1, <3>6, FS_RemoveElement
    <3>9. Cardinality(T) \in Nat /\ Cardinality(Before(schedule, m)) \in Nat
      BY <3>5, <3>6, FS_CardinalityType
    <3>10. Cardinality(Before(schedule, m)) < Limit BY <2>1, <3>1
    <3> QED BY <2>3, <3>7, <3>8, <3>9, <3>10
  <2> QED BY <2>4, <2>5
<1>2. Init => BoundInv BY InitBound
<1>3. BoundInv /\ [Next]_vars => BoundInv' BY NextBound
<1> QED BY <1>1, <1>2, <1>3, PTL DEF Spec

-----------------------------------------------------------------------------
(* One at a time. One scheduler, none of whose scans has stopped yet, with *)
(* an overlap policy other than `allow`.                                   *)

Alive(w, t) == w[t] \in {"ready", "running"}

\* The firing that a scan at work, or the stored schedule, has as the last one.
Latest(l, s) == IF l.fired # NoOcc THEN l.fired ELSE s.last
Made(c, l) ==
  \/ c \in {"depend", "candidate"}
  \/ c \in {"save", "write"} /\ l.status = "materialized"

\* No Work item runs before an earlier one has ended, and none is a draft.
Started == {"running", "done", "again"}
InTurn(w) ==
  /\ \A t, u \in Ids : w[u] \in Started /\ t < u => ~Alive(w, t)
  /\ \A t \in Ids : w[t] # "draft"

\* No scan has stopped, so each begins with nothing left to finish.
PlaceOK(c, l) ==
  /\ c \in {"idle", "pending", "left"} => l.fired = NoOcc /\ l.id = NoOcc /\ l.pending = {}
  /\ c \in WorkPcs => l.at # Never

\* Instants fire in their order.
OrderOK(c, l, s) ==
  /\ c \in {"idle", "pending", "left"} => Latest(l, s) < s.next
  /\ c = "decide" \/ c \in WorkPcs => Latest(l, s) < l.at
  /\ c \in {"advance", "advanced"} => Latest(l, s) <= l.now
KnownOK(c, l, s, o, w) ==
  /\ Latest(l, s) # NoOcc => o[Latest(l, s)] = "materialized"
  /\ \A i \in Ids : o[i] = "pending" => c \in WorkPcs /\ i = l.id
  /\ \A i \in Ids : w[i] # "none" => i <= Latest(l, s) \/ (Made(c, l) /\ i = l.id)

\* A Work item waits for the last of those before it, which is all it has to: that one
\* in turn waits for its own. The scan is about to make it wait, or nothing runs.
QueuedOK(c, l, w, d) ==
  \A t, u \in Ids : w[u] = "ready" /\ t < u /\ Alive(w, t) =>
    (c = "depend" /\ u = l.id) \/ \E e \in d[u] : t <= e /\ e < u /\ Alive(w, e)
DepOK(c, l, w) ==
  c \in {"task", "create", "depend"} =>
    \A t \in Ids : t < l.id /\ Alive(w, t) =>
      l.dep \in Ids /\ t <= l.dep /\ l.dep < l.id /\ Alive(w, l.dep)
ClearOK(c, l, s, w) ==
  s.overlap = "skip" /\ (c = "queue" \/ (c \in {"save", "write"} /\ l.status = "pending")) =>
    \A t \in Ids : ~Alive(w, t)
LaneOK(c, l, s, o, w, d) ==
  /\ PlaceOK(c, l) /\ OrderOK(c, l, s) /\ KnownOK(c, l, s, o, w)
  /\ QueuedOK(c, l, w, d) /\ DepOK(c, l, w) /\ ClearOK(c, l, s, w)

Unstopped == stops = 0 /\ schedule.overlap # "allow" /\ schedule.admission = "auto"
LaneInv ==
  Unstopped =>
    /\ InTurn(task)
    /\ \A p \in Scanners : LaneOK(pc[p], loc[p], schedule, occ, task, dependsOn)

LEMMA IdNumbers ==
  ASSUME Parameters
  PROVE  \A i \in Ids : i \in Nat /\ i # NoOcc
  BY DEF Ids, Instants, Parameters

LEMMA LaneFacts ==
  ASSUME Parameters, Sole, ScanInv, LaneInv, Unstopped, NEW p \in Scanners
  PROVE  /\ TypeInv /\ p \in Calls /\ p \notin Firers
         /\ ScanOK(pc[p], loc[p], schedule, occ, task, candidates)
         /\ InTurn(task) /\ RecordsInv
         /\ LaneOK(pc[p], loc[p], schedule, occ, task, dependsOn)
         /\ Latest(loc[p], schedule) \in Ids \cup {NoOcc}
<1>1. loc[p].fired \in Ids \cup {NoOcc} /\ schedule.last \in Ids \cup {NoOcc}
  BY Types DEF Schedule, ScanInv, Calls
<1> QED BY <1>1 DEF ScanInv, LaneInv, Sole, Calls, Latest

LEMMA GoLane ==
  ASSUME Sole, ScanInv, NEW p \in Scanners, NEW c, NEW l, Go(p, c, l),
         Unstopped' => /\ InTurn(task')
                       /\ LaneOK(c, l, schedule', occ', task', dependsOn')
  PROVE  LaneInv'
<1>1. pc'[p] = c /\ loc'[p] = l BY DEF Go, ScanInv, TypeInv, TypeOK, Calls
<1>2. \A q \in Scanners : q = p BY DEF Sole
<1> QED BY <1>1, <1>2 DEF LaneInv

\* A step between decisions, from which the last firing is the same.
LEMMA GoBetween ==
  ASSUME Parameters, Sole, ScanInv, LaneInv, NEW p \in Scanners, NEW c, NEW l, Go(p, c, l),
         UNCHANGED <<schedule, occ, task, dependsOn, stops>>,
         pc[p] \notin WorkPcs, c \notin WorkPcs,
         Unstopped => /\ Latest(l, schedule) = Latest(loc[p], schedule)
                      /\ PlaceOK(c, l) /\ OrderOK(c, l, schedule)
  PROVE  LaneInv'
<1> SUFFICES ASSUME Unstopped PROVE InTurn(task) /\ LaneOK(c, l, schedule, occ, task, dependsOn)
  BY GoLane DEF Unstopped
<1>1. ~Made(c, l) /\ ~Made(pc[p], loc[p]) BY DEF Made, WorkPcs
<1>2. LaneOK(pc[p], loc[p], schedule, occ, task, dependsOn) /\ InTurn(task) BY LaneFacts
<1>3. KnownOK(c, l, schedule, occ, task) BY <1>1, <1>2 DEF LaneOK, KnownOK
<1>4. QueuedOK(c, l, task, dependsOn) BY <1>2 DEF LaneOK, QueuedOK, WorkPcs
<1>5. DepOK(c, l, task) /\ ClearOK(c, l, schedule, task) BY DEF DepOK, ClearOK, WorkPcs
<1> QED BY <1>2, <1>3, <1>4, <1>5 DEF LaneOK

\* A step at work on one occurrence, of which the stores show nothing.
LEMMA GoWork ==
  ASSUME Parameters, Sole, ScanInv, LaneInv, NEW p \in Scanners, NEW c, NEW l, Go(p, c, l),
         UNCHANGED <<schedule, occ, task, dependsOn, stops>>,
         pc[p] \in WorkPcs \ {"depend"}, c \in WorkPcs,
         l.id = loc[p].id, l.at = loc[p].at, l.fired = loc[p].fired,
         Unstopped => /\ Made(pc[p], loc[p]) => Made(c, l)
                      /\ DepOK(c, l, task) /\ ClearOK(c, l, schedule, task)
  PROVE  LaneInv'
<1> SUFFICES ASSUME Unstopped PROVE InTurn(task) /\ LaneOK(c, l, schedule, occ, task, dependsOn)
  BY GoLane DEF Unstopped
<1>1. LaneOK(pc[p], loc[p], schedule, occ, task, dependsOn) /\ InTurn(task) BY LaneFacts
<1>2. Latest(l, schedule) = Latest(loc[p], schedule) BY DEF Latest
<1>3. KnownOK(c, l, schedule, occ, task) BY <1>1, <1>2 DEF LaneOK, KnownOK
<1>4. QueuedOK(c, l, task, dependsOn) BY <1>1 DEF LaneOK, QueuedOK
<1>5. PlaceOK(c, l) /\ OrderOK(c, l, schedule)
  BY <1>1, <1>2 DEF LaneOK, PlaceOK, OrderOK, WorkPcs
<1> QED BY <1>1, <1>3, <1>4, <1>5 DEF LaneOK

\* Where the last firing is neither ready nor running, nothing is.
LEMMA NoneAlive ==
  ASSUME Parameters, Sole, ScanInv, LaneInv, Unstopped, NEW p \in Scanners, NEW l,
         l.sched = schedule, l.fired = loc[p].fired, ~Made(pc[p], loc[p])
  PROVE  /\ ActivePredecessor(l) = NoOcc => \A t \in Ids : ~Alive(task, t)
         /\ ActivePredecessor(l) # NoOcc =>
              /\ ActivePredecessor(l) = Latest(loc[p], schedule)
              /\ Alive(task, Latest(loc[p], schedule)) \/ \A t \in Ids : ~Alive(task, t)
<1> DEFINE L == Latest(loc[p], schedule)
<1>1. ActivePredecessor(l) = IF L # NoOcc /\ occ[L] = "materialized"
                                /\ task[L] \in {"ready", "running", "again"} THEN L ELSE NoOcc
  BY DEF ActivePredecessor, Latest
<1>2. /\ L # NoOcc => occ[L] = "materialized" /\ L \in Ids /\ task[L] # "none"
      /\ \A i \in Ids : task[i] # "none" => i <= L
      /\ InTurn(task) /\ L \in Ids \cup {NoOcc}
  BY LaneFacts DEF LaneOK, KnownOK, RecordsInv
<1>3. task \in [Ids -> TaskStatuses] BY DEF ScanInv, TypeInv, TypeOK
<1> HIDE DEF L
<1>4. ASSUME L = NoOcc \/ task[L] \in {"done", "again"}, NEW t \in Ids, Alive(task, t)
      PROVE  FALSE
  <2>1. t \in Nat /\ t # NoOcc /\ t <= L BY <1>2, <1>4, IdNumbers DEF Alive
  <2>2. L # NoOcc BY <2>1 DEF NoOcc
  <2>3. L \in Ids /\ L \in Nat BY <1>2, <2>2, IdNumbers
  <2>4. task[L] \in {"done", "again"} BY <1>4, <2>2
  <2>5. t # L BY <1>4, <2>4 DEF Alive
  <2>6. t < L BY <2>1, <2>3, <2>5
  <2> QED BY <1>2, <1>4, <2>3, <2>4, <2>6 DEF InTurn, Started
<1>5. ASSUME ActivePredecessor(l) = NoOcc PROVE L = NoOcc \/ task[L] = "done"
  <2> SUFFICES ASSUME L # NoOcc PROVE task[L] = "done" OBVIOUS
  <2>1. L \in Ids /\ occ[L] = "materialized" /\ task[L] \notin {"none", "draft"}
    BY <1>2 DEF InTurn
  <2> QED BY <2>1, <1>1, <1>3, <1>5 DEF TaskStatuses
<1>6. ASSUME ActivePredecessor(l) # NoOcc
      PROVE  ActivePredecessor(l) = L /\ (Alive(task, L) \/ task[L] = "again")
  BY <1>1, <1>6 DEF Alive
<1> QED BY <1>4, <1>5, <1>6 DEF L

LEMMA StartScanLane ==
  ASSUME Parameters, Sole, ScanInv, LaneInv, NEW p \in Scanners, StartScan(p)
  PROVE  LaneInv'
<1> DEFINE l == [Idle EXCEPT !.sched = schedule, !.now = clock]
<1>1. /\ pc[p] = "idle" /\ Go(p, "pending", l)
      /\ UNCHANGED <<schedule, occ, task, dependsOn, stops>>
  BY DEF StartScan, At, Files
<1>2. l.fired = NoOcc /\ l.id = NoOcc /\ l.pending = {} BY DEF Idle
<1> HIDE DEF l
<1>3. ASSUME Unstopped
      PROVE  /\ Latest(l, schedule) = Latest(loc[p], schedule)
             /\ PlaceOK("pending", l) /\ OrderOK("pending", l, schedule)
  <2>1. LaneOK("idle", loc[p], schedule, occ, task, dependsOn) BY <1>1, <1>3, LaneFacts
  <2>2. Latest(l, schedule) = Latest(loc[p], schedule)
    BY <2>1, <1>2 DEF LaneOK, PlaceOK, Latest
  <2> QED BY <2>1, <2>2, <1>2 DEF LaneOK, PlaceOK, OrderOK, WorkPcs
<1> QED BY <1>1, <1>3, GoBetween DEF WorkPcs

LEMMA ReadPendingLane ==
  ASSUME Parameters, Sole, ScanInv, LaneInv, NEW p \in Scanners, ReadPending(p)
  PROVE  LaneInv'
<1> DEFINE P == {i \in Ids : occ[i] = "pending"}
           l == [loc[p] EXCEPT !.pending = P]
<1>1. /\ pc[p] = "pending" /\ Go(p, "left", l)
      /\ UNCHANGED <<schedule, occ, task, dependsOn, stops>>
  BY DEF ReadPending, At, Files
<1>2. l.fired = loc[p].fired /\ l.id = loc[p].id /\ l.pending = P
  BY Types DEF ScanInv, Calls, Local
<1> HIDE DEF l
<1>3. ASSUME Unstopped
      PROVE  /\ Latest(l, schedule) = Latest(loc[p], schedule)
             /\ PlaceOK("left", l) /\ OrderOK("left", l, schedule)
  <2>1. LaneOK("pending", loc[p], schedule, occ, task, dependsOn) BY <1>1, <1>3, LaneFacts
  <2>2. Latest(l, schedule) = Latest(loc[p], schedule) BY <1>2 DEF Latest
  <2>3. P = {} BY <2>1 DEF LaneOK, KnownOK, WorkPcs
  <2> QED BY <2>1, <2>2, <2>3, <1>2 DEF LaneOK, PlaceOK, OrderOK, WorkPcs
<1> QED BY <1>1, <1>3, GoBetween DEF WorkPcs

\* Before a scan has stopped no other finds anything left.
LEMMA LeftLane ==
  ASSUME Parameters, Sole, ScanInv, LaneInv, NEW p \in Scanners,
         FinishPending(p) \/ AdvanceInactive(p)
  PROVE  LaneInv'
<1>1. pc[p] = "left" /\ (loc[p].pending # {} \/ loc[p].id # NoOcc) /\ UNCHANGED <<stops, schedule>>
  BY DEF FinishPending, AdvanceInactive, At, Files
<1>2. ~Unstopped BY <1>1, LaneFacts DEF LaneOK, PlaceOK
<1> QED BY <1>1, <1>2 DEF LaneInv, Unstopped

LEMMA NothingDueLane ==
  ASSUME Parameters, Sole, ScanInv, LaneInv, NEW p \in Scanners, NothingDue(p)
  PROVE  LaneInv'
<1>1. /\ pc[p] = "left" /\ Go(p, "idle", Idle)
      /\ UNCHANGED <<schedule, occ, task, dependsOn, stops>>
  BY DEF NothingDue, At, Files
<1>2. Idle.fired = NoOcc /\ Idle.id = NoOcc /\ Idle.pending = {} BY DEF Idle
<1>3. ASSUME Unstopped
      PROVE  /\ Latest(Idle, schedule) = Latest(loc[p], schedule)
             /\ PlaceOK("idle", Idle) /\ OrderOK("idle", Idle, schedule)
  <2>1. LaneOK("left", loc[p], schedule, occ, task, dependsOn) BY <1>1, <1>3, LaneFacts
  <2>2. Latest(Idle, schedule) = Latest(loc[p], schedule)
    BY <2>1, <1>2 DEF LaneOK, PlaceOK, Latest
  <2> QED BY <2>1, <2>2, <1>2 DEF LaneOK, PlaceOK, OrderOK, WorkPcs
<1> QED BY <1>1, <1>3, GoBetween DEF WorkPcs

LEMMA BeginDecisionsLane ==
  ASSUME Parameters, Sole, ScanInv, LaneInv, NEW p \in Scanners, BeginDecisions(p)
  PROVE  LaneInv'
<1> DEFINE l == [loc[p] EXCEPT !.at = loc[p].sched.next, !.id = NoOcc]
<1>1. /\ pc[p] = "left" /\ Go(p, "decide", l)
      /\ UNCHANGED <<schedule, occ, task, dependsOn, stops>>
  BY DEF BeginDecisions, At, Files
<1>2. l.fired = loc[p].fired /\ l.at = loc[p].sched.next
  BY Types DEF ScanInv, Calls, Local
<1> HIDE DEF l
<1>3. ASSUME Unstopped
      PROVE  /\ Latest(l, schedule) = Latest(loc[p], schedule)
             /\ PlaceOK("decide", l) /\ OrderOK("decide", l, schedule)
  <2>1. LaneOK("left", loc[p], schedule, occ, task, dependsOn) /\ loc[p].sched = schedule
    BY <1>1, <1>3, LaneFacts DEF ScanOK
  <2>2. Latest(l, schedule) = Latest(loc[p], schedule) BY <1>2 DEF Latest
  <2> QED BY <2>1, <2>2, <1>2 DEF LaneOK, PlaceOK, OrderOK, WorkPcs
<1> QED BY <1>1, <1>3, GoBetween DEF WorkPcs

LEMMA ReadScheduleLane ==
  ASSUME Parameters, Sole, ScanInv, LaneInv, NEW p \in Scanners, ReadSchedule(p)
  PROVE  LaneInv'
<1> DEFINE l == [loc[p] EXCEPT !.sched = schedule]
<1>1. /\ pc[p] = "advance" /\ Go(p, "advanced", l)
      /\ UNCHANGED <<schedule, occ, task, dependsOn, stops>>
  BY DEF ReadSchedule, At, Files
<1>2. l.fired = loc[p].fired /\ l.now = loc[p].now
  BY Types DEF ScanInv, Calls, Local
<1> HIDE DEF l
<1>3. ASSUME Unstopped
      PROVE  /\ Latest(l, schedule) = Latest(loc[p], schedule)
             /\ PlaceOK("advanced", l) /\ OrderOK("advanced", l, schedule)
  <2>1. LaneOK("advance", loc[p], schedule, occ, task, dependsOn) BY <1>1, <1>3, LaneFacts
  <2>2. Latest(l, schedule) = Latest(loc[p], schedule) BY <1>2 DEF Latest
  <2> QED BY <2>1, <2>2, <1>2 DEF LaneOK, PlaceOK, OrderOK, WorkPcs
<1> QED BY <1>1, <1>3, GoBetween DEF WorkPcs

LEMMA GoOnLane ==
  ASSUME Parameters, Sole, ScanInv, NEW p \in Scanners, NEW l \in Local, GoOn(p, l),
         UNCHANGED <<schedule, stops>>,
         Unstopped => /\ InTurn(task')
                      /\ Latest(l, schedule) \in Nat /\ Latest(l, schedule) <= l.at
                      /\ l.at \in Missed(l)
                      /\ KnownOK("decide", l, schedule, occ', task')
                      /\ QueuedOK("decide", l, task', dependsOn')
  PROVE  LaneInv'
<1> DEFINE R == {t \in Missed(l) : t > l.at}
           n == First(R)
           c == IF n = Never THEN "advance" ELSE "decide"
           m == [l EXCEPT !.at = n]
<1>1. n \in R \cup {Never} BY FirstType DEF Missed, Fires
<1>2. Go(p, c, m) BY DEF GoOn
<1>3. m.fired = l.fired /\ m.now = l.now /\ m.at = n BY DEF Local
<1>4. Latest(m, schedule) = Latest(l, schedule) BY <1>3 DEF Latest
<1>5. c \in {"advance", "decide"} /\ (c = "decide" => n \in R) BY <1>1
<1>6. /\ \A t \in Missed(l) : t \in Nat /\ t <= l.now
      /\ \A t \in R : t \in Nat /\ l.at < t
      /\ l.now \in Nat
  BY DEF Missed, Fires, Instants, Parameters, Local
<1> HIDE DEF R, n, c, m
<1>7. ASSUME Unstopped PROVE LaneOK(c, m, schedule, occ', task', dependsOn')
  <2>1. OrderOK(c, m, schedule)
    <3> DEFINE L == Latest(l, schedule)
    <3>1. L \in Nat /\ L <= l.at /\ l.at \in Nat /\ l.at <= l.now BY <1>6, <1>7
    <3>2. L <= m.now BY <3>1, <1>3, <1>6
    <3>3. c = "decide" => L < m.at BY <3>1, <1>3, <1>5, <1>6
    <3> HIDE DEF L
    <3>4. Latest(m, schedule) = L BY <1>4 DEF L
    <3> QED BY <3>2, <3>3, <3>4, <1>5 DEF OrderOK, WorkPcs
  <2>2. PlaceOK(c, m) BY <1>5 DEF PlaceOK, WorkPcs
  <2>3. KnownOK(c, m, schedule, occ', task')
    BY <1>4, <1>5, <1>7 DEF KnownOK, WorkPcs, Made
  <2>4. QueuedOK(c, m, task', dependsOn') BY <1>5, <1>7 DEF QueuedOK
  <2>5. DepOK(c, m, task') /\ ClearOK(c, m, schedule, task')
    BY <1>5 DEF DepOK, ClearOK, WorkPcs
  <2> QED BY <2>1, <2>2, <2>3, <2>4, <2>5 DEF LaneOK
<1> QED BY <1>2, <1>7, GoLane DEF Unstopped

LEMMA PassDecidedLane ==
  ASSUME Parameters, Sole, ScanInv, LaneInv, NEW p \in Scanners, PassDecided(p)
  PROVE  LaneInv'
<1> DEFINE l == IF occ[loc[p].at] = "materialized"
                THEN [loc[p] EXCEPT !.fired = loc[p].at] ELSE loc[p]
<1>0. TypeInv /\ p \in Calls BY DEF ScanInv, Calls
<1>1. /\ pc[p] = "decide" /\ GoOn(p, l)
      /\ UNCHANGED <<schedule, occ, task, dependsOn, stops>>
  BY DEF PassDecided, At, Files
<1>2. loc[p].at \in Instants BY <1>0, <1>1, Types
<1>3. /\ l \in Local /\ l.sched = loc[p].sched /\ l.now = loc[p].now /\ l.at = loc[p].at
      /\ l.fired = IF occ[loc[p].at] = "materialized" THEN loc[p].at ELSE loc[p].fired
  BY <1>0, <1>2, Types DEF Local, Ids
<1>4. ScanOK("decide", loc[p], schedule, occ, task, candidates)
  BY <1>0, <1>1, ScanFacts
<1>5. l.at \in Missed(l)
  BY <1>3, <1>4, SameMissed DEF ScanOK, Deciding
<1> HIDE DEF l
<1>6. ASSUME Unstopped
      PROVE  /\ InTurn(task)
             /\ Latest(l, schedule) \in Nat /\ Latest(l, schedule) <= l.at
             /\ KnownOK("decide", l, schedule, occ, task)
             /\ QueuedOK("decide", l, task, dependsOn)
  <2> DEFINE L == Latest(loc[p], schedule)
  <2>1. /\ LaneOK("decide", loc[p], schedule, occ, task, dependsOn) /\ InTurn(task)
        /\ L \in Ids \cup {NoOcc}
    BY <1>1, <1>6, LaneFacts
  <2>2. L \in Nat /\ l.at \in Nat /\ l.at # NoOcc
    BY <2>1, <1>2, <1>3, IdNumbers DEF NoOcc, Ids
  <2>3. L < l.at BY <2>1, <1>3 DEF LaneOK, OrderOK
  <2>4. Latest(l, schedule) = IF occ[l.at] = "materialized" THEN l.at ELSE L
    BY <2>2, <1>3 DEF Latest
  <2>5. \A i \in Ids : task[i] # "none" => i <= L
    BY <2>1 DEF LaneOK, KnownOK, Made
  <2>6. \A i \in Ids : occ[i] # "pending" BY <2>1 DEF LaneOK, KnownOK, WorkPcs
  <2>7. L # NoOcc => occ[L] = "materialized" BY <2>1 DEF LaneOK, KnownOK
  <2>8. QueuedOK("decide", l, task, dependsOn) BY <2>1 DEF LaneOK, QueuedOK
  <2> HIDE DEF L
  <2>9. Latest(l, schedule) \in Nat /\ Latest(l, schedule) <= l.at /\ L <= Latest(l, schedule)
    BY <2>2, <2>3, <2>4
  <2>10. Latest(l, schedule) # NoOcc => occ[Latest(l, schedule)] = "materialized"
    BY <2>4, <2>7
  <2>11. \A i \in Ids : task[i] # "none" => i <= Latest(l, schedule)
    BY <2>2, <2>5, <2>9, IdNumbers
  <2> QED BY <2>1, <2>6, <2>8, <2>9, <2>10, <2>11 DEF KnownOK
<1> QED BY <1>1, <1>3, <1>5, <1>6, GoOnLane

\* From the decision about an instant to the work on it, or on its record.
LEMMA GoDecided ==
  ASSUME Parameters, Sole, ScanInv, LaneInv, NEW p \in Scanners, NEW c, NEW l, Go(p, c, l),
         UNCHANGED <<schedule, occ, task, dependsOn, stops>>, pc[p] = "decide",
         c \in {"save", "queue"}, l.at = loc[p].at, l.id = loc[p].at, l.fired = loc[p].fired,
         l.status # "materialized",
         Unstopped => ClearOK(c, l, schedule, task)
  PROVE  LaneInv'
<1> SUFFICES ASSUME Unstopped PROVE InTurn(task) /\ LaneOK(c, l, schedule, occ, task, dependsOn)
  BY GoLane DEF Unstopped
<1>1. LaneOK("decide", loc[p], schedule, occ, task, dependsOn) /\ InTurn(task) BY LaneFacts
<1>2. Latest(l, schedule) = Latest(loc[p], schedule) BY DEF Latest
<1>3. ~Made("decide", loc[p]) BY DEF Made
<1>4. KnownOK(c, l, schedule, occ, task)
  BY <1>1, <1>2, <1>3 DEF LaneOK, KnownOK, WorkPcs
<1>5. QueuedOK(c, l, task, dependsOn) /\ DepOK(c, l, task)
  BY <1>1 DEF LaneOK, QueuedOK, DepOK
<1>6. l.at # Never
  <2>1. loc[p].at \in Instants BY Types DEF ScanInv, Calls
  <2> QED BY <2>1 DEF Instants, Never, Parameters
<1>7. PlaceOK(c, l) /\ OrderOK(c, l, schedule)
  BY <1>1, <1>2, <1>6 DEF LaneOK, PlaceOK, OrderOK, WorkPcs
<1> QED BY <1>1, <1>4, <1>5, <1>7 DEF LaneOK

LEMMA FireLane ==
  ASSUME Parameters, Sole, ScanInv, LaneInv, NEW p \in Scanners, Fire(p)
  PROVE  LaneInv'
<1> DEFINE l == [loc[p] EXCEPT !.id = loc[p].at, !.status = "pending"]
<1>0. TypeInv /\ p \in Calls BY DEF ScanInv, Calls
<1>1. /\ pc[p] = "decide" /\ ~Blocked(l)
      /\ (Go(p, "save", l) \/ Go(p, "queue", l))
      /\ UNCHANGED <<schedule, occ, task, dependsOn, stops>>
  BY DEF Fire, At, Files
<1>2. /\ l.at = loc[p].at /\ l.id = loc[p].at /\ l.fired = loc[p].fired
      /\ l.status = "pending" /\ l.sched = loc[p].sched
  BY <1>0, Types DEF Local
<1>3. loc[p].sched = schedule BY <1>0, <1>1, ScanFacts DEF ScanOK
<1> HIDE DEF l
<1>4. ASSUME Unstopped
      PROVE  ClearOK("save", l, schedule, task) /\ ClearOK("queue", l, schedule, task)
  <2>1. ~Made(pc[p], loc[p]) BY <1>1 DEF Made
  <2>2. schedule.overlap = "skip" => ActivePredecessor(l) = NoOcc
    BY <1>1, <1>2, <1>3 DEF Blocked
  <2> QED BY <2>1, <2>2, <1>2, <1>3, <1>4, NoneAlive DEF ClearOK
<1>5. l.status # "materialized" BY <1>2
<1>6. CASE Go(p, "save", l) BY <1>1, <1>2, <1>4, <1>5, <1>6, GoDecided
<1>7. CASE Go(p, "queue", l) BY <1>1, <1>2, <1>4, <1>5, <1>7, GoDecided
<1> QED BY <1>1, <1>6, <1>7

LEMMA SkipLane ==
  ASSUME Parameters, Sole, ScanInv, LaneInv, NEW p \in Scanners, Skip(p)
  PROVE  LaneInv'
<1> DEFINE s == IF loc[p].skips >= MaxSkips THEN "summary" ELSE "skipped"
           k == loc[p].skips + 1
           l == [loc[p] EXCEPT !.id = loc[p].at, !.skips = k, !.status = s]
<1>0. TypeInv /\ p \in Calls BY DEF ScanInv, Calls
<1>1. /\ pc[p] = "decide" /\ Go(p, "save", l)
      /\ UNCHANGED <<schedule, occ, task, dependsOn, stops>>
  BY DEF Skip, At, Files
<1>2. s \in {"summary", "skipped"} OBVIOUS
<1> HIDE DEF s, k
<1>3. l.at = loc[p].at /\ l.id = loc[p].at /\ l.fired = loc[p].fired /\ l.status = s
  BY <1>0, Types DEF Local
<1> HIDE DEF l
<1>4. l.status # "materialized" /\ ClearOK("save", l, schedule, task)
  BY <1>2, <1>3 DEF ClearOK
<1> QED BY <1>1, <1>3, <1>4, GoDecided

LEMMA FindPredecessorLane ==
  ASSUME Parameters, Sole, ScanInv, LaneInv, NEW p \in Scanners, FindPredecessor(p)
  PROVE  LaneInv'
<1> DEFINE d == IF loc[p].sched.overlap = "queue" THEN ActivePredecessor(loc[p]) ELSE NoOcc
           l == [loc[p] EXCEPT !.dep = d]
<1>0. TypeInv /\ p \in Calls BY DEF ScanInv, Calls
<1>1. /\ pc[p] = "queue" /\ Go(p, "task", l)
      /\ UNCHANGED <<schedule, occ, task, dependsOn, stops>>
  BY DEF FindPredecessor, At, Files
<1>2. l.at = loc[p].at /\ l.id = loc[p].id /\ l.fired = loc[p].fired /\ l.dep = d
  BY <1>0, Types DEF Local
<1>3. loc[p].sched = schedule BY <1>0, <1>1, ScanFacts DEF ScanOK
<1> HIDE DEF l
<1>4. ASSUME Unstopped PROVE DepOK("task", l, task)
  <2> DEFINE L == Latest(loc[p], schedule)
  <2>1. ~Made(pc[p], loc[p]) BY <1>1 DEF Made
  <2>2. LaneOK("queue", loc[p], schedule, occ, task, dependsOn) /\ L \in Ids \cup {NoOcc}
    BY <1>1, <1>4, LaneFacts
  <2>3. schedule.overlap \in {"skip", "queue"}
    BY <1>0, <1>4, Types DEF Unstopped, Schedule, OverlapPolicies
  <2>4. CASE \A t \in Ids : ~Alive(task, t) BY <2>4 DEF DepOK
  <2>5. CASE ~ \A t \in Ids : ~Alive(task, t)
    <3>1. schedule.overlap = "queue" BY <2>2, <2>3, <2>5 DEF LaneOK, ClearOK
    <3>2. d = L /\ Alive(task, L) /\ d # NoOcc
      BY <2>1, <2>5, <3>1, <1>3, <1>4, NoneAlive
    <3>3. L \in Ids BY <2>2, <3>2
    <3>4. \A t \in Ids : Alive(task, t) => t <= L
      BY <2>1, <2>2, <1>1 DEF LaneOK, KnownOK, Alive
    <3>5. L < loc[p].at /\ loc[p].id = loc[p].at
      <4>1. ScanOK("queue", loc[p], schedule, occ, task, candidates) BY <1>0, <1>1, ScanFacts
      <4> QED BY <4>1, <2>2 DEF LaneOK, OrderOK, PlaceOK, ScanOK, WorkPcs
    <3> HIDE DEF L, d
    <3> QED BY <3>2, <3>3, <3>4, <3>5, <1>2 DEF DepOK
  <2> QED BY <2>4, <2>5
<1>5. ~Made("queue", loc[p]) /\ ClearOK("task", l, schedule, task) BY DEF Made, ClearOK
<1> QED BY <1>1, <1>2, <1>4, <1>5, GoWork DEF WorkPcs

LEMMA LookUpTaskLane ==
  ASSUME Parameters, Sole, ScanInv, LaneInv, NEW p \in Scanners, LookUpTask(p)
  PROVE  LaneInv'
<1> DEFINE c == IF task[loc[p].id] = "none" THEN "create" ELSE "depend"
<1>1. /\ pc[p] = "task" /\ Go(p, c, loc[p])
      /\ UNCHANGED <<schedule, occ, task, dependsOn, stops>>
  BY DEF LookUpTask, At, Files
<1>2. c \in {"create", "depend"} OBVIOUS
<1> HIDE DEF c
<1>3. ASSUME Unstopped PROVE DepOK(c, loc[p], task) /\ ClearOK(c, loc[p], schedule, task)
  <2>1. LaneOK("task", loc[p], schedule, occ, task, dependsOn) BY <1>1, <1>3, LaneFacts
  <2> QED BY <2>1, <1>2 DEF LaneOK, DepOK, ClearOK
<1>4. ~Made("task", loc[p]) BY DEF Made
<1> QED BY <1>1, <1>2, <1>3, <1>4, GoWork DEF WorkPcs

LEMMA UpsertCandidateLane ==
  ASSUME Parameters, Sole, ScanInv, LaneInv, NEW p \in Scanners, UpsertCandidate(p)
  PROVE  LaneInv'
<1> DEFINE l == [loc[p] EXCEPT !.status = "materialized"]
<1>0. TypeInv /\ p \in Calls BY DEF ScanInv, Calls
<1>1. /\ pc[p] = "candidate" /\ Go(p, "save", l)
      /\ UNCHANGED <<schedule, occ, task, dependsOn, stops>>
  BY DEF UpsertCandidate, At
<1>2. /\ l.at = loc[p].at /\ l.id = loc[p].id /\ l.fired = loc[p].fired
      /\ l.status = "materialized"
  BY <1>0, Types DEF Local
<1> HIDE DEF l
<1>3. Made("save", l) /\ DepOK("save", l, task) /\ ClearOK("save", l, schedule, task)
  BY <1>2 DEF Made, DepOK, ClearOK
<1> QED BY <1>1, <1>2, <1>3, GoWork DEF WorkPcs

LEMMA ReadOccurrencesLane ==
  ASSUME Parameters, Sole, ScanInv, LaneInv, NEW p \in Scanners, ReadOccurrences(p)
  PROVE  LaneInv'
<1> DEFINE l == [loc[p] EXCEPT !.file = occ]
<1>0. TypeInv /\ p \in Calls BY DEF ScanInv, Calls
<1>1. /\ pc[p] = "save" /\ Go(p, "write", l)
      /\ UNCHANGED <<schedule, occ, task, dependsOn, stops>>
  BY DEF ReadOccurrences, At, Files
<1>2. /\ l.at = loc[p].at /\ l.id = loc[p].id /\ l.fired = loc[p].fired
      /\ l.status = loc[p].status
  BY <1>0, Types DEF Local
<1> HIDE DEF l
<1>3. ASSUME Unstopped
      PROVE  /\ Made("save", loc[p]) => Made("write", l)
             /\ DepOK("write", l, task) /\ ClearOK("write", l, schedule, task)
  <2>1. LaneOK("save", loc[p], schedule, occ, task, dependsOn) BY <1>1, <1>3, LaneFacts
  <2> QED BY <2>1, <1>2 DEF LaneOK, DepOK, ClearOK, Made
<1> QED BY <1>1, <1>2, <1>3, GoWork DEF WorkPcs

LEMMA CreateTaskLane ==
  ASSUME Parameters, Sole, ScanInv, LaneInv, NEW p \in Scanners, CreateTask(p)
  PROVE  LaneInv'
<1> DEFINE i == loc[p].id
<1>0. TypeInv /\ p \in Calls BY DEF ScanInv, Calls
<1>1. /\ pc[p] = "create" /\ Go(p, "depend", loc[p]) /\ UNCHANGED <<schedule, occ, stops>>
      /\ task' = [task EXCEPT ![i] = IF loc[p].sched.admission = "auto" THEN "ready"
                                                                          ELSE "draft"]
      /\ dependsOn' = [dependsOn EXCEPT ![i] = {}]
  BY DEF CreateTask, At
<1>2. i \in Ids BY <1>0, <1>1, Types DEF WorkPcs
<1>3. /\ loc[p].sched.admission = "auto" => task'[i] = "ready"
      /\ \A t \in Ids \ {i} : task'[t] = task[t]
      /\ \A t \in Ids \ {i} : dependsOn'[t] = dependsOn[t] /\ dependsOn[t] \subseteq Ids
  BY <1>0, <1>1, <1>2 DEF TypeInv, TypeOK
<1>4. ScanOK("create", loc[p], schedule, occ, task, candidates)
  BY <1>0, <1>1, ScanFacts
<1>5. ASSUME Unstopped
      PROVE  InTurn(task') /\ LaneOK("depend", loc[p], schedule, occ, task', dependsOn')
  <2> DEFINE L == Latest(loc[p], schedule)
  <2>1. /\ LaneOK("create", loc[p], schedule, occ, task, dependsOn) /\ InTurn(task)
        /\ L \in Ids \cup {NoOcc}
    BY <1>1, <1>5, LaneFacts
  <2>2. loc[p].at # Never BY <2>1 DEF LaneOK, PlaceOK, WorkPcs
  <2>3. task[i] = "none" /\ L < i
    BY <2>1, <2>2, <1>4 DEF LaneOK, OrderOK, ScanOK, WorkPcs
  <2>4. \A t \in Ids : task[t] # "none" => t <= L
    BY <2>1 DEF LaneOK, KnownOK, Made
  <2>5. i \in Nat /\ L \in Nat /\ \A t \in Ids : t \in Nat
    BY <2>1, <1>2, IdNumbers DEF NoOcc
  <2> HIDE DEF L
  <2>6. \A u \in Ids : task[u] # "none" => u < i BY <2>3, <2>4, <2>5
  <2>0. task'[i] = "ready" BY <1>3, <1>4, <1>5 DEF ScanOK, Unstopped
  <2>7. /\ Alive(task', i) /\ \A t \in Ids \ {i} : Alive(task', t) <=> Alive(task, t)
    BY <1>3, <2>0 DEF Alive
  <2> HIDE DEF i
  <2>8. InTurn(task')
    <3>0. \A t \in Ids : task'[t] # "draft" BY <1>3, <2>0, <2>1 DEF InTurn
    <3> SUFFICES ASSUME NEW t \in Ids, NEW u \in Ids, task'[u] \in Started,
                        t < u, Alive(task', t)
                 PROVE  FALSE
      BY <3>0 DEF InTurn
    <3>1. u # i /\ task[u] = task'[u] BY <1>3, <2>0 DEF Started
    <3>2. t # i BY <3>1, <2>5, <2>6 DEF Started
    <3> QED BY <3>1, <3>2, <2>1, <2>7 DEF InTurn
  <2>9. KnownOK("depend", loc[p], schedule, occ, task')
    <3>1. \A t \in Ids : occ[t] = "pending" => t = i
      BY <2>1 DEF LaneOK, KnownOK, i
    <3>2. L # NoOcc => occ[L] = "materialized" BY <2>1 DEF LaneOK, KnownOK, L
    <3>3. \A t \in Ids : task'[t] # "none" => t <= L \/ t = i BY <2>4, <1>3
    <3> QED BY <3>1, <3>2, <3>3 DEF KnownOK, Made, L, i, WorkPcs
  <2>10. QueuedOK("depend", loc[p], task', dependsOn')
    <3> SUFFICES ASSUME NEW t \in Ids, NEW u \in Ids \ {i}, task'[u] = "ready", t < u,
                        Alive(task', t)
                 PROVE  \E e \in dependsOn'[u] : t <= e /\ e < u /\ Alive(task', e)
      BY DEF QueuedOK, i
    <3>1. task[u] = "ready" BY <1>3
    <3>2. t # i BY <3>1, <2>5, <2>6
    <3>3. Alive(task, t) BY <3>2, <2>7
    <3>4. PICK e \in dependsOn[u] : t <= e /\ e < u /\ Alive(task, e)
      BY <3>1, <3>3, <2>1 DEF LaneOK, QueuedOK
    <3>5. e \in Ids /\ e \in dependsOn'[u] BY <3>4, <1>3
    <3>6. Alive(task', e) BY <3>4, <3>5, <2>7
    <3> QED BY <3>4, <3>5, <3>6
  <2>11. DepOK("depend", loc[p], task')
    <3> SUFFICES ASSUME NEW t \in Ids, t < i, Alive(task', t)
                 PROVE  loc[p].dep \in Ids /\ t <= loc[p].dep /\ loc[p].dep < i
                        /\ Alive(task', loc[p].dep)
      BY DEF DepOK, i
    <3>1. Alive(task, t) BY <2>5, <2>7
    <3>2. loc[p].dep \in Ids /\ t <= loc[p].dep /\ loc[p].dep < i /\ Alive(task, loc[p].dep)
      BY <3>1, <2>1 DEF LaneOK, DepOK, i
    <3>3. loc[p].dep # i BY <3>2, <2>5
    <3> QED BY <3>2, <3>3, <2>7
  <2>12. /\ PlaceOK("depend", loc[p]) /\ OrderOK("depend", loc[p], schedule)
         /\ ClearOK("depend", loc[p], schedule, task')
    BY <2>1 DEF LaneOK, PlaceOK, OrderOK, ClearOK, WorkPcs
  <2> QED BY <2>8, <2>9, <2>10, <2>11, <2>12 DEF LaneOK
<1> QED BY <1>1, <1>5, GoLane DEF Unstopped

LEMMA UpdateDependenciesLane ==
  ASSUME Parameters, Sole, ScanInv, LaneInv, NEW p \in Scanners, UpdateDependencies(p)
  PROVE  LaneInv'
<1> DEFINE i == loc[p].id
           l == [loc[p] EXCEPT !.dep = NoOcc]
<1>0. TypeInv /\ p \in Calls BY DEF ScanInv, Calls
<1>1. /\ pc[p] = "depend" /\ Go(p, "candidate", l) /\ UNCHANGED <<schedule, occ, task, stops>>
      /\ dependsOn' = [dependsOn EXCEPT ![i] = @ \cup ({loc[p].dep} \ {NoOcc})]
  BY DEF UpdateDependencies, At
<1>2. i \in Ids BY <1>0, <1>1, Types DEF WorkPcs
<1>3. /\ l.at = loc[p].at /\ l.id = i /\ l.fired = loc[p].fired
  BY <1>0, Types DEF Local
<1>4. /\ dependsOn'[i] = dependsOn[i] \cup ({loc[p].dep} \ {NoOcc})
      /\ \A t \in Ids \ {i} : dependsOn'[t] = dependsOn[t]
  BY <1>0, <1>1, <1>2 DEF TypeInv, TypeOK
<1> HIDE DEF l
<1>5. ASSUME Unstopped
      PROVE  InTurn(task) /\ LaneOK("candidate", l, schedule, occ, task, dependsOn')
  <2>1. LaneOK("depend", loc[p], schedule, occ, task, dependsOn) /\ InTurn(task)
    BY <1>1, <1>5, LaneFacts
  <2>2. Latest(l, schedule) = Latest(loc[p], schedule) BY <1>3 DEF Latest
  <2>3. KnownOK("candidate", l, schedule, occ, task)
    BY <2>1, <2>2, <1>3 DEF LaneOK, KnownOK, Made, WorkPcs
  <2>4. QueuedOK("candidate", l, task, dependsOn')
    <3> SUFFICES ASSUME NEW t \in Ids, NEW u \in Ids, task[u] = "ready", t < u, Alive(task, t)
                 PROVE  \E e \in dependsOn'[u] : t <= e /\ e < u /\ Alive(task, e)
      BY DEF QueuedOK
    <3>1. CASE u = i
      <4>1. loc[p].dep \in Ids /\ t <= loc[p].dep /\ loc[p].dep < i /\ Alive(task, loc[p].dep)
        BY <3>1, <2>1 DEF LaneOK, DepOK
      <4>2. loc[p].dep # NoOcc BY <4>1, IdNumbers
      <4>3. loc[p].dep \in dependsOn'[u] BY <4>2, <3>1, <1>4
      <4> QED BY <4>1, <4>3, <3>1
    <3>2. CASE u # i
      <4>1. \E e \in dependsOn[u] : t <= e /\ e < u /\ Alive(task, e)
        BY <3>2, <2>1 DEF LaneOK, QueuedOK
      <4> QED BY <4>1, <3>2, <1>4
    <3> QED BY <3>1, <3>2
  <2>5. /\ PlaceOK("candidate", l) /\ OrderOK("candidate", l, schedule)
        /\ DepOK("candidate", l, task) /\ ClearOK("candidate", l, schedule, task)
    BY <2>1, <2>2, <1>3 DEF LaneOK, PlaceOK, OrderOK, DepOK, ClearOK, WorkPcs
  <2> QED BY <2>1, <2>3, <2>4, <2>5 DEF LaneOK
<1> QED BY <1>1, <1>5, GoLane DEF Unstopped

LEMMA WriteOccurrencesLane ==
  ASSUME Parameters, Sole, ScanInv, LaneInv, NEW p \in Scanners, WriteOccurrences(p)
  PROVE  LaneInv'
<1> DEFINE i == loc[p].id
           st == loc[p].status
           l == [loc[p] EXCEPT !.file = NoFile, !.status = "none"]
           m == [l EXCEPT !.at = Never]
           k == [l EXCEPT !.fired = l.id]
<1>0. TypeInv /\ p \in Calls BY DEF ScanInv, Calls
<1>1. pc[p] = "write" /\ UNCHANGED <<schedule, task, dependsOn, stops>> /\ p \notin Firers
  BY DEF WriteOccurrences, At, Sole
<1>2. /\ l.at = loc[p].at /\ l.id = i /\ l.fired = loc[p].fired /\ l.status = "none"
      /\ l.sched = loc[p].sched /\ l.now = loc[p].now /\ l \in Local /\ i \in Ids
  BY <1>0, <1>1, Types, IdleType DEF Local, WorkPcs, Statuses
<1>3. /\ m.fired = l.fired /\ m.now = l.now
      /\ k.sched = l.sched /\ k.now = l.now /\ k.at = l.at /\ k.fired = i /\ k \in Local
  BY <1>2 DEF Local
<1>4. ScanOK("write", loc[p], schedule, occ, task, candidates)
  BY <1>0, <1>1, ScanFacts
<1>5. occ' = [occ EXCEPT ![i] = st] /\ st \in Statuses \ {"none"}
  BY <1>0, <1>2, <1>4, Types DEF WriteOccurrences, ScanOK
<1>6. occ'[i] = st /\ \A t \in Ids \ {i} : occ'[t] = occ[t]
  BY <1>0, <1>2, <1>5, Types
<1>7. ASSUME Unstopped
      PROVE  \/ st = "pending" /\ Go(p, "queue", l)
             \/ st = "summary" /\ Go(p, "advance", m)
             \/ st = "skipped" /\ GoOn(p, l)
             \/ st = "materialized" /\ GoOn(p, k)
  <2>1. l.at # Never BY <1>1, <1>2, <1>7, LaneFacts DEF LaneOK, PlaceOK, WorkPcs
  <2>2. CASE st = "pending" BY <2>2, <1>1 DEF WriteOccurrences
  <2>3. CASE st = "summary" BY <2>3, <1>1 DEF WriteOccurrences
  <2>4. CASE st = "skipped" BY <2>4, <1>1 DEF WriteOccurrences
  <2>5. CASE st = "materialized" BY <2>5, <2>1, <1>1 DEF WriteOccurrences
  <2> QED BY <2>2, <2>3, <2>4, <2>5, <1>5 DEF Statuses
<1> HIDE DEF l, m, k
<1>8. ASSUME NEW n, n.sched = loc[p].sched, n.now = loc[p].now, n.at = loc[p].at, Unstopped
      PROVE  n.at \in Missed(n) /\ n.at \in Nat /\ n.at <= n.now
  <2>1. loc[p].at # Never BY <1>1, <1>8, LaneFacts DEF LaneOK, PlaceOK, WorkPcs
  <2>2. n.at \in Missed(n) BY <2>1, <1>4, <1>8, SameMissed DEF ScanOK, Deciding, WorkPcs
  <2> QED BY <2>2 DEF Missed, Fires, Instants, Parameters
<1> DEFINE L == Latest(loc[p], schedule)
<1>9. ASSUME Unstopped
      PROVE  /\ LaneOK("write", loc[p], schedule, occ, task, dependsOn) /\ InTurn(task)
             /\ loc[p].at = i /\ L \in Nat /\ i \in Nat /\ L < i
             /\ L # NoOcc => L \in Ids /\ occ'[L] = "materialized"
             /\ \A t \in Ids : occ'[t] = "pending" => t = i /\ st = "pending"
             /\ \A t \in Ids : task[t] # "none" => t <= L \/ (st = "materialized" /\ t = i)
             /\ \A c, n : c # "depend" => QueuedOK(c, n, task, dependsOn)
  <2>1. /\ LaneOK("write", loc[p], schedule, occ, task, dependsOn) /\ InTurn(task)
        /\ L \in Ids \cup {NoOcc}
    BY <1>1, <1>9, LaneFacts
  <2>2. loc[p].at = i BY <2>1, <1>4 DEF LaneOK, PlaceOK, ScanOK, WorkPcs
  <2>3. L \in Nat /\ i \in Nat BY <2>1, <1>2, IdNumbers DEF NoOcc
  <2>4. L < i BY <2>1, <2>2 DEF LaneOK, OrderOK, WorkPcs
  <2>5. L # NoOcc => L \in Ids /\ occ[L] = "materialized"
    BY <2>1 DEF LaneOK, KnownOK
  <2>6. L # NoOcc => occ'[L] = "materialized"
    <3> HIDE DEF L, i
    <3> QED BY <2>3, <2>4, <2>5, <1>6
  <2>7. \A t \in Ids : occ[t] = "pending" => t = i BY <2>1 DEF LaneOK, KnownOK
  <2>8. \A t \in Ids : occ'[t] = "pending" => t = i /\ st = "pending" BY <2>7, <1>6
  <2>9. \A t \in Ids : task[t] # "none" => t <= L \/ (st = "materialized" /\ t = i)
    BY <2>1 DEF LaneOK, KnownOK, Made
  <2>10. \A c, n : c # "depend" => QueuedOK(c, n, task, dependsOn)
    BY <2>1 DEF LaneOK, QueuedOK
  <2> QED BY <2>1, <2>2, <2>3, <2>4, <2>5, <2>6, <2>8, <2>9, <2>10
<1>10. ASSUME NEW n, n.fired = loc[p].fired PROVE Latest(n, schedule) = L
  BY <1>10 DEF Latest
<1> HIDE DEF L, i, st
<1>11. ASSUME Unstopped, st # "materialized", NEW n, n.fired = loc[p].fired, NEW c,
              st = "pending" => c \in WorkPcs /\ n.id = i
       PROVE  KnownOK(c, n, schedule, occ', task)
  BY <1>9, <1>10, <1>11 DEF KnownOK
<1>12. CASE st = "pending" /\ Go(p, "queue", l)
  <2>1. ASSUME Unstopped PROVE InTurn(task) /\ LaneOK("queue", l, schedule, occ', task, dependsOn)
    <3>1. KnownOK("queue", l, schedule, occ', task)
      BY <1>2, <1>11, <1>12, <2>1 DEF WorkPcs
    <3>2. /\ PlaceOK("write", loc[p]) /\ OrderOK("write", loc[p], schedule)
          /\ ClearOK("write", loc[p], schedule, task)
      BY <1>9, <2>1 DEF LaneOK
    <3>3. PlaceOK("queue", l) /\ OrderOK("queue", l, schedule)
      BY <3>2, <1>2, <1>10 DEF PlaceOK, OrderOK, WorkPcs, L
    <3>4. ClearOK("queue", l, schedule, task) BY <3>2, <1>12 DEF ClearOK, st
    <3>5. DepOK("queue", l, task) BY DEF DepOK
    <3> QED BY <3>1, <3>3, <3>4, <3>5, <1>9, <2>1 DEF LaneOK
  <2> QED BY <2>1, <1>1, <1>12, GoLane DEF Unstopped
<1>13. CASE st = "summary" /\ Go(p, "advance", m)
  <2>1. ASSUME Unstopped PROVE InTurn(task) /\ LaneOK("advance", m, schedule, occ', task, dependsOn)
    <3>1. KnownOK("advance", m, schedule, occ', task)
      BY <1>2, <1>3, <1>11, <1>13, <2>1
    <3>2. L <= m.now
      <4>1. loc[p].at \in Nat /\ loc[p].at <= loc[p].now BY <1>8, <2>1
      <4>2. loc[p].now \in Nat
        <5>1. loc[p].now \in 0..Horizon BY <1>0, Types
        <5> QED BY <5>1
      <4>3. m.now = loc[p].now BY <1>2, <1>3
      <4> QED BY <4>1, <4>2, <4>3, <1>9, <2>1
    <3>3. Latest(m, schedule) = L BY <1>2, <1>3, <1>10
    <3>4. PlaceOK("advance", m) /\ OrderOK("advance", m, schedule)
      BY <3>2, <3>3 DEF PlaceOK, OrderOK, WorkPcs
    <3>5. DepOK("advance", m, task) /\ ClearOK("advance", m, schedule, task)
      BY DEF DepOK, ClearOK
    <3> QED BY <3>1, <3>4, <3>5, <1>9, <2>1 DEF LaneOK
  <2> QED BY <2>1, <1>1, <1>13, GoLane DEF Unstopped
<1>14. CASE st = "skipped" /\ GoOn(p, l)
  <2>1. ASSUME Unstopped
        PROVE  /\ InTurn(task) /\ Latest(l, schedule) \in Nat /\ Latest(l, schedule) <= l.at
               /\ l.at \in Missed(l) /\ KnownOK("decide", l, schedule, occ', task)
               /\ QueuedOK("decide", l, task, dependsOn)
    <3>1. KnownOK("decide", l, schedule, occ', task) BY <1>2, <1>11, <1>14, <2>1
    <3>2. Latest(l, schedule) = L BY <1>2, <1>10
    <3>3. l.at \in Missed(l) BY <1>2, <1>8, <2>1
    <3> QED BY <3>1, <3>2, <3>3, <1>2, <1>9, <2>1
  <2> QED BY <2>1, <1>1, <1>2, <1>14, GoOnLane
<1>15. CASE st = "materialized" /\ GoOn(p, k)
  <2>1. ASSUME Unstopped
        PROVE  /\ InTurn(task) /\ Latest(k, schedule) \in Nat /\ Latest(k, schedule) <= k.at
               /\ k.at \in Missed(k) /\ KnownOK("decide", k, schedule, occ', task)
               /\ QueuedOK("decide", k, task, dependsOn)
    <3>1. Latest(k, schedule) = i /\ i # NoOcc
      BY <1>2, <1>3, IdNumbers DEF Latest
    <3>2. \A t \in Ids : task[t] # "none" => t <= i
      BY <1>9, <1>15, <2>1, IdNumbers
    <3>3. \A t \in Ids : occ'[t] # "pending" BY <1>9, <1>15, <2>1
    <3>4. KnownOK("decide", k, schedule, occ', task)
      BY <3>1, <3>2, <3>3, <1>6, <1>15 DEF KnownOK
    <3>5. k.at \in Missed(k) BY <1>2, <1>3, <1>8, <2>1
    <3> QED BY <3>1, <3>4, <3>5, <1>2, <1>3, <1>9, <2>1
  <2> QED BY <2>1, <1>1, <1>3, <1>15, GoOnLane
<1> QED
  <2>1. CASE Unstopped BY <2>1, <1>7, <1>12, <1>13, <1>14, <1>15
  <2>2. CASE ~Unstopped BY <2>2, <1>1 DEF LaneInv, Unstopped
  <2> QED BY <2>1, <2>2

\* The next firing that is stored lies after the time of the scan.
LEMMA AdvanceLane ==
  ASSUME Parameters, Sole, ScanInv, LaneInv, NEW p \in Scanners, Advance(p)
  PROVE  LaneInv'
<1> DEFINE l == loc[p]
           L == Latest(l, schedule)
<1>0. TypeInv /\ p \in Calls BY DEF ScanInv, Calls
<1>1. /\ pc[p] = "advanced" /\ Go(p, "idle", Idle) /\ UNCHANGED <<occ, task, dependsOn, stops>>
  BY DEF Advance, At
<1>2. l.sched = schedule /\ schedule \in Schedule
  BY <1>0, <1>1, ScanFacts, Types DEF ScanOK
<1>3. /\ schedule'.next = IF Firing(schedule) THEN NextAfter(schedule, l.now) ELSE Never
      /\ schedule'.last = L /\ schedule'.overlap = schedule.overlap
      /\ schedule'.admission = schedule.admission
  BY <1>2 DEF Advance, Schedule, Latest
<1>4. ASSUME Unstopped
      PROVE  InTurn(task) /\ LaneOK("idle", Idle, schedule', occ, task, dependsOn)
  <2>1. LaneOK("advanced", l, schedule, occ, task, dependsOn) /\ InTurn(task)
        /\ L \in Ids \cup {NoOcc}
    BY <1>1, <1>4, LaneFacts
  <2>2. L \in Nat /\ L <= l.now
    BY <2>1, IdNumbers DEF NoOcc, LaneOK, OrderOK
  <2>3. l.now \in 0..Horizon /\ Horizon \in Nat BY <1>0, Types DEF Parameters
  <2>4. NextAfter(schedule, l.now) \in {u \in Fires(schedule) : u > l.now} \cup {Never}
    BY FirstType DEF NextAfter, Fires
  <2>5. \A u \in Fires(schedule) : u \in Nat BY DEF Fires, Instants, Parameters
  <2>6. Idle.fired = NoOcc /\ Idle.id = NoOcc /\ Idle.pending = {} BY DEF Idle
  <2>7. Latest(Idle, schedule') = L BY <2>6, <1>3 DEF Latest
  <2> HIDE DEF L, l
  <2>8. L < schedule'.next BY <2>2, <2>3, <2>4, <2>5, <1>3 DEF Never
  <2>9. OrderOK("idle", Idle, schedule') /\ PlaceOK("idle", Idle)
    BY <2>6, <2>7, <2>8 DEF OrderOK, PlaceOK, WorkPcs
  <2>10. KnownOK("idle", Idle, schedule', occ, task)
    BY <2>1, <2>7 DEF LaneOK, KnownOK, Made, WorkPcs, L
  <2>11. /\ QueuedOK("idle", Idle, task, dependsOn)
         /\ DepOK("idle", Idle, task) /\ ClearOK("idle", Idle, schedule', task)
    BY <2>1 DEF LaneOK, QueuedOK, DepOK, ClearOK
  <2> QED BY <2>1, <2>9, <2>10, <2>11 DEF LaneOK
<1> HIDE DEF l, L
<1>5. Unstopped' => Unstopped BY <1>1, <1>3 DEF Unstopped
<1> QED BY <1>1, <1>4, <1>5, GoLane

LEMMA StopLane ==
  ASSUME Parameters, Sole, ScanInv, NEW p \in Scanners, Stop(p)
  PROVE  LaneInv'
<1>1. stops \in Nat /\ stops' = stops + 1 BY DEF Stop, ScanInv, TypeInv, TypeOK
<1> QED BY <1>1 DEF LaneInv, Unstopped

\* A Work item that ends lets the one after it start.
LEMMA EndTaskLane ==
  ASSUME Parameters, Sole, ScanInv, LaneInv, NEW i \in Ids, EndTask(i)
  PROVE  LaneInv'
<1>1. /\ task[i] \in {"running", "again"} /\ task' = [task EXCEPT ![i] = "done"]
      /\ UNCHANGED <<schedule, occ, dependsOn, pc, loc, stops>>
  BY DEF EndTask
<1>2. task \in [Ids -> TaskStatuses]
      /\ dependsOn \in [Ids -> SUBSET Ids]
  BY DEF ScanInv, TypeInv, TypeOK
<1>3. /\ \A t \in Ids \ {i} : task'[t] = task[t]
      /\ ~Alive(task', i) /\ task'[i] = "done"
      /\ \A t \in Ids \ {i} : Alive(task', t) <=> Alive(task, t)
  BY <1>1, <1>2 DEF Alive
<1> SUFFICES ASSUME Unstopped, NEW p \in Scanners
             PROVE  InTurn(task') /\ LaneOK(pc[p], loc[p], schedule, occ, task', dependsOn)
  <2>1. Unstopped' <=> Unstopped BY <1>1 DEF Unstopped
  <2>2. CASE Scanners # {} BY <2>1, <2>2, <1>1 DEF LaneInv
  <2>3. CASE Scanners = {}
    <3>1. Unstopped => InTurn(task) BY DEF LaneInv
    <3>2. Unstopped => InTurn(task') BY <3>1, <1>1, <1>3 DEF InTurn, Started
    <3> QED BY <3>2, <2>1, <2>3 DEF LaneInv
  <2> QED BY <2>2, <2>3
<1>4. LaneOK(pc[p], loc[p], schedule, occ, task, dependsOn) /\ InTurn(task) BY LaneFacts
<1>5. InTurn(task') BY <1>1, <1>3, <1>4 DEF InTurn, Started
<1>6. \A t \in Ids : task'[t] # "none" <=> task[t] # "none" BY <1>1, <1>3
<1>7. KnownOK(pc[p], loc[p], schedule, occ, task') BY <1>4, <1>6 DEF LaneOK, KnownOK
<1>8. ASSUME NEW t \in Ids, Alive(task', t), NEW e \in Ids, t <= e, Alive(task, e)
      PROVE  Alive(task', e)
  <2>1. t # i /\ Alive(task, t) BY <1>3, <1>8
  <2>2. ~(t < i) BY <2>1, <1>1, <1>4 DEF InTurn, Started
  <2>3. t \in Nat /\ e \in Nat /\ i \in Nat BY IdNumbers
  <2>4. e # i BY <2>1, <2>2, <2>3, <1>8
  <2> QED BY <2>4, <1>3, <1>8
<1>9. QueuedOK(pc[p], loc[p], task', dependsOn)
  <2> SUFFICES ASSUME NEW t \in Ids, NEW u \in Ids, task'[u] = "ready", t < u, Alive(task', t),
                      ~(pc[p] = "depend" /\ u = loc[p].id)
               PROVE  \E e \in dependsOn[u] : t <= e /\ e < u /\ Alive(task', e)
    BY DEF QueuedOK
  <2>1. task[u] = "ready" /\ Alive(task, t) BY <1>3
  <2>2. PICK e \in dependsOn[u] : t <= e /\ e < u /\ Alive(task, e)
    BY <2>1, <1>4 DEF LaneOK, QueuedOK
  <2>3. e \in Ids BY <2>2, <1>2
  <2> QED BY <2>2, <2>3, <1>8
<1>10. DepOK(pc[p], loc[p], task')
  <2> SUFFICES ASSUME pc[p] \in {"task", "create", "depend"}, NEW t \in Ids,
                      t < loc[p].id, Alive(task', t)
               PROVE  loc[p].dep \in Ids /\ t <= loc[p].dep /\ loc[p].dep < loc[p].id
                      /\ Alive(task', loc[p].dep)
    BY DEF DepOK
  <2>1. Alive(task, t) BY <1>3
  <2>2. loc[p].dep \in Ids /\ t <= loc[p].dep /\ loc[p].dep < loc[p].id /\ Alive(task, loc[p].dep)
    BY <2>1, <1>4 DEF LaneOK, DepOK
  <2> QED BY <2>2, <1>8
<1>11. ClearOK(pc[p], loc[p], schedule, task') BY <1>3, <1>4 DEF LaneOK, ClearOK
<1> QED BY <1>4, <1>5, <1>7, <1>9, <1>10, <1>11 DEF LaneOK

\* An item that ended is started again, which changes nothing for the others; and there
\* is no draft to approve.
LEMMA OutsideLane ==
  ASSUME Parameters, Sole, ScanInv, LaneInv, NEW i \in Ids, StartAgain(i) \/ ApproveTask(i)
  PROVE  LaneInv'
<1>1. UNCHANGED <<schedule, occ, dependsOn, pc, loc, stops>> BY DEF StartAgain, ApproveTask
<1> SUFFICES ASSUME Unstopped, InTurn(task)
             PROVE  /\ InTurn(task')
                    /\ \A p \in Scanners :
                         LaneOK(pc[p], loc[p], schedule, occ, task', dependsOn)
  BY <1>1 DEF LaneInv, Unstopped
<1>2. task[i] = "done" /\ task' = [task EXCEPT ![i] = "again"]
  BY DEF StartAgain, ApproveTask, InTurn
<1>3. task \in [Ids -> TaskStatuses] BY DEF ScanInv, TypeInv, TypeOK
<1>4. /\ \A t \in Ids : Alive(task', t) <=> Alive(task, t)
      /\ \A t \in Ids : task'[t] \in Started <=> task[t] \in Started
      /\ \A t \in Ids : task'[t] = "ready" <=> task[t] = "ready"
      /\ \A t \in Ids : task'[t] = "none" <=> task[t] = "none"
      /\ \A t \in Ids : task'[t] = "draft" <=> task[t] = "draft"
  BY <1>2, <1>3 DEF Alive, Started
<1>5. InTurn(task') BY <1>4 DEF InTurn
<1>6. ASSUME NEW p \in Scanners
      PROVE  LaneOK(pc[p], loc[p], schedule, occ, task', dependsOn)
  <2>1. LaneOK(pc[p], loc[p], schedule, occ, task, dependsOn) BY LaneFacts
  <2>2. KnownOK(pc[p], loc[p], schedule, occ, task') BY <1>4, <2>1 DEF LaneOK, KnownOK
  <2>3. QueuedOK(pc[p], loc[p], task', dependsOn)
    <3>1. dependsOn \in [Ids -> SUBSET Ids] BY DEF ScanInv, TypeInv, TypeOK
    <3> QED BY <3>1, <1>4, <2>1 DEF LaneOK, QueuedOK
  <2>4. DepOK(pc[p], loc[p], task') /\ ClearOK(pc[p], loc[p], schedule, task')
    BY <1>4, <2>1 DEF LaneOK, DepOK, ClearOK
  <2> QED BY <2>1, <2>2, <2>3, <2>4 DEF LaneOK
<1> QED BY <1>5, <1>6

\* Its dependencies being done, nothing before it is ready or running.
LEMMA StartTaskLane ==
  ASSUME Parameters, Sole, ScanInv, LaneInv, NEW p \in Scanners, NEW i \in Ids, StartTask(p, i)
  PROVE  LaneInv'
<1>1. /\ pc[p] = "idle" /\ task[i] = "ready" /\ \A d \in dependsOn[i] : task[d] = "done"
      /\ task' = [task EXCEPT ![i] = "running"]
      /\ UNCHANGED <<schedule, occ, dependsOn, pc, loc, stops>>
  BY DEF StartTask, At
<1>2. task \in [Ids -> TaskStatuses]
  BY DEF ScanInv, TypeInv, TypeOK
<1>3. /\ \A t \in Ids \ {i} : task'[t] = task[t] /\ task'[i] = "running"
      /\ \A t \in Ids : Alive(task', t) <=> Alive(task, t)
      /\ \A t \in Ids : task'[t] = "ready" => task[t] = "ready"
      /\ \A t \in Ids : task'[t] # "none" <=> task[t] # "none"
  BY <1>1, <1>2 DEF Alive
<1> SUFFICES ASSUME Unstopped
             PROVE  InTurn(task') /\ LaneOK("idle", loc[p], schedule, occ, task', dependsOn)
  <2>1. Unstopped' <=> Unstopped BY <1>1 DEF Unstopped
  <2>2. \A q \in Scanners : q = p BY DEF Sole
  <2> QED BY <2>1, <2>2, <1>1 DEF LaneInv
<1>4. LaneOK("idle", loc[p], schedule, occ, task, dependsOn) /\ InTurn(task)
  BY <1>1, LaneFacts
<1>5. \A t \in Ids : t < i => ~Alive(task, t)
  <2> SUFFICES ASSUME NEW t \in Ids, t < i, Alive(task, t) PROVE FALSE OBVIOUS
  <2>1. PICK e \in dependsOn[i] : t <= e /\ e < i /\ Alive(task, e)
    BY <1>1, <1>4 DEF LaneOK, QueuedOK
  <2> QED BY <2>1, <1>1 DEF Alive
<1>6. InTurn(task')
  <2>0. \A t \in Ids : task'[t] # "draft"
    <3>1. \A t \in Ids : task[t] # "draft" BY <1>4 DEF InTurn
    <3>2. SUFFICES ASSUME NEW t \in Ids PROVE task'[t] # "draft" OBVIOUS
    <3>3. CASE t = i
      <4>1. task'[i] = "running" BY <1>1, <1>2
      <4>2. task'[t] = "running" BY <3>3, <4>1
      <4> QED BY <4>2
    <3>4. CASE t # i BY <3>4, <3>1, <1>3
    <3> QED BY <3>3, <3>4
  <2> SUFFICES ASSUME NEW t \in Ids, NEW u \in Ids, task'[u] \in Started, t < u
               PROVE  ~Alive(task', t)
    BY <2>0 DEF InTurn
  <2>1. CASE u = i BY <2>1, <1>3, <1>5
  <2>2. CASE u # i BY <2>2, <1>3, <1>4 DEF InTurn
  <2> QED BY <2>1, <2>2
<1>7. KnownOK("idle", loc[p], schedule, occ, task') BY <1>3, <1>4 DEF LaneOK, KnownOK
<1>8. QueuedOK("idle", loc[p], task', dependsOn)
  <2>1. dependsOn \in [Ids -> SUBSET Ids] BY DEF ScanInv, TypeInv, TypeOK
  <2> QED BY <2>1, <1>3, <1>4 DEF LaneOK, QueuedOK
<1>9. DepOK("idle", loc[p], task') /\ ClearOK("idle", loc[p], schedule, task')
  BY DEF DepOK, ClearOK
<1> QED BY <1>4, <1>6, <1>7, <1>8, <1>9 DEF LaneOK

LEMMA InitLane ==
  ASSUME Parameters, Init
  PROVE  LaneInv
<1>1. /\ \A p \in Scanners : pc[p] = "idle" /\ loc[p] = Idle
      /\ \A i \in Ids : occ[i] = "none" /\ task[i] = "none"
  BY DEF Init, Calls
<1>2. PICK g \in Triggers, m \in Misfires, o \in Overlaps, a \in Admissions :
        schedule = [NoSchedule EXCEPT !.enabled = TRUE, !.trigger = g, !.misfire = m,
                                      !.overlap = o, !.admission = a, !.next = First(Instants)]
  BY DEF Init
<1>3. schedule.last = NoOcc /\ schedule.next = First(Instants) BY <1>2 DEF NoSchedule
<1>4. Idle.fired = NoOcc /\ Idle.id = NoOcc /\ Idle.pending = {} BY DEF Idle
<1>5. Latest(Idle, schedule) = NoOcc BY <1>3, <1>4 DEF Latest
<1>6. NoOcc < schedule.next
  <2>1. First(Instants) \in Instants \cup {Never} BY FirstType
  <2> QED BY <2>1, <1>3 DEF Instants, Never, NoOcc, Parameters
<1>7. InTurn(task) BY <1>1 DEF InTurn, Started
<1>8. PlaceOK("idle", Idle) /\ OrderOK("idle", Idle, schedule)
  BY <1>4, <1>5, <1>6 DEF PlaceOK, OrderOK, WorkPcs
<1>9. KnownOK("idle", Idle, schedule, occ, task) BY <1>1, <1>5 DEF KnownOK
<1>10. /\ QueuedOK("idle", Idle, task, dependsOn)
       /\ DepOK("idle", Idle, task) /\ ClearOK("idle", Idle, schedule, task)
  BY <1>1 DEF QueuedOK, DepOK, ClearOK
<1> QED BY <1>1, <1>7, <1>8, <1>9, <1>10 DEF LaneInv, LaneOK

LEMMA NextLane ==
  ASSUME Parameters, Sole, ScanInv, LaneInv, [Next]_vars
  PROVE  LaneInv'
<1>1. CASE UNCHANGED vars \/ Tick
  <2>1. UNCHANGED <<schedule, occ, task, dependsOn, pc, loc, stops>>
    BY <1>1 DEF vars, Tick, Files
  <2> QED BY <2>1 DEF LaneInv, Unstopped
<1>2. ASSUME NEW p \in Calls, Step(p) PROVE LaneInv'
  <2>1. ~SetEnabled(p) BY ScanFacts DEF SetEnabled, At, ScanOK
  <2>2. p \in Scanners BY DEF Calls, Sole
  <2> QED
    BY <1>2, <2>1, <2>2, ReadPendingLane, LeftLane, NothingDueLane, BeginDecisionsLane,
       PassDecidedLane, FireLane, SkipLane, FindPredecessorLane, ReadScheduleLane,
       AdvanceLane, LookUpTaskLane, CreateTaskLane, UpdateDependenciesLane,
       UpsertCandidateLane, ReadOccurrencesLane, WriteOccurrencesLane DEF Step
<1>3. ASSUME NEW p \in Calls, StartScan(p) \/ FireNow(p) \/ ReadToSet(p) \/ Stop(p)
      PROVE  LaneInv'
  <2>1. p \in Scanners BY DEF Calls, Sole
  <2> QED BY <1>3, <2>1, StartScanLane, StopLane DEF FireNow, ReadToSet, Sole
<1> QED BY <1>1, <1>2, <1>3, EndTaskLane, StartTaskLane, OutsideLane DEF Next

\* Whatever the trigger, the instants, the misfire policy and the number of firings: as
\* long as no scan has stopped, an overlap policy of `skip` or `queue` lets one Work item
\* of the schedule run at a time, and what `queue` makes wait, waits in turn.
THEOREM OneAtATimeAlways ==
  ASSUME Parameters, Sole PROVE Spec => []OneAtATime
<1>1. ScanInv /\ LaneInv => OneAtATime
  <2> SUFFICES ASSUME LaneInv, Unstopped, NEW t \in Instants, NEW u \in Instants,
                      task[t] = "running", task[u] = "running", t # u
               PROVE  FALSE
    BY DEF OneAtATime, Unstopped
  <2>1. t \in Ids /\ u \in Ids BY DEF Ids
  <2>2. t < u \/ u < t BY <2>1, IdNumbers
  <2> QED BY <2>1, <2>2 DEF LaneInv, InTurn, Started, Alive
<1>2. Init => ScanInv /\ LaneInv BY InitInv, InitLane
<1>3. ScanInv /\ LaneInv /\ [Next]_vars => (ScanInv /\ LaneInv)' BY NextInv, NextLane
<1> QED BY <1>1, <1>2, <1>3, PTL DEF Spec
=============================================================================
