---------------------------- MODULE WebhookIntake ----------------------------
(***************************************************************************)
(* GitHub webhook intake (github-webhooks/intake.ts): a web server answers *)
(* a delivery once it is stored, and drains the stored deliveries          *)
(* afterwards, one drain at a time, into tasks and rework requests.  The   *)
(* handlers of one server interleave with its drain at every await; two    *)
(* servers on one repository also meet at the delivery records, their lock *)
(* files and the wakes.  A step is one await of the code, or one           *)
(* transaction.                                                            *)
(*                                                                         *)
(* The deliveries are those that pass the checks of accept: the others are *)
(* stored as ignored or denied, and never drained.                         *)
(***************************************************************************)
EXTENDS WorkWakes

CONSTANTS
  Procs,             \* web servers
  Kind, Domain,      \* of a delivery: "issue" or "comment"; workWakeDomain
  NoProc, Dead,      \* no holder of a lock; a holder whose process died
  Restarted,         \* servers that are started again when they die
  Publishes,         \* is a statusPublisher configured?
  MaxPasses,         \* passes of one drain
  MaxSends, MaxFaults   \* bounds on requests, and on calls and servers that fail

\* Every comment of the model is on the pull request of one task, whose slot
\* for an active rework request they compete for.
ASSUME IntakeAssumption ==
  /\ Kind \in [Deliveries -> {"issue", "comment"}]
  /\ DOMAIN Domain = Deliveries
  /\ NoProc \notin Procs /\ Dead \notin Procs \cup {NoProc}
  /\ Publishes \in BOOLEAN
  /\ {MaxPasses, MaxSends, MaxFaults} \subseteq Nat /\ MaxPasses # 0

VARIABLES
  record,    \* record[d]: the stored delivery
  wake,      \* wake[x]: table wakes
  lock,      \* lock[d]: the lock file of a delivery
  task,      \* task[d]: the task, or rework request, whose id d determines
  acc,       \* acc[p][d]: where the handler of d in server p is
  due,       \* due[p]: drains chained behind the current one
  pc, loc,   \* the drain of each server
  sends, faults

vars == <<record, wake, lock, task, acc, due, pc, loc, sends, faults>>
env == <<sends, faults>>

Works == {Domain[d] : d \in Deliveries}
States == {"none", "queued", "processing", "completed", "coalesced", "failed"}
Record == [state : States, callback : {"none", "pending", "failed", "succeeded"}]
NoRecord == [state |-> "none", callback |-> "none"]
\* An empty lock file exists but its lease has not been written.
Lock == [owner : Procs \cup {NoProc, Dead}, state : {"none", "empty", "live", "expired"}]
NoLock == [owner |-> NoProc, state |-> "none"]
Pcs == {"idle", "pick", "create", "write", "inspect", "steal", "read", "mark",
        "claim", "coalesce", "requeue", "look", "make", "complete", "finish",
        "release", "fail", "report", "publish", "unlock", "remove", "dead"}
\* todo, retry: deliveries of the listing still to process, and those whose
\* callback is to be tried again; cur: the record read under the lock; fate:
\* what becomes of a delivery whose processing stopped.
Local == [d : Deliveries \cup {NoDelivery}, todo : SUBSET Deliveries,
          retry : SUBSET Deliveries, cur : Record, second : BOOLEAN,
          again : BOOLEAN, passes : 0..MaxPasses, fate : {"fail", "requeue"}]
NoLocal == [d |-> NoDelivery, todo |-> {}, retry |-> {}, cur |-> NoRecord,
            second |-> FALSE, again |-> FALSE, passes |-> 0, fate |-> "fail"]

TypeOK ==
  /\ record \in [Deliveries -> Record]
  /\ wake \in [Works -> Wake]
  /\ lock \in [Deliveries -> Lock]
  /\ task \in [Deliveries -> {"none", "draft", "taken"}]
  /\ acc \in [Procs -> [Deliveries -> {"idle", "link", "wake"}]]
  /\ due \in [Procs -> Nat]
  /\ pc \in [Procs -> Pcs]
  /\ loc \in [Procs -> Local]
  /\ sends \in 0..MaxSends /\ faults \in 0..MaxFaults

\* A server that starts drains what an earlier one left.
Init ==
  /\ record = [d \in Deliveries |-> NoRecord]
  /\ wake = [x \in Works |-> NoWake]
  /\ lock = [d \in Deliveries |-> NoLock]
  /\ task = [d \in Deliveries |-> "none"]
  /\ acc = [p \in Procs |-> [d \in Deliveries |-> "idle"]]
  /\ due = [p \in Procs |-> 0]
  /\ pc = [p \in Procs |-> "idle"]
  /\ loc = [p \in Procs |-> NoLocal]
  /\ sends = 0 /\ faults = 0

-----------------------------------------------------------------------------
(* accept                                                                  *)

At(p, label) == pc[p] = label
Goto(p, label) == pc' = [pc EXCEPT ![p] = label]

Stored(d) == record[d].state # "none"
Queued(r) == r.state \in {"queued", "processing"}

\* Slip: no drain is chained while one is running.
Respond_WhenIdle(p, d) ==
  /\ acc' = [acc EXCEPT ![p][d] = "idle"]
  /\ due' = [due EXCEPT ![p] = IF pc[p] = "idle" THEN @ + 1 ELSE @]

\* The answer is sent and a drain chained.
Respond(p, d) ==
  /\ acc' = [acc EXCEPT ![p][d] = "idle"]
  /\ due' = [due EXCEPT ![p] = @ + 1]

\* A request for d, the first or a redelivery; one that is stored already is
\* a duplicate.
Accept(p, d) ==
  /\ acc[p][d] = "idle" /\ ~At(p, "dead")
  /\ sends < MaxSends /\ sends' = sends + 1
  /\ IF Stored(d) THEN Respond(p, d)
     ELSE acc' = [acc EXCEPT ![p][d] = "link"] /\ UNCHANGED due
  /\ UNCHANGED <<record, wake, lock, task, pc, loc, faults>>

\* createDeliveryRecord: a hard link, which fails if the record exists.
CreateRecord(p, d) ==
  /\ acc[p][d] = "link"
  /\ IF Stored(d) THEN Respond(p, d) /\ UNCHANGED record
     ELSE /\ record' = [record EXCEPT ![d] = [NoRecord EXCEPT !.state = "queued"]]
          /\ acc' = [acc EXCEPT ![p][d] = "wake"]
          /\ UNCHANGED due
  /\ UNCHANGED <<wake, lock, task, pc, loc, env>>

RecordWake(p, d) ==
  /\ acc[p][d] = "wake"
  /\ wake' = [wake EXCEPT ![Domain[d]] = Recorded(@, d)]
  /\ Respond(p, d)
  /\ UNCHANGED <<record, lock, task, pc, loc, env>>

-----------------------------------------------------------------------------
(* drain                                                                   *)

Set(d, state, callback) ==
  record' = [record EXCEPT ![d] = [state |-> state, callback |-> callback]]

Unreported(r) ==
  Publishes /\ r.state \in {"completed", "failed"} /\ r.callback \in {"pending", "failed"}

\* listGitHubWebhookDeliveries at the start of a pass.
List(p, passes) ==
  /\ loc' = [loc EXCEPT ![p] =
       [NoLocal EXCEPT !.todo = {d \in Deliveries : Queued(record[d])},
                       !.retry = {d \in Deliveries : Unreported(record[d])},
                       !.passes = passes]]
  /\ Goto(p, "pick")

StartDrain(p) ==
  /\ At(p, "idle") /\ due[p] > 0
  /\ due' = [due EXCEPT ![p] = @ - 1]
  /\ List(p, 1)
  /\ UNCHANGED <<record, wake, lock, task, acc, env>>

\* Another pass follows one that released the lease of a newer lead.
EndPass(p) ==
  /\ At(p, "pick") /\ loc[p].todo \cup loc[p].retry = {}
  /\ IF loc[p].again /\ loc[p].passes < MaxPasses
     THEN List(p, loc[p].passes + 1)
     ELSE Goto(p, "idle") /\ loc' = [loc EXCEPT ![p] = NoLocal]
  /\ UNCHANGED <<record, wake, lock, task, acc, due, env>>

\* #drainDelivery of the next one (their order is that of the ids).
Pick(p) ==
  /\ At(p, "pick")
  /\ \E d \in loc[p].todo \cup loc[p].retry :
       loc' = [loc EXCEPT ![p].d = d, ![p].second = FALSE]
  /\ Goto(p, "create")
  /\ UNCHANGED <<record, wake, lock, task, acc, due, env>>

Done(p) ==
  /\ Goto(p, "pick")
  /\ loc' = [loc EXCEPT ![p].todo = @ \ {loc[p].d}, ![p].retry = @ \ {loc[p].d},
                        ![p].d = NoDelivery, ![p].cur = NoRecord, ![p].fate = "fail",
                        ![p].second = FALSE]

-----------------------------------------------------------------------------
(* acquireDeliveryLease and releaseDeliveryLease                           *)

\* open with O_EXCL; the lease is written afterwards.
CreateLock(p) ==
  LET d == loc[p].d IN
  /\ At(p, "create")
  /\ IF lock[d].state = "none"
     THEN lock' = [lock EXCEPT ![d] = [owner |-> p, state |-> "empty"]] /\ Goto(p, "write")
     ELSE Goto(p, "inspect") /\ UNCHANGED lock
  /\ UNCHANGED <<record, wake, task, acc, due, loc, env>>

\* The lease goes to the file that was created, wherever its path now leads.
WriteLock(p) ==
  LET d == loc[p].d IN
  /\ At(p, "write")
  /\ lock' = IF lock[d] = [owner |-> p, state |-> "empty"]
             THEN [lock EXCEPT ![d].state = "live"] ELSE lock
  /\ Goto(p, "read")
  /\ UNCHANGED <<record, wake, task, acc, due, loc, env>>

\* A lease that cannot be read counts as expired.
InspectLock(p) ==
  /\ At(p, "inspect")
  /\ IF lock[loc[p].d].state = "live" THEN Done(p)
     ELSE Goto(p, "steal") /\ UNCHANGED loc
  /\ UNCHANGED <<record, wake, lock, task, acc, due, env>>

\* The file at the path is removed, whichever it is by now; two attempts.
StealLock(p) ==
  /\ At(p, "steal")
  /\ lock' = [lock EXCEPT ![loc[p].d] = NoLock]
  /\ IF loc[p].second THEN Done(p)
     ELSE Goto(p, "create") /\ loc' = [loc EXCEPT ![p].second = TRUE]
  /\ UNCHANGED <<record, wake, task, acc, due, env>>

ReadToken(p) ==
  LET l == lock[loc[p].d] IN
  /\ At(p, "unlock")
  /\ IF l.owner = p /\ l.state # "empty" THEN Goto(p, "remove") /\ UNCHANGED loc
     ELSE Done(p)
  /\ UNCHANGED <<record, wake, lock, task, acc, due, env>>

RemoveLock(p) ==
  /\ At(p, "remove")
  /\ lock' = [lock EXCEPT ![loc[p].d] = NoLock]
  /\ Done(p)
  /\ UNCHANGED <<record, wake, task, acc, due, env>>

-----------------------------------------------------------------------------
(* #drainDelivery, under the lock                                          *)

\* The record is read again.
ReadRecord(p) ==
  LET d == loc[p].d IN
  /\ At(p, "read")
  /\ loc' = [loc EXCEPT ![p].cur = record[d]]
  /\ Goto(p, IF d \in loc[p].retry
             THEN (IF Unreported(record[d]) THEN "publish" ELSE "unlock")
             ELSE (IF Queued(record[d]) THEN "mark" ELSE "unlock"))
  /\ UNCHANGED <<record, wake, lock, task, acc, due, env>>

\* The callback of a settled delivery is published again.
RetryCallback(p) ==
  /\ At(p, "publish")
  /\ \E result \in {"failed", "succeeded"} : Set(loc[p].d, loc[p].cur.state, result)
  /\ Goto(p, "unlock")
  /\ UNCHANGED <<wake, lock, task, acc, due, loc, env>>

MarkProcessing(p) ==
  /\ At(p, "mark")
  /\ Set(loc[p].d, "processing", loc[p].cur.callback)
  /\ Goto(p, "claim")
  /\ UNCHANGED <<wake, lock, task, acc, due, loc, env>>

ClaimWake(p) ==
  LET d == loc[p].d
      answer == Answer(wake[Domain[d]], d)
  IN
  /\ At(p, "claim")
  /\ wake' = [wake EXCEPT ![Domain[d]] = Claimed(@, d)]
  /\ Goto(p, CASE answer = "skip" -> "coalesce" [] answer = "blocked" -> "requeue"
               [] OTHER -> "look")
  /\ UNCHANGED <<record, lock, task, acc, due, loc, env>>

Coalesce(p) ==
  /\ At(p, "coalesce")
  /\ Set(loc[p].d, "coalesced", loc[p].cur.callback)
  /\ Goto(p, "unlock")
  /\ UNCHANGED <<wake, lock, task, acc, due, loc, env>>

Requeue(p) ==
  /\ At(p, "requeue")
  /\ Set(loc[p].d, "queued", loc[p].cur.callback)
  /\ Goto(p, "unlock")
  /\ UNCHANGED <<wake, lock, task, acc, due, loc, env>>

\* createOrReuseTask reuses a task that is still the draft it made, and refuses
\* one that went on.  createOrReuseReworkRequest reuses the request of its key
\* and refuses another while one is active.
SlotTaken(d) ==
  Kind[d] = "comment" /\ \E e \in Deliveries : Kind[e] = "comment" /\ task[e] = "draft"
\* Slip: an older task of the same id is replaced.
LookUp_Replace(p) ==
  /\ At(p, "look")
  /\ Goto(p, "make")
  /\ UNCHANGED <<record, wake, lock, task, acc, due, loc, env>>

LookUp(p) ==
  LET d == loc[p].d IN
  /\ At(p, "look")
  /\ \/ /\ task[d] = "none" /\ ~SlotTaken(d)
        /\ Goto(p, "make") /\ UNCHANGED loc
     \/ /\ task[d] = "none" /\ SlotTaken(d)
        /\ Goto(p, "release") /\ loc' = [loc EXCEPT ![p].fate = "requeue"]
     \/ /\ task[d] = "draft" \/ (task[d] = "taken" /\ Kind[d] = "comment")
        /\ Goto(p, "complete") /\ UNCHANGED loc
     \/ /\ task[d] = "taken" /\ Kind[d] = "issue"
        /\ Goto(p, "release") /\ UNCHANGED loc
  /\ UNCHANGED <<record, wake, lock, task, acc, due, env>>

\* The task, or the rework request, is written over whatever is there.
MakeTask(p) ==
  /\ At(p, "make")
  /\ task' = [task EXCEPT ![loc[p].d] = "draft"]
  /\ Goto(p, "complete")
  /\ UNCHANGED <<record, wake, lock, acc, due, loc, env>>

\* The status is published and the record written; nothing checks the lock.
Complete(p) ==
  /\ At(p, "complete")
  /\ \E result \in (IF Publishes THEN {"failed", "succeeded"} ELSE {"none"}) :
       Set(loc[p].d, "completed", result)
  /\ Goto(p, "finish")
  /\ UNCHANGED <<wake, lock, task, acc, due, loc, env>>

FinishWake(p) ==
  LET d == loc[p].d IN
  /\ At(p, "finish")
  /\ wake' = [wake EXCEPT ![Domain[d]] = Finished(@, d)]
  /\ loc' = [loc EXCEPT ![p].again = @ \/ Releases(wake[Domain[d]], d)]
  /\ Goto(p, "unlock")
  /\ UNCHANGED <<record, lock, task, acc, due, env>>

\* The error path; after it the queue is not read again.
ReleaseWake(p) ==
  LET d == loc[p].d IN
  /\ At(p, "release")
  /\ wake' = [wake EXCEPT ![Domain[d]] = Released(@, d)]
  /\ Goto(p, loc[p].fate)
  /\ UNCHANGED <<record, lock, task, acc, due, loc, env>>

Fail(p) ==
  /\ At(p, "fail")
  /\ Set(loc[p].d, "failed", IF Publishes THEN "pending" ELSE loc[p].cur.callback)
  /\ Goto(p, IF Publishes THEN "report" ELSE "unlock")
  /\ UNCHANGED <<wake, lock, task, acc, due, loc, env>>

Report(p) ==
  /\ At(p, "report")
  /\ \E result \in {"failed", "succeeded"} : Set(loc[p].d, "failed", result)
  /\ Goto(p, "unlock")
  /\ UNCHANGED <<wake, lock, task, acc, due, loc, env>>

-----------------------------------------------------------------------------
(* Environment                                                             *)

Fault == faults < MaxFaults /\ faults' = faults + 1 /\ UNCHANGED sends

\* A call of the processing throws, and its catch blocks go on: the delivery
\* fails, and the wake is released if it was claimed; an error of finishWake, or
\* of the release of the lock, is ignored.
Throws(p) ==
  /\ Fault
  /\ \/ /\ pc[p] \in {"claim", "coalesce"} \/ (At(p, "requeue") /\ loc[p].fate = "fail")
        /\ Goto(p, "fail") /\ UNCHANGED loc
     \/ pc[p] \in {"look", "make", "complete"} /\ Goto(p, "release") /\ UNCHANGED loc
     \/ At(p, "finish") /\ Goto(p, "unlock") /\ UNCHANGED loc
     \/ pc[p] \in {"unlock", "remove"} /\ Done(p)
  /\ UNCHANGED <<record, wake, lock, task, acc, due>>

\* An error that nothing catches ends the drain, once the lock that it holds is
\* released; the drain chained behind it begins.
Aborts(p) ==
  /\ Fault
  /\ \/ /\ \/ pc[p] \in {"read", "publish", "mark", "release", "fail", "report"}
           \/ At(p, "requeue") /\ loc[p].fate = "requeue"
        /\ Goto(p, "unlock")
        /\ loc' = [loc EXCEPT ![p].todo = {}, ![p].retry = {}, ![p].again = FALSE]
        /\ UNCHANGED due
     \/ /\ pc[p] \in {"pick", "create", "write", "inspect", "steal"}
        /\ Goto(p, "idle") /\ loc' = [loc EXCEPT ![p] = NoLocal]
        /\ UNCHANGED due
     \/ /\ At(p, "idle") /\ due[p] > 0 /\ due' = [due EXCEPT ![p] = @ - 1]
        /\ UNCHANGED <<pc, loc>>
  /\ UNCHANGED <<record, wake, lock, task, acc>>

\* A server dies, with its handlers and its drain.  One that is started again
\* begins with a drain.
Restart(p) ==
  /\ Fault /\ ~At(p, "dead")
  /\ lock' = [d \in Deliveries |-> IF lock[d].owner = p
                                   THEN [lock[d] EXCEPT !.owner = Dead] ELSE lock[d]]
  /\ acc' = [acc EXCEPT ![p] = [d \in Deliveries |-> "idle"]]
  /\ IF p \in Restarted THEN Goto(p, "idle") /\ due' = [due EXCEPT ![p] = 1]
                         ELSE Goto(p, "dead") /\ due' = [due EXCEPT ![p] = 0]
  /\ loc' = [loc EXCEPT ![p] = NoLocal]
  /\ UNCHANGED <<record, wake, task>>

\* Two minutes pass.  While a server is at work on d it is a fault.
Busy(d) == \E p \in Procs : loc[p].d = d
Passes(busy) == IF busy THEN Fault ELSE UNCHANGED env
LockExpires(d) ==
  /\ lock[d].state = "live"
  /\ lock' = [lock EXCEPT ![d].state = "expired"]
  /\ Passes(Busy(d))
  /\ UNCHANGED <<record, wake, task, acc, due, pc, loc>>
WakeExpires(x) ==
  /\ wake[x].live
  /\ wake' = [wake EXCEPT ![x].live = FALSE]
  /\ Passes(Busy(wake[x].owner))
  /\ UNCHANGED <<record, lock, task, acc, due, pc, loc>>

\* A user works on a draft, or a rework request is no longer active.
TakeTask(d) ==
  /\ task[d] = "draft"
  /\ task' = [task EXCEPT ![d] = "taken"]
  /\ UNCHANGED <<record, wake, lock, acc, due, pc, loc, env>>

Handle(p) == \E d \in Deliveries : CreateRecord(p, d) \/ RecordWake(p, d)
Drain(p) ==
  \/ StartDrain(p) \/ EndPass(p) \/ Pick(p)
  \/ CreateLock(p) \/ WriteLock(p) \/ InspectLock(p) \/ StealLock(p)
  \/ ReadToken(p) \/ RemoveLock(p)
  \/ ReadRecord(p) \/ RetryCallback(p) \/ MarkProcessing(p) \/ ClaimWake(p)
  \/ Coalesce(p) \/ Requeue(p) \/ LookUp(p) \/ MakeTask(p) \/ Complete(p)
  \/ FinishWake(p) \/ ReleaseWake(p) \/ Fail(p) \/ Report(p)

Next ==
  \/ \E p \in Procs, d \in Deliveries : Accept(p, d)
  \/ \E p \in Procs : Handle(p) \/ Drain(p) \/ Throws(p) \/ Aborts(p) \/ Restart(p)
  \/ \E d \in Deliveries : LockExpires(d) \/ TakeTask(d)
  \/ \E x \in Works : WakeExpires(x)

Spec == Init /\ [][Next]_vars

\* A server goes on with what it started.
FairSpec == Spec /\ \A p \in Procs : WF_vars(Handle(p)) /\ WF_vars(Drain(p))
=============================================================================
