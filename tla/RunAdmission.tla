---------------------------- MODULE RunAdmission ----------------------------
(***************************************************************************)
(* Admission, execution, cancellation, resume and settlement of Runs.      *)
(*                                                                         *)
(* Three stores are updated without a common transaction:                  *)
(*   - the admission ledger, one SQLite row per Run (admission-store.ts);  *)
(*   - the Work item record, one JSON file per item, always rewritten from *)
(*     a copy read earlier (dev-pr-store.ts);                              *)
(*   - the Run's event log, reduced here to the status it projects to.     *)
(* A process is one call of admitWorkItemRun, cancelRun,                   *)
(* reconcileTerminalWorkItemRun, a scheduler resume or a record edit: a    *)
(* chain of steps that yields at every await and at every separate SQLite  *)
(* transaction.  A crashed process never returns; a restarted program is   *)
(* another member of Procs.                                                *)
(***************************************************************************)
EXTENDS Naturals, FiniteSets

CONSTANTS
  Items, Runs, Procs,     \* Work items, Run ids, calls in flight
  NoItem, NoRun, NoProc,  \* null values
  Deps,                   \* Deps[i]: the items that i depends on
  Roles,                  \* Roles[p]: what process p may do
  Outcomes,               \* how a runner may end: "completed", "failed", "blocked"
  MaxEdits,               \* bound on edits of one record
  MaxFaults,              \* bound on exceptions thrown by a store
  MaxCrashes              \* bound on crashed processes

AllRoles == {"admit", "cancel", "reconcile", "resume", "edit"}

ASSUME NullAssumption ==
  NoItem \notin Items /\ NoRun \notin Runs /\ NoProc \notin Procs
ASSUME RoleAssumption ==
  /\ Deps \in [Items -> SUBSET Items]
  /\ Roles \in [Procs -> SUBSET AllRoles]
  /\ Outcomes \subseteq {"completed", "failed", "blocked"}
ASSUME BoundAssumption ==
  MaxEdits \in Nat /\ MaxFaults \in Nat /\ MaxCrashes \in Nat

VARIABLES
  ledger,        \* run_admissions, by Run id
  record,        \* the Work item JSON records
  evt,           \* what each Run's event log projects to
  quiet,         \* the resumes of a Run after whose start its log did not end again
  pr,            \* the Run's events name a change request
  continuation,  \* scheduler_resume_claims: the process that may resume a Run
  stale,         \* settlement_started_at is older than SETTLEMENT_LEASE_MS
  pc, loc,       \* each process: where it is, its local variables
  faults         \* exceptions thrown so far

vars == <<ledger, record, evt, quiet, pr, continuation, stale, pc, loc, faults>>

-----------------------------------------------------------------------------
ItemStatus == {"ready", "running", "completed", "failed"}
EvtStatus  == {"none", "running", "completed", "failed", "blocked", "cancelled"}
Stopped    == {"completed", "failed", "blocked", "cancelled"}
Ended      == {"completed", "failed", "cancelled"}

Record == [status : ItemStatus, latest : Runs \cup {NoRun},
           url : BOOLEAN, edits : 0..MaxEdits]
InitRecord == [status |-> "ready", latest |-> NoRun, url |-> FALSE, edits |-> 0]

\* The fingerprint of a candidate is the value it hashes: the whole record
\* and, for each dependency, its status and change request.
Candidate == [rec : Record, deps : SUBSET (Items \X ItemStatus \X BOOLEAN)]
NoCand == [rec |-> InitRecord, deps |-> {}]
CandidateOf(i) ==
  [rec  |-> record[i],
   deps |-> {<<d, record[d].status, record[d].url>> : d \in Deps[i]}]

\* What a settlement is going to write to the record.
Intent == [status : {"none", "completed", "failed"}, url : BOOLEAN]
NoIntent == [status |-> "none", url |-> FALSE]

Row == [state : {"none", "active", "settled", "rejected"},
        item : Items \cup {NoItem}, cand : Candidate,
        init : Procs \cup {NoProc}, projected : BOOLEAN,
        token : Procs \cup {NoProc}, intent : Intent]
NoRow == [state |-> "none", item |-> NoItem, cand |-> NoCand, init |-> NoProc,
          projected |-> FALSE, token |-> NoProc, intent |-> NoIntent]

\* run: the Run this call admits, executes or resumes; target: the Run it is
\* settling; then: what its caller does with the result of the settlement.
Local == [item : Items \cup {NoItem}, run : Runs \cup {NoRun},
          target : Runs \cup {NoRun}, cand : Candidate, rec : Record,
          intent : Intent, seen : Procs \cup {NoProc}, held : Intent,
          then : {"finish", "reclaim", "runnerError"},
          resumed : BOOLEAN]
NoLocal == [item |-> NoItem, run |-> NoRun, target |-> NoRun, cand |-> NoCand,
            rec |-> InitRecord, intent |-> NoIntent, seen |-> NoProc,
            held |-> NoIntent, then |-> "finish", resumed |-> FALSE]

AdmitPcs  == {"check", "claim", "reclaim", "verify", "reject", "admitEvent",
              "admitRead", "admitWrite", "markProjected", "confirm", "compensate"}
RunPcs    == {"execute", "runnerError"}
SettlePcs == {"settle", "refused", "contend", "recover", "settleRead", "renew", "recheck",
              "patchRead", "patchWrite", "complete", "superseded"}
OtherPcs  == {"idle", "dead", "reconcile", "revalidate", "resumeRead",
              "resumeWrite", "resumeMark", "resumeRun", "editWrite"}
Pcs == AdmitPcs \cup RunPcs \cup SettlePcs \cup OtherPcs

TypeOK ==
  /\ ledger \in [Runs -> Row]
  /\ record \in [Items -> Record]
  /\ evt \in [Runs -> EvtStatus]
  /\ quiet \in [Runs -> SUBSET Procs]
  /\ pr \in [Runs -> BOOLEAN]
  /\ continuation \in [Runs -> Procs \cup {NoProc}]
  /\ stale \in [Runs -> BOOLEAN]
  /\ pc \in [Procs -> Pcs]
  /\ loc \in [Procs -> Local]
  /\ faults \in 0..MaxFaults

Init ==
  /\ ledger = [r \in Runs |-> NoRow]
  /\ record = [i \in Items |-> InitRecord]
  /\ evt = [r \in Runs |-> "none"]
  /\ quiet = [r \in Runs |-> {}]
  /\ pr = [r \in Runs |-> FALSE]
  /\ continuation = [r \in Runs |-> NoProc]
  /\ stale = [r \in Runs |-> FALSE]
  /\ pc = [p \in Procs |-> "idle"]
  /\ loc = [p \in Procs |-> NoLocal]
  /\ faults = 0

-----------------------------------------------------------------------------
(* Ledger rows and the conditional updates of admission-store.ts.          *)

\* Slip: a candidate is compared with no earlier admission.
Live_NoIndex(i, c) == {}
Live(i, c) ==
  {r \in Runs : /\ ledger[r].state \in {"active", "settled"}
                /\ ledger[r].item = i /\ ledger[r].cand = c}
\* Slip: the ledger has no index run_admissions_one_active.
Active_NoIndex(i) == {}
Active(i) == {r \in Runs : ledger[r].state = "active" /\ ledger[r].item = i}

\* The WHERE clauses: a row that reject, beginSettlement and the updates by
\* token accept.
Unsettled(r) == ledger[r].state = "active" /\ ledger[r].token = NoProc
\* Slip: "AND settlement_token IS NULL" is missing from beginSettlement.
MayBeginSettlement_AnyToken(r) == ledger[r].state = "active" /\ ledger[r].projected
MayBeginSettlement(r) == Unsettled(r) /\ ledger[r].projected
Holds(p, r) == ledger[r].state = "active" /\ ledger[r].token = p

\* completeSettlement and abortSettlement keep or clear the intent.
\* Slip: a settled row is given a state that the others do not know.
Settled_UnknownState(r) == [ledger EXCEPT ![r].state = "done", ![r].token = NoProc]
Settled(r) == [ledger EXCEPT ![r].state = "settled", ![r].token = NoProc]
\* Slip: a failed settlement does not give its row back.
Released_Kept(r) == ledger
Released(r) == [ledger EXCEPT ![r].token = NoProc, ![r].intent = NoIntent]

\* Run ids are timestamps with a random suffix: never one already used.
Fresh == {r \in Runs : /\ ledger[r].state = "none"
                       /\ \A q \in Procs : loc[q].run # r}

(* Control flow of one process.                                            *)
At(p, label) == pc[p] = label
Goto(p, label) == pc' = [pc EXCEPT ![p] = label]

\* A Run's log projects to its last terminal event.
Append(r, status) ==
  /\ evt' = [evt EXCEPT ![r] = status]
  /\ quiet' = [quiet EXCEPT ![r] = {}]

\* The call returns; a resume's `finally` releases its continuation claim.
Finish(p) ==
  /\ pc' = [pc EXCEPT ![p] = "idle"]
  /\ loc' = [loc EXCEPT ![p] = NoLocal]
  /\ continuation' = [r \in Runs |-> IF continuation[r] = p THEN NoProc
                                                            ELSE continuation[r]]

\* settleWorkItemRun returned `result` ("error" when it threw).  A new
\* admission that was recovering the previous owner claims again, or reports
\* the conflict; a runner's result that did not settle is handled as a runner
\* error; every other caller just returns.
Return(p, result) ==
  \/ /\ loc[p].then = "reclaim"
     /\ result \in {"settled", "superseded", "notActive"}
     /\ Goto(p, "reclaim")
     /\ UNCHANGED <<loc, continuation>>
  \/ /\ loc[p].then = "runnerError" /\ result # "settled"
     /\ Goto(p, "runnerError")
     /\ UNCHANGED <<loc, continuation>>
  \/ /\ \/ loc[p].then = "finish"
        \/ loc[p].then = "runnerError" /\ result = "settled"
        \/ loc[p].then = "reclaim" /\ result \in {"admissionInProgress",
                                        "settlementInProgress", "error"}
     /\ Finish(p)

\* The call of settleWorkItemRun for Run r, from a caller that continues at
\* `next` with the result.
CallSettle(p, r, intent, next) ==
  /\ Goto(p, "settle")
  /\ loc' = [loc EXCEPT ![p].target = r, ![p].item = ledger[r].item,
                        ![p].intent = intent, ![p].then = next]
  /\ UNCHANGED continuation

-----------------------------------------------------------------------------
(* admitWorkItemRun                                                        *)

\* The caller reads the record, finds the item eligible and calls
\* admitWorkItemRun with that candidate.
StartAdmission(p, i) ==
  /\ At(p, "idle") /\ "admit" \in Roles[p]
  /\ record[i].status # "running"
  /\ Goto(p, "check")
  /\ loc' = [loc EXCEPT ![p] = [NoLocal EXCEPT !.item = i, !.cand = CandidateOf(i)]]
  /\ UNCHANGED <<ledger, record, evt, quiet, pr, continuation, stale, faults>>

CheckCandidate(p) ==
  /\ At(p, "check")
  /\ IF CandidateOf(loc[p].item) = loc[p].cand
     THEN \E r \in Fresh : /\ Goto(p, "claim")
                           /\ loc' = [loc EXCEPT ![p].run = r]
                           /\ UNCHANGED continuation
     ELSE Finish(p)
  /\ UNCHANGED <<ledger, record, evt, quiet, pr, stale, faults>>

\* RunAdmissionStore.claim in its IMMEDIATE transaction.  The first conflict
\* with an owner whose settlement began retries the settlement it recorded.
ClaimRun(p) ==
  LET i == loc[p].item
      r == loc[p].run
      conflicts == IF Live(i, loc[p].cand) # {} THEN Live(i, loc[p].cand)
                                                 ELSE Active(i)
  IN
  /\ pc[p] \in {"claim", "reclaim"}
  /\ IF conflicts = {}
     THEN /\ ledger' = [ledger EXCEPT ![r] =
               [NoRow EXCEPT !.state = "active", !.item = i,
                             !.cand = loc[p].cand, !.init = p]]
          /\ Goto(p, "verify")
          /\ UNCHANGED <<loc, continuation>>
     ELSE /\ \E q \in conflicts :
               IF /\ At(p, "claim")
                  /\ ledger[q].state = "active" /\ ledger[q].token # NoProc
               THEN CallSettle(p, q, ledger[q].intent, "reclaim")
               ELSE Finish(p)
          /\ UNCHANGED ledger
  /\ UNCHANGED <<record, evt, quiet, pr, stale, faults>>

\* The candidate is compared again now that the claim is durable.
VerifyCandidate(p) ==
  /\ At(p, "verify")
  /\ Goto(p, IF CandidateOf(loc[p].item) = loc[p].cand THEN "admitEvent"
                                                       ELSE "reject")
  /\ UNCHANGED <<ledger, record, evt, quiet, pr, continuation, stale, loc, faults>>

\* store.reject, after a stale verification or in the catch block of
\* admitWorkItemRun; the latter also ends an event log that run.admitted had
\* opened, as far as the event store lets it.
RejectClaim(p) ==
  LET r == loc[p].run IN
  /\ pc[p] \in {"reject", "compensate"}
  /\ ledger' = IF Unsettled(r)
               THEN [ledger EXCEPT ![r].state = "rejected", ![r].init = NoProc]
               ELSE ledger
  /\ \/ UNCHANGED <<evt, quiet>>
     \/ At(p, "compensate") /\ Unsettled(r) /\ evt[r] = "running"
        /\ Append(r, "failed")
  /\ Finish(p)
  /\ UNCHANGED <<record, pr, stale, faults>>

\* ensureRunAdmitted: run.admitted is appended unless the log has begun.
RecordAdmitted(p) ==
  LET r == loc[p].run IN
  /\ At(p, "admitEvent")
  /\ evt' = IF evt[r] = "none" THEN [evt EXCEPT ![r] = "running"] ELSE evt
  /\ Goto(p, "admitRead")
  /\ UNCHANGED <<ledger, record, quiet, pr, continuation, stale, loc, faults>>

\* A store throws before the record was written.
AdmissionFault(p) ==
  /\ pc[p] \in {"verify", "admitEvent", "admitRead", "admitWrite"}
  /\ faults < MaxFaults /\ faults' = faults + 1
  /\ Goto(p, "compensate")
  /\ UNCHANGED <<ledger, record, evt, quiet, pr, continuation, stale, loc>>

\* A store throws after the record was written: nothing is undone, and the row
\* keeps whatever projection mark it has.
DispatchFault(p) ==
  /\ pc[p] \in {"markProjected", "confirm"}
  /\ faults < MaxFaults /\ faults' = faults + 1
  /\ Finish(p)
  /\ UNCHANGED <<ledger, record, evt, quiet, pr, stale>>

\* admitTaskRunState: read the record, materialise its inputs, write it back.
ReadForAdmission(p) ==
  /\ At(p, "admitRead")
  /\ Goto(p, "admitWrite")
  /\ loc' = [loc EXCEPT ![p].rec = record[loc[p].item]]
  /\ UNCHANGED <<ledger, record, evt, quiet, pr, continuation, stale, faults>>

WriteAdmission(p) ==
  /\ At(p, "admitWrite")
  /\ record' = [record EXCEPT ![loc[p].item] =
       [loc[p].rec EXCEPT !.status = "running", !.latest = loc[p].run, !.url = FALSE]]
  /\ Goto(p, "markProjected")
  /\ UNCHANGED <<ledger, evt, quiet, pr, continuation, stale, loc, faults>>

MarkProjected(p) ==
  LET r == loc[p].run IN
  /\ At(p, "markProjected")
  /\ IF ledger[r].state = "active" /\ ~ledger[r].projected /\ ledger[r].init = p
     THEN /\ ledger' = [ledger EXCEPT ![r].projected = TRUE, ![r].init = NoProc]
          /\ Goto(p, "confirm")
          /\ UNCHANGED <<loc, continuation>>
     ELSE Finish(p) /\ UNCHANGED ledger
  /\ UNCHANGED <<record, evt, quiet, pr, stale, faults>>

\* The row is read back; a Run that is already being settled is not dispatched.
ConfirmDispatch(p) ==
  LET r == loc[p].run IN
  /\ At(p, "confirm")
  /\ IF Unsettled(r) /\ ledger[r].projected
     THEN Goto(p, "execute") /\ UNCHANGED <<loc, continuation>>
     ELSE Finish(p)
  /\ UNCHANGED <<ledger, record, evt, quiet, pr, stale, faults>>

-----------------------------------------------------------------------------
(* The runner and the settlement of its result                             *)

\* The publication stage records the change request it opened.
Publish(p) ==
  /\ At(p, "execute") /\ ~pr[loc[p].run]
  /\ pr' = [pr EXCEPT ![loc[p].run] = TRUE]
  /\ UNCHANGED <<ledger, record, evt, quiet, continuation, stale, pc, loc, faults>>

\* Slip: the result is settled before run.completed is appended.
CompleteRun_SettlesFirst(p) ==
  /\ At(p, "execute") /\ "completed" \in Outcomes
  /\ CallSettle(p, loc[p].run, [status |-> "completed", url |-> pr[loc[p].run]],
                "runnerError")
  /\ UNCHANGED <<ledger, record, evt, quiet, pr, stale, faults>>

\* run.completed is refused, in the transaction that would append it, once
\* run.cancelled is there; the runner then throws RunCancelledError.
CompleteRun(p) ==
  LET r == loc[p].run IN
  /\ At(p, "execute") /\ "completed" \in Outcomes
  /\ IF evt[r] = "cancelled"
     THEN Goto(p, "runnerError") /\ UNCHANGED <<evt, quiet, loc, continuation>>
     ELSE /\ Append(r, "completed")
          /\ CallSettle(p, r, [status |-> "completed", url |-> pr[r]], "runnerError")
  /\ UNCHANGED <<ledger, record, pr, stale, faults>>

\* A failing or blocking stage appends run.failed or run.blocked without
\* looking at the log, then throws.
StopRun(p, outcome) ==
  LET r == loc[p].run IN
  /\ At(p, "execute") /\ outcome \in Outcomes \ {"completed"}
  /\ Append(r, outcome)
  /\ Goto(p, "runnerError")
  /\ UNCHANGED <<ledger, record, pr, continuation, stale, loc, faults>>

\* A Run that waits for an approval returns to the call that started it, which
\* leaves the row, the record and the log as they are (applyAdmittedRunResult).
AwaitApproval(p) ==
  /\ At(p, "execute") /\ ~loc[p].resumed
  /\ Finish(p)
  /\ UNCHANGED <<ledger, record, evt, quiet, pr, stale, faults>>

\* Any other exception: run.failed is appended to a log that never ended.  The
\* look at the log and the append are two SQLite calls without an await: a
\* cancel of another program between them leaves what a cancel followed by
\* StopRun leaves, so that one step hides no state (RunnerError alike).
ThrowRun(p) ==
  LET r == loc[p].run IN
  /\ At(p, "execute")
  /\ IF evt[r] \in Stopped THEN UNCHANGED <<evt, quiet>> ELSE Append(r, "failed")
  /\ Goto(p, "runnerError")
  /\ UNCHANGED <<ledger, record, pr, continuation, stale, loc, faults>>

\* Slip: run.blocked does not count as an end of the log.
RunnerError_FailsBlocked(p) ==
  LET r == loc[p].run
      recorded == evt[r] \in Ended
      status == IF recorded THEN evt[r] ELSE "failed"
  IN
  /\ At(p, "runnerError")
  /\ IF recorded THEN UNCHANGED <<evt, quiet>> ELSE Append(r, "failed")
  /\ CallSettle(p, r, [status |-> IF status = "completed" THEN status ELSE "failed",
                       url |-> pr[r]], "finish")
  /\ UNCHANGED <<ledger, record, pr, stale, faults>>

\* terminalProjectionAfterRunnerError then settleRunnerErrorProjection.  A
\* resumed Run whose log did not end again since the resume began gets a
\* run.failed of its own.
RunnerError(p) ==
  LET r == loc[p].run
      recorded == IF loc[p].resumed THEN p \notin quiet[r] ELSE evt[r] \in Stopped
      status == IF recorded THEN evt[r] ELSE "failed"
  IN
  /\ At(p, "runnerError")
  /\ IF recorded THEN UNCHANGED <<evt, quiet>> ELSE Append(r, "failed")
  /\ IF status = "blocked"
     THEN Finish(p)
     ELSE CallSettle(p, r, [status |-> IF status = "completed" THEN status
                                                               ELSE "failed",
                            url |-> pr[r]], "finish")
  /\ UNCHANGED <<ledger, record, pr, stale, faults>>

-----------------------------------------------------------------------------
(* cancelRun and reconcileTerminalWorkItemRun                              *)

\* One write transaction: refused for a Run that is unknown or has ended.
CancelRun(p, r) ==
  /\ At(p, "idle") /\ "cancel" \in Roles[p]
  /\ evt[r] \notin Ended \cup {"none"}
  /\ Append(r, "cancelled")
  /\ Goto(p, "reconcile")
  /\ loc' = [loc EXCEPT ![p].target = r, ![p].item = ledger[r].item]
  /\ UNCHANGED <<ledger, record, pr, continuation, stale, faults>>

\* The scheduler's cycle, and a manual start, reconcile an item that is
\* `running` with its latest Run.
StartReconcile(p, i) ==
  /\ At(p, "idle") /\ "reconcile" \in Roles[p]
  /\ record[i].status = "running" /\ record[i].latest # NoRun
  /\ Goto(p, "reconcile")
  /\ loc' = [loc EXCEPT ![p].target = record[i].latest, ![p].item = i]
  /\ UNCHANGED <<ledger, record, evt, quiet, pr, continuation, stale, faults>>

\* Slip: an item that is `running` is settled whatever its Run projects to.
Reconcile_AnyStatus(p) ==
  /\ At(p, "reconcile")
  /\ CallSettle(p, loc[p].target, [status |-> "failed", url |-> FALSE], "finish")
  /\ UNCHANGED <<ledger, record, evt, quiet, pr, stale, faults>>

Reconcile(p) ==
  LET r == loc[p].target IN
  /\ At(p, "reconcile")
  /\ IF evt[r] \in Ended
     THEN CallSettle(p, r, [status |-> IF evt[r] = "completed" THEN "completed"
                                                               ELSE "failed",
                            url |-> pr[r]], "finish")
     ELSE Finish(p)
  /\ UNCHANGED <<ledger, record, evt, quiet, pr, stale, faults>>

-----------------------------------------------------------------------------
(* settleWorkItemRun                                                       *)

\* The row is read and beginSettlement tried.
BeginSettlement(p) ==
  LET r == loc[p].target IN
  /\ At(p, "settle")
  /\ IF MayBeginSettlement(r)
     THEN /\ ledger' = [ledger EXCEPT ![r].token = p, ![r].intent = loc[p].intent]
          /\ stale' = [stale EXCEPT ![r] = FALSE]
          /\ Goto(p, "settleRead")
          /\ UNCHANGED <<loc, continuation>>
     ELSE /\ IF ledger[r].state = "active" /\ ledger[r].projected
             THEN Goto(p, "refused") /\ UNCHANGED <<loc, continuation>>
             ELSE Return(p, IF ledger[r].state = "active" THEN "admissionInProgress"
                                                          ELSE "notActive")
          /\ UNCHANGED <<ledger, stale>>
  /\ UNCHANGED <<record, evt, quiet, pr, faults>>

\* beginSettlement was refused: the token and the intent of the owner are read,
\* if there is still one.
ReadOwner(p) ==
  LET row == ledger[loc[p].target] IN
  /\ At(p, "refused")
  /\ IF row.state = "active" /\ row.token # NoProc
     THEN /\ Goto(p, "contend")
          /\ loc' = [loc EXCEPT ![p].seen = row.token, ![p].held = row.intent]
          /\ UNCHANGED continuation
     ELSE Return(p, "notActive")
  /\ UNCHANGED <<ledger, record, evt, quiet, pr, stale, faults>>

Shows(rec, r, intent) ==
  rec.latest = r /\ rec.status = intent.status /\ rec.url = intent.url

\* Slip: an old lease alone authorises recovery.
ProjectionIsDurable_Assumed(p) == TRUE

\* projectedSettlementMatches: the owner means to write what this call would
\* write, and the record that was read shows it.
ProjectionIsDurable(p) ==
  loc[p].held = loc[p].intent /\ Shows(loc[p].rec, loc[p].target, loc[p].held)

ReadContended(p) ==
  /\ At(p, "contend")
  /\ loc' = [loc EXCEPT ![p].rec = record[loc[p].item]]
  /\ Goto(p, "recover")
  /\ UNCHANGED <<ledger, record, evt, quiet, pr, continuation, stale, faults>>

\* recoverStaleSettlementAfterProof: only if the record read shows the intent
\* of the owner, which must be this call's own, and the owner's lease is old.
RecoverStale(p) ==
  LET r == loc[p].target
      superseded == loc[p].rec.latest # r
      durable == ProjectionIsDurable(p)
      recovers == durable /\ Holds(loc[p].seen, r) /\ stale[r]
  IN
  /\ At(p, "recover")
  /\ ledger' = IF recovers THEN Settled(r) ELSE ledger
  /\ Return(p, IF recovers THEN "settled"
               ELSE IF ledger[r].state # "settled" THEN "settlementInProgress"
               ELSE IF superseded THEN "superseded"
               ELSE IF durable THEN "settled" ELSE "notActive")
  /\ UNCHANGED <<record, evt, quiet, pr, stale, faults>>

\* Slip: the record is not written before the settlement completes.
ReadForSettlement_NoPatch(p) ==
  /\ pc[p] \in {"settleRead", "recheck"}
  /\ Goto(p, IF At(p, "settleRead") THEN "renew" ELSE "complete")
  /\ UNCHANGED <<ledger, record, evt, quiet, pr, continuation, stale, loc, faults>>

\* The two reads of the record, before and after the lease is renewed: a Run
\* that is no longer the item's latest is settled without touching the record.
ReadForSettlement(p) ==
  /\ pc[p] \in {"settleRead", "recheck"}
  /\ Goto(p, IF record[loc[p].item].latest # loc[p].target THEN "superseded"
             ELSE IF At(p, "settleRead") THEN "renew" ELSE "patchRead")
  /\ UNCHANGED <<ledger, record, evt, quiet, pr, continuation, stale, loc, faults>>

\* A lost lease is fatal unless the row was settled meanwhile.
RenewLease(p) ==
  LET r == loc[p].target
      rec == record[loc[p].item]
  IN
  /\ At(p, "renew")
  /\ IF Holds(p, r)
     THEN /\ stale' = [stale EXCEPT ![r] = FALSE]
          /\ Goto(p, "recheck")
          /\ UNCHANGED <<loc, continuation>>
     ELSE /\ Return(p, IF ledger[r].state # "settled" THEN "error"
                       ELSE IF rec.latest # r THEN "superseded"
                       ELSE IF ledger[r].intent = loc[p].intent
                               /\ Shows(rec, r, loc[p].intent)
                       THEN "settled" ELSE "error")
          /\ UNCHANGED stale
  /\ UNCHANGED <<ledger, record, evt, quiet, pr, faults>>

\* updateTaskRunState: the record is read once more and written back.
ReadForPatch(p) ==
  /\ At(p, "patchRead")
  /\ loc' = [loc EXCEPT ![p].rec = record[loc[p].item]]
  /\ Goto(p, "patchWrite")
  /\ UNCHANGED <<ledger, record, evt, quiet, pr, continuation, stale, faults>>

WriteOutcome(p) ==
  LET to == loc[p].intent IN
  /\ At(p, "patchWrite")
  /\ record' = [record EXCEPT ![loc[p].item] =
       [loc[p].rec EXCEPT !.status = to.status, !.latest = loc[p].target,
                          !.url = to.url]]
  /\ Goto(p, "complete")
  /\ UNCHANGED <<ledger, evt, quiet, pr, continuation, stale, loc, faults>>

\* completeSettlementOrThrow, after the record was written or superseded.
CompleteSettlement(p) ==
  LET r == loc[p].target
      own == Holds(p, r)
  IN
  /\ pc[p] \in {"complete", "superseded"}
  /\ ledger' = IF own THEN Settled(r) ELSE ledger
  /\ Return(p, IF ~own /\ ledger[r].state # "settled" THEN "error"
               ELSE IF At(p, "complete") THEN "settled" ELSE "superseded")
  /\ UNCHANGED <<record, evt, quiet, pr, stale, faults>>

\* An exception before the record was written gives the row back; one after it
\* leaves the token to a proof-based recovery.
SettlementFault(p) ==
  LET r == loc[p].target IN
  /\ pc[p] \in {"settleRead", "renew", "recheck", "patchRead", "patchWrite",
                "superseded", "complete"}
  /\ faults < MaxFaults /\ faults' = faults + 1
  /\ ledger' = IF Holds(p, r) /\ ~At(p, "complete")
               THEN Released(r) ELSE ledger
  /\ Return(p, "error")
  /\ UNCHANGED <<record, evt, quiet, pr, stale>>

-----------------------------------------------------------------------------
(* The scheduler's resume of a blocked Run, and edits of a record          *)

\* Slip: a resume does not take the Run continuation claim.
Unclaimed_Ignored(r) == TRUE
Unclaimed(r) == continuation[r] = NoProc

Resumable(i, r) ==
  /\ record[i].latest = r /\ record[i].status # "completed"
  /\ evt[r] = "blocked"

\* claimRunContinuation: one row per Run, no expiry.
ClaimContinuation(p, i, r) ==
  /\ At(p, "idle") /\ "resume" \in Roles[p]
  /\ Resumable(i, r) /\ Unclaimed(r)
  /\ continuation' = [continuation EXCEPT ![r] = p]
  /\ Goto(p, "revalidate")
  /\ loc' = [loc EXCEPT ![p].item = i, ![p].run = r]
  /\ UNCHANGED <<ledger, record, evt, quiet, pr, stale, faults>>

Revalidate(p) ==
  /\ At(p, "revalidate")
  /\ IF Resumable(loc[p].item, loc[p].run)
     THEN Goto(p, "resumeRead") /\ UNCHANGED <<loc, continuation>>
     ELSE Finish(p)
  /\ UNCHANGED <<ledger, record, evt, quiet, pr, stale, faults>>

\* updateSchedulerWorkItem marks the item `running`, whatever the ledger says.
ReadForResume(p) ==
  /\ At(p, "resumeRead")
  /\ Goto(p, "resumeWrite")
  /\ loc' = [loc EXCEPT ![p].rec = record[loc[p].item]]
  /\ UNCHANGED <<ledger, record, evt, quiet, pr, continuation, stale, faults>>

WriteResume(p) ==
  /\ At(p, "resumeWrite")
  /\ record' = [record EXCEPT ![loc[p].item] =
       [loc[p].rec EXCEPT !.status = "running", !.latest = loc[p].run, !.url = FALSE]]
  /\ Goto(p, "resumeMark")
  /\ UNCHANGED <<ledger, evt, quiet, pr, continuation, stale, loc, faults>>

\* latestRunEventSequence: only what is appended from here on counts as the
\* outcome of the resume.
MarkLog(p) ==
  /\ At(p, "resumeMark")
  /\ quiet' = [quiet EXCEPT ![loc[p].run] = @ \cup {p}]
  /\ loc' = [loc EXCEPT ![p].resumed = TRUE]
  /\ Goto(p, "resumeRun")
  /\ UNCHANGED <<ledger, record, evt, pr, continuation, stale, faults>>

\* resumeRunOnce refuses a cancelled Run.  Any other restarts at the stage that
\* blocked it; its log projects to `blocked` until it ends again (run.resumed
\* is appended only for a Run that no stage blocked).
ResumeRun(p) ==
  /\ At(p, "resumeRun")
  /\ Goto(p, IF evt[loc[p].run] = "cancelled" THEN "runnerError" ELSE "execute")
  /\ UNCHANGED <<ledger, record, evt, quiet, pr, continuation, stale, loc, faults>>

\* An edit rewrites the whole record from the copy it read (updateTaskSource-
\* Record, updateTaskDependencies, ...).
StartEdit(p, i) ==
  /\ At(p, "idle") /\ "edit" \in Roles[p]
  /\ record[i].edits < MaxEdits
  /\ Goto(p, "editWrite")
  /\ loc' = [loc EXCEPT ![p].item = i, ![p].rec = record[i]]
  /\ UNCHANGED <<ledger, record, evt, quiet, pr, continuation, stale, faults>>

WriteEdit(p) ==
  /\ At(p, "editWrite")
  /\ record' = [record EXCEPT ![loc[p].item] =
       [loc[p].rec EXCEPT !.edits = @ + 1]]
  /\ Finish(p)
  /\ UNCHANGED <<ledger, evt, quiet, pr, stale, faults>>

-----------------------------------------------------------------------------
(* Environment                                                             *)

Crash(p) ==
  /\ pc[p] \notin {"idle", "dead"}
  /\ Cardinality({q \in Procs : At(q, "dead")}) < MaxCrashes
  /\ Goto(p, "dead")
  /\ loc' = [loc EXCEPT ![p] = NoLocal]
  /\ UNCHANGED <<ledger, record, evt, quiet, pr, continuation, stale, faults>>

\* SETTLEMENT_LEASE_MS pass since the settlement began or was renewed.
LeaseGrowsOld(r) ==
  /\ ledger[r].state = "active" /\ ledger[r].token # NoProc /\ ~stale[r]
  /\ stale' = [stale EXCEPT ![r] = TRUE]
  /\ UNCHANGED <<ledger, record, evt, quiet, pr, continuation, pc, loc, faults>>

AdmitStep(p) ==
  \/ CheckCandidate(p) \/ ClaimRun(p) \/ VerifyCandidate(p) \/ RejectClaim(p)
  \/ RecordAdmitted(p) \/ ReadForAdmission(p) \/ WriteAdmission(p)
  \/ MarkProjected(p) \/ ConfirmDispatch(p)

RunStep(p) ==
  \/ CompleteRun(p) \/ \E o \in Outcomes : StopRun(p, o)
  \/ AwaitApproval(p) \/ ThrowRun(p) \/ RunnerError(p) \/ Reconcile(p)

SettleStep(p) ==
  \/ BeginSettlement(p) \/ ReadOwner(p) \/ ReadContended(p) \/ RecoverStale(p)
  \/ ReadForSettlement(p) \/ RenewLease(p) \/ ReadForPatch(p)
  \/ WriteOutcome(p) \/ CompleteSettlement(p)

ResumeStep(p) ==
  \/ Revalidate(p) \/ ReadForResume(p) \/ WriteResume(p) \/ MarkLog(p)
  \/ ResumeRun(p) \/ WriteEdit(p)

\* A call that has begun goes on; it does not choose its faults.
Step(p) == AdmitStep(p) \/ RunStep(p) \/ SettleStep(p) \/ ResumeStep(p)

Call(p) ==
  \/ \E i \in Items : StartAdmission(p, i) \/ StartReconcile(p, i) \/ StartEdit(p, i)
  \/ \E r \in Runs : CancelRun(p, r)
  \/ \E i \in Items, r \in Runs : ClaimContinuation(p, i, r)

Next ==
  \/ \E p \in Procs : \/ Step(p) \/ Call(p) \/ Publish(p) \/ Crash(p)
                      \/ AdmissionFault(p) \/ DispatchFault(p) \/ SettlementFault(p)
  \/ \E r \in Runs : LeaseGrowsOld(r)

Spec == Init /\ [][Next]_vars

\* A call in progress is run by the event loop until it returns, and the
\* scheduler goes on reconciling the items it finds `running`.
Fairness ==
  /\ \A p \in Procs : WF_vars(Step(p))
  /\ \A p \in Procs, i \in Items : WF_vars(StartReconcile(p, i))
FairSpec == Spec /\ Fairness
=============================================================================
