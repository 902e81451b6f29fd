------------------------ MODULE RunSettlementProofs -------------------------
(* Theorems about the calls of RunAdmission and the stores they share: one *)
(* runner per Run, settlement fenced by its row, logs that end before a row *)
(* does, records that show what the ledger says, and the refinement of     *)
(* RunOwnership.                                                           *)
EXTENDS RunAdmissionProofs

(* The calls that work for a Run                                           *)

ClosedPcs == {"verify", "reject", "admitEvent", "admitRead", "admitWrite", "compensate"}
EndStatus == {"completed", "failed"}

\* p is about to claim for a new Run; p starts one, until its runner returns;
\* p resumes one, until it returns.
Claiming(p) ==
  pc[p] \in ClaimPcs \/ (pc[p] \in SettlePcs /\ loc[p].then = "reclaim")
Starts(p) ==
  \/ Claiming(p)
  \/ pc[p] \in AdmitPcs \ {"check"}
  \/ (pc[p] = "execute" /\ ~loc[p].resumed)
Resumes(p) == pc[p] \in ResumePcs \/ loc[p].resumed

\* A call that starts a Run is alone with it, and its log has not ended but by
\* a cancel.
Starter(p) ==
  /\ pc[p] \in {"idle", "dead"} => loc[p] = NoLocal
  /\ pc[p] = "check" \/ Starts(p) => ~loc[p].resumed
  /\ Starts(p) =>
       /\ loc[p].run \in Runs
       /\ evt[loc[p].run] \notin {"completed", "failed", "blocked"}
       /\ \A q \in Procs \ {p} : loc[q].run # loc[p].run

\* The row of a Run that is being admitted: not there yet, not yet projected,
\* then projected.
Admitted(p) ==
  /\ Claiming(p) => ledger[loc[p].run].state = "none"
  /\ pc[p] \in ClosedPcs \cup {"markProjected"} =>
       ledger[loc[p].run].state = "active" /\ ~ledger[loc[p].run].projected
  /\ pc[p] = "execute" \/ Resumes(p) =>
       ledger[loc[p].run].state # "rejected" /\ ledger[loc[p].run].projected

\* A call that resumes a Run holds its continuation claim.  The log still says
\* that the Run is blocked, or cancelled, until the resumed runner stops.
Resumer(p) ==
  /\ Resumes(p) => loc[p].run \in Runs /\ continuation[loc[p].run] = p
  /\ loc[p].resumed => evt[loc[p].run] \in Stopped
  /\ pc[p] = "resumeRun" => loc[p].resumed
  /\ pc[p] \in ResumePcs \/ (pc[p] = "execute" /\ loc[p].resumed) =>
       evt[loc[p].run] \in {"blocked", "cancelled"}

RowsOK ==
  \A r \in Runs :
    /\ ledger[r].token # NoProc => ledger[r].state = "active" /\ ledger[r].projected
    /\ ledger[r].projected => ledger[r].state # "none"
    /\ evt[r] = "blocked" => ledger[r].state # "rejected" /\ ledger[r].projected

CallInv == RowsOK /\ \A p \in Procs : Starter(p) /\ Admitted(p) /\ Resumer(p)

-----------------------------------------------------------------------------
(* Settlements                                                             *)

SettlerPcs == {"settleRead", "renew", "recheck", "patchRead", "patchWrite", "superseded"}

\* A record, or a copy of one, that shows the outcome of a Run was written by
\* the settlement that still has its row or completed; no call will write another.
Owned(r) == ledger[r].state = "settled" \/ ledger[r].token # NoProc
Final(rec) ==
  rec.latest \in Runs /\ rec.status \in EndStatus =>
    /\ Owned(rec.latest)
    /\ ledger[rec.latest].intent = [status |-> rec.status, url |-> rec.url]
    /\ \A p \in Procs : pc[p] \in SettlerPcs => loc[p].target # rec.latest

SettleInv ==
  /\ SettlerHoldsRow
  /\ \A i \in Items : Final(record[i])
  /\ \A p \in Procs : Final(loc[p].rec)

-----------------------------------------------------------------------------
(* Logs that end                                                           *)

\* No Run may be cancelled, or none may block: a stage that blocks after a cancel
\* reopens a log that ended (the violation run cancel_overwritten).
NoOverwrite == (\E p \in Procs : "cancel" \in Roles[p]) => "blocked" \notin Outcomes

EndInv ==
  /\ \A r \in Runs :
       /\ Owned(r) => evt[r] \in Ended
       /\ evt[r] = "cancelled" => \E p \in Procs : "cancel" \in Roles[p]
       /\ evt[r] = "blocked" => "blocked" \in Outcomes
  /\ \A p \in Procs : pc[p] \in SettlePcs => evt[loc[p].target] \in Ended

-----------------------------------------------------------------------------
(* Records without edits                                                   *)

\* No record is edited while its Runs are at work: an edit writes the whole record
\* back and may lose the write that shows a Run.
NoEdits == MaxEdits = 0 \/ \A p \in Procs : "edit" \notin Roles[p]

\* A record names Runs of its item, and so does a call that works for one.
Placed(p) ==
  /\ pc[p] # "editWrite"
  /\ pc[p] \in RunKnownPcs \ RunPcs => loc[p].item = ledger[loc[p].run].item
  /\ pc[p] \in SettlePcs \cup {"reconcile"} => loc[p].item = ledger[loc[p].target].item
  /\ Resumes(p) => "blocked" \in Outcomes
ItemInv ==
  /\ \A i \in Items : record[i].latest \in Runs =>
       ledger[record[i].latest].item = i /\ record[i].status # "ready"
  /\ \A p \in Procs : Placed(p)

\* The item of an active, projected row shows its Run; the item of a settled one
\* that it still shows, an outcome.
RowShown(r) ==
  LET rec == record[ledger[r].item] IN
  /\ ledger[r].state = "active" /\ ledger[r].projected => rec.latest = r
  /\ ledger[r].state = "settled" /\ rec.latest = r => rec.status \in EndStatus
\* A call that has not written the record, or has.
Fits(p) ==
  LET rec == record[loc[p].item] IN
  /\ pc[p] # "superseded"
  /\ pc[p] \in ClosedPcs => rec.latest # loc[p].run
  /\ pc[p] = "markProjected" => rec.latest = loc[p].run /\ rec.status = "running"
  /\ pc[p] = "complete" /\ Holds(p, loc[p].target) => rec.status \in EndStatus
\* A copy that shows an outcome is not older than the record.
CopyShown(rec) ==
  rec.latest \in Runs /\ rec.status \in EndStatus =>
    LET now == record[ledger[rec.latest].item] IN
    now.latest = rec.latest => now.status \in EndStatus
ShownInv ==
  /\ \A r \in Runs : RowShown(r)
  /\ \A p \in Procs : Fits(p) /\ CopyShown(loc[p].rec)
-----------------------------------------------------------------------------
(* What a step of one call does to the others                              *)

\* The log of a Run ends only by a cancel or by a call that works for the Run.
Ends(p, r) ==
  /\ loc[p].run = r
  /\ \/ pc[p] = "execute"
     \/ pc[p] = "compensate" /\ evt'[r] # "blocked"
     \/ pc[p] = "runnerError" /\ evt'[r] # "blocked"
        /\ (loc[p].resumed \/ evt[r] \notin Stopped)
LogStep(p) ==
  \A r \in Runs :
    \/ evt'[r] = evt[r]
    \/ evt'[r] = "cancelled"
    \/ evt[r] = "none" /\ evt'[r] = "running"
    \/ evt'[r] \in Stopped /\ Ends(p, r)

\* What may become of a row: claimed, rejected or projected by the call that
\* starts its Run, and settled once it is projected.
RowStep(p) ==
  \A r \in Runs :
    /\ ledger'[r].token # NoProc => ledger'[r].state = "active" /\ ledger'[r].projected
    /\ \/ ledger'[r] = ledger[r]
       \/ /\ Claiming(p) /\ loc[p].run = r /\ ledger[r].state = "none"
          /\ ledger'[r].state = "active" /\ ~ledger'[r].projected
       \/ /\ pc[p] \in {"reject", "compensate"} /\ loc[p].run = r
          /\ ledger'[r].state = "rejected" /\ ~ledger'[r].projected
       \/ /\ pc[p] = "markProjected" /\ loc[p].run = r
          /\ ledger'[r].state = ledger[r].state /\ ledger'[r].projected
       \/ /\ ledger[r].state = "active" /\ ledger[r].projected
          /\ ledger'[r].state \in {"active", "settled"} /\ ledger'[r].projected

\* A call takes up no Run that another one starts, and no claim of another.
Apart(p) ==
  /\ \A q \in Procs \ {p} : Starts(q) => loc'[p].run # loc[q].run
  /\ \A q \in Procs \ {p}, r \in Runs : continuation[r] = q => continuation'[r] = q

Effects(p) == Others(p) /\ LogStep(p) /\ RowStep(p) /\ Apart(p)

\* A log that ended by the hand of p ended for a Run that no other call starts,
\* and that no other call resumes.
LEMMA EndsAlone ==
  ASSUME TypeInv, CallInv, NEW p \in Procs, NEW r \in Runs, Ends(p, r),
         NEW q \in Procs \ {p}, loc[q].run = r
  PROVE  /\ ~Starts(q)
         /\ ~(pc[q] \in ResumePcs \/ (pc[q] = "execute" /\ loc[q].resumed))
<1>1. Starter(p) /\ Starter(q) /\ Resumer(p) /\ Resumer(q)
  BY DEF CallInv
<1>2. ~Starts(q) /\ ~Starts(p)
  BY <1>1 DEF Starter, Ends
<1>3. pc[p] # "compensate" /\ (pc[p] = "execute" => loc[p].resumed)
  BY <1>2 DEF Starts, AdmitPcs
<1>4. ASSUME pc[q] \in ResumePcs \/ (pc[q] = "execute" /\ loc[q].resumed) PROVE FALSE
  <2>1. continuation[r] = q /\ evt[r] \in Stopped
    BY <1>1, <1>4 DEF Resumer, Resumes, Stopped
  <2>2. loc[p].resumed
    BY <1>3, <2>1 DEF Ends
  <2> QED BY <1>1, <2>1, <2>2 DEF Resumer, Resumes, Ends
<1> QED BY <1>2, <1>4

\* What the other calls know survives the step.
LEMMA OthersKept ==
  ASSUME TypeInv, CallInv, NEW p \in Procs, Effects(p), NEW q \in Procs \ {p}
  PROVE  Starter(q)' /\ Admitted(q)' /\ Resumer(q)'
<1> DEFINE r == loc[q].run
<1>1. /\ pc'[q] = pc[q] /\ loc'[q] = loc[q]
      /\ Claiming(q)' = Claiming(q) /\ Starts(q)' = Starts(q) /\ Resumes(q)' = Resumes(q)
  BY DEF Effects, Others, Claiming, Starts, Resumes
<1>2. Starter(q) /\ Admitted(q) /\ Resumer(q) /\ RowsOK
  BY DEF CallInv
<1>3. Starter(q)'
  <2>1. ASSUME Starts(q) PROVE evt'[r] \notin {"completed", "failed", "blocked"}
    <3>1. r \in Runs /\ evt[r] \notin {"completed", "failed", "blocked"}
      BY <1>2, <2>1 DEF Starter
    <3>2. ~Ends(p, r)
      BY <2>1, <3>1, EndsAlone
    <3> QED BY <3>1, <3>2 DEF Effects, LogStep
  <2>2. ASSUME Starts(q), NEW s \in Procs \ {q} PROVE loc'[s].run # r
    BY <1>2, <2>2 DEF Starter, Effects, Others, Apart
  <2> QED BY <1>1, <1>2, <2>1, <2>2 DEF Starter
<1>4. Admitted(q)'
  <2>1. ASSUME Starts(q) PROVE r \in Runs /\ loc[p].run # r
    BY <1>2, <2>1 DEF Starter
  <2>2. ASSUME Claiming(q) PROVE ledger'[r].state = "none"
    <3>1. Starts(q) BY <2>2 DEF Starts
    <3> QED BY <1>2, <2>1, <2>2, <3>1 DEF Admitted, Effects, RowStep
  <2>3. ASSUME pc[q] \in ClosedPcs \cup {"markProjected"}
        PROVE  ledger'[r].state = "active" /\ ~ledger'[r].projected
    <3>1. Starts(q) BY <2>3 DEF Starts, ClosedPcs, AdmitPcs
    <3> QED BY <1>2, <2>1, <2>3, <3>1 DEF Admitted, Effects, RowStep
  <2>4. ASSUME pc[q] = "execute" \/ Resumes(q)
        PROVE  ledger'[r].state # "rejected" /\ ledger'[r].projected
    <3>1. r \in Runs /\ ledger[r].state # "rejected" /\ ledger[r].projected
      BY <1>2, <2>4, <2>1 DEF Admitted, Resumer, Starts, Resumes
    <3>2. ledger[r].state # "none"
      BY <1>2, <3>1 DEF RowsOK
    <3>3. ASSUME pc[p] \in {"reject", "compensate"}, loc[p].run = r PROVE FALSE
      <4>1. Starts(p) BY <3>3 DEF Starts, AdmitPcs
      <4> QED BY <3>3, <4>1 DEF CallInv, Starter
    <3> QED BY <3>1, <3>2, <3>3 DEF Effects, RowStep
  <2> QED BY <1>1, <2>2, <2>3, <2>4 DEF Admitted
<1>5. Resumer(q)'
  <2>1. ASSUME Resumes(q) PROVE r \in Runs /\ continuation'[r] = q
    BY <1>2, <2>1 DEF Resumer, Effects, Apart
  <2>2. ASSUME loc[q].resumed PROVE evt'[r] \in Stopped
    <3>1. r \in Runs /\ evt[r] \in Stopped
      BY <1>2, <2>2 DEF Resumer, Resumes
    <3> QED BY <3>1 DEF Effects, LogStep, Stopped
  <2>3. ASSUME pc[q] \in ResumePcs \/ (pc[q] = "execute" /\ loc[q].resumed)
        PROVE  evt'[r] \in {"blocked", "cancelled"}
    <3>1. r \in Runs /\ evt[r] \in {"blocked", "cancelled"}
      BY <1>2, <2>3 DEF Resumer, Resumes
    <3>2. ~Ends(p, r)
      BY <2>3, <3>1, EndsAlone
    <3> QED BY <3>1, <3>2 DEF Effects, LogStep
  <2> QED BY <1>1, <1>2, <2>1, <2>2, <2>3 DEF Resumer
<1> QED BY <1>3, <1>4, <1>5

\* What the rows promise survives the step.
LEMMA RowsKept ==
  ASSUME TypeInv, CallInv, NEW p \in Procs, Effects(p) PROVE RowsOK'
<1> SUFFICES ASSUME NEW r \in Runs
    PROVE  /\ ledger'[r].token # NoProc => ledger'[r].state = "active" /\ ledger'[r].projected
           /\ ledger'[r].projected => ledger'[r].state # "none"
           /\ evt'[r] = "blocked" => ledger'[r].state # "rejected" /\ ledger'[r].projected
  BY DEF RowsOK
<1>1. /\ ledger[r].projected => ledger[r].state # "none"
      /\ evt[r] = "blocked" => ledger[r].state # "rejected" /\ ledger[r].projected
  BY DEF CallInv, RowsOK
<1>2. ASSUME pc[p] = "markProjected", loc[p].run = r PROVE ledger[r].state = "active"
  BY <1>2 DEF CallInv, Admitted
<1>3. ledger'[r].projected => ledger'[r].state # "none"
  BY <1>1, <1>2 DEF Effects, RowStep
<1>4. ASSUME evt'[r] = "blocked" PROVE ledger'[r].state # "rejected" /\ ledger'[r].projected
  <2>1. ledger[r].state # "rejected" /\ ledger[r].projected
    <3>1. CASE evt[r] = "blocked" BY <1>1, <3>1
    <3>2. CASE evt[r] # "blocked"
      <4>1. pc[p] = "execute" /\ loc[p].run = r
        BY <1>4, <3>2 DEF Effects, LogStep, Ends
      <4> QED BY <4>1 DEF CallInv, Admitted
    <3> QED BY <3>1, <3>2
  <2>2. ledger[r].state # "none" BY <1>1, <2>1
  <2>3. ASSUME pc[p] \in {"reject", "compensate"}, loc[p].run = r PROVE FALSE
    <3>1. ~ledger[r].projected BY <2>3 DEF CallInv, Admitted, ClosedPcs
    <3> QED BY <2>1, <3>1
  <2> QED BY <2>1, <2>2, <2>3 DEF Effects, RowStep
<1> QED BY <1>3, <1>4 DEF Effects, RowStep

\* What is left to show of a step of p: what p itself knows afterwards.
LEMMA CallInvKept ==
  ASSUME TypeInv, CallInv, NEW p \in Procs, Effects(p),
         Starter(p)', Admitted(p)', Resumer(p)'
  PROVE  CallInv'
BY OthersKept, RowsKept DEF CallInv

-----------------------------------------------------------------------------
(* What a call knows after a step of its own                               *)

Knows(p) == Starter(p) /\ Admitted(p) /\ Resumer(p)

\* A step that changes neither ledger nor logs has no other effect on them.
LEMMA QuietEffects ==
  ASSUME TypeInv, CallInv, NEW p \in Procs, Others(p), Apart(p), UNCHANGED <<ledger, evt>>
  PROVE  Effects(p)
BY DEF Effects, LogStep, RowStep, CallInv, RowsOK

\* A call that keeps its Run takes none up.
LEMMA ApartSame ==
  ASSUME TypeInv, CallInv, NEW p \in Procs, loc'[p].run = loc[p].run,
         UNCHANGED continuation
  PROVE  Apart(p)
BY DEF Apart, CallInv, Starter

\* A call that returns works for no Run any more and releases its claims.
LEMMA FinishCall ==
  ASSUME TypeInv, CallInv, NEW p \in Procs, Finish(p)
  PROVE  Others(p) /\ Apart(p) /\ Knows(p)'
<1>1. pc'[p] = "idle" /\ loc'[p] = NoLocal /\ Others(p)
  BY DEF Finish, TypeInv, TypeOK, Others
<1>2. Apart(p)
  <2>1. \A q \in Procs : Starts(q) => loc[q].run # NoRun
    BY NullAssumption DEF CallInv, Starter
  <2>2. \A q \in Procs \ {p}, r \in Runs : continuation[r] = q => continuation'[r] = q
    BY DEF Finish
  <2> QED BY <1>1, <2>1, <2>2 DEF Apart, NoLocal
<1>3. Knows(p)'
  <2>1. ~Starts(p)' /\ ~Claiming(p)' /\ ~Resumes(p)'
    BY <1>1 DEF Starts, Claiming, Resumes, NoLocal, AdmitPcs, ClaimPcs, SettlePcs, ResumePcs
  <2>2. pc'[p] \notin ClosedPcs /\ pc'[p] \notin ResumePcs
    BY <1>1 DEF ClosedPcs, ResumePcs
  <2> QED
    BY <1>1, <2>1, <2>2 DEF Knows, Starter, Admitted, Resumer, NoLocal
<1> QED BY <1>1, <1>2, <1>3

\* The same of a process that dies, except that its claims stay.
LEMMA CrashCall ==
  ASSUME TypeInv, CallInv, NEW p \in Procs, Crash(p)
  PROVE  CallInv'
<1>1. pc'[p] = "dead" /\ loc'[p] = NoLocal /\ Others(p)
  BY DEF Crash, Goto, TypeInv, TypeOK, Others
<1>2. Apart(p)
  <2>1. \A q \in Procs : Starts(q) => loc[q].run # NoRun
    BY NullAssumption DEF CallInv, Starter
  <2> QED BY <1>1, <2>1 DEF Apart, NoLocal, Crash
<1>3. Knows(p)'
  <2>1. ~Starts(p)' /\ ~Claiming(p)' /\ ~Resumes(p)'
    BY <1>1 DEF Starts, Claiming, Resumes, NoLocal, AdmitPcs, ClaimPcs, SettlePcs, ResumePcs
  <2>2. pc'[p] \notin ClosedPcs /\ pc'[p] \notin ResumePcs
    BY <1>1 DEF ClosedPcs, ResumePcs
  <2> QED
    BY <1>1, <2>1, <2>2 DEF Knows, Starter, Admitted, Resumer, NoLocal
<1>4. UNCHANGED <<ledger, evt>> BY DEF Crash
<1> QED
  BY <1>1, <1>2, <1>3, <1>4, QuietEffects, CallInvKept DEF Knows

\* A step to a place where the call neither starts a Run nor has just taken one up.
LEMMA LeaveCall ==
  ASSUME TypeInv, CallInv, NEW p \in Procs, LogStep(p), UNCHANGED <<ledger, continuation>>,
         loc'[p].run = loc[p].run, loc'[p].resumed = loc[p].resumed,
         pc[p] \in {"idle", "execute", "runnerError", "reconcile"},
         \/ pc'[p] \in {"runnerError", "reconcile", "editWrite"}
         \/ pc'[p] = "settle" /\ loc'[p].then # "reclaim"
  PROVE  Knows(p)'
<1>1. ~Starts(p)' /\ ~Claiming(p)'
  BY DEF Starts, Claiming, AdmitPcs, ClaimPcs, SettlePcs
<1>2. /\ pc'[p] \notin {"idle", "dead", "check", "execute"}
      /\ pc'[p] \notin ClosedPcs \cup {"markProjected"} /\ pc'[p] \notin ResumePcs
  BY DEF ClosedPcs, ResumePcs
<1>3. ASSUME Resumes(p)'
      PROVE  /\ loc[p].run \in Runs /\ continuation[loc[p].run] = p
             /\ evt[loc[p].run] \in Stopped
             /\ ledger[loc[p].run].state # "rejected" /\ ledger[loc[p].run].projected
  <2>1. loc[p].resumed BY <1>2, <1>3 DEF Resumes
  <2> QED BY <2>1 DEF CallInv, Resumer, Admitted, Resumes
<1>4. ASSUME Resumes(p)' PROVE evt'[loc[p].run] \in Stopped
  BY <1>3, <1>4 DEF LogStep, Stopped
<1> QED
  BY <1>1, <1>2, <1>3, <1>4 DEF Knows, Starter, Admitted, Resumer, Resumes

\* A call that starts a Run goes on with it.
LEMMA StartsMove ==
  ASSUME TypeInv, CallInv, NEW p \in Procs, Others(p), UNCHANGED <<ledger, continuation>>,
         loc'[p].run = loc[p].run, loc'[p].resumed = loc[p].resumed,
         LogStep(p), evt'[loc[p].run] \notin {"completed", "failed", "blocked"},
         \/ /\ pc[p] \in ClosedPcs
            /\ pc'[p] \in ClosedPcs \cup {"markProjected"}
         \/ /\ pc[p] = "confirm" /\ pc'[p] = "execute"
            /\ ledger[loc[p].run].state = "active" /\ ledger[loc[p].run].projected
  PROVE  CallInv'
<1>1. Starts(p) /\ Starter(p) /\ Admitted(p)
  BY DEF CallInv, Starts, ClosedPcs, AdmitPcs
<1>2. ~loc[p].resumed /\ loc[p].run \in Runs
  BY <1>1 DEF Starter
<1>3. /\ Starts(p)' /\ ~Claiming(p)' /\ ~Resumes(p)'
      /\ pc'[p] \notin {"idle", "dead", "check"} /\ pc'[p] \notin ResumePcs
      /\ pc'[p] = "execute" => pc'[p] \notin ClosedPcs \cup {"markProjected"}
  BY <1>2 DEF Starts, Claiming, Resumes, ClosedPcs, AdmitPcs, ClaimPcs, SettlePcs, ResumePcs
<1>4. Starter(p)'
  BY <1>1, <1>2, <1>3 DEF Starter, Others
<1>5. Admitted(p)'
  BY <1>1, <1>3 DEF Admitted, ClosedPcs
<1>6. Resumer(p)'
  BY <1>2, <1>3 DEF Resumer, ResumePcs
<1>7. Effects(p)
  BY ApartSame DEF Effects, RowStep, CallInv, RowsOK
<1> QED BY <1>4, <1>5, <1>6, <1>7, CallInvKept

\* A call that resumes a Run goes on with it.
LEMMA ResumesMove ==
  ASSUME TypeInv, CallInv, NEW p \in Procs, Others(p), UNCHANGED <<ledger, evt, continuation>>,
         loc'[p].run = loc[p].run, pc[p] \in ResumePcs,
         \/ /\ pc'[p] \in ResumePcs \ {"resumeRun"} /\ loc'[p].resumed = loc[p].resumed
         \/ /\ pc'[p] = "resumeRun" /\ loc'[p].resumed
         \/ /\ pc'[p] \in {"execute", "runnerError"} /\ loc'[p].resumed
  PROVE  CallInv'
<1>1. Resumer(p) /\ Admitted(p) /\ Resumes(p)
  BY DEF CallInv, Resumes
<1>2. /\ ~Starts(p)' /\ ~Claiming(p)'
      /\ pc'[p] \notin {"idle", "dead", "check"} /\ pc'[p] \notin ClosedPcs \cup {"markProjected"}
  BY DEF Starts, Claiming, ClosedPcs, AdmitPcs, ClaimPcs, SettlePcs, ResumePcs
<1>3. Starter(p)' BY <1>2 DEF Starter
<1>4. Admitted(p)' BY <1>1, <1>2 DEF Admitted
<1>5. Resumer(p)' BY <1>1 DEF Resumer, Resumes, Stopped
<1>6. Effects(p) BY ApartSame, QuietEffects
<1> QED BY <1>3, <1>4, <1>5, <1>6, CallInvKept

\* Only rows that are active and projected change: such a row is given a token,
\* or loses it, or is settled.
SettlesRows ==
  \A r \in Runs :
    /\ ledger'[r].token # NoProc => ledger'[r].state = "active" /\ ledger'[r].projected
    /\ \/ ledger'[r] = ledger[r]
       \/ /\ ledger[r].state = "active" /\ ledger[r].projected
          /\ ledger'[r].state \in {"active", "settled"} /\ ledger'[r].projected

\* A step inside settleWorkItemRun, or its return, keeps what is known of calls.
LEMMA SettleCall ==
  ASSUME TypeInv, CallInv, NEW p \in Procs, pc[p] \in SettlePcs, SettlesRows, UNCHANGED evt,
         \/ /\ pc'[p] \in SettlePcs /\ Others(p) /\ UNCHANGED continuation
            /\ loc'[p].run = loc[p].run /\ loc'[p].resumed = loc[p].resumed
            /\ loc'[p].then = loc[p].then
         \/ \E result : Return(p, result)
  PROVE  CallInv'
<1>1. LogStep(p) /\ RowStep(p)
  BY DEF LogStep, RowStep, SettlesRows
<1>2. ASSUME Finish(p) PROVE CallInv'
  BY <1>1, <1>2, FinishCall, CallInvKept DEF Effects, Knows
<1>3. ASSUME Others(p), UNCHANGED continuation,
             loc'[p].run = loc[p].run, loc'[p].resumed = loc[p].resumed,
             loc'[p].then = loc[p].then,
             \/ pc'[p] \in SettlePcs
             \/ pc'[p] = "reclaim" /\ loc[p].then = "reclaim"
             \/ pc'[p] = "runnerError" /\ loc[p].then = "runnerError"
      PROVE  CallInv'
  <2>1. Starter(p) /\ Admitted(p) /\ Resumer(p) BY DEF CallInv
  <2>2. Claiming(p)' => Claiming(p)
    BY <1>3 DEF Claiming, ClaimPcs, SettlePcs
  <2>3. Starts(p)' => Claiming(p)
    BY <1>3, <2>2 DEF Starts, Claiming, AdmitPcs, SettlePcs
  <2>4. /\ pc'[p] \notin {"idle", "dead", "check", "execute"}
        /\ pc'[p] \notin ClosedPcs \cup {"markProjected"} /\ pc'[p] \notin ResumePcs
    BY <1>3 DEF SettlePcs, ClosedPcs, ResumePcs
  <2>5. pc[p] \notin ResumePcs BY DEF SettlePcs, ResumePcs
  <2>6. Starter(p)'
    BY <1>3, <2>1, <2>3, <2>4 DEF Starter, Starts, Others
  <2>7. Admitted(p)'
    <3>1. ASSUME Claiming(p)' PROVE ledger'[loc[p].run].state = "none"
      <4>1. loc[p].run \in Runs /\ ledger[loc[p].run].state = "none"
        BY <2>1, <2>2, <3>1 DEF Starter, Admitted, Starts
      <4> QED BY <4>1 DEF SettlesRows
    <3>2. ASSUME Resumes(p)'
          PROVE  ledger'[loc[p].run].state # "rejected" /\ ledger'[loc[p].run].projected
      <4>1. loc[p].run \in Runs /\ ledger[loc[p].run].state # "rejected"
            /\ ledger[loc[p].run].projected
        BY <1>3, <2>1, <2>4, <3>2 DEF Admitted, Resumer, Resumes
      <4> QED BY <4>1 DEF SettlesRows
    <3> QED BY <1>3, <2>4, <3>1, <3>2 DEF Admitted
  <2>8. Resumer(p)'
    BY <1>3, <2>1, <2>4 DEF Resumer, Resumes, ResumePcs
  <2>9. Effects(p) BY <1>1, <1>3, ApartSame DEF Effects
  <2> QED BY <2>6, <2>7, <2>8, <2>9, CallInvKept
<1>4. ASSUME NEW result, Return(p, result) PROVE CallInv'
  <2>1. CASE Finish(p) BY <1>2, <2>1
  <2>2. CASE loc[p].then = "reclaim" /\ Goto(p, "reclaim") /\ UNCHANGED <<loc, continuation>>
    BY <1>3, <2>2 DEF Goto, Others, TypeInv, TypeOK
  <2>3. CASE loc[p].then = "runnerError" /\ Goto(p, "runnerError") /\ UNCHANGED <<loc, continuation>>
    BY <1>3, <2>3 DEF Goto, Others, TypeInv, TypeOK
  <2> QED BY <1>4, <2>1, <2>2, <2>3 DEF Return
<1> QED BY <1>3, <1>4

-----------------------------------------------------------------------------
(* One lemma per action                                                    *)

\* A new admission takes up no Run yet.
LEMMA StartAdmissionCall ==
  ASSUME TypeInv, CallInv, NEW p \in Procs, NEW i \in Items, StartAdmission(p, i)
  PROVE  CallInv'
<1>1. /\ pc[p] = "idle" /\ pc'[p] = "check" /\ Others(p)
      /\ loc'[p].run = NoRun /\ ~loc'[p].resumed
      /\ UNCHANGED <<ledger, evt, continuation>>
  BY DEF StartAdmission, At, Goto, TypeInv, TypeOK, Others, NoLocal
<1>2. ~Starts(p)' /\ ~Claiming(p)' /\ ~Resumes(p)'
  BY <1>1 DEF Starts, Claiming, Resumes, AdmitPcs, ClaimPcs, SettlePcs, ResumePcs
<1>3. Knows(p)'
  BY <1>1, <1>2 DEF Knows, Starter, Admitted, Resumer, ClosedPcs, ResumePcs
<1>4. loc[p].run = NoRun
  BY <1>1 DEF CallInv, Starter, NoLocal
<1> QED
  BY <1>1, <1>3, <1>4, ApartSame, QuietEffects, CallInvKept DEF Knows

\* The Run id that is drawn belongs to no row and to no other call.
LEMMA CheckCandidateCall ==
  ASSUME TypeInv, CallInv, NEW p \in Procs, CheckCandidate(p)
  PROVE  CallInv'
<1>1. UNCHANGED <<ledger, evt>> /\ pc[p] = "check"
  BY DEF CheckCandidate, At
<1>2. CASE Finish(p)
  BY <1>1, <1>2, FinishCall, QuietEffects, CallInvKept DEF Knows
<1>3. ASSUME NEW r \in Fresh, Goto(p, "claim"), loc' = [loc EXCEPT ![p].run = r],
             UNCHANGED continuation
      PROVE  CallInv'
  <2>1. /\ pc'[p] = "claim" /\ Others(p) /\ loc'[p].run = r
        /\ loc'[p].resumed = loc[p].resumed
    BY <1>3 DEF Goto, TypeInv, TypeOK, Others, Local
  <2>2. r \in Runs /\ ledger[r].state = "none" /\ \A q \in Procs : loc[q].run # r
    BY DEF Fresh
  <2>3. ~loc[p].resumed BY <1>1 DEF CallInv, Starter
  <2>4. Starts(p)' /\ Claiming(p)' /\ ~Resumes(p)'
    BY <2>1, <2>3 DEF Starts, Claiming, Resumes, ClaimPcs, ResumePcs
  <2>5. evt[r] = "none"
    BY <2>2 DEF TypeInv, RunsKnown, Known
  <2>6. Starter(p)'
    BY <1>1, <2>1, <2>2, <2>3, <2>4, <2>5 DEF Starter, Others
  <2>7. Admitted(p)' /\ Resumer(p)'
    BY <1>1, <2>1, <2>2, <2>3, <2>4 DEF Admitted, Resumer, ClosedPcs, ResumePcs
  <2>8. Apart(p)
    BY <1>3, <2>1, <2>2 DEF Apart
  <2> QED BY <1>1, <2>1, <2>6, <2>7, <2>8, QuietEffects, CallInvKept
<1> QED BY <1>2, <1>3 DEF CheckCandidate

\* A claim makes the first row of its Run, or calls the settlement of another.
LEMMA ClaimRunCall ==
  ASSUME TypeInv, CallInv, NEW p \in Procs, ClaimRun(p)
  PROVE  CallInv'
<1> DEFINE r == loc[p].run
           row == [NoRow EXCEPT !.state = "active", !.item = loc[p].item,
                                !.cand = loc[p].cand, !.init = p]
<1>1. /\ UNCHANGED evt /\ pc[p] \in ClaimPcs /\ Starts(p) /\ Claiming(p)
      /\ ~loc[p].resumed /\ r \in Runs /\ ledger[r].state = "none"
      /\ Starter(p) /\ Admitted(p) /\ Resumer(p)
  BY DEF ClaimRun, Starts, Claiming, ClaimPcs, CallInv, Starter, Admitted
<1>2. CASE Finish(p) /\ UNCHANGED ledger
  BY <1>1, <1>2, FinishCall, QuietEffects, CallInvKept DEF Knows
<1>3. CASE /\ ledger' = [ledger EXCEPT ![r] = row]
           /\ Goto(p, "verify") /\ UNCHANGED <<loc, continuation>>
  <2>1. pc'[p] = "verify" /\ Others(p)
    BY <1>3 DEF Goto, TypeInv, TypeOK, Others
  <2>2. row.state = "active" /\ ~row.projected /\ row.token = NoProc
    BY DEF NoRow
  <2>3. ledger'[r] = row /\ \A s \in Runs \ {r} : ledger'[s] = ledger[s]
    BY <1>1, <1>3 DEF TypeInv, TypeOK
  <2> HIDE DEF row
  <2>4. Effects(p)
    BY <1>1, <1>3, <2>1, <2>2, <2>3, ApartSame DEF Effects, LogStep, RowStep, CallInv, RowsOK
  <2>5. Starts(p)' /\ ~Claiming(p)' /\ ~Resumes(p)'
    BY <1>1, <1>3, <2>1 DEF Starts, Claiming, Resumes, AdmitPcs, ClaimPcs, SettlePcs, ResumePcs
  <2>6. Starter(p)'
    BY <1>1, <1>3, <2>1, <2>5 DEF Starter, Others
  <2>7. Admitted(p)' /\ Resumer(p)'
    BY <1>1, <1>3, <2>1, <2>2, <2>3, <2>5 DEF Admitted, Resumer, ResumePcs
  <2> QED BY <2>4, <2>6, <2>7, CallInvKept
<1>4. ASSUME NEW q \in Runs, CallSettle(p, q, ledger[q].intent, "reclaim"), UNCHANGED ledger
      PROVE  CallInv'
  <2>1. /\ pc'[p] = "settle" /\ loc'[p].then = "reclaim" /\ Others(p)
        /\ loc'[p].run = r /\ loc'[p].resumed = loc[p].resumed
        /\ UNCHANGED continuation
    BY <1>4 DEF CallSettle, Goto, TypeInv, TypeOK, Others, Local
  <2>2. Starts(p)' /\ Claiming(p)' /\ ~Resumes(p)'
    BY <1>1, <2>1 DEF Starts, Claiming, Resumes, SettlePcs, ResumePcs
  <2>3. Starter(p)'
    BY <1>1, <2>1, <2>2 DEF Starter, Others
  <2>4. Admitted(p)' /\ Resumer(p)'
    BY <1>1, <1>4, <2>1, <2>2 DEF Admitted, Resumer, ClosedPcs, ResumePcs
  <2> QED BY <1>1, <1>4, <2>1, <2>3, <2>4, ApartSame, QuietEffects, CallInvKept
<1> QED BY <1>2, <1>3, <1>4 DEF ClaimRun, Live, Active

\* Steps that only move a call that starts a Run.
LEMMA ClosedMoves ==
  ASSUME TypeInv, CallInv, NEW p \in Procs,
         VerifyCandidate(p) \/ ReadForAdmission(p) \/ WriteAdmission(p) \/ AdmissionFault(p)
  PROVE  CallInv'
<1>1. /\ pc[p] \in ClosedPcs /\ pc'[p] \in ClosedPcs \cup {"markProjected"}
      /\ Others(p) /\ UNCHANGED <<ledger, continuation, evt>>
      /\ loc'[p].run = loc[p].run /\ loc'[p].resumed = loc[p].resumed
  BY DEF VerifyCandidate, ReadForAdmission, WriteAdmission, AdmissionFault, At, Goto,
     TypeInv, TypeOK, Others, Local, ClosedPcs
<1>2. evt[loc[p].run] \notin {"completed", "failed", "blocked"}
  BY <1>1 DEF CallInv, Starter, Starts, ClosedPcs, AdmitPcs
<1> QED BY <1>1, <1>2, StartsMove DEF LogStep

\* run.admitted opens the log.
LEMMA RecordAdmittedCall ==
  ASSUME TypeInv, CallInv, NEW p \in Procs, RecordAdmitted(p)
  PROVE  CallInv'
<1>1. /\ pc[p] \in ClosedPcs /\ pc'[p] \in ClosedPcs
      /\ Others(p) /\ UNCHANGED <<ledger, continuation, loc>>
  BY DEF RecordAdmitted, At, Goto, TypeInv, TypeOK, Others, ClosedPcs
<1>2. evt[loc[p].run] \notin {"completed", "failed", "blocked"} /\ loc[p].run \in Runs
  BY <1>1 DEF CallInv, Starter, Starts, ClosedPcs, AdmitPcs
<1>3. LogStep(p) /\ evt'[loc[p].run] \notin {"completed", "failed", "blocked"}
  BY <1>2 DEF RecordAdmitted, LogStep, TypeInv, TypeOK
<1> QED BY <1>1, <1>3, StartsMove

\* A rejected claim may end the log of its own Run.
LEMMA RejectClaimCall ==
  ASSUME TypeInv, CallInv, NEW p \in Procs, RejectClaim(p)
  PROVE  CallInv'
<1> DEFINE r == loc[p].run
<1>1. pc[p] \in {"reject", "compensate"} /\ pc[p] \in ClosedPcs /\ Finish(p)
  BY DEF RejectClaim, ClosedPcs
<1>2. r \in Runs /\ ledger[r].state = "active" /\ ~ledger[r].projected
  BY <1>1 DEF CallInv, Starter, Admitted, Starts, ClosedPcs, AdmitPcs
<1>3. RowStep(p)
  <2>1. CASE ledger' = ledger
    BY <2>1 DEF RowStep, CallInv, RowsOK
  <2>2. CASE /\ ledger' = [ledger EXCEPT ![r].state = "rejected", ![r].init = NoProc]
             /\ Unsettled(r)
    <3>1. /\ ledger'[r].state = "rejected" /\ ledger'[r].projected = ledger[r].projected
          /\ ledger'[r].token = NoProc
          /\ \A s \in Runs \ {r} : ledger'[s] = ledger[s]
      BY <1>2, <2>2 DEF Unsettled, TypeInv, TypeOK, Row
    <3> QED BY <1>1, <1>2, <3>1 DEF RowStep, CallInv, RowsOK
  <2> QED BY <2>1, <2>2 DEF RejectClaim
<1>4. LogStep(p)
  BY <1>2 DEF RejectClaim, Append, At, LogStep, Ends, Stopped, TypeInv, TypeOK
<1> QED BY <1>1, <1>3, <1>4, FinishCall, CallInvKept DEF Effects, Knows

\* An exception after the record was written.
LEMMA DispatchFaultCall ==
  ASSUME TypeInv, CallInv, NEW p \in Procs, DispatchFault(p)
  PROVE  CallInv'
BY FinishCall, QuietEffects, CallInvKept DEF DispatchFault, Knows

\* Only the call that starts the Run marks it as projected.
LEMMA MarkProjectedCall ==
  ASSUME TypeInv, CallInv, NEW p \in Procs, MarkProjected(p)
  PROVE  CallInv'
<1> DEFINE r == loc[p].run
<1>1. /\ pc[p] = "markProjected" /\ UNCHANGED evt /\ Starts(p)
      /\ ~loc[p].resumed /\ r \in Runs /\ Starter(p)
  BY DEF MarkProjected, At, CallInv, Starter, Starts, AdmitPcs
<1>2. CASE Finish(p) /\ UNCHANGED ledger
  BY <1>1, <1>2, FinishCall, QuietEffects, CallInvKept DEF Knows
<1>3. CASE /\ ledger' = [ledger EXCEPT ![r].projected = TRUE, ![r].init = NoProc]
           /\ Goto(p, "confirm") /\ UNCHANGED <<loc, continuation>>
           /\ ledger[r].state = "active"
  <2>1. pc'[p] = "confirm" /\ Others(p)
    BY <1>3 DEF Goto, TypeInv, TypeOK, Others
  <2>2. /\ ledger'[r].state = ledger[r].state /\ ledger'[r].projected
        /\ \A s \in Runs \ {r} : ledger'[s] = ledger[s]
    BY <1>1, <1>3 DEF TypeInv, TypeOK, Row
  <2>3. Effects(p)
    BY <1>1, <1>3, <2>1, <2>2, ApartSame DEF Effects, LogStep, RowStep, CallInv, RowsOK
  <2>4. Starts(p)' /\ ~Claiming(p)' /\ ~Resumes(p)'
    BY <1>1, <1>3, <2>1 DEF Starts, Claiming, Resumes, AdmitPcs, ClaimPcs, SettlePcs, ResumePcs
  <2>5. Starter(p)'
    BY <1>1, <1>3, <2>1, <2>4 DEF Starter, Others
  <2>6. Admitted(p)' /\ Resumer(p)'
    BY <1>1, <1>3, <2>1, <2>4 DEF Admitted, Resumer, ClosedPcs, ResumePcs
  <2> QED BY <2>3, <2>5, <2>6, CallInvKept
<1> QED BY <1>2, <1>3 DEF MarkProjected

\* A Run is dispatched from a row that is active and projected.
LEMMA ConfirmDispatchCall ==
  ASSUME TypeInv, CallInv, NEW p \in Procs, ConfirmDispatch(p)
  PROVE  CallInv'
<1>1. pc[p] = "confirm" /\ UNCHANGED <<ledger, evt>>
  BY DEF ConfirmDispatch, At
<1>2. CASE Finish(p)
  BY <1>1, <1>2, FinishCall, QuietEffects, CallInvKept DEF Knows
<1>3. CASE /\ Goto(p, "execute") /\ UNCHANGED <<loc, continuation>>
           /\ ledger[loc[p].run].state = "active" /\ ledger[loc[p].run].projected
  <2>1. pc'[p] = "execute" /\ Others(p)
    BY <1>3 DEF Goto, TypeInv, TypeOK, Others
  <2>2. evt[loc[p].run] \notin {"completed", "failed", "blocked"}
    BY <1>1 DEF CallInv, Starter, Starts, AdmitPcs
  <2> QED BY <1>1, <1>3, <2>1, <2>2, StartsMove DEF LogStep
<1> QED BY <1>2, <1>3 DEF ConfirmDispatch, Unsettled

\* A runner records a change request.
LEMMA PublishCall ==
  ASSUME TypeInv, CallInv, NEW p \in Procs, Publish(p)
  PROVE  CallInv'
BY DEF Publish, CallInv, RowsOK, Starter, Admitted, Resumer, Starts, Claiming, Resumes

\* What a call of settleWorkItemRun leaves of its caller.
LEMMA CallSettleMoves ==
  ASSUME TypeInv, NEW p \in Procs, NEW r, NEW intent, NEW next, CallSettle(p, r, intent, next)
  PROVE  /\ pc'[p] = "settle" /\ Others(p) /\ UNCHANGED continuation
         /\ loc'[p].then = next /\ loc'[p].target = r /\ loc'[p].item = ledger[r].item
         /\ loc'[p].intent = intent /\ loc'[p].rec = loc[p].rec
         /\ loc'[p].run = loc[p].run /\ loc'[p].resumed = loc[p].resumed
BY DEF CallSettle, Goto, TypeInv, TypeOK, Others, Local

\* A runner that stops, by its result or by an exception, ends only its own log.
LEMMA StopCall ==
  ASSUME TypeInv, CallInv, NEW p \in Procs,
         CompleteRun(p) \/ (\E o \in Outcomes : StopRun(p, o)) \/ ThrowRun(p)
  PROVE  CallInv'
<1> DEFINE r == loc[p].run
<1>1. pc[p] = "execute" /\ UNCHANGED ledger
  BY DEF CompleteRun, StopRun, ThrowRun, At
<1>2. r \in Runs
  BY <1>1 DEF TypeInv, LocalOK, RunKnownPcs, RunPcs, Known
<1>3. LogStep(p)
  <2>1. evt' = evt \/ \E s \in Stopped : evt' = [evt EXCEPT ![r] = s]
    BY RoleAssumption DEF CompleteRun, StopRun, ThrowRun, Append, Stopped
  <2> QED BY <1>1, <1>2, <2>1 DEF LogStep, Ends, TypeInv, TypeOK
<1> DEFINE Moved == /\ pc'[p] \in {"runnerError", "settle"} /\ Others(p)
                    /\ UNCHANGED continuation
                    /\ loc'[p].run = loc[p].run /\ loc'[p].resumed = loc[p].resumed
                    /\ (pc'[p] = "settle" => loc'[p].then = "runnerError")
<1>4. Moved
  <2>1. ASSUME CallSettle(p, r, [status |-> "completed", url |-> pr[r]], "runnerError")
        PROVE  Moved
    BY <2>1, CallSettleMoves
  <2>2. ASSUME Goto(p, "runnerError"), UNCHANGED <<loc, continuation>> PROVE Moved
    BY <2>2 DEF Goto, TypeInv, TypeOK, Others
  <2> QED BY <2>1, <2>2 DEF CompleteRun, StopRun, ThrowRun
<1>5. Knows(p)' BY <1>1, <1>3, <1>4, LeaveCall
<1>6. Effects(p)
  BY <1>1, <1>3, <1>4, ApartSame DEF Effects, RowStep, CallInv, RowsOK
<1> QED BY <1>5, <1>6, CallInvKept DEF Knows

\* A Run that waits for an approval returns.
LEMMA AwaitApprovalCall ==
  ASSUME TypeInv, CallInv, NEW p \in Procs, AwaitApproval(p)
  PROVE  CallInv'
<1>1. Finish(p) /\ UNCHANGED <<ledger, evt>> BY DEF AwaitApproval
<1> QED BY <1>1, FinishCall, QuietEffects, CallInvKept DEF Knows

\* A runner error ends a log that did not end.
LEMMA RunnerErrorCall ==
  ASSUME TypeInv, CallInv, NEW p \in Procs, RunnerError(p)
  PROVE  CallInv'
<1> DEFINE r == loc[p].run
<1>1. pc[p] = "runnerError" /\ UNCHANGED ledger
  BY DEF RunnerError, At
<1>2. r \in Runs
  BY <1>1 DEF TypeInv, LocalOK, RunKnownPcs, RunPcs, Known
<1>3. LogStep(p)
  BY <1>1, <1>2 DEF RunnerError, Append, LogStep, Ends, Stopped, TypeInv, TypeOK
<1>4. RowStep(p) BY <1>1 DEF RowStep, CallInv, RowsOK
<1>5. CASE Finish(p)
  BY <1>3, <1>4, <1>5, FinishCall, CallInvKept DEF Effects, Knows
<1>6. ASSUME NEW intent, CallSettle(p, r, intent, "finish") PROVE CallInv'
  BY <1>1, <1>3, <1>4, <1>6, CallSettleMoves, LeaveCall, ApartSame, CallInvKept
  DEF Effects, Knows
<1> QED BY <1>5, <1>6 DEF RunnerError

\* The steps of the operators: a cancel ends a log, a reconcile settles.
LEMMA OperatorCall ==
  ASSUME TypeInv, CallInv, NEW p \in Procs,
         \/ \E r \in Runs : CancelRun(p, r)
         \/ \E i \in Items : StartReconcile(p, i) \/ StartEdit(p, i)
  PROVE  CallInv'
<1> DEFINE Moved == /\ pc[p] = "idle" /\ pc'[p] \in {"reconcile", "editWrite"} /\ Others(p)
                    /\ loc'[p].run = loc[p].run /\ loc'[p].resumed = loc[p].resumed
                    /\ UNCHANGED <<ledger, continuation>>
<1>1. Moved
  <2>1. loc \in [Procs -> Local] /\ pc \in [Procs -> Pcs] BY DEF TypeInv, TypeOK
  <2>2. ASSUME NEW r \in Runs, CancelRun(p, r) PROVE Moved
    BY <2>1, <2>2 DEF CancelRun, At, Goto, Others, Local
  <2>3. ASSUME NEW i \in Items, StartReconcile(p, i) PROVE Moved
    BY <2>1, <2>3 DEF StartReconcile, At, Goto, Others, Local
  <2>4. ASSUME NEW i \in Items, StartEdit(p, i) PROVE Moved
    <3>1. loc' = [loc EXCEPT ![p] = [loc[p] EXCEPT !.item = i, !.rec = record[i]]]
      BY <2>1, <2>4 DEF StartEdit
    <3>2. /\ pc[p] = "idle" /\ pc'[p] = "editWrite" /\ Others(p)
          /\ UNCHANGED <<ledger, continuation>>
      BY <2>1, <2>4, <3>1 DEF StartEdit, At, Goto, Others
    <3>3. loc'[p] = [loc[p] EXCEPT !.item = i, !.rec = record[i]]
      BY <2>1, <3>1
    <3>4. loc'[p].run = loc[p].run /\ loc'[p].resumed = loc[p].resumed
      BY <2>1, <3>3 DEF Local
    <3> QED BY <3>2, <3>4
  <2> QED BY <2>2, <2>3, <2>4
<1>2. LogStep(p)
  BY DEF CancelRun, Append, StartReconcile, StartEdit, LogStep, TypeInv, TypeOK
<1>3. Knows(p)' BY <1>1, <1>2, LeaveCall
<1>4. Effects(p)
  BY <1>1, <1>2, ApartSame DEF Effects, RowStep, CallInv, RowsOK
<1> QED BY <1>3, <1>4, CallInvKept DEF Knows

\* A reconcile settles a Run whose log ended, or returns.
LEMMA ReconcileCall ==
  ASSUME TypeInv, CallInv, NEW p \in Procs, Reconcile(p)
  PROVE  CallInv'
<1>1. pc[p] = "reconcile" /\ UNCHANGED <<ledger, evt>>
  BY DEF Reconcile, At
<1>2. CASE Finish(p)
  BY <1>1, <1>2, FinishCall, QuietEffects, CallInvKept DEF Knows
<1>3. ASSUME NEW intent, CallSettle(p, loc[p].target, intent, "finish") PROVE CallInv'
  BY <1>1, <1>3, CallSettleMoves, LeaveCall, ApartSame, QuietEffects, CallInvKept
  DEF Knows, LogStep
<1> QED BY <1>2, <1>3 DEF Reconcile

\* The steps of a settlement that write no row.
LEMMA SettleQuietCall ==
  ASSUME TypeInv, CallInv, NEW p \in Procs,
         \/ ReadOwner(p) \/ ReadContended(p) \/ ReadForSettlement(p) \/ RenewLease(p)
         \/ ReadForPatch(p) \/ WriteOutcome(p)
  PROVE  CallInv'
<1>1. pc[p] \in SettlePcs /\ UNCHANGED <<ledger, evt>>
  BY DEF ReadOwner, ReadContended, ReadForSettlement, RenewLease, ReadForPatch, WriteOutcome,
     At, SettlePcs
<1>2. SettlesRows BY <1>1 DEF SettlesRows, CallInv, RowsOK
<1>3. \/ /\ pc'[p] \in SettlePcs /\ Others(p) /\ UNCHANGED continuation
         /\ loc'[p].run = loc[p].run /\ loc'[p].resumed = loc[p].resumed
         /\ loc'[p].then = loc[p].then
      \/ \E result : Return(p, result)
  BY DEF ReadOwner, ReadContended, ReadForSettlement, RenewLease, ReadForPatch, WriteOutcome,
     At, Goto, SettlePcs, TypeInv, TypeOK, Others, Local
<1> QED BY <1>1, <1>2, <1>3, SettleCall

\* A call that contends for a settlement has seen the token of its owner.
SeenOK == \A p \in Procs : pc[p] \in {"contend", "recover"} => loc[p].seen # NoProc

\* The steps of a settlement that write its row.
LEMMA SettleRowCall ==
  ASSUME TypeInv, CallInv, SeenOK, NEW p \in Procs,
         \/ BeginSettlement(p) \/ RecoverStale(p) \/ CompleteSettlement(p) \/ SettlementFault(p)
  PROVE  CallInv'
<1> DEFINE r == loc[p].target
           begun == [ledger EXCEPT ![r].token = p, ![r].intent = loc[p].intent]
           Rows == \/ ledger' = ledger
                   \/ /\ ledger[r].state = "active" /\ ledger[r].projected
                      /\ ledger' = Settled(r) \/ ledger' = Released(r) \/ ledger' = begun
<1>1. pc[p] \in SettlePcs /\ UNCHANGED evt
  BY DEF BeginSettlement, RecoverStale, CompleteSettlement, SettlementFault, At, SettlePcs
<1>2. r \in Runs BY <1>1 DEF TypeInv, LocalOK, Known
<1>3. ASSUME NEW q \in Procs \cup {NoProc}, q # NoProc, Holds(q, r)
      PROVE  ledger[r].state = "active" /\ ledger[r].projected
  BY <1>2, <1>3 DEF Holds, CallInv, RowsOK
<1>4. Rows
  <2>1. CASE BeginSettlement(p)
    BY <2>1 DEF BeginSettlement, MayBeginSettlement, Unsettled
  <2>2. CASE RecoverStale(p)
    <3>1. loc[p].seen # NoProc /\ loc[p].seen \in Procs \cup {NoProc}
      BY <2>2 DEF RecoverStale, At, SeenOK, TypeInv, TypeOK, Local
    <3> QED BY <1>3, <2>2, <3>1 DEF RecoverStale
  <2>3. CASE CompleteSettlement(p) \/ SettlementFault(p)
    BY <1>3, <2>3, NullAssumption DEF CompleteSettlement, SettlementFault
  <2> QED BY <2>1, <2>2, <2>3
<1>5. SettlesRows
  <2>1. CASE ledger' = ledger BY <2>1 DEF SettlesRows, CallInv, RowsOK
  <2>2. CASE /\ ledger[r].state = "active" /\ ledger[r].projected
             /\ ledger' = Settled(r) \/ ledger' = Released(r) \/ ledger' = begun
    <3>1. ledger \in [Runs -> Row] /\ ledger[r] \in Row BY <1>2 DEF TypeInv, TypeOK
    <3> DEFINE OK == /\ ledger'[r].state \in {"active", "settled"} /\ ledger'[r].projected
                     /\ (ledger'[r].token # NoProc => ledger'[r].state = "active")
                     /\ \A s \in Runs \ {r} : ledger'[s] = ledger[s]
    <3>2. ASSUME ledger' = Settled(r) PROVE OK
      BY <1>2, <2>2, <3>1, <3>2 DEF Settled, Row
    <3>3. ASSUME ledger' = Released(r) PROVE OK
      BY <1>2, <2>2, <3>1, <3>3 DEF Released, Row
    <3>4. ASSUME ledger' = begun PROVE OK
      BY <1>2, <2>2, <3>1, <3>4 DEF Row
    <3>5. OK BY <2>2, <3>2, <3>3, <3>4
    <3> QED BY <1>2, <2>2, <3>5 DEF SettlesRows, CallInv, RowsOK
  <2> QED BY <1>4, <2>1, <2>2
<1>6. \/ /\ pc'[p] \in SettlePcs /\ Others(p) /\ UNCHANGED continuation
         /\ loc'[p].run = loc[p].run /\ loc'[p].resumed = loc[p].resumed
         /\ loc'[p].then = loc[p].then
      \/ \E result : Return(p, result)
  BY DEF BeginSettlement, RecoverStale, CompleteSettlement, SettlementFault,
     Goto, SettlePcs, TypeInv, TypeOK, Others
<1> QED BY <1>1, <1>5, <1>6, SettleCall

\* A resume takes up a Run that no call works for: its log says `blocked`.
LEMMA ClaimContinuationCall ==
  ASSUME TypeInv, CallInv, NEW p \in Procs, NEW i \in Items, NEW r \in Runs,
         ClaimContinuation(p, i, r)
  PROVE  CallInv'
<1>1. /\ pc[p] = "idle" /\ pc'[p] = "revalidate" /\ Others(p)
      /\ loc'[p].run = r /\ loc'[p].resumed = loc[p].resumed
      /\ UNCHANGED <<ledger, evt>>
  BY DEF ClaimContinuation, At, Goto, TypeInv, TypeOK, Others, Local
<1>2. evt[r] = "blocked" /\ continuation[r] = NoProc
      /\ continuation' = [continuation EXCEPT ![r] = p]
  BY DEF ClaimContinuation, Resumable, Unclaimed
<1>3. continuation'[r] = p /\ \A s \in Runs \ {r} : continuation'[s] = continuation[s]
  BY <1>2 DEF TypeInv, TypeOK
<1>4. ~loc[p].resumed BY <1>1 DEF CallInv, Starter, NoLocal
<1>5. ledger[r].state # "rejected" /\ ledger[r].projected
  BY <1>2 DEF CallInv, RowsOK
<1>6. Apart(p)
  BY <1>1, <1>2, <1>3, NullAssumption DEF Apart, CallInv, Starter
<1>7. ~Starts(p)' /\ ~Claiming(p)'
  BY <1>1 DEF Starts, Claiming, AdmitPcs, ClaimPcs, SettlePcs
<1>8. Knows(p)'
  BY <1>1, <1>2, <1>3, <1>4, <1>5, <1>7
  DEF Knows, Starter, Admitted, Resumer, ClosedPcs
<1> QED BY <1>1, <1>6, <1>8, QuietEffects, CallInvKept DEF Knows

\* The other steps of a resume keep the Run and its claim, or return.
LEMMA ResumeStepCall ==
  ASSUME TypeInv, CallInv, NEW p \in Procs,
         Revalidate(p) \/ ReadForResume(p) \/ WriteResume(p) \/ MarkLog(p) \/ ResumeRun(p)
  PROVE  CallInv'
<1>1. pc[p] \in ResumePcs /\ UNCHANGED <<ledger, evt>>
  BY DEF Revalidate, ReadForResume, WriteResume, MarkLog, ResumeRun, At, ResumePcs
<1>2. CASE Finish(p)
  BY <1>1, <1>2, FinishCall, QuietEffects, CallInvKept DEF Knows
<1>3. CASE Revalidate(p) /\ ~Finish(p)
  BY <1>1, <1>3, ResumesMove
  DEF Revalidate, Goto, TypeInv, TypeOK, Others, ResumePcs
<1>4. CASE ReadForResume(p)
  <2>1. loc'[p].run = loc[p].run /\ loc'[p].resumed = loc[p].resumed
    BY <1>4 DEF ReadForResume, TypeInv, TypeOK, Local
  <2> QED
    BY <1>1, <1>4, <2>1, ResumesMove
    DEF ReadForResume, Goto, TypeInv, TypeOK, Others, ResumePcs
<1>5. CASE WriteResume(p)
  BY <1>1, <1>5, ResumesMove DEF WriteResume, Goto, TypeInv, TypeOK, Others, ResumePcs
<1>6. CASE MarkLog(p)
  <2>1. loc'[p].run = loc[p].run /\ loc'[p].resumed = TRUE
    BY <1>6 DEF MarkLog, TypeInv, TypeOK, Local
  <2> QED
    BY <1>1, <1>6, <2>1, ResumesMove DEF MarkLog, Goto, TypeInv, TypeOK, Others, ResumePcs
<1>7. CASE ResumeRun(p)
  <2>1. pc[p] = "resumeRun" /\ loc' = loc BY <1>7 DEF ResumeRun, At
  <2>2. loc[p].resumed BY <2>1 DEF CallInv, Resumer
  <2> QED
    BY <1>1, <1>7, <2>1, <2>2, ResumesMove DEF ResumeRun, Goto, TypeInv, TypeOK, Others
<1> QED BY <1>2, <1>3, <1>4, <1>5, <1>6, <1>7

\* An edit writes one record and returns.
LEMMA WriteEditCall ==
  ASSUME TypeInv, CallInv, NEW p \in Procs, WriteEdit(p) PROVE CallInv'
BY FinishCall, QuietEffects, CallInvKept DEF WriteEdit, Knows

-----------------------------------------------------------------------------
(* One runner per Run                                                      *)

\* No process works at first.
LEMMA CallInvInit == ASSUME Init PROVE CallInv
<1>1. RowsOK BY DEF Init, RowsOK, NoRow
<1>2. ASSUME NEW p \in Procs PROVE Knows(p)
  <2>1. pc[p] = "idle" /\ loc[p] = NoLocal BY DEF Init
  <2>2. ~Starts(p) /\ ~Claiming(p) /\ ~Resumes(p)
    BY <2>1 DEF Starts, Claiming, Resumes, NoLocal, AdmitPcs, ClaimPcs, SettlePcs, ResumePcs
  <2> QED
    BY <2>1, <2>2 DEF Knows, Starter, Admitted, Resumer, NoLocal, ClosedPcs, ResumePcs
<1> QED BY <1>1, <1>2 DEF CallInv, Knows

\* Nothing of it depends on the age of a lease or on the bounds.
LEMMA CallInvSame ==
  ASSUME CallInv, UNCHANGED <<ledger, evt, continuation, pc, loc>> PROVE CallInv'
BY DEF CallInv, RowsOK, Starter, Admitted, Resumer, Starts, Claiming, Resumes

\* A call gets to contend for a settlement by reading its token.
LEMMA SeenNext ==
  ASSUME TypeInv, SeenOK, [Next]_vars PROVE SeenOK'
<1> USE DEF SeenOK
<1> DEFINE Away(p) == /\ Others(p)
                      /\ pc'[p] \notin {"contend", "recover"}
<1>1. ASSUME NEW p \in Procs, Away(p) PROVE SeenOK'
  BY <1>1 DEF Others
<1>2. CASE UNCHANGED <<pc, loc>> BY <1>2
<1>3. ASSUME NEW p \in Procs, Finish(p) PROVE SeenOK'
  BY <1>1, <1>3 DEF Finish, Others, TypeInv, TypeOK
<1>4. ASSUME NEW p \in Procs, NEW r, NEW intent, NEW next, CallSettle(p, r, intent, next)
      PROVE  SeenOK'
  BY <1>1, <1>4, CallSettleMoves
<1>5. ASSUME NEW p \in Procs, NEW result, Return(p, result) PROVE SeenOK'
  BY <1>1, <1>3, <1>5 DEF Return, Goto, Others, TypeInv, TypeOK
<1>6. ASSUME NEW p \in Procs, AdmitStep(p) PROVE SeenOK'
  <2>1. CASE CheckCandidate(p)
    BY <1>1, <1>3, <2>1 DEF CheckCandidate, Goto, Others, TypeInv, TypeOK
  <2>2. CASE ClaimRun(p)
    BY <1>1, <1>3, <1>4, <2>2 DEF ClaimRun, Goto, Others, TypeInv, TypeOK
  <2>3. CASE VerifyCandidate(p) \/ RecordAdmitted(p) \/ ReadForAdmission(p) \/ WriteAdmission(p)
    BY <1>1, <2>3 DEF VerifyCandidate, RecordAdmitted, ReadForAdmission, WriteAdmission,
       Goto, Others, TypeInv, TypeOK
  <2>4. CASE RejectClaim(p) \/ MarkProjected(p) \/ ConfirmDispatch(p)
    BY <1>1, <1>3, <2>4 DEF RejectClaim, MarkProjected, ConfirmDispatch,
       Goto, Others, TypeInv, TypeOK
  <2> QED BY <1>6, <2>1, <2>2, <2>3, <2>4 DEF AdmitStep
<1>7. ASSUME NEW p \in Procs, RunStep(p) PROVE SeenOK'
  BY <1>1, <1>3, <1>4, <1>7 DEF RunStep, CompleteRun, StopRun, AwaitApproval, ThrowRun, RunnerError, Reconcile,
     Goto, Others, TypeInv, TypeOK
<1>8. ASSUME NEW p \in Procs, SettleStep(p) PROVE SeenOK'
  <2>1. CASE BeginSettlement(p) \/ RenewLease(p)
    BY <1>1, <1>5, <2>1 DEF BeginSettlement, RenewLease, Goto, Others, TypeInv, TypeOK
  <2>2. CASE ReadOwner(p)
    <3>1. CASE \E result : Return(p, result) BY <1>5, <3>1
    <3>2. CASE /\ ledger[loc[p].target].token # NoProc
               /\ loc' = [loc EXCEPT ![p].seen = ledger[loc[p].target].token,
                                     ![p].held = ledger[loc[p].target].intent]
      <4>1. loc'[p].seen # NoProc /\ \A q \in Procs \ {p} : loc'[q] = loc[q]
        BY <3>2 DEF TypeInv, TypeOK, Local
      <4>2. ASSUME NEW q \in Procs \ {p}, pc'[q] \in {"contend", "recover"} PROVE loc'[q].seen # NoProc
        <5>1. \/ pc \in [Procs -> Pcs] /\ pc' = [pc EXCEPT ![p] = "contend"]
              \/ \E result : Return(p, result)
          BY <2>2 DEF ReadOwner, Goto, TypeInv, TypeOK
        <5>2. CASE \E result : Return(p, result) BY <1>5, <4>2, <5>2
        <5>3. CASE pc \in [Procs -> Pcs] /\ pc' = [pc EXCEPT ![p] = "contend"]
          BY <4>1, <4>2, <5>3
        <5> QED BY <5>1, <5>2, <5>3
      <4> QED BY <4>1, <4>2
    <3> QED BY <2>2, <3>1, <3>2 DEF ReadOwner
  <2>3. CASE ReadContended(p)
    <3>1. /\ pc[p] = "contend" /\ loc'[p].seen = loc[p].seen
          /\ \A q \in Procs \ {p} : pc'[q] = pc[q] /\ loc'[q] = loc[q]
      BY <2>3 DEF ReadContended, At, Goto, TypeInv, TypeOK, Local
    <3> QED BY <3>1
  <2>4. CASE RecoverStale(p) \/ CompleteSettlement(p)
    BY <1>5, <2>4 DEF RecoverStale, CompleteSettlement
  <2>5. CASE ReadForSettlement(p) \/ ReadForPatch(p) \/ WriteOutcome(p)
    BY <1>1, <2>5 DEF ReadForSettlement, ReadForPatch, WriteOutcome, Goto, Others, TypeInv, TypeOK
  <2> QED BY <1>8, <2>1, <2>2, <2>3, <2>4, <2>5 DEF SettleStep
<1>9. ASSUME NEW p \in Procs, ResumeStep(p) PROVE SeenOK'
  BY <1>1, <1>3, <1>9 DEF ResumeStep, Revalidate, ReadForResume, WriteResume, MarkLog, ResumeRun,
     WriteEdit, Goto, Others, TypeInv, TypeOK
<1>10. ASSUME NEW p \in Procs, Call(p) PROVE SeenOK'
  <2>1. CASE \E i \in Items : StartAdmission(p, i) \/ StartReconcile(p, i) \/ StartEdit(p, i)
    BY <1>1, <2>1 DEF StartAdmission, StartReconcile, StartEdit, Goto, Others, TypeInv, TypeOK
  <2>2. CASE \E r \in Runs : CancelRun(p, r)
    BY <1>1, <2>2 DEF CancelRun, Goto, Others, TypeInv, TypeOK
  <2>3. CASE \E i \in Items, r \in Runs : ClaimContinuation(p, i, r)
    BY <1>1, <2>3 DEF ClaimContinuation, Goto, Others, TypeInv, TypeOK
  <2> QED BY <1>10, <2>1, <2>2, <2>3 DEF Call
<1>11. ASSUME NEW p \in Procs, Crash(p) \/ AdmissionFault(p) \/ DispatchFault(p) PROVE SeenOK'
  BY <1>1, <1>3, <1>11 DEF Crash, AdmissionFault, DispatchFault, Goto, Others, TypeInv, TypeOK
<1>12. ASSUME NEW p \in Procs, SettlementFault(p) PROVE SeenOK'
  BY <1>5, <1>12 DEF SettlementFault
<1> QED
  BY <1>2, <1>6, <1>7, <1>8, <1>9, <1>10, <1>11, <1>12
  DEF Next, Step, Publish, LeaseGrowsOld, vars

\* Every step keeps what the calls and the rows promise each other.
LEMMA CallInvNext ==
  ASSUME TypeInv, SeenOK, CallInv, [Next]_vars PROVE CallInv'
<1>1. CASE UNCHANGED vars BY <1>1, CallInvSame DEF vars
<1>2. ASSUME NEW p \in Procs, AdmitStep(p) PROVE CallInv'
  BY <1>2, CheckCandidateCall, ClaimRunCall, ClosedMoves, RejectClaimCall, RecordAdmittedCall,
     MarkProjectedCall, ConfirmDispatchCall DEF AdmitStep
<1>3. ASSUME NEW p \in Procs, RunStep(p) PROVE CallInv'
  BY <1>3, StopCall, AwaitApprovalCall, RunnerErrorCall, ReconcileCall DEF RunStep
<1>4. ASSUME NEW p \in Procs, SettleStep(p) PROVE CallInv'
  BY <1>4, SettleQuietCall, SettleRowCall DEF SettleStep
<1>5. ASSUME NEW p \in Procs, ResumeStep(p) PROVE CallInv'
  BY <1>5, ResumeStepCall, WriteEditCall DEF ResumeStep
<1>6. ASSUME NEW p \in Procs, Call(p) PROVE CallInv'
  BY <1>6, StartAdmissionCall, OperatorCall, ClaimContinuationCall DEF Call
<1>7. ASSUME NEW p \in Procs, Crash(p) \/ AdmissionFault(p) \/ DispatchFault(p) \/ SettlementFault(p)
      PROVE  CallInv'
  BY <1>7, CrashCall, ClosedMoves, DispatchFaultCall, SettleRowCall
<1>8. ASSUME NEW p \in Procs, Publish(p) PROVE CallInv'
  BY <1>8, PublishCall
<1>9. ASSUME NEW r \in Runs, LeaseGrowsOld(r) PROVE CallInv'
  BY <1>9, CallInvSame DEF LeaseGrowsOld
<1> QED
  BY <1>1, <1>2, <1>3, <1>4, <1>5, <1>6, <1>7, <1>8, <1>9 DEF Next, Step

\* The calls and the rows keep their promises in every reachable state.
LEMMA CallInvariant == Spec => [](TypeInv /\ SeenOK /\ CallInv)
<1>1. Init => SeenOK /\ CallInv
  <2>1. ASSUME Init PROVE SeenOK BY <2>1 DEF Init, SeenOK
  <2> QED BY <2>1, CallInvInit
<1>2. TypeInv /\ SeenOK /\ CallInv /\ [Next]_vars => SeenOK' /\ CallInv'
  BY SeenNext, CallInvNext
<1> QED BY <1>1, <1>2, TypeInvariant, PTL DEF Spec

\* A Run is never executed by two processes, whoever started it, resumes it,
\* crashed with it or raced for it: the one that starts it is alone with it, and
\* those that resume it take the continuation claim (scheduler_resume_claims).
THEOREM OneRunnerPerRunAlways == Spec => []OneRunnerPerRun
<1>1. CallInv => OneRunnerPerRun
  <2> SUFFICES ASSUME CallInv, NEW p \in Procs, NEW q \in Procs,
                      pc[p] = "execute", pc[q] = "execute", loc[p].run = loc[q].run, p # q
               PROVE  FALSE
    BY DEF OneRunnerPerRun, At
  <2>1. ~Starts(p) /\ ~Starts(q)
    BY DEF CallInv, Starter
  <2>2. loc[p].resumed /\ loc[q].resumed BY <2>1 DEF Starts
  <2> QED BY <2>2 DEF CallInv, Resumer, Resumes
<1> QED BY <1>1, CallInvariant, PTL

-----------------------------------------------------------------------------
(* Settlements and the records they write                                  *)

Settler(p) ==
  pc[p] \in SettlerPcs =>
    Holds(p, loc[p].target) /\ ledger[loc[p].target].intent = loc[p].intent
Settles(p, r) == pc[p] \in SettlerPcs /\ loc[p].target = r

\* SettlerHoldsRow speaks of one call at a time.
LEMMA SettlersHold == SettlerHoldsRow <=> \A p \in Procs : Settler(p)
BY DEF SettlerHoldsRow, Settler, SettlerPcs

\* The writes of a row by a settlement: what they change and what they keep.
LEMMA SettledRow ==
  ASSUME TypeInv, NEW r \in Runs
  PROVE  /\ Settled(r)[r].state = "settled" /\ Settled(r)[r].token = NoProc
         /\ Settled(r)[r].item = ledger[r].item /\ Settled(r)[r].intent = ledger[r].intent
         /\ Settled(r)[r].projected = ledger[r].projected
         /\ \A s \in Runs \ {r} : Settled(r)[s] = ledger[s]
BY DEF Settled, TypeInv, TypeOK, Row

\* A row that is given back keeps its state and item.
LEMMA ReleasedRow ==
  ASSUME TypeInv, NEW r \in Runs
  PROVE  /\ Released(r)[r].state = ledger[r].state /\ Released(r)[r].token = NoProc
         /\ Released(r)[r].item = ledger[r].item
         /\ Released(r)[r].projected = ledger[r].projected
         /\ \A s \in Runs \ {r} : Released(r)[s] = ledger[s]
BY DEF Released, TypeInv, TypeOK, Row

\* A step of p leaves the rows alone that another settlement holds or that
\* show their outcome; p starts to settle only a Run that no one settled.
Fence(p) ==
  /\ Others(p)
  /\ \A r \in Runs :
       \/ /\ ledger'[r].state = ledger[r].state /\ ledger'[r].token = ledger[r].token
          /\ ledger'[r].intent = ledger[r].intent
       \/ ~Owned(r)
       \/ /\ ledger'[r].state = "settled" /\ ledger'[r].intent = ledger[r].intent
          /\ \A q \in Procs \ {p} : ~Settles(q, r)
       \/ Settles(p, r)
  /\ pc'[p] \in SettlerPcs =>
       \/ pc[p] \in SettlerPcs /\ loc'[p].target = loc[p].target
       \/ ~Owned(loc'[p].target)

\* Final of a value after the step.
FinalNext(rec) ==
  rec.latest \in Runs /\ rec.status \in EndStatus =>
    /\ ledger'[rec.latest].state = "settled" \/ ledger'[rec.latest].token # NoProc
    /\ ledger'[rec.latest].intent = [status |-> rec.status, url |-> rec.url]
    /\ \A p \in Procs : pc'[p] \in SettlerPcs => loc'[p].target # rec.latest

\* What a record shows of a Run that ended stays true.
LEMMA FinalKept ==
  ASSUME TypeInv, NEW p \in Procs, Fence(p) PROVE \A rec : Final(rec) => FinalNext(rec)
<1> SUFFICES ASSUME NEW rec, Final(rec), rec.latest \in Runs, rec.status \in EndStatus
             PROVE  FinalNext(rec)
  BY DEF FinalNext
<1> DEFINE r == rec.latest
<1>1. /\ Owned(r) /\ ledger[r].intent = [status |-> rec.status, url |-> rec.url]
      /\ \A q \in Procs : ~Settles(q, r)
  BY DEF Final, Settles
<1>2. /\ ledger'[r].state = "settled" \/ ledger'[r].token # NoProc
      /\ ledger'[r].intent = ledger[r].intent
  BY <1>1 DEF Fence, Owned
<1>3. ASSUME NEW q \in Procs, pc'[q] \in SettlerPcs PROVE loc'[q].target # r
  <2>1. CASE q = p BY <1>1, <1>3, <2>1 DEF Fence, Settles
  <2>2. CASE q # p BY <1>1, <1>3, <2>2 DEF Fence, Settles, Others
  <2> QED BY <2>1, <2>2
<1> QED BY <1>1, <1>2, <1>3 DEF FinalNext

\* A settlement keeps its row through the steps of the other calls.
LEMMA SettlerKept ==
  ASSUME TypeInv, SettleInv, NEW p \in Procs, Fence(p), NEW q \in Procs \ {p}
  PROVE  Settler(q)'
<1> SUFFICES ASSUME pc[q] \in SettlerPcs
             PROVE  Holds(q, loc[q].target)' /\ ledger'[loc[q].target].intent = loc[q].intent
  BY DEF Settler, Fence, Others, Holds
<1> DEFINE r == loc[q].target
<1>1. /\ r \in Runs /\ Settles(q, r) /\ Holds(q, r) /\ ledger[r].intent = loc[q].intent
  BY SettlersHold DEF Settler, Settles, SettleInv, TypeInv, LocalOK, Known, SettlerPcs, SettlePcs
<1>2. Owned(r) /\ ~Settles(p, r)
  BY <1>1, NullAssumption, SettlersHold DEF Owned, Holds, Settler, Settles, SettleInv
<1>3. /\ ledger'[r].state = ledger[r].state /\ ledger'[r].token = ledger[r].token
      /\ ledger'[r].intent = ledger[r].intent
  BY <1>1, <1>2 DEF Fence
<1> QED BY <1>1, <1>3 DEF Holds, Fence, Others

\* What is left to show of a step of p: its own row, and what it writes or reads.
LEMMA SettleInvKept ==
  ASSUME TypeInv, SettleInv, NEW p \in Procs, Fence(p), Settler(p)',
         \A i \in Items : record'[i] = record[i] \/ FinalNext(record'[i]),
         \/ loc'[p].rec \in {loc[p].rec, InitRecord} \cup {record[i] : i \in Items}
         \/ FinalNext(loc'[p].rec)
  PROVE  SettleInv'
<1>1. SettlerHoldsRow'
  <2>1. \A q \in Procs : Settler(q)' BY SettlerKept
  <2> QED BY <2>1 DEF SettlerHoldsRow, Settler, SettlerPcs
<1>2. \A rec : Final(rec) => FinalNext(rec) BY FinalKept
<1>3. ASSUME NEW i \in Items PROVE FinalNext(record'[i])
  BY <1>2 DEF SettleInv
<1>4. FinalNext(InitRecord)
  BY NullAssumption DEF FinalNext, InitRecord
<1>5. ASSUME NEW q \in Procs PROVE FinalNext(loc'[q].rec)
  <2>1. CASE q # p BY <1>2, <2>1 DEF SettleInv, Fence, Others
  <2>2. CASE q = p BY <1>2, <1>4, <2>2 DEF SettleInv
  <2> QED BY <2>1, <2>2
<1>6. (\A i \in Items : Final(record[i]))' BY <1>3 DEF Final, FinalNext, Owned
<1>7. (\A q \in Procs : Final(loc[q].rec))' BY <1>5 DEF Final, FinalNext, Owned
<1> QED BY <1>1, <1>6, <1>7 DEF SettleInv

\* A step outside of the settlements that keeps the records.
Outside(p) ==
  /\ Others(p) /\ pc'[p] \notin SettlerPcs
  /\ loc'[p].rec \in {loc[p].rec, InitRecord} \cup {record[i] : i \in Items}

\* Such a step keeps the fence around the rows that are being settled.
LEMMA OutsideKept ==
  ASSUME TypeInv, SettleInv, NEW p \in Procs, Outside(p), UNCHANGED <<ledger, record>>
  PROVE  SettleInv'
<1>1. Fence(p) /\ Settler(p)' BY DEF Outside, Fence, Settler
<1> QED BY <1>1, SettleInvKept DEF Outside

\* A call that returns is outside.
LEMMA FinishOutside ==
  ASSUME TypeInv, NEW p \in Procs, Finish(p) PROVE Outside(p)
BY DEF Finish, Outside, Others, TypeInv, TypeOK, NoLocal, SettlerPcs

\* A call of settleWorkItemRun is still outside: it has taken no row yet.
LEMMA CallOutside ==
  ASSUME TypeInv, NEW p \in Procs, NEW r, NEW intent, NEW next, CallSettle(p, r, intent, next)
  PROVE  Outside(p)
BY CallSettleMoves DEF Outside, SettlerPcs

\* A return from settleWorkItemRun leads outside, whatever its result.
LEMMA ReturnOutside ==
  ASSUME TypeInv, NEW p \in Procs, NEW result, Return(p, result) PROVE Outside(p)
<1>1. CASE Finish(p) BY <1>1, FinishOutside
<1>2. CASE UNCHANGED loc /\ \E to \in {"reclaim", "runnerError"} : Goto(p, to)
  BY <1>2 DEF Goto, Outside, Others, TypeInv, TypeOK, SettlerPcs
<1> QED BY <1>1, <1>2 DEF Return

\* Steps that only read or move outside of a settlement.
LEMMA ReadsSettle ==
  ASSUME TypeInv, SettleInv, NEW p \in Procs,
         \/ \E i \in Items : StartAdmission(p, i) \/ StartReconcile(p, i) \/ StartEdit(p, i)
         \/ \E r \in Runs : CancelRun(p, r)
         \/ \E i \in Items, r \in Runs : ClaimContinuation(p, i, r)
         \/ CheckCandidate(p) \/ VerifyCandidate(p) \/ RecordAdmitted(p) \/ ReadForAdmission(p)
         \/ ConfirmDispatch(p) \/ AdmissionFault(p) \/ DispatchFault(p)
         \/ RunStep(p) \/ ReadOwner(p) \/ ReadContended(p)
         \/ Revalidate(p) \/ ReadForResume(p) \/ MarkLog(p) \/ ResumeRun(p) \/ Crash(p)
  PROVE  SettleInv'
<1>1. loc \in [Procs -> Local] /\ pc \in [Procs -> Pcs] BY DEF TypeInv, TypeOK
<1>2. UNCHANGED <<ledger, record>>
  BY DEF StartAdmission, StartReconcile, StartEdit, CancelRun, ClaimContinuation,
     CheckCandidate, VerifyCandidate, RecordAdmitted, ReadForAdmission, ConfirmDispatch,
     AdmissionFault, DispatchFault, RunStep, CompleteRun, StopRun, AwaitApproval, ThrowRun, RunnerError, Reconcile,
     ReadOwner, ReadContended, Revalidate, ReadForResume, MarkLog, ResumeRun, Crash
<1>3. SUFFICES Outside(p)
  BY <1>2, OutsideKept
<1>4. ASSUME Others(p), pc'[p] \notin SettlerPcs,
             loc'[p].rec \in {loc[p].rec, InitRecord} \cup {record[i] : i \in Items}
      PROVE  Outside(p)
  BY <1>4 DEF Outside
<1>5. ASSUME pc'[p] \notin SettlerPcs, \A q \in Procs \ {p} : pc'[q] = pc[q], UNCHANGED loc
      PROVE  Outside(p)
  BY <1>5 DEF Outside, Others
<1>6. CASE \E i \in Items : StartAdmission(p, i)
  <2>1. /\ loc'[p].rec = InitRecord /\ Goto(p, "check")
        /\ \A q \in Procs \ {p} : loc'[q] = loc[q]
    BY <1>1, <1>6 DEF StartAdmission, NoLocal
  <2> QED BY <1>1, <1>4, <2>1 DEF SettlerPcs, Goto, Others
<1>7. CASE \E i \in Items : StartReconcile(p, i)
  <2>1. /\ loc'[p].rec = loc[p].rec /\ Goto(p, "reconcile")
        /\ \A q \in Procs \ {p} : loc'[q] = loc[q]
    BY <1>1, <1>7 DEF StartReconcile, Local
  <2> QED BY <1>1, <1>4, <2>1 DEF SettlerPcs, Goto, Others
<1>8. CASE \E i \in Items : StartEdit(p, i)
  <2>1. PICK i \in Items : StartEdit(p, i) BY <1>8
  <2>2. loc' = [loc EXCEPT ![p] = [loc[p] EXCEPT !.item = i, !.rec = record[i]]]
    BY <1>1, <2>1 DEF StartEdit
  <2>3. loc'[p] = [loc[p] EXCEPT !.item = i, !.rec = record[i]]
    BY <1>1, <2>2
  <2>4. loc'[p].rec = record[i] BY <1>1, <2>3 DEF Local
  <2>5. Goto(p, "editWrite") /\ \A q \in Procs \ {p} : loc'[q] = loc[q]
    BY <1>1, <2>1, <2>2 DEF StartEdit
  <2> QED BY <1>1, <1>4, <2>1, <2>2, <2>3, <2>4, <2>5 DEF SettlerPcs, Goto, Others
<1>9. CASE \E r \in Runs : CancelRun(p, r)
  <2>1. /\ loc'[p].rec = loc[p].rec /\ Goto(p, "reconcile")
        /\ \A q \in Procs \ {p} : loc'[q] = loc[q]
    BY <1>1, <1>9 DEF CancelRun, Local
  <2> QED BY <1>1, <1>4, <2>1 DEF SettlerPcs, Goto, Others
<1>10. CASE \E i \in Items, r \in Runs : ClaimContinuation(p, i, r)
  <2>0. PICK i \in Items, r \in Runs : ClaimContinuation(p, i, r) BY <1>10
  <2>1. /\ loc'[p].rec = loc[p].rec /\ Goto(p, "revalidate")
        /\ \A q \in Procs \ {p} : loc'[q] = loc[q]
    BY <1>1, <2>0 DEF ClaimContinuation, Local
  <2> QED BY <1>1, <1>4, <2>1 DEF SettlerPcs, Goto, Others
<1>11. CASE CheckCandidate(p)
  <2>1. ASSUME NEW r \in Fresh, Goto(p, "claim"), loc' = [loc EXCEPT ![p].run = r]
        PROVE  Outside(p)
    <3>1. loc'[p].rec = loc[p].rec /\ \A q \in Procs \ {p} : loc'[q] = loc[q]
      BY <1>1, <2>1 DEF Local
    <3> QED BY <1>1, <1>4, <2>1, <3>1 DEF SettlerPcs, Goto, Others
  <2> QED BY <1>11, <2>1, FinishOutside DEF CheckCandidate
<1>12. CASE VerifyCandidate(p) \/ RecordAdmitted(p) \/ AdmissionFault(p) \/ ResumeRun(p)
            \/ (\E o \in Outcomes : StopRun(p, o)) \/ ThrowRun(p)
  BY <1>1, <1>5, <1>12 DEF VerifyCandidate, RecordAdmitted, AdmissionFault, ResumeRun, StopRun, ThrowRun,
     SettlerPcs, Goto
<1>13. CASE ReadForAdmission(p) \/ ReadContended(p) \/ ReadForResume(p)
  <2>1. \E i \in Items : loc' = [loc EXCEPT ![p].rec = record[i]]
    BY <1>13 DEF ReadForAdmission, ReadContended, ReadForResume, At, TypeInv, LocalOK
  <2>2. /\ loc'[p].rec \in {record[i] : i \in Items}
        /\ \A q \in Procs \ {p} : loc'[q] = loc[q]
    BY <1>1, <2>1 DEF Local
  <2>3. \E to \in {"admitWrite", "recover", "resumeWrite"} : Goto(p, to)
    BY <1>13 DEF ReadForAdmission, ReadContended, ReadForResume
  <2> QED BY <1>1, <1>4, <2>1, <2>2, <2>3 DEF SettlerPcs, Goto, Others
<1>14. CASE ConfirmDispatch(p) \/ Revalidate(p) \/ DispatchFault(p)
  BY <1>1, <1>5, <1>14, FinishOutside DEF ConfirmDispatch, Revalidate, DispatchFault, SettlerPcs, Goto
<1>15. CASE CompleteRun(p) \/ AwaitApproval(p) \/ RunnerError(p) \/ Reconcile(p)
  BY <1>1, <1>5, <1>15, FinishOutside, CallOutside DEF CompleteRun, AwaitApproval, RunnerError, Reconcile, SettlerPcs, Goto
<1>16. CASE ReadOwner(p)
  <2>1. CASE \E result : Return(p, result) BY <2>1, ReturnOutside
  <2>2. CASE /\ Goto(p, "contend")
             /\ loc' = [loc EXCEPT ![p].seen = ledger[loc[p].target].token,
                                   ![p].held = ledger[loc[p].target].intent]
    <3>1. loc'[p].rec = loc[p].rec /\ \A q \in Procs \ {p} : loc'[q] = loc[q]
      BY <1>1, <2>2 DEF Local
    <3> QED BY <1>1, <1>4, <2>2, <3>1 DEF SettlerPcs, Goto, Others
  <2> QED BY <1>16, <2>1, <2>2 DEF ReadOwner
<1>17. CASE MarkLog(p)
  <2>1. /\ loc'[p].rec = loc[p].rec /\ Goto(p, "resumeRun")
        /\ \A q \in Procs \ {p} : loc'[q] = loc[q]
    BY <1>1, <1>17 DEF MarkLog, Local
  <2> QED BY <1>1, <1>4, <2>1 DEF SettlerPcs, Goto, Others
<1>18. CASE Crash(p)
  <2>1. /\ loc'[p].rec = InitRecord /\ Goto(p, "dead")
        /\ \A q \in Procs \ {p} : loc'[q] = loc[q]
    BY <1>1, <1>18 DEF Crash, NoLocal
  <2> QED BY <1>1, <1>4, <2>1 DEF SettlerPcs, Goto, Others
<1> QED
  BY <1>6, <1>7, <1>8, <1>9, <1>10, <1>11, <1>12, <1>13, <1>14, <1>15, <1>16, <1>17, <1>18
  DEF RunStep

\* A step that keeps the records and writes a row as a settlement may.
LEMMA RowSettle ==
  ASSUME TypeInv, SettleInv, NEW p \in Procs, Outside(p), UNCHANGED record,
         \A r \in Runs :
           \/ /\ ledger'[r].state = ledger[r].state /\ ledger'[r].token = ledger[r].token
              /\ ledger'[r].intent = ledger[r].intent
           \/ ~Owned(r)
           \/ /\ ledger'[r].state = "settled" /\ ledger'[r].intent = ledger[r].intent
              /\ \A q \in Procs \ {p} : ~Settles(q, r)
           \/ Settles(p, r)
  PROVE  SettleInv'
<1>1. Fence(p) /\ Settler(p)' BY DEF Outside, Fence, Settler
<1> QED BY <1>1, SettleInvKept DEF Outside

\* A claim writes a row that no one settled.
LEMMA ClaimRunSettle ==
  ASSUME TypeInv, CallInv, SettleInv, NEW p \in Procs, ClaimRun(p) PROVE SettleInv'
<1>1. UNCHANGED record BY DEF ClaimRun
<1>2. Outside(p)
  <2>1. CASE Goto(p, "verify") /\ UNCHANGED loc
    BY <2>1 DEF Goto, Outside, Others, SettlerPcs, TypeInv, TypeOK
  <2> QED BY <2>1, FinishOutside, CallOutside DEF ClaimRun
<1>3. ASSUME NEW r \in Runs PROVE ledger'[r] = ledger[r] \/ ~Owned(r)
  <2>1. CASE r = loc[p].run
    <3>1. ledger[r].state = "none"
      BY <2>1 DEF ClaimRun, CallInv, Admitted, Claiming, ClaimPcs
    <3> QED BY <3>1 DEF CallInv, RowsOK, Owned
  <2>2. CASE r # loc[p].run
    BY <2>2 DEF ClaimRun, TypeInv, TypeOK
  <2> QED BY <2>1, <2>2
<1> QED BY <1>1, <1>2, <1>3, RowSettle

\* A rejected row was not being settled.
LEMMA RejectClaimSettle ==
  ASSUME TypeInv, SettleInv, NEW p \in Procs, RejectClaim(p) PROVE SettleInv'
<1>1. UNCHANGED record /\ Outside(p) BY FinishOutside DEF RejectClaim
<1>2. ASSUME NEW r \in Runs PROVE ledger'[r] = ledger[r] \/ ~Owned(r)
  BY DEF RejectClaim, Unsettled, Owned, TypeInv, TypeOK
<1> QED BY <1>1, <1>2, RowSettle

\* The projection mark is no part of a settlement.
LEMMA MarkProjectedSettle ==
  ASSUME TypeInv, SettleInv, NEW p \in Procs, MarkProjected(p) PROVE SettleInv'
<1>1. UNCHANGED record BY DEF MarkProjected
<1>2. Outside(p)
  <2>1. CASE Goto(p, "confirm") /\ UNCHANGED loc
    BY <2>1 DEF Goto, Outside, Others, SettlerPcs, TypeInv, TypeOK
  <2> QED BY <2>1, FinishOutside DEF MarkProjected
<1>3. ASSUME NEW r \in Runs
      PROVE  /\ ledger'[r].state = ledger[r].state /\ ledger'[r].token = ledger[r].token
             /\ ledger'[r].intent = ledger[r].intent
  <2>1. CASE ledger' = ledger BY <2>1
  <2>2. CASE ledger' = [ledger EXCEPT ![loc[p].run].projected = TRUE, ![loc[p].run].init = NoProc]
    BY <2>2 DEF TypeInv, TypeOK, Row
  <2> QED BY <2>1, <2>2 DEF MarkProjected
<1> QED BY <1>1, <1>2, <1>3, RowSettle

\* A settlement begins at a row that no other one holds.
LEMMA BeginSettlementSettle ==
  ASSUME TypeInv, SettleInv, NEW p \in Procs, BeginSettlement(p) PROVE SettleInv'
<1> DEFINE r == loc[p].target
<1>1. UNCHANGED record /\ pc[p] = "settle" /\ r \in Runs
  BY DEF BeginSettlement, At, TypeInv, LocalOK, SettlePcs, Known
<1>2. CASE /\ MayBeginSettlement(r) /\ UNCHANGED loc /\ Goto(p, "settleRead")
           /\ ledger' = [ledger EXCEPT ![r].token = p, ![r].intent = loc[p].intent]
  <2>1. pc'[p] = "settleRead" /\ Others(p)
    BY <1>2 DEF Goto, Others, TypeInv, TypeOK
  <2>2. ~Owned(r) /\ ledger[r].state = "active"
    BY <1>2 DEF MayBeginSettlement, Unsettled, Owned
  <2>3. /\ ledger'[r].state = ledger[r].state /\ ledger'[r].token = p
        /\ ledger'[r].intent = loc[p].intent /\ \A s \in Runs \ {r} : ledger'[s] = ledger[s]
    BY <1>1, <1>2 DEF TypeInv, TypeOK, Row
  <2>4. Fence(p)
    BY <1>2, <2>1, <2>2, <2>3 DEF Fence
  <2>5. Settler(p)'
    BY <1>2, <2>2, <2>3 DEF Settler, Holds
  <2> QED BY <1>1, <1>2, <2>4, <2>5, SettleInvKept
<1>3. CASE UNCHANGED ledger /\ Outside(p) BY <1>1, <1>3, OutsideKept
<1>4. CASE Goto(p, "refused") /\ UNCHANGED <<loc, ledger>>
  BY <1>3, <1>4 DEF Goto, Outside, Others, SettlerPcs, TypeInv, TypeOK
<1> QED BY <1>2, <1>3, <1>4, ReturnOutside DEF BeginSettlement

\* Only a Run that the copy shows as ended is recovered: no one settles it any more.
LEMMA RecoverStaleSettle ==
  ASSUME TypeInv, SettleInv, NEW p \in Procs, RecoverStale(p) PROVE SettleInv'
<1> DEFINE r == loc[p].target
<1>1. UNCHANGED record /\ pc[p] = "recover" /\ r \in Runs /\ loc[p].intent.status \in EndStatus
  <2>1. loc[p].intent \in Intent BY DEF TypeInv, TypeOK, Local
  <2> QED BY <2>1 DEF RecoverStale, At, TypeInv, LocalOK, SettlePcs, Known, Intent, EndStatus
<1>2. Outside(p) BY ReturnOutside DEF RecoverStale
<1>3. CASE UNCHANGED ledger BY <1>1, <1>2, <1>3, OutsideKept
<1>4. CASE ledger' = Settled(r) /\ ProjectionIsDurable(p)
  <2>1. loc[p].rec.latest = r /\ loc[p].rec.status \in EndStatus
    BY <1>1, <1>4 DEF ProjectionIsDurable, Shows
  <2>2. \A q \in Procs : ~Settles(q, r)
    BY <1>1, <2>1 DEF SettleInv, Final, Settles
  <2> QED BY <1>1, <1>2, <1>4, <2>2, SettledRow, RowSettle
<1> QED BY <1>3, <1>4 DEF RecoverStale

\* The steps of a settlement between its reads.
LEMMA SettlerSettle ==
  ASSUME TypeInv, SettleInv, NEW p \in Procs,
         ReadForSettlement(p) \/ RenewLease(p) \/ ReadForPatch(p)
  PROVE  SettleInv'
<1>1. pc[p] \in SettlerPcs /\ UNCHANGED <<ledger, record>> /\ Settler(p)
  BY SettlersHold DEF ReadForSettlement, RenewLease, ReadForPatch, At, SettlerPcs, SettleInv
<1>2. CASE Outside(p) BY <1>1, <1>2, OutsideKept
<1>3. ASSUME Others(p), loc'[p].target = loc[p].target, loc'[p].intent = loc[p].intent,
             loc'[p].rec \in {loc[p].rec} \cup {record[i] : i \in Items}
      PROVE  SettleInv'
  <2>1. Fence(p) BY <1>1, <1>3 DEF Fence
  <2>2. Settler(p)' BY <1>1, <1>3 DEF Settler, Holds
  <2> QED BY <1>1, <1>3, <2>1, <2>2, SettleInvKept
<1>4. CASE ReadForSettlement(p)
  BY <1>3, <1>4 DEF ReadForSettlement, Goto, Others, TypeInv, TypeOK
<1>5. CASE RenewLease(p)
  BY <1>2, <1>3, <1>5, ReturnOutside DEF RenewLease, Goto, Others, TypeInv, TypeOK
<1>6. CASE ReadForPatch(p)
  <2>1. /\ loc'[p].target = loc[p].target /\ loc'[p].intent = loc[p].intent
        /\ loc'[p].rec = record[loc[p].item] /\ loc[p].item \in Items
    BY <1>6 DEF ReadForPatch, At, TypeInv, TypeOK, LocalOK, Local
  <2> QED BY <1>3, <1>6, <2>1 DEF ReadForPatch, Goto, Others, TypeInv, TypeOK
<1> QED BY <1>4, <1>5, <1>6

\* The outcome is written by the holder of the row, from the intent it recorded.
LEMMA WriteOutcomeSettle ==
  ASSUME TypeInv, SettleInv, NEW p \in Procs, WriteOutcome(p) PROVE SettleInv'
<1> DEFINE r == loc[p].target
           i == loc[p].item
           rec == [loc[p].rec EXCEPT !.status = loc[p].intent.status, !.latest = r,
                                     !.url = loc[p].intent.url]
<1>1. /\ pc[p] = "patchWrite" /\ pc'[p] = "complete" /\ Others(p)
      /\ UNCHANGED <<ledger, loc>> /\ i \in Items /\ Settler(p)
  BY SettlersHold
  DEF WriteOutcome, At, Goto, Others, TypeInv, TypeOK, LocalOK, SettleInv
<1>2. Fence(p) /\ Settler(p)' BY <1>1 DEF Fence, Settler, SettlerPcs
<1>3. /\ rec.latest = r /\ rec.status = loc[p].intent.status /\ rec.url = loc[p].intent.url
  <2>1. loc[p].rec \in Record BY DEF TypeInv, TypeOK, Local
  <2> QED BY <2>1 DEF Record
<1>4. Holds(p, r) /\ ledger[r].intent = loc[p].intent
  BY <1>1 DEF Settler, SettlerPcs
<1>5. loc[p].intent = [status |-> loc[p].intent.status, url |-> loc[p].intent.url]
  BY DEF TypeInv, TypeOK, Local, Intent
<1>6. ASSUME NEW q \in Procs, pc'[q] \in SettlerPcs PROVE loc'[q].target # r
  <2>1. q # p BY <1>1, <1>6 DEF SettlerPcs
  <2>2. Settler(q) /\ pc[q] \in SettlerPcs BY <1>1, <1>6, <2>1, SettlersHold DEF SettleInv, Others
  <2> QED BY <1>1, <1>4, <2>1, <2>2 DEF Settler, Holds, Others
<1>7. /\ record'[i] = rec /\ \A j \in Items \ {i} : record'[j] = record[j]
  BY <1>1 DEF WriteOutcome, TypeInv, TypeOK
<1> HIDE DEF rec
<1>8. FinalNext(rec)
  BY <1>1, <1>3, <1>4, <1>5, <1>6, NullAssumption DEF FinalNext, Holds
<1> QED BY <1>1, <1>2, <1>7, <1>8, SettleInvKept

\* A settlement completes its own row.
LEMMA CompleteSettle ==
  ASSUME TypeInv, SettleInv, NEW p \in Procs, CompleteSettlement(p) PROVE SettleInv'
<1> DEFINE r == loc[p].target
<1>1. UNCHANGED record /\ r \in Runs /\ Outside(p)
  BY ReturnOutside DEF CompleteSettlement, TypeInv, LocalOK, SettlePcs, Known
<1>2. CASE UNCHANGED ledger BY <1>1, <1>2, OutsideKept
<1>3. CASE ledger' = Settled(r) /\ Holds(p, r)
  <2>1. \A q \in Procs \ {p} : ~Settles(q, r)
    BY <1>3, SettlersHold DEF SettleInv, Settler, Settles, Holds
  <2> QED BY <1>1, <1>3, <2>1, SettledRow, RowSettle
<1> QED BY <1>2, <1>3 DEF CompleteSettlement

\* A settlement that fails gives back only its own row, before it wrote.
LEMMA FaultSettle ==
  ASSUME TypeInv, SettleInv, NEW p \in Procs, SettlementFault(p) PROVE SettleInv'
<1> DEFINE r == loc[p].target
<1>1. UNCHANGED record /\ r \in Runs /\ Outside(p)
  BY ReturnOutside DEF SettlementFault, TypeInv, LocalOK, SettlePcs, Known
<1>2. CASE UNCHANGED ledger BY <1>1, <1>2, OutsideKept
<1>3. CASE ledger' = Released(r) /\ pc[p] # "complete"
  <2>1. Settles(p, r) BY <1>3 DEF SettlementFault, Settles, SettlerPcs
  <2> QED BY <1>1, <1>3, <2>1, ReleasedRow, RowSettle
<1> QED BY <1>2, <1>3 DEF SettlementFault, At

\* The other writes of a record show a Run as running, or change only its edits.
LEMMA WritesSettle ==
  ASSUME TypeInv, SettleInv, NEW p \in Procs,
         WriteAdmission(p) \/ WriteResume(p) \/ WriteEdit(p)
  PROVE  SettleInv'
<1> DEFINE i == loc[p].item
<1>1. UNCHANGED ledger /\ i \in Items /\ loc[p].rec \in Record
  BY DEF WriteAdmission, WriteResume, WriteEdit, At, TypeInv, TypeOK, LocalOK, Local
<1>2. Outside(p)
  <2>1. CASE WriteEdit(p) BY <2>1, FinishOutside DEF WriteEdit
  <2>2. CASE WriteAdmission(p) \/ WriteResume(p)
    BY <2>2 DEF WriteAdmission, WriteResume, Goto, Outside, Others, SettlerPcs, TypeInv, TypeOK
  <2> QED BY <2>1, <2>2
<1>3. Fence(p) /\ Settler(p)' BY <1>1, <1>2 DEF Outside, Fence, Settler
<1>4. \A j \in Items \ {i} : record'[j] = record[j]
  BY <1>1 DEF WriteAdmission, WriteResume, WriteEdit, TypeInv, TypeOK
<1>5. FinalNext(record'[i])
  <2>1. CASE WriteAdmission(p) \/ WriteResume(p)
    <3>1. record' = [record EXCEPT ![i] = [loc[p].rec EXCEPT !.status = "running",
                                                !.latest = loc[p].run, !.url = FALSE]]
      BY <2>1 DEF WriteAdmission, WriteResume
    <3>2. record'[i].status = "running"
      BY <1>1, <3>1 DEF TypeInv, TypeOK, Record
    <3> QED BY <3>2 DEF FinalNext, EndStatus
  <2>2. CASE WriteEdit(p)
    <3>1. /\ record'[i].latest = loc[p].rec.latest /\ record'[i].status = loc[p].rec.status
          /\ record'[i].url = loc[p].rec.url
      BY <1>1, <2>2 DEF WriteEdit, TypeInv, TypeOK, Record
    <3>2. FinalNext(loc[p].rec) BY <1>3, FinalKept DEF SettleInv
    <3> QED BY <3>1, <3>2 DEF FinalNext
  <2> QED BY <2>1, <2>2
<1> QED BY <1>2, <1>3, <1>4, <1>5, SettleInvKept DEF Outside

\* Nothing of it depends on logs, claims and bounds.
LEMMA SettleSame ==
  ASSUME SettleInv, UNCHANGED <<ledger, record, pc, loc>> PROVE SettleInv'
BY DEF SettleInv, SettlerHoldsRow, SettlerPcs, Final, Holds, Owned

\* Every step keeps the fence: the cases are the disjuncts of Next.
LEMMA SettleInvNext ==
  ASSUME TypeInv, CallInv, SettleInv, [Next]_vars PROVE SettleInv'
<1>1. CASE UNCHANGED vars BY <1>1, SettleSame DEF vars
<1>2. ASSUME NEW p \in Procs, AdmitStep(p) PROVE SettleInv'
  BY <1>2, ReadsSettle, ClaimRunSettle, RejectClaimSettle, MarkProjectedSettle, WritesSettle
  DEF AdmitStep
<1>3. ASSUME NEW p \in Procs, SettleStep(p) PROVE SettleInv'
  BY <1>3, ReadsSettle, BeginSettlementSettle, RecoverStaleSettle, SettlerSettle,
     WriteOutcomeSettle, CompleteSettle DEF SettleStep
<1>4. ASSUME NEW p \in Procs, ResumeStep(p) PROVE SettleInv'
  BY <1>4, ReadsSettle, WritesSettle DEF ResumeStep
<1>5. ASSUME NEW p \in Procs, RunStep(p) \/ Call(p) \/ Crash(p) \/ AdmissionFault(p) \/ DispatchFault(p)
      PROVE  SettleInv'
  BY <1>5, ReadsSettle DEF Call
<1>6. ASSUME NEW p \in Procs, SettlementFault(p) PROVE SettleInv'
  BY <1>6, FaultSettle
<1>7. ASSUME NEW p \in Procs, Publish(p) PROVE SettleInv'
  BY <1>7, SettleSame DEF Publish
<1>8. ASSUME NEW r \in Runs, LeaseGrowsOld(r) PROVE SettleInv'
  BY <1>8, SettleSame DEF LeaseGrowsOld
<1> QED
  BY <1>1, <1>2, <1>3, <1>4, <1>5, <1>6, <1>7, <1>8 DEF Next, Step

\* The fence holds in every reachable state.
LEMMA SettleInvariant == Spec => [](TypeInv /\ SeenOK /\ CallInv /\ SettleInv)
<1>1. Init => SettleInv
  BY NullAssumption DEF Init, SettleInv, SettlerHoldsRow, Final, InitRecord, NoLocal
<1>2. TypeInv /\ CallInv /\ SettleInv /\ [Next]_vars => SettleInv'
  BY SettleInvNext
<1> QED BY <1>1, <1>2, CallInvariant, PTL DEF Spec

\* The call between beginSettlement and its write of the record holds the row,
\* with the intent that it is about to write: no recovery of a stale lease takes
\* the row from it ("lost Run settlement lease before projection" cannot happen).
THEOREM SettlerHoldsRowAlways == Spec => []SettlerHoldsRow
BY SettleInvariant, PTL DEF SettleInv

-----------------------------------------------------------------------------
(* Logs that end before their rows do                                      *)

\* Every step of one call leaves the others where they are.
LEMMA OthersNext ==
  ASSUME TypeInv, NEW p \in Procs,
         Step(p) \/ Call(p) \/ Crash(p) \/ AdmissionFault(p) \/ DispatchFault(p) \/ SettlementFault(p)
  PROVE  Others(p)
<1>1. loc \in [Procs -> Local] /\ pc \in [Procs -> Pcs] BY DEF TypeInv, TypeOK
<1>2. ASSUME Finish(p) PROVE Others(p) BY <1>1, <1>2 DEF Finish, Others
<1>3. ASSUME NEW r, NEW intent, NEW next, CallSettle(p, r, intent, next) PROVE Others(p)
  BY <1>1, <1>3 DEF CallSettle, Goto, Others
<1>4. ASSUME NEW result, Return(p, result) PROVE Others(p)
  BY <1>1, <1>2, <1>4 DEF Return, Goto, Others
<1>5. CASE AdmitStep(p)
  BY <1>1, <1>2, <1>3, <1>5
  DEF AdmitStep, CheckCandidate, ClaimRun, VerifyCandidate, RejectClaim, RecordAdmitted,
      ReadForAdmission, WriteAdmission, MarkProjected, ConfirmDispatch, Goto, Others
<1>6. CASE RunStep(p)
  BY <1>1, <1>2, <1>3, <1>6
  DEF RunStep, CompleteRun, StopRun, AwaitApproval, ThrowRun, RunnerError, Reconcile, Goto, Others
<1>7. CASE SettleStep(p)
  BY <1>1, <1>4, <1>7
  DEF SettleStep, BeginSettlement, ReadOwner, ReadContended, RecoverStale, ReadForSettlement,
      RenewLease, ReadForPatch, WriteOutcome, CompleteSettlement, Goto, Others
<1>8. CASE ResumeStep(p)
  BY <1>1, <1>2, <1>8
  DEF ResumeStep, Revalidate, ReadForResume, WriteResume, MarkLog, ResumeRun, WriteEdit, Goto, Others
<1>9. CASE Call(p)
  BY <1>1, <1>9
  DEF Call, StartAdmission, StartReconcile, StartEdit, CancelRun, ClaimContinuation, Goto, Others
<1>10. CASE Crash(p) \/ AdmissionFault(p) \/ DispatchFault(p) \/ SettlementFault(p)
  BY <1>1, <1>2, <1>4, <1>10
  DEF Crash, AdmissionFault, DispatchFault, SettlementFault, Goto, Others
<1> QED BY <1>5, <1>6, <1>7, <1>8, <1>9, <1>10 DEF Step

\* A step keeps the logs that ended.
MayCancel == \E p \in Procs : "cancel" \in Roles[p]
LogsEnd ==
  \A r \in Runs :
    /\ evt[r] \in Ended => evt'[r] \in Ended
    /\ evt'[r] = "cancelled" => MayCancel
    /\ evt'[r] = "blocked" => "blocked" \in Outcomes
\* It makes or keeps a settled row only for a Run that p settles.
RowsEnd(p) ==
  \A r \in Runs : Owned(r)' => Owned(r) \/ (pc[p] \in SettlePcs /\ loc[p].target = r)
\* p settles only a Run that ended.
TargetEnds(p) == pc'[p] \in SettlePcs => evt'[loc'[p].target] \in Ended

\* What is left to show of a step.
LEMMA EndInvKept ==
  ASSUME TypeInv, EndInv, NEW p \in Procs, Others(p), LogsEnd, RowsEnd(p), TargetEnds(p)
  PROVE  EndInv'
<1>1. ASSUME NEW r \in Runs, Owned(r)' PROVE evt'[r] \in Ended
  BY <1>1 DEF EndInv, RowsEnd, LogsEnd
<1>2. ASSUME NEW q \in Procs, pc'[q] \in SettlePcs PROVE evt'[loc'[q].target] \in Ended
  <2>1. CASE q = p BY <1>2, <2>1 DEF TargetEnds
  <2>2. CASE q # p
    <3>1. pc[q] \in SettlePcs /\ loc'[q].target = loc[q].target /\ loc[q].target \in Runs
      BY <1>2, <2>2 DEF Others, TypeInv, LocalOK, Known
    <3> QED BY <3>1 DEF EndInv, LogsEnd
  <2> QED BY <2>1, <2>2
<1> QED BY <1>1, <1>2 DEF EndInv, LogsEnd, MayCancel

\* A step that writes no log and no row.
LEMMA EndQuiet ==
  ASSUME EndInv, NEW p \in Procs, UNCHANGED <<ledger, evt>>
  PROVE  LogsEnd /\ RowsEnd(p)
BY DEF EndInv, LogsEnd, RowsEnd, Owned, MayCancel

\* A step that writes one log keeps those that ended.
LEMMA EndAppend ==
  ASSUME TypeInv, EndInv, NEW r \in Runs, NEW status, evt' = [evt EXCEPT ![r] = status],
         status = "cancelled" => MayCancel, status = "blocked" => "blocked" \in Outcomes,
         evt[r] \in Ended => status \in Ended
  PROVE  LogsEnd
BY DEF EndInv, LogsEnd, MayCancel, TypeInv, TypeOK

\* A Run is cancelled only where that may happen, and then no Run blocks.
LEMMA StopKeepsEnd ==
  ASSUME NoOverwrite, TypeInv, CallInv, EndInv, NEW p \in Procs, pc[p] = "execute",
         NEW o \in Outcomes, evt[loc[p].run] \in Ended
  PROVE  o \in Ended
<1>1. evt[loc[p].run] = "cancelled" /\ loc[p].run \in Runs
  BY DEF CallInv, Starter, Resumer, Starts, Ended, TypeInv, LocalOK, RunKnownPcs, RunPcs, Known
<1>2. "blocked" \notin Outcomes BY <1>1 DEF EndInv, NoOverwrite
<1> QED BY <1>2, RoleAssumption DEF Ended

\* Steps outside of settlements that write neither logs nor rows.
LEMMA QuietEnd ==
  ASSUME TypeInv, EndInv, NEW p \in Procs,
         \/ Call(p) /\ UNCHANGED evt
         \/ CheckCandidate(p) \/ VerifyCandidate(p) \/ ReadForAdmission(p) \/ WriteAdmission(p)
         \/ ConfirmDispatch(p) \/ AdmissionFault(p) \/ DispatchFault(p)
         \/ ResumeStep(p) \/ Crash(p)
  PROVE  EndInv'
<1>1. UNCHANGED <<ledger, evt>>
  BY DEF Call, StartAdmission, StartReconcile, StartEdit, CancelRun, ClaimContinuation,
     CheckCandidate, VerifyCandidate, ReadForAdmission, WriteAdmission, ConfirmDispatch,
     AdmissionFault, DispatchFault, ResumeStep, Revalidate, ReadForResume, WriteResume, MarkLog,
     ResumeRun, WriteEdit, Crash
<1>2. pc'[p] \notin SettlePcs
  <2>1. pc \in [Procs -> Pcs] BY DEF TypeInv, TypeOK
  <2>2. CASE Call(p) \/ Crash(p)
    BY <2>1, <2>2 DEF Call, StartAdmission, StartReconcile, StartEdit, CancelRun, ClaimContinuation,
       Crash, Goto, SettlePcs
  <2>3. CASE ResumeStep(p)
    BY <2>1, <2>3 DEF ResumeStep, Revalidate, ReadForResume, WriteResume, MarkLog, ResumeRun,
       WriteEdit, Goto, Finish, SettlePcs
  <2>4. CASE \/ CheckCandidate(p) \/ VerifyCandidate(p) \/ ReadForAdmission(p) \/ WriteAdmission(p)
             \/ ConfirmDispatch(p) \/ AdmissionFault(p) \/ DispatchFault(p)
    BY <2>1, <2>4 DEF CheckCandidate, VerifyCandidate, ReadForAdmission, WriteAdmission,
       ConfirmDispatch, AdmissionFault, DispatchFault, Goto, Finish, SettlePcs
  <2> QED BY <2>2, <2>3, <2>4
<1>3. Others(p) BY OthersNext DEF Step, AdmitStep
<1> QED BY <1>1, <1>2, <1>3, EndQuiet, EndInvKept DEF TargetEnds

\* The steps of an admission that write its row or its log.
LEMMA AdmitEnd ==
  ASSUME TypeInv, CallInv, EndInv, NEW p \in Procs,
         RejectClaim(p) \/ RecordAdmitted(p) \/ MarkProjected(p)
  PROVE  EndInv'
<1> DEFINE r == loc[p].run
<1>1. r \in Runs
  BY DEF RejectClaim, RecordAdmitted, MarkProjected, At, TypeInv, LocalOK, RunKnownPcs, AdmitPcs, Known
<1>2. Others(p) BY OthersNext DEF Step, AdmitStep
<1>3. TargetEnds(p)
  BY DEF RejectClaim, RecordAdmitted, MarkProjected, Goto, Finish, SettlePcs, TargetEnds, TypeInv, TypeOK
<1>4. LogsEnd
  <2>1. CASE UNCHANGED evt BY <2>1 DEF EndInv, LogsEnd, MayCancel
  <2>2. CASE evt' = [evt EXCEPT ![r] = "failed"] BY <1>1, <2>2, EndAppend DEF Ended
  <2>3. CASE evt' = [evt EXCEPT ![r] = "running"] /\ evt[r] = "none"
    <3>1. evt[r] \notin Ended /\ "running" # "cancelled" /\ "running" # "blocked"
      BY <2>3 DEF Ended
    <3> QED BY <1>1, <2>3, <3>1, EndAppend
  <2> QED BY <2>1, <2>2, <2>3 DEF RejectClaim, RecordAdmitted, MarkProjected, Append
<1>5. RowsEnd(p)
  <2>1. CASE RecordAdmitted(p) BY <2>1 DEF RecordAdmitted, RowsEnd, Owned
  <2>2. ASSUME NEW s \in Runs, RejectClaim(p), Owned(s)' PROVE Owned(s)
    <3>1. CASE ledger' = ledger BY <2>2, <3>1 DEF Owned
    <3>2. CASE /\ ledger' = [ledger EXCEPT ![r].state = "rejected", ![r].init = NoProc]
               /\ Unsettled(r)
      <4>1. ledger'[r].state = "rejected" /\ ledger'[r].token = NoProc
            /\ \A t \in Runs \ {r} : ledger'[t] = ledger[t]
        BY <1>1, <3>2 DEF Unsettled, TypeInv, TypeOK, Row
      <4> QED BY <2>2, <4>1 DEF Owned
    <3> QED BY <2>2, <3>1, <3>2 DEF RejectClaim
  <2>3. ASSUME NEW s \in Runs, MarkProjected(p), Owned(s)' PROVE Owned(s)
    <3>1. CASE ledger' = ledger BY <2>3, <3>1 DEF Owned
    <3>2. CASE ledger' = [ledger EXCEPT ![r].projected = TRUE, ![r].init = NoProc]
      <4>1. ledger'[s].state = ledger[s].state /\ ledger'[s].token = ledger[s].token
        BY <1>1, <3>2 DEF TypeInv, TypeOK, Row
      <4> QED BY <2>3, <4>1 DEF Owned
    <3> QED BY <2>3, <3>1, <3>2 DEF MarkProjected
  <2> QED BY <2>1, <2>2, <2>3 DEF RowsEnd
<1> QED BY <1>2, <1>3, <1>4, <1>5, EndInvKept

\* A claim settles another Run only if its owner's settlement began.
LEMMA ClaimRunEnd ==
  ASSUME TypeInv, EndInv, NEW p \in Procs, ClaimRun(p) PROVE EndInv'
<1> DEFINE r == loc[p].run
           row == [NoRow EXCEPT !.state = "active", !.item = loc[p].item,
                                !.cand = loc[p].cand, !.init = p]
<1>1. UNCHANGED evt BY DEF ClaimRun
<1>2. Others(p) BY OthersNext DEF Step, AdmitStep
<1>3. LogsEnd BY <1>1 DEF EndInv, LogsEnd, MayCancel
<1>4. RowsEnd(p)
  <2>1. CASE ledger' = ledger BY <2>1 DEF RowsEnd, Owned
  <2>2. CASE ledger' = [ledger EXCEPT ![r] = row]
    <3>1. row.state = "active" /\ row.token = NoProc BY DEF NoRow
    <3> HIDE DEF row
    <3>2. \A s \in Runs : ledger'[s] = ledger[s] \/ ledger'[s] = row
      BY <2>2 DEF TypeInv, TypeOK
    <3> QED BY <3>1, <3>2 DEF RowsEnd, Owned
  <2> QED BY <2>1, <2>2 DEF ClaimRun
<1>5. TargetEnds(p)
  <2>1. CASE Finish(p) \/ Goto(p, "verify")
    BY <2>1 DEF Finish, Goto, TargetEnds, SettlePcs, TypeInv, TypeOK
  <2>2. ASSUME NEW q \in Runs, ledger[q].token # NoProc, CallSettle(p, q, ledger[q].intent, "reclaim")
        PROVE  TargetEnds(p)
    <3>1. loc'[p].target = q BY <2>2, CallSettleMoves
    <3> QED BY <1>1, <2>2, <3>1 DEF TargetEnds, EndInv, Owned
  <2> QED BY <2>1, <2>2 DEF ClaimRun, Live, Active
<1> QED BY <1>2, <1>3, <1>4, <1>5, EndInvKept

\* A runner that stops ends its log before it settles; what it appends to a log
\* that ended is again an end of it.
LEMMA RunEnd ==
  ASSUME NoOverwrite, TypeInv, CallInv, EndInv, NEW p \in Procs, RunStep(p) PROVE EndInv'
<1> DEFINE r == loc[p].run
<1>1. Others(p) /\ UNCHANGED ledger
  BY OthersNext DEF Step, RunStep, CompleteRun, StopRun, AwaitApproval, ThrowRun, RunnerError, Reconcile
<1>2. RowsEnd(p) BY <1>1 DEF RowsEnd, Owned
<1>3. ASSUME UNCHANGED evt PROVE LogsEnd
  BY <1>3 DEF EndInv, LogsEnd, MayCancel
<1>4. ASSUME pc[p] \in RunPcs PROVE r \in Runs
  BY <1>4 DEF TypeInv, LocalOK, RunKnownPcs, Known
<1>5. ASSUME r \in Runs, Append(r, "failed") PROVE LogsEnd /\ evt'[r] = "failed"
  <2>1. evt' = [evt EXCEPT ![r] = "failed"] BY <1>5 DEF Append
  <2>2. "failed" \in Ended BY DEF Ended
  <2>3. LogsEnd BY <1>5, <2>1, <2>2, EndAppend
  <2> QED BY <1>5, <2>1, <2>3 DEF TypeInv, TypeOK
<1>6. ASSUME Goto(p, "runnerError") PROVE TargetEnds(p)
  BY <1>6 DEF Goto, TargetEnds, SettlePcs, TypeInv, TypeOK
<1>7. ASSUME Finish(p) PROVE TargetEnds(p)
  BY <1>7 DEF Finish, TargetEnds, SettlePcs, TypeInv, TypeOK
<1>8. ASSUME NEW s, NEW intent, NEW next, CallSettle(p, s, intent, next), evt'[s] \in Ended
      PROVE  TargetEnds(p)
  BY <1>8, CallSettleMoves DEF TargetEnds
<1>9. CASE CompleteRun(p)
  <2>1. pc[p] = "execute" /\ r \in Runs BY <1>4, <1>9 DEF CompleteRun, At, RunPcs
  <2>2. CASE UNCHANGED evt /\ Goto(p, "runnerError")
    BY <1>1, <1>2, <1>3, <1>6, <2>2, EndInvKept
  <2>3. CASE /\ Append(r, "completed")
             /\ CallSettle(p, r, [status |-> "completed", url |-> pr[r]], "runnerError")
    <3>1. LogsEnd /\ evt'[r] = "completed"
      <4>1. evt' = [evt EXCEPT ![r] = "completed"] BY <2>3 DEF Append
      <4>2. "completed" \in Ended BY DEF Ended
      <4>3. LogsEnd BY <2>1, <4>1, <4>2, EndAppend
      <4> QED BY <2>1, <4>1, <4>3 DEF TypeInv, TypeOK
    <3>2. loc'[p].target = r BY <2>3, CallSettleMoves
    <3>3. TargetEnds(p) BY <3>1, <3>2 DEF TargetEnds, Ended
    <3> QED BY <1>1, <1>2, <3>1, <3>3, EndInvKept
  <2> QED BY <1>9, <2>2, <2>3 DEF CompleteRun
<1>10. ASSUME NEW o \in Outcomes, StopRun(p, o) PROVE EndInv'
  <2>1. pc[p] = "execute" /\ r \in Runs BY <1>4, <1>10 DEF StopRun, At, RunPcs
  <2>2. evt' = [evt EXCEPT ![r] = o] /\ Goto(p, "runnerError")
    BY <1>10 DEF StopRun, Append
  <2>3. evt[r] \in Ended => o \in Ended BY <2>1, StopKeepsEnd
  <2>4. o # "cancelled" BY RoleAssumption
  <2>5. LogsEnd BY <2>1, <2>2, <2>3, <2>4, EndAppend
  <2> QED BY <1>1, <1>2, <1>6, <2>2, <2>5, EndInvKept
<1>11. CASE ThrowRun(p)
  <2>1. r \in Runs /\ Goto(p, "runnerError") BY <1>4, <1>11 DEF ThrowRun, At, RunPcs
  <2> QED BY <1>1, <1>2, <1>3, <1>5, <1>6, <1>11, <2>1, EndInvKept DEF ThrowRun
<1>12. CASE RunnerError(p)
  <2> DEFINE recorded == IF loc[p].resumed THEN p \notin quiet[r] ELSE evt[r] \in Stopped
  <2>1. r \in Runs /\ pc[p] = "runnerError" BY <1>4, <1>12 DEF RunnerError, At, RunPcs
  <2>2. recorded => evt[r] \in Stopped
    BY DEF CallInv, Resumer
  <2>3. LogsEnd /\ (recorded => evt' = evt) /\ (~recorded => evt'[r] = "failed")
    BY <1>3, <1>5, <1>12, <2>1 DEF RunnerError
  <2> DEFINE intent == [status |-> IF (IF recorded THEN evt[r] ELSE "failed") = "completed"
                                   THEN (IF recorded THEN evt[r] ELSE "failed") ELSE "failed",
                        url |-> pr[r]]
  <2>4. Finish(p) \/ (CallSettle(p, r, intent, "finish") /\ (recorded => evt[r] # "blocked"))
    BY <1>12 DEF RunnerError
  <2>5. CASE Finish(p) BY <1>1, <1>2, <1>7, <2>3, <2>5, EndInvKept
  <2>6. CASE CallSettle(p, r, intent, "finish") /\ (recorded => evt[r] # "blocked")
    <3> HIDE DEF intent, recorded
    <3>1. evt'[r] \in Ended BY <2>2, <2>3, <2>6 DEF Stopped, Ended
    <3>2. loc'[p].target = r BY <2>6, CallSettleMoves
    <3>3. TargetEnds(p) BY <3>1, <3>2 DEF TargetEnds
    <3> QED BY <1>1, <1>2, <2>3, <3>3, EndInvKept
  <2> QED BY <2>4, <2>5, <2>6
<1>13. CASE Reconcile(p)
  <2>1. UNCHANGED evt BY <1>13 DEF Reconcile
  <2>2. CASE Finish(p) BY <1>1, <1>2, <1>3, <1>7, <2>1, <2>2, EndInvKept
  <2>3. ASSUME NEW intent, CallSettle(p, loc[p].target, intent, "finish"), evt[loc[p].target] \in Ended
        PROVE  EndInv'
    <3>1. loc'[p].target = loc[p].target BY <2>3, CallSettleMoves
    <3>2. TargetEnds(p) BY <2>1, <2>3, <3>1 DEF TargetEnds
    <3> QED BY <1>1, <1>2, <1>3, <2>1, <3>2, EndInvKept
  <2> QED BY <1>13, <2>2, <2>3 DEF Reconcile
<1>14. CASE AwaitApproval(p)
  BY <1>1, <1>2, <1>3, <1>7, <1>14, EndInvKept DEF AwaitApproval
<1> QED BY <1>9, <1>10, <1>11, <1>12, <1>13, <1>14 DEF RunStep

\* A cancel ends a log where Runs may be cancelled.
LEMMA CancelRunEnd ==
  ASSUME TypeInv, EndInv, NEW p \in Procs, NEW r \in Runs, CancelRun(p, r) PROVE EndInv'
<1>1. Others(p) BY OthersNext DEF Call
<1>2. /\ UNCHANGED ledger /\ evt' = [evt EXCEPT ![r] = "cancelled"] /\ MayCancel
      /\ Goto(p, "reconcile")
  BY DEF CancelRun, Append, MayCancel
<1>3. LogsEnd BY <1>2, EndAppend DEF Ended
<1>4. RowsEnd(p) BY <1>2 DEF RowsEnd, Owned
<1>5. TargetEnds(p) BY <1>2 DEF Goto, TargetEnds, SettlePcs, TypeInv, TypeOK
<1> QED BY <1>1, <1>3, <1>4, <1>5, EndInvKept

\* A settlement takes and settles the row of its own Run, which has ended.
LEMMA SettleEnd ==
  ASSUME TypeInv, EndInv, NEW p \in Procs, SettleStep(p) \/ SettlementFault(p) PROVE EndInv'
<1> DEFINE r == loc[p].target
<1>1. Others(p) /\ UNCHANGED evt /\ pc[p] \in SettlePcs
  BY OthersNext DEF Step, SettleStep, BeginSettlement, ReadOwner, ReadContended, RecoverStale,
     ReadForSettlement, RenewLease, ReadForPatch, WriteOutcome, CompleteSettlement, SettlementFault,
     At, SettlePcs
<1>2. r \in Runs BY <1>1 DEF TypeInv, LocalOK, Known
<1>3. LogsEnd BY <1>1 DEF EndInv, LogsEnd, MayCancel
<1>4. RowsEnd(p)
  <2>1. \A s \in Runs \ {r} : ledger'[s] = ledger[s]
    <3>1. CASE ledger' = ledger BY <3>1
    <3>2. CASE ledger' = Settled(r) BY <1>2, <3>2, SettledRow
    <3>3. CASE ledger' = Released(r) BY <1>2, <3>3, ReleasedRow
    <3>4. CASE ledger' = [ledger EXCEPT ![r].token = p, ![r].intent = loc[p].intent]
      BY <3>4 DEF TypeInv, TypeOK
    <3> QED
      BY <3>1, <3>2, <3>3, <3>4 DEF SettleStep, BeginSettlement, ReadOwner, ReadContended,
         RecoverStale, ReadForSettlement, RenewLease, ReadForPatch, WriteOutcome,
         CompleteSettlement, SettlementFault
  <2> QED BY <1>1, <2>1 DEF RowsEnd, Owned
<1>5. TargetEnds(p)
  <2>1. loc \in [Procs -> Local] /\ pc \in [Procs -> Pcs] BY DEF TypeInv, TypeOK
  <2>2. ASSUME NEW result, Return(p, result) PROVE TargetEnds(p)
    <3>1. pc'[p] \in {"idle", "reclaim", "runnerError"}
      BY <2>1, <2>2 DEF Return, Goto, Finish
    <3> QED BY <3>1 DEF TargetEnds, SettlePcs
  <2>3. ASSUME loc'[p].target = r PROVE TargetEnds(p)
    BY <1>1, <2>3 DEF TargetEnds, EndInv
  <2>4. CASE BeginSettlement(p) \/ RenewLease(p)
    BY <2>2, <2>3, <2>4 DEF BeginSettlement, RenewLease
  <2>5. CASE ReadOwner(p)
    <3>1. ASSUME loc' = [loc EXCEPT ![p].seen = ledger[loc[p].target].token,
                                    ![p].held = ledger[loc[p].target].intent]
          PROVE  loc'[p].target = r
      BY <2>1, <3>1 DEF Local
    <3> QED BY <2>2, <2>3, <2>5, <3>1 DEF ReadOwner
  <2>6. CASE ReadContended(p) \/ ReadForPatch(p)
    BY <2>1, <2>3, <2>6 DEF ReadContended, ReadForPatch, Local
  <2>7. CASE ReadForSettlement(p) \/ WriteOutcome(p)
    BY <2>3, <2>7 DEF ReadForSettlement, WriteOutcome
  <2>8. CASE RecoverStale(p) \/ CompleteSettlement(p) \/ SettlementFault(p)
    BY <2>2, <2>8 DEF RecoverStale, CompleteSettlement, SettlementFault
  <2> QED BY <2>4, <2>5, <2>6, <2>7, <2>8 DEF SettleStep
<1> QED BY <1>1, <1>3, <1>4, <1>5, EndInvKept

\* Nothing of it depends on records, claims and bounds.
LEMMA EndSame ==
  ASSUME EndInv, UNCHANGED <<ledger, evt, pc, loc>> PROVE EndInv'
BY DEF EndInv, Owned

\* Where a cancelled log is not reopened, every step keeps rows behind logs.
LEMMA EndInvNext ==
  ASSUME NoOverwrite, TypeInv, CallInv, EndInv, [Next]_vars PROVE EndInv'
<1>1. CASE UNCHANGED vars BY <1>1, EndSame DEF vars
<1>2. ASSUME NEW p \in Procs, AdmitStep(p) PROVE EndInv'
  BY <1>2, QuietEnd, ClaimRunEnd, AdmitEnd DEF AdmitStep
<1>3. ASSUME NEW p \in Procs, RunStep(p) \/ SettleStep(p) \/ ResumeStep(p) PROVE EndInv'
  BY <1>3, RunEnd, SettleEnd, QuietEnd
<1>4. ASSUME NEW p \in Procs, Call(p) PROVE EndInv'
  <2>1. UNCHANGED evt \/ \E r \in Runs : CancelRun(p, r)
    BY <1>4 DEF Call, StartAdmission, StartReconcile, StartEdit, ClaimContinuation
  <2> QED BY <1>4, <2>1, QuietEnd, CancelRunEnd
<1>5. ASSUME NEW p \in Procs, Crash(p) \/ AdmissionFault(p) \/ DispatchFault(p) \/ SettlementFault(p)
      PROVE  EndInv'
  BY <1>5, QuietEnd, SettleEnd
<1>6. ASSUME NEW p \in Procs, Publish(p) PROVE EndInv'
  BY <1>6, EndSame DEF Publish
<1>7. ASSUME NEW r \in Runs, LeaseGrowsOld(r) PROVE EndInv'
  BY <1>7, EndSame DEF LeaseGrowsOld
<1> QED BY <1>1, <1>2, <1>3, <1>4, <1>5, <1>6, <1>7 DEF Next, Step

\* Where no cancelled log is reopened, a row that is being settled, or is settled,
\* has a log that ended, in every reachable state.
LEMMA EndInvariant ==
  ASSUME NoOverwrite
  PROVE  Spec => [](TypeInv /\ CallInv /\ SettleInv /\ EndInv)
<1>1. Init => EndInv
  BY DEF Init, EndInv, Owned, NoRow, SettlePcs
<1>2. TypeInv /\ CallInv /\ EndInv /\ [Next]_vars => EndInv'
  BY EndInvNext
<1> QED BY <1>1, <1>2, SettleInvariant, PTL DEF Spec

\* A row is settled only after the log of its Run ended, in every instance whose
\* Runs are never both cancelled and blocked.  Where they are, a stage that
\* blocks reopens a log that a cancel had ended (run CancelEnds).
THEOREM SettledRunEndedAlways ==
  ASSUME NoOverwrite PROVE Spec => []SettledRunEnded
<1>1. EndInv => SettledRunEnded BY DEF EndInv, SettledRunEnded, Owned
<1> QED BY <1>1, EndInvariant, PTL

\* Under the same condition a Run that is executed, and was not cancelled, has its
\* active row: no other Run of its item is admitted beside it, whatever edits,
\* faults and crashes do to the record.
THEOREM ExecutingRunKeepsRowAlways ==
  ASSUME NoOverwrite PROVE Spec => []ExecutingRunKeepsRow
<1>1. TypeInv /\ CallInv /\ EndInv => ExecutingRunKeepsRow
  <2> SUFFICES ASSUME TypeInv, CallInv, EndInv, NEW p \in Procs,
                      pc[p] = "execute", evt[loc[p].run] # "cancelled"
               PROVE  ledger[loc[p].run].state = "active"
    BY DEF ExecutingRunKeepsRow, At
  <2> DEFINE r == loc[p].run
  <2>1. Known(r) BY DEF TypeInv, LocalOK, RunKnownPcs, RunPcs
  <2>2. ledger[r].state # "rejected" BY DEF CallInv, Admitted
  <2>3. evt[r] \notin Ended
    BY DEF CallInv, Starter, Resumer, Starts, Ended
  <2>4. ledger[r].state # "settled" BY <2>1, <2>3 DEF EndInv, Owned, Known
  <2>5. ledger[r] \in Row BY <2>1 DEF TypeInv, TypeOK, Known
  <2> QED BY <2>1, <2>2, <2>4, <2>5 DEF Known, Row
<1> QED BY <1>1, EndInvariant, PTL

-----------------------------------------------------------------------------
(* Records that show what the rows say                                     *)

\* CopyShown of a value after the step.
CopyNext(rec) ==
  rec.latest \in Runs /\ rec.status \in EndStatus =>
    LET now == record'[ledger'[rec.latest].item] IN
    now.latest = rec.latest => now.status \in EndStatus

\* What a step of p that writes no record does to the rows: they keep their item,
\* and become projected, or settled, only once the record shows it.
RowsShown(p) ==
  \A r \in Runs :
    LET rec == record[ledger'[r].item] IN
    /\ ledger[r].state # "none" => ledger'[r].item = ledger[r].item
    /\ ledger'[r].state = "active" /\ ledger'[r].projected =>
         (ledger[r].state = "active" /\ ledger[r].projected) \/ rec.latest = r
    /\ ledger'[r].state = "settled" =>
         ledger[r].state = "settled" \/ (rec.latest = r => rec.status \in EndStatus)
    /\ ledger'[r].token = ledger[r].token \/ ledger'[r].token \in {p, NoProc}
    /\ ledger'[r].state = "active" =>
         ledger[r].state = "active" \/ (ledger[r].state = "none" /\ ledger'[r].token = NoProc)

\* The calls other than p keep their place as long as the rows keep their items.
LEMMA PlacedKept ==
  ASSUME TypeInv, ItemInv, NEW p \in Procs, Others(p),
         \A r \in Runs : ledger[r].state # "none" => ledger'[r].item = ledger[r].item,
         NEW q \in Procs \ {p}
  PROVE  Placed(q)'
<1>1. pc'[q] = pc[q] /\ loc'[q] = loc[q] BY DEF Others
<1>2. ASSUME pc[q] \in RunKnownPcs \ RunPcs
      PROVE  ledger'[loc[q].run].item = ledger[loc[q].run].item
  BY <1>2 DEF TypeInv, LocalOK, Known
<1>3. ASSUME pc[q] \in SettlePcs \cup {"reconcile"}
      PROVE  ledger'[loc[q].target].item = ledger[loc[q].target].item
  BY <1>3 DEF TypeInv, LocalOK, Known
<1> QED BY <1>1, <1>2, <1>3 DEF ItemInv, Placed, Resumes

\* What is left to show of a step that writes no record.
LEMMA ShownKept ==
  ASSUME TypeInv, ItemInv, ShownInv, NEW p \in Procs, Others(p), UNCHANGED record, RowsShown(p),
         Placed(p)', Fits(p)',
         loc'[p].rec \in {loc[p].rec, InitRecord} \cup {record[i] : i \in Items}
  PROVE  ItemInv' /\ ShownInv'
<1>1. ASSUME NEW r \in Runs, ledger[r].state # "none" PROVE ledger'[r].item = ledger[r].item
  BY <1>1 DEF RowsShown
<1>2. ItemInv'
  <2>1. ASSUME NEW i \in Items, record[i].latest \in Runs
        PROVE  ledger'[record[i].latest].item = i /\ record[i].status # "ready"
    <3>1. ledger[record[i].latest].state # "none"
      BY <2>1 DEF TypeInv, RunsKnown, Known
    <3> QED BY <1>1, <2>1, <3>1 DEF ItemInv
  <2>2. \A q \in Procs : Placed(q)' BY <1>1, PlacedKept
  <2> QED BY <2>1, <2>2 DEF ItemInv
<1>3. ASSUME NEW r \in Runs PROVE RowShown(r)'
  <2>1. RowShown(r) BY DEF ShownInv
  <2>2. CASE ledger[r].state = "none"
    BY <2>2 DEF RowsShown, RowShown
  <2>3. CASE ledger[r].state # "none"
    BY <2>1, <2>3 DEF RowsShown, RowShown
  <2> QED BY <2>2, <2>3
<1>4. ASSUME NEW q \in Procs PROVE Fits(q)'
  <2>1. CASE q = p BY <2>1
  <2>2. CASE q # p
    <3>1. pc'[q] = pc[q] /\ loc'[q] = loc[q] BY <2>2 DEF Others
    <3>2. ASSUME pc[q] = "complete", Holds(q, loc[q].target)' PROVE Holds(q, loc[q].target)
      <4>1. loc[q].target \in Runs BY <3>2 DEF TypeInv, LocalOK, Known, SettlePcs
      <4> QED BY <2>2, <3>1, <3>2, <4>1, NullAssumption DEF RowsShown, Holds
    <3> QED BY <3>1, <3>2 DEF ShownInv, Fits
  <2> QED BY <2>1, <2>2
<1>5. ASSUME NEW rec, CopyShown(rec), rec.latest \in Runs => ledger[rec.latest].state # "none"
      PROVE  CopyNext(rec)
  BY <1>1, <1>5 DEF CopyShown, CopyNext
<1>6. \A i \in Items : CopyNext(record[i])
  <2> SUFFICES ASSUME NEW i \in Items, record[i].latest \in Runs, record[i].status \in EndStatus
               PROVE  CopyNext(record[i])
    BY DEF CopyNext
  <2>1. ledger'[record[i].latest].item = i BY <1>2 DEF ItemInv
  <2> QED BY <2>1 DEF CopyNext
<1>7. ASSUME NEW q \in Procs PROVE CopyNext(loc'[q].rec)
  <2>1. CopyNext(loc[q].rec) BY <1>5 DEF ShownInv, TypeInv, LocalOK, Known
  <2>2. CASE q # p BY <2>1, <2>2 DEF Others
  <2>3. CopyNext(InitRecord) BY NullAssumption DEF CopyNext, InitRecord
  <2>4. CASE q = p BY <1>6, <2>1, <2>3, <2>4
  <2> QED BY <2>2, <2>4
<1>8. (\A q \in Procs : CopyShown(loc[q].rec))'
  BY <1>7 DEF CopyShown, CopyNext
<1> QED BY <1>2, <1>3, <1>4, <1>8 DEF ShownInv

\* The step of p writes for item i that r, which owns it, is running or has ended.
Writes(p, i, r) ==
  /\ Others(p) /\ UNCHANGED ledger
  /\ i \in Items /\ r \in Runs /\ ledger[r].item = i /\ ledger[r].state = "active"
  /\ \A j \in Items \ {i} : record'[j] = record[j]
  /\ record'[i].latest = r
  /\ \/ record'[i].status = "running" /\ ~Owned(r)
     \/ record'[i].status \in EndStatus /\ ledger[r].projected
  /\ \A q \in Procs : pc'[q] \in ClosedPcs => loc'[q].run # r
  /\ loc'[p].rec = loc[p].rec

\* What is left to show of a step that writes a record.
LEMMA WriteKept ==
  ASSUME TypeInv, CallInv, OneOwner, SettleInv, ItemInv, ShownInv, NEW p \in Procs,
         \E i \in Items, r \in Runs : Writes(p, i, r), Placed(p)', Fits(p)'
  PROVE  ItemInv' /\ ShownInv'
<1>1. PICK i \in Items, r \in Runs : Writes(p, i, r) OBVIOUS
<1>2. /\ Others(p) /\ UNCHANGED ledger /\ ledger[r].item = i /\ ledger[r].state = "active"
      /\ \A j \in Items \ {i} : record'[j] = record[j]
      /\ record'[i].latest = r /\ loc'[p].rec = loc[p].rec
  BY <1>1 DEF Writes
<1>3. \A s \in Runs : ledger[s].item = i /\ ledger[s].state = "active" => s = r
  BY <1>2 DEF OneOwner
<1>4. ItemInv'
  <2>1. ASSUME NEW j \in Items, record'[j].latest \in Runs
        PROVE  ledger'[record'[j].latest].item = j /\ record'[j].status # "ready"
    <3>1. CASE j = i BY <1>1, <1>2, <3>1 DEF Writes, EndStatus
    <3>2. CASE j # i BY <1>2, <2>1, <3>2 DEF ItemInv
    <3> QED BY <3>1, <3>2
  <2>2. \A q \in Procs : Placed(q)' BY <1>2, PlacedKept
  <2> QED BY <2>1, <2>2 DEF ItemInv
<1>5. ASSUME NEW s \in Runs PROVE RowShown(s)'
  <2>1. RowShown(s) BY DEF ShownInv
  <2>2. CASE ledger[s].item = i
    BY <1>2, <1>3, <2>1, <2>2 DEF RowShown
  <2>3. CASE ledger[s].item # i /\ ledger[s].state # "none"
    <3>1. ledger[s].item \in Items BY <2>3 DEF TypeInv, RunsKnown
    <3> QED BY <1>2, <2>1, <2>3, <3>1 DEF RowShown
  <2>4. CASE ledger[s].state = "none" BY <1>2, <2>4 DEF RowShown
  <2> QED BY <2>2, <2>3, <2>4
<1>6. ASSUME NEW q \in Procs PROVE Fits(q)'
  <2>1. CASE q = p BY <2>1
  <2>2. CASE q # p
    <3>1. /\ pc'[q] = pc[q] /\ loc'[q] = loc[q] /\ Fits(q) /\ Placed(q)
          /\ Admitted(q) /\ LocalOK(q)
      BY <1>2, <2>2 DEF Others, ShownInv, ItemInv, CallInv, TypeInv
    <3>2. CASE pc[q] \in {"idle", "dead"} \/ loc[q].item # i
      <4>1. pc[q] \notin {"idle", "dead"} => loc[q].item \in Items BY <3>1 DEF LocalOK
      <4>2. pc[q] \in {"idle", "dead"} =>
              pc[q] \notin ClosedPcs \cup {"markProjected", "complete", "superseded"}
        BY DEF ClosedPcs
      <4> QED BY <1>2, <3>1, <3>2, <4>1, <4>2 DEF Fits, Holds
    <3>3. CASE loc[q].item = i
      <4>1. ASSUME pc[q] \in ClosedPcs PROVE loc[q].run # r
        BY <1>1, <3>1, <4>1 DEF Writes
      <4>2. ASSUME pc[q] \in ClosedPcs \cup {"markProjected"} PROVE loc[q].run = r
        <5>1. ledger[loc[q].run].state = "active" BY <3>1, <4>2 DEF Admitted
        <5>2. pc[q] \in RunKnownPcs \ RunPcs
          BY <4>2 DEF ClosedPcs, RunKnownPcs, AdmitPcs, RunPcs
        <5>3. loc[q].run \in Runs /\ ledger[loc[q].run].item = i
          BY <3>1, <3>3, <5>2 DEF Placed, LocalOK, Known
        <5> QED BY <1>3, <5>1, <5>3
      <4>3. ASSUME pc[q] = "markProjected" PROVE record'[i].status = "running"
        <5>1. ~ledger[r].projected BY <3>1, <4>2, <4>3 DEF Admitted
        <5> QED BY <1>1, <5>1 DEF Writes
      <4>4. ASSUME pc[q] = "complete", Holds(q, loc[q].target) PROVE record'[i].status \in EndStatus
        <5>1. pc[q] \in SettlePcs BY <4>4 DEF SettlePcs
        <5>2. loc[q].target \in Runs /\ ledger[loc[q].target].item = i
          BY <3>1, <3>3, <5>1 DEF Placed, LocalOK, Known
        <5>3. loc[q].target = r BY <1>3, <4>4, <5>2 DEF Holds
        <5>4. Owned(r) BY <4>4, <5>3, NullAssumption DEF Owned, Holds
        <5> QED BY <1>1, <5>4 DEF Writes
      <4> QED BY <1>2, <3>1, <3>3, <4>1, <4>2, <4>3, <4>4 DEF Fits, Holds
    <3> QED BY <3>2, <3>3
  <2> QED BY <2>1, <2>2
<1>7. ASSUME NEW q \in Procs PROVE CopyNext(loc'[q].rec)
  <2> DEFINE rec == loc[q].rec
  <2>1. loc'[q].rec = rec BY <1>2 DEF Others
  <2>2. CopyShown(rec) /\ Final(rec) BY DEF ShownInv, SettleInv
  <2>3. CASE rec.latest \in Runs /\ rec.status \in EndStatus
    <3>1. ledger[rec.latest].item \in Items
      BY <2>3 DEF TypeInv, LocalOK, RunsKnown, Known
    <3>2. CASE ledger[rec.latest].item # i
      BY <1>2, <2>1, <2>2, <3>1, <3>2 DEF CopyShown, CopyNext
    <3>3. CASE ledger[rec.latest].item = i /\ rec.latest # r
      BY <1>2, <2>1, <3>3 DEF CopyNext
    <3>4. CASE rec.latest = r
      <4>1. Owned(r) BY <2>2, <2>3, <3>4 DEF Final
      <4>2. record'[i].status \in EndStatus BY <1>1, <4>1 DEF Writes
      <4> QED BY <1>2, <2>1, <3>4, <4>2 DEF CopyNext
    <3> QED BY <3>2, <3>3, <3>4
  <2>4. CASE ~(rec.latest \in Runs /\ rec.status \in EndStatus)
    BY <2>1, <2>4 DEF CopyNext
  <2> QED BY <2>3, <2>4
<1>8. (\A q \in Procs : CopyShown(loc[q].rec))'
  BY <1>7 DEF CopyShown, CopyNext
<1> QED BY <1>4, <1>5, <1>6, <1>8 DEF ShownInv

RecordInv == TypeInv /\ CallInv /\ SettleInv /\ EndInv /\ OneOwner /\ ItemInv /\ ShownInv

\* Where a step of p leads.
Lands(p) ==
  /\ Others(p) /\ Placed(p)' /\ Fits(p)'
  /\ loc'[p].rec \in {loc[p].rec, InitRecord} \cup {record[i] : i \in Items}

MarkedPcs == ClosedPcs \cup {"markProjected", "complete", "superseded"}

\* Away from the steps that write a record, a call has nothing to fit.
LEMMA LandsFree ==
  ASSUME NEW p \in Procs, Others(p), Placed(p)', pc'[p] \notin MarkedPcs,
         loc'[p].rec \in {loc[p].rec, InitRecord} \cup {record[i] : i \in Items}
  PROVE  Lands(p)
BY DEF Lands, Fits, MarkedPcs

\* A step that writes neither row nor record.
LEMMA QuietShown ==
  ASSUME RecordInv, NEW p \in Procs, Lands(p), UNCHANGED <<ledger, record>>
  PROVE  ItemInv' /\ ShownInv'
BY ShownKept DEF RecordInv, Lands, RowsShown

\* A call that returns is nowhere.
LEMMA FinishLands ==
  ASSUME RecordInv, NEW p \in Procs, Finish(p) PROVE Lands(p)
<1>1. pc'[p] = "idle" /\ loc'[p] = NoLocal /\ Others(p)
  BY DEF Finish, RecordInv, TypeInv, TypeOK, Others
<1>2. Placed(p)'
  BY <1>1 DEF Placed, Resumes, NoLocal, RunKnownPcs, AdmitPcs, RunPcs, ResumePcs, SettlePcs
<1> QED BY <1>1, <1>2, LandsFree DEF MarkedPcs, ClosedPcs, NoLocal

\* A call of settleWorkItemRun takes the item of the Run's row.
LEMMA CallLands ==
  ASSUME RecordInv, UNCHANGED ledger, NEW p \in Procs, NEW r, NEW intent, NEW next,
         CallSettle(p, r, intent, next)
  PROVE  Lands(p)
<1>1. /\ pc'[p] = "settle" /\ Others(p) /\ loc'[p].target = r /\ loc'[p].item = ledger[r].item
      /\ loc'[p].rec = loc[p].rec /\ loc'[p].resumed = loc[p].resumed
  BY CallSettleMoves DEF RecordInv
<1>2. Placed(p)'
  BY <1>1 DEF Placed, Resumes, RunKnownPcs, AdmitPcs, RunPcs, ResumePcs, RecordInv, ItemInv
<1> QED BY <1>1, <1>2, LandsFree DEF MarkedPcs, ClosedPcs

\* A settlement returns to its caller.
LEMMA ReturnLands ==
  ASSUME RecordInv, NEW p \in Procs, NEW result, Return(p, result) PROVE Lands(p)
<1>1. CASE Finish(p) BY <1>1, FinishLands
<1>2. CASE UNCHANGED loc /\ \E to \in {"reclaim", "runnerError"} : Goto(p, to)
  <2>1. pc'[p] \in {"reclaim", "runnerError"} /\ Others(p)
    BY <1>2 DEF Goto, Others, RecordInv, TypeInv, TypeOK
  <2>2. Placed(p)'
    BY <1>2, <2>1 DEF Placed, Resumes, RunKnownPcs, AdmitPcs, RunPcs, ResumePcs, SettlePcs,
       RecordInv, ItemInv
  <2> QED BY <1>2, <2>1, <2>2, LandsFree DEF MarkedPcs, ClosedPcs
<1> QED BY <1>1, <1>2 DEF Return

\* The calls that begin.
LEMMA CallsLand ==
  ASSUME NoEdits, RecordInv, NEW p \in Procs, Call(p) PROVE ItemInv' /\ ShownInv'
<1>1. loc \in [Procs -> Local] /\ pc \in [Procs -> Pcs] /\ Placed(p) /\ Others(p)
  BY OthersNext DEF RecordInv, TypeInv, TypeOK, ItemInv
<1>2. UNCHANGED <<ledger, record>>
  BY DEF Call, StartAdmission, StartReconcile, StartEdit, CancelRun, ClaimContinuation
<1>3. SUFFICES Lands(p) BY <1>2, QuietShown
<1>4. ASSUME NEW i \in Items, StartAdmission(p, i) PROVE Lands(p)
  <2>1. pc'[p] = "check" /\ loc'[p].rec = InitRecord /\ ~loc'[p].resumed
    BY <1>1, <1>4 DEF StartAdmission, Goto, NoLocal
  <2>2. Placed(p)'
    BY <2>1 DEF Placed, Resumes, RunKnownPcs, AdmitPcs, RunPcs, ResumePcs, SettlePcs
  <2> QED BY <1>1, <2>1, <2>2, LandsFree DEF MarkedPcs, ClosedPcs
<1>5. ASSUME NEW i \in Items, StartReconcile(p, i) PROVE Lands(p)
  <2>1. /\ pc'[p] = "reconcile" /\ loc'[p].rec = loc[p].rec /\ loc'[p].resumed = loc[p].resumed
        /\ loc'[p].target = record[i].latest /\ loc'[p].item = i
    BY <1>1, <1>5 DEF StartReconcile, Goto, Local
  <2>2. record[i].latest \in Runs
    BY <1>5 DEF StartReconcile, RecordInv, TypeInv, TypeOK, Record
  <2>3. ledger[record[i].latest].item = i BY <2>2 DEF RecordInv, ItemInv
  <2>4. Placed(p)'
    BY <1>1, <1>2, <2>1, <2>3 DEF Placed, Resumes, RunKnownPcs, AdmitPcs, RunPcs, ResumePcs
  <2> QED BY <1>1, <2>1, <2>4, LandsFree DEF MarkedPcs, ClosedPcs
<1>6. ASSUME NEW i \in Items, StartEdit(p, i) PROVE Lands(p)
  <2>1. record[i] \in Record BY DEF RecordInv, TypeInv, TypeOK
  <2> QED BY <1>6, <2>1, BoundAssumption DEF StartEdit, NoEdits, Record
<1>7. ASSUME NEW r \in Runs, CancelRun(p, r) PROVE Lands(p)
  <2>1. /\ pc'[p] = "reconcile" /\ loc'[p].rec = loc[p].rec /\ loc'[p].resumed = loc[p].resumed
        /\ loc'[p].target = r /\ loc'[p].item = ledger[r].item
    BY <1>1, <1>7 DEF CancelRun, Goto, Local
  <2>2. Placed(p)'
    BY <1>1, <1>2, <2>1 DEF Placed, Resumes, RunKnownPcs, AdmitPcs, RunPcs, ResumePcs
  <2> QED BY <1>1, <2>1, <2>2, LandsFree DEF MarkedPcs, ClosedPcs
<1>8. ASSUME NEW i \in Items, NEW r \in Runs, ClaimContinuation(p, i, r) PROVE Lands(p)
  <2>1. /\ pc'[p] = "revalidate" /\ loc'[p].rec = loc[p].rec
        /\ loc'[p].run = r /\ loc'[p].item = i
    BY <1>1, <1>8 DEF ClaimContinuation, Goto, Local
  <2>2. record[i].latest = r /\ evt[r] = "blocked"
    BY <1>8 DEF ClaimContinuation, Resumable
  <2>3. ledger[r].item = i /\ "blocked" \in Outcomes
    BY <2>2 DEF RecordInv, ItemInv, EndInv
  <2>4. Placed(p)'
    BY <1>2, <2>1, <2>3 DEF Placed, SettlePcs
  <2> QED BY <1>1, <2>1, <2>4, LandsFree DEF MarkedPcs, ClosedPcs
<1> QED BY <1>4, <1>5, <1>6, <1>7, <1>8 DEF Call

\* The steps of an admission that only move it.
LEMMA AdmitLands ==
  ASSUME RecordInv, NEW p \in Procs,
         \/ CheckCandidate(p) \/ VerifyCandidate(p) \/ RecordAdmitted(p) \/ ReadForAdmission(p)
         \/ ConfirmDispatch(p) \/ AdmissionFault(p) \/ DispatchFault(p)
  PROVE  ItemInv' /\ ShownInv'
<1>1. loc \in [Procs -> Local] /\ pc \in [Procs -> Pcs] /\ Placed(p) /\ Fits(p) /\ Others(p)
  BY OthersNext DEF RecordInv, TypeInv, TypeOK, ItemInv, ShownInv, Step, AdmitStep
<1>2. UNCHANGED <<ledger, record>>
  BY DEF CheckCandidate, VerifyCandidate, RecordAdmitted, ReadForAdmission, ConfirmDispatch,
     AdmissionFault, DispatchFault
<1>3. SUFFICES Lands(p) BY <1>2, QuietShown
<1>4. CASE Finish(p) BY <1>4, FinishLands
<1>5. CASE VerifyCandidate(p) \/ RecordAdmitted(p) \/ ReadForAdmission(p) \/ AdmissionFault(p)
  <2>1. /\ pc[p] \in ClosedPcs /\ pc'[p] \in ClosedPcs
        /\ loc'[p].run = loc[p].run /\ loc'[p].item = loc[p].item
        /\ loc'[p].resumed = loc[p].resumed
        /\ loc'[p].rec \in {loc[p].rec, record[loc[p].item]}
    BY <1>1, <1>5 DEF VerifyCandidate, RecordAdmitted, ReadForAdmission, AdmissionFault, At, Goto,
       ClosedPcs, Local
  <2>2. loc[p].item \in Items
    BY <2>1 DEF RecordInv, TypeInv, LocalOK, ClosedPcs
  <2>3. Placed(p)'
    BY <1>1, <1>2, <2>1 DEF Placed, Resumes, RunKnownPcs, AdmitPcs, RunPcs, ResumePcs, SettlePcs,
       ClosedPcs
  <2>4. Fits(p)'
    BY <1>1, <1>2, <2>1 DEF Fits, ClosedPcs
  <2> QED BY <1>1, <2>1, <2>2, <2>3, <2>4 DEF Lands
<1>6. CASE CheckCandidate(p) /\ ~Finish(p)
  <2>1. pc[p] = "check" /\ pc'[p] = "claim" BY <1>1, <1>6 DEF CheckCandidate, Goto, At
  <2>2. loc'[p].rec = loc[p].rec /\ loc'[p].resumed = loc[p].resumed
    BY <1>1, <1>6 DEF CheckCandidate, Local
  <2>3. Placed(p)'
    BY <1>1, <2>1, <2>2 DEF Placed, Resumes, RunKnownPcs, AdmitPcs, RunPcs, ResumePcs, SettlePcs
  <2> QED BY <1>1, <2>1, <2>2, <2>3, LandsFree DEF MarkedPcs, ClosedPcs
<1>7. CASE ConfirmDispatch(p) /\ ~Finish(p)
  <2>1. pc[p] = "confirm" /\ pc'[p] = "execute" /\ loc' = loc
    BY <1>1, <1>7 DEF ConfirmDispatch, Goto, At
  <2>2. Placed(p)'
    BY <1>1, <2>1 DEF Placed, Resumes, RunKnownPcs, AdmitPcs, RunPcs, ResumePcs, SettlePcs
  <2> QED BY <1>1, <2>1, <2>2, LandsFree DEF MarkedPcs, ClosedPcs
<1> QED BY <1>4, <1>5, <1>6, <1>7 DEF DispatchFault

\* The runner, the operator's reconcile and a process that dies.
LEMMA RunLands ==
  ASSUME RecordInv, NEW p \in Procs, RunStep(p) \/ Crash(p) PROVE ItemInv' /\ ShownInv'
<1>1. loc \in [Procs -> Local] /\ pc \in [Procs -> Pcs] /\ Placed(p) /\ Others(p)
  BY OthersNext DEF RecordInv, TypeInv, TypeOK, ItemInv, Step
<1>2. UNCHANGED <<ledger, record>>
  BY DEF RunStep, CompleteRun, StopRun, AwaitApproval, ThrowRun, RunnerError, Reconcile, Crash
<1>3. SUFFICES Lands(p) BY <1>2, QuietShown
<1>4. CASE Finish(p) BY <1>4, FinishLands
<1>5. ASSUME NEW r, NEW intent, NEW next, CallSettle(p, r, intent, next) PROVE Lands(p)
  BY <1>2, <1>5, CallLands
<1>6. ASSUME Goto(p, "runnerError"), UNCHANGED loc PROVE Lands(p)
  <2>1. pc'[p] = "runnerError" BY <1>1, <1>6 DEF Goto
  <2>2. Placed(p)'
    BY <1>1, <1>6, <2>1 DEF Placed, Resumes, RunKnownPcs, AdmitPcs, RunPcs, ResumePcs, SettlePcs
  <2> QED BY <1>1, <1>6, <2>1, <2>2, LandsFree DEF MarkedPcs, ClosedPcs
<1>7. CASE Crash(p)
  <2>1. pc'[p] = "dead" /\ loc'[p] = NoLocal BY <1>1, <1>7 DEF Crash, Goto
  <2>2. Placed(p)'
    BY <2>1 DEF Placed, Resumes, RunKnownPcs, AdmitPcs, RunPcs, ResumePcs, SettlePcs, NoLocal
  <2> QED BY <1>1, <2>1, <2>2, LandsFree DEF MarkedPcs, ClosedPcs, NoLocal
<1> QED
  BY <1>4, <1>5, <1>6, <1>7 DEF RunStep, CompleteRun, StopRun, AwaitApproval, ThrowRun, RunnerError, Reconcile

\* The steps of a resume that write no record, and no edit.
LEMMA ResumeLands ==
  ASSUME RecordInv, NEW p \in Procs,
         Revalidate(p) \/ ReadForResume(p) \/ MarkLog(p) \/ ResumeRun(p) \/ WriteEdit(p)
  PROVE  ItemInv' /\ ShownInv'
<1>1. /\ loc \in [Procs -> Local] /\ pc \in [Procs -> Pcs] /\ Placed(p)
      /\ Others(p) /\ pc[p] # "editWrite"
  BY OthersNext DEF RecordInv, TypeInv, TypeOK, ItemInv, Placed, Step, ResumeStep
<1>2. UNCHANGED <<ledger, record>> /\ pc[p] \in ResumePcs
  BY <1>1 DEF Revalidate, ReadForResume, MarkLog, ResumeRun, WriteEdit, At, ResumePcs
<1>3. SUFFICES Lands(p) BY <1>2, QuietShown
<1>4. CASE Finish(p) BY <1>4, FinishLands
<1>5. CASE ~Finish(p)
  <2>1. /\ pc'[p] \in ResumePcs \cup {"runnerError", "execute"}
        /\ loc'[p].run = loc[p].run /\ loc'[p].item = loc[p].item
        /\ loc'[p].rec \in {loc[p].rec, record[loc[p].item]}
    BY <1>1, <1>5 DEF Revalidate, ReadForResume, MarkLog, ResumeRun, WriteEdit, At, Goto,
       ResumePcs, Local
  <2>2. loc[p].item \in Items /\ Resumes(p)
    BY <1>2 DEF RecordInv, TypeInv, LocalOK, ResumePcs, Resumes
  <2>3. Placed(p)'
    BY <1>1, <1>2, <2>1, <2>2 DEF Placed, RunKnownPcs, AdmitPcs, RunPcs, ResumePcs, SettlePcs
  <2> QED BY <1>1, <2>1, <2>2, <2>3, LandsFree DEF MarkedPcs, ClosedPcs, ResumePcs
<1> QED BY <1>4, <1>5

\* A settler finds its own Run in the record.
LEMMA SettlerShown ==
  ASSUME RecordInv, NEW p \in Procs, pc[p] \in SettlerPcs
  PROVE  /\ Holds(p, loc[p].target) /\ loc[p].target \in Runs /\ loc[p].item \in Items
         /\ ledger[loc[p].target].item = loc[p].item /\ ledger[loc[p].target].projected
         /\ record[loc[p].item].latest = loc[p].target
<1> DEFINE r == loc[p].target
<1>1. pc[p] \in SettlePcs BY DEF SettlerPcs, SettlePcs
<1>2. r \in Runs /\ loc[p].item \in Items /\ loc[p].item = ledger[r].item
  BY <1>1 DEF RecordInv, TypeInv, LocalOK, Known, ItemInv, Placed, SettlePcs
<1>3. Holds(p, r) BY SettlersHold DEF RecordInv, SettleInv, Settler
<1>4. ledger[r].projected BY <1>2, <1>3, NullAssumption DEF Holds, RecordInv, CallInv, RowsOK
<1> QED BY <1>2, <1>3, <1>4 DEF RecordInv, ShownInv, RowShown, Holds

\* The steps of a settlement that only move it or read.
LEMMA SettleLands ==
  ASSUME RecordInv, NEW p \in Procs,
         ReadOwner(p) \/ ReadContended(p) \/ ReadForSettlement(p) \/ RenewLease(p) \/ ReadForPatch(p)
  PROVE  ItemInv' /\ ShownInv'
<1>1. loc \in [Procs -> Local] /\ pc \in [Procs -> Pcs] /\ Placed(p) /\ Others(p)
  BY OthersNext DEF RecordInv, TypeInv, TypeOK, ItemInv, Step, SettleStep
<1>2. UNCHANGED <<ledger, record>> /\ pc[p] \in SettlePcs
  BY DEF ReadOwner, ReadContended, ReadForSettlement, RenewLease, ReadForPatch, At, SettlePcs
<1>3. SUFFICES Lands(p) BY <1>2, QuietShown
<1>4. CASE \E result : Return(p, result) BY <1>4, ReturnLands
<1>5. ASSUME pc'[p] \in SettlePcs \ {"complete", "superseded"},
             loc'[p].target = loc[p].target, loc'[p].item = loc[p].item,
             loc'[p].resumed = loc[p].resumed,
             loc'[p].rec \in {loc[p].rec} \cup {record[i] : i \in Items}
      PROVE  Lands(p)
  <2>1. Placed(p)'
    BY <1>1, <1>2, <1>5 DEF Placed, Resumes, RunKnownPcs, AdmitPcs, RunPcs, ResumePcs, SettlePcs
  <2> QED BY <1>1, <1>5, <2>1, LandsFree DEF MarkedPcs, ClosedPcs, SettlePcs
<1>6. loc[p].item \in Items BY <1>2 DEF RecordInv, TypeInv, LocalOK, SettlePcs
<1>7. CASE ReadForSettlement(p)
  <2>1. pc[p] \in SettlerPcs BY <1>7 DEF ReadForSettlement, SettlerPcs
  <2>2. record[loc[p].item].latest = loc[p].target BY <2>1, SettlerShown
  <2> QED BY <1>1, <1>5, <1>7, <2>2 DEF ReadForSettlement, Goto, SettlePcs
<1>8. CASE RenewLease(p) /\ ~(\E result : Return(p, result))
  BY <1>1, <1>5, <1>8 DEF RenewLease, Goto, SettlePcs
<1>9. CASE ReadContended(p) \/ ReadForPatch(p)
  <2>1. /\ loc'[p].target = loc[p].target /\ loc'[p].item = loc[p].item
        /\ loc'[p].resumed = loc[p].resumed /\ loc'[p].rec = record[loc[p].item]
    BY <1>1, <1>9 DEF ReadContended, ReadForPatch, Local
  <2> QED BY <1>1, <1>5, <1>6, <1>9, <2>1 DEF ReadContended, ReadForPatch, Goto, SettlePcs
<1>10. CASE ReadOwner(p) /\ ~(\E result : Return(p, result))
  <2>1. /\ loc'[p].target = loc[p].target /\ loc'[p].item = loc[p].item
        /\ loc'[p].resumed = loc[p].resumed /\ loc'[p].rec = loc[p].rec
    BY <1>1, <1>10 DEF ReadOwner, Local
  <2> QED BY <1>1, <1>5, <1>10, <2>1 DEF ReadOwner, Goto, SettlePcs
<1> QED BY <1>4, <1>7, <1>8, <1>9, <1>10

\* A new row is not projected, and no record names its Run.
LEMMA ClaimRunShown ==
  ASSUME RecordInv, NEW p \in Procs, ClaimRun(p) PROVE ItemInv' /\ ShownInv'
<1> DEFINE r == loc[p].run
           row == [NoRow EXCEPT !.state = "active", !.item = loc[p].item,
                                !.cand = loc[p].cand, !.init = p]
<1>1. /\ loc \in [Procs -> Local] /\ pc \in [Procs -> Pcs] /\ Placed(p) /\ Others(p)
      /\ UNCHANGED record
  BY OthersNext DEF RecordInv, TypeInv, TypeOK, ItemInv, Step, AdmitStep, ClaimRun
<1>2. CASE UNCHANGED ledger /\ Finish(p) BY <1>1, <1>2, FinishLands, QuietShown
<1>3. ASSUME UNCHANGED ledger, NEW q, NEW intent, NEW next, CallSettle(p, q, intent, next)
      PROVE  ItemInv' /\ ShownInv'
  BY <1>1, <1>3, CallLands, QuietShown
<1>4. CASE ledger' = [ledger EXCEPT ![r] = row] /\ Goto(p, "verify") /\ UNCHANGED loc
  <2>1. r \in Runs /\ ledger[r].state = "none" /\ pc[p] \in ClaimPcs
    BY DEF ClaimRun, ClaimPcs, RecordInv, CallInv, Admitted, Claiming, TypeInv, LocalOK
  <2>2. /\ row.state = "active" /\ ~row.projected /\ row.token = NoProc
        /\ row.item = loc[p].item
    BY DEF NoRow
  <2>3. ledger'[r] = row /\ \A s \in Runs \ {r} : ledger'[s] = ledger[s]
    BY <1>4, <2>1 DEF RecordInv, TypeInv, TypeOK
  <2> HIDE DEF row
  <2>4. RowsShown(p)
    <3> SUFFICES ASSUME NEW s \in Runs
                 PROVE  LET rec == record[ledger'[s].item] IN
                        /\ ledger[s].state # "none" => ledger'[s].item = ledger[s].item
                        /\ ledger'[s].state = "active" /\ ledger'[s].projected =>
                             (ledger[s].state = "active" /\ ledger[s].projected) \/ rec.latest = s
                        /\ ledger'[s].state = "settled" =>
                             ledger[s].state = "settled" \/ (rec.latest = s => rec.status \in EndStatus)
                        /\ ledger'[s].token = ledger[s].token \/ ledger'[s].token \in {p, NoProc}
                        /\ ledger'[s].state = "active" => ledger[s].state = "active"
                             \/ (ledger[s].state = "none" /\ ledger'[s].token = NoProc)
      BY DEF RowsShown
    <3>1. CASE s = r BY <2>1, <2>2, <2>3, <3>1
    <3>2. CASE s # r
      <4>1. ledger'[s] = ledger[s] BY <2>3, <3>2
      <4> QED BY <4>1
    <3> QED BY <3>1, <3>2
  <2>5. pc'[p] = "verify" BY <1>1, <1>4 DEF Goto
  <2>6. Placed(p)'
    BY <1>1, <1>4, <2>1, <2>2, <2>3, <2>5 DEF Placed, Resumes, SettlePcs, ResumePcs
  <2>7. loc[p].item \in Items
    BY <2>1 DEF RecordInv, TypeInv, LocalOK, ClaimPcs
  <2>8. record[loc[p].item].latest # r
    BY <2>1, <2>7 DEF RecordInv, TypeInv, RunsKnown, Known
  <2>9. Fits(p)' BY <1>1, <1>4, <2>5, <2>8 DEF Fits
  <2> QED BY <1>1, <1>4, <2>4, <2>6, <2>9, ShownKept DEF RecordInv
<1> QED BY <1>2, <1>3, <1>4 DEF ClaimRun

\* A step that writes one row, leaves the records and returns.
LEMMA RowShownKept ==
  ASSUME RecordInv, NEW p \in Procs, Lands(p), UNCHANGED record, NEW r \in Runs,
         \A s \in Runs \ {r} : ledger'[s] = ledger[s],
         ledger'[r].item = ledger[r].item, ledger'[r].token \in {ledger[r].token, p, NoProc},
         \/ ledger'[r].state = "rejected"
         \/ /\ ledger'[r].state = ledger[r].state /\ ledger'[r].state # "none"
            /\ ledger'[r].projected => ledger[r].projected \/ record[ledger[r].item].latest = r
         \/ /\ ledger'[r].state = "settled"
            /\ record[ledger[r].item].latest = r => record[ledger[r].item].status \in EndStatus
  PROVE  ItemInv' /\ ShownInv'
<1>1. RowsShown(p)
  <2> SUFFICES ASSUME NEW s \in Runs
               PROVE  LET rec == record[ledger'[s].item] IN
                      /\ ledger[s].state # "none" => ledger'[s].item = ledger[s].item
                      /\ ledger'[s].state = "active" /\ ledger'[s].projected =>
                           (ledger[s].state = "active" /\ ledger[s].projected) \/ rec.latest = s
                      /\ ledger'[s].state = "settled" =>
                           ledger[s].state = "settled" \/ (rec.latest = s => rec.status \in EndStatus)
                      /\ ledger'[s].token = ledger[s].token \/ ledger'[s].token \in {p, NoProc}
                      /\ ledger'[s].state = "active" => ledger[s].state = "active"
                           \/ (ledger[s].state = "none" /\ ledger'[s].token = NoProc)
    BY DEF RowsShown
  <2>1. CASE s = r BY <2>1
  <2>2. CASE s # r
    <3>1. ledger'[s] = ledger[s] BY <2>2
    <3> QED BY <3>1
  <2> QED BY <2>1, <2>2
<1> QED BY <1>1, ShownKept DEF RecordInv, Lands

\* A rejected Run is not shown.
LEMMA RejectClaimShown ==
  ASSUME RecordInv, NEW p \in Procs, RejectClaim(p) PROVE ItemInv' /\ ShownInv'
<1> DEFINE r == loc[p].run
<1>1. Lands(p) /\ UNCHANGED record /\ r \in Runs
  BY FinishLands DEF RejectClaim, RecordInv, TypeInv, LocalOK, RunKnownPcs, AdmitPcs, Known
<1>2. CASE UNCHANGED ledger BY <1>1, <1>2, QuietShown
<1>3. CASE ledger' = [ledger EXCEPT ![r].state = "rejected", ![r].init = NoProc]
  <2>1. /\ ledger'[r].state = "rejected" /\ ledger'[r].item = ledger[r].item
        /\ ledger'[r].token = ledger[r].token
        /\ \A s \in Runs \ {r} : ledger'[s] = ledger[s]
    BY <1>1, <1>3 DEF RecordInv, TypeInv, TypeOK, Row
  <2> QED BY <1>1, <2>1, RowShownKept
<1> QED BY <1>2, <1>3 DEF RejectClaim

\* A row is marked as projected after the record shows its Run.
LEMMA MarkProjectedShown ==
  ASSUME RecordInv, NEW p \in Procs, MarkProjected(p) PROVE ItemInv' /\ ShownInv'
<1> DEFINE r == loc[p].run
<1>1. /\ UNCHANGED record /\ r \in Runs /\ ledger[r].item = loc[p].item
      /\ record[loc[p].item].latest = r /\ ledger[r].state # "none"
      /\ pc[p] = "markProjected" /\ Others(p) /\ Placed(p)
  BY OthersNext DEF MarkProjected, At, RecordInv, TypeInv, LocalOK, RunKnownPcs, AdmitPcs, Known,
     ItemInv, Placed, ShownInv, Fits, RunPcs, Step, AdmitStep
<1>2. CASE Finish(p) /\ UNCHANGED ledger BY <1>1, <1>2, FinishLands, QuietShown
<1>3. CASE /\ ledger' = [ledger EXCEPT ![r].projected = TRUE, ![r].init = NoProc]
           /\ Goto(p, "confirm") /\ UNCHANGED loc
  <2>1. /\ ledger'[r].state = ledger[r].state /\ ledger'[r].item = ledger[r].item
        /\ ledger'[r].token = ledger[r].token
        /\ \A s \in Runs \ {r} : ledger'[s] = ledger[s]
    BY <1>1, <1>3 DEF RecordInv, TypeInv, TypeOK, Row
  <2>2. pc'[p] = "confirm" BY <1>3 DEF Goto, RecordInv, TypeInv, TypeOK
  <2>3. Placed(p)'
    BY <1>1, <1>3, <2>1, <2>2 DEF Placed, Resumes, SettlePcs, ResumePcs
  <2>4. Lands(p) BY <1>1, <1>3, <2>2, <2>3, LandsFree DEF MarkedPcs, ClosedPcs
  <2> QED BY <1>1, <2>1, <2>4, RowShownKept
<1> QED BY <1>2, <1>3 DEF MarkProjected

\* A settlement begins without touching the record.
LEMMA BeginShown ==
  ASSUME RecordInv, NEW p \in Procs, BeginSettlement(p) PROVE ItemInv' /\ ShownInv'
<1> DEFINE r == loc[p].target
<1>1. /\ UNCHANGED record /\ r \in Runs /\ ledger[r].state # "none"
      /\ pc[p] = "settle" /\ Others(p) /\ Placed(p)
  BY OthersNext DEF BeginSettlement, At, RecordInv, TypeInv, LocalOK, SettlePcs, Known,
     ItemInv, Step, SettleStep
<1>2. CASE (\E result : Return(p, result)) /\ UNCHANGED ledger
  BY <1>1, <1>2, ReturnLands, QuietShown
<1>3. ASSUME UNCHANGED loc, NEW to \in {"refused", "settleRead"}, Goto(p, to),
             ledger'[r].item = ledger[r].item
      PROVE  Lands(p)
  <2>1. pc'[p] = to BY <1>3 DEF Goto, RecordInv, TypeInv, TypeOK
  <2>2. Placed(p)'
    BY <1>1, <1>3, <2>1 DEF Placed, Resumes, SettlePcs, ResumePcs, RunKnownPcs, AdmitPcs, RunPcs
  <2> QED BY <1>1, <1>3, <2>1, <2>2, LandsFree DEF MarkedPcs, ClosedPcs
<1>4. CASE UNCHANGED <<loc, ledger>> /\ Goto(p, "refused")
  BY <1>1, <1>3, <1>4, QuietShown
<1>5. CASE /\ ledger' = [ledger EXCEPT ![r].token = p, ![r].intent = loc[p].intent]
           /\ Goto(p, "settleRead") /\ UNCHANGED loc
  <2>1. /\ ledger'[r].state = ledger[r].state /\ ledger'[r].item = ledger[r].item
        /\ ledger'[r].token = p /\ ledger'[r].projected = ledger[r].projected
        /\ \A s \in Runs \ {r} : ledger'[s] = ledger[s]
    BY <1>1, <1>5 DEF RecordInv, TypeInv, TypeOK, Row
  <2>2. Lands(p) BY <1>3, <1>5, <2>1
  <2> QED BY <1>1, <2>1, <2>2, RowShownKept
<1> QED BY <1>2, <1>4, <1>5 DEF BeginSettlement

\* A row is settled after the record shows its outcome, whoever settles it.
LEMMA EndShown ==
  ASSUME RecordInv, NEW p \in Procs,
         RecoverStale(p) \/ CompleteSettlement(p) \/ SettlementFault(p)
  PROVE  ItemInv' /\ ShownInv'
<1> DEFINE r == loc[p].target
           i == loc[p].item
<1>1. /\ UNCHANGED record /\ pc[p] \in SettlePcs /\ pc[p] # "superseded"
      /\ Lands(p) /\ Placed(p) /\ Fits(p)
  BY ReturnLands DEF RecoverStale, CompleteSettlement, SettlementFault, At, SettlePcs,
     RecordInv, ItemInv, ShownInv, Fits
<1>2. r \in Runs /\ ledger[r].item = i /\ ledger[r].state # "none"
  BY <1>1 DEF RecordInv, TypeInv, LocalOK, Known, Placed
<1>3. CASE UNCHANGED ledger BY <1>1, <1>3, QuietShown
<1>4. CASE ledger' = Released(r)
  <2>1. /\ ledger'[r].state = ledger[r].state /\ ledger'[r].item = ledger[r].item
        /\ ledger'[r].token = NoProc /\ ledger'[r].projected = ledger[r].projected
        /\ \A s \in Runs \ {r} : ledger'[s] = ledger[s]
    BY <1>2, <1>4, ReleasedRow DEF RecordInv
  <2> QED BY <1>1, <1>2, <2>1, RowShownKept
<1>5. ASSUME ledger' = Settled(r), record[i].latest = r => record[i].status \in EndStatus
      PROVE  ItemInv' /\ ShownInv'
  <2>1. /\ ledger'[r].state = "settled" /\ ledger'[r].item = ledger[r].item
        /\ ledger'[r].token = NoProc
        /\ \A s \in Runs \ {r} : ledger'[s] = ledger[s]
    BY <1>2, <1>5, SettledRow DEF RecordInv
  <2> QED BY <1>1, <1>2, <1>5, <2>1, RowShownKept
<1>6. CASE RecoverStale(p) /\ ledger' # ledger
  <2>1. ledger' = Settled(r) /\ ProjectionIsDurable(p) BY <1>6 DEF RecoverStale
  <2>2. loc[p].intent \in Intent BY DEF RecordInv, TypeInv, TypeOK, Local
  <2>3. loc[p].intent.status \in EndStatus
    BY <1>1, <2>2 DEF RecordInv, TypeInv, LocalOK, Intent, EndStatus
  <2>4. loc[p].rec.latest = r /\ loc[p].rec.status \in EndStatus
    BY <2>1, <2>3 DEF ProjectionIsDurable, Shows
  <2>5. CopyShown(loc[p].rec) BY DEF RecordInv, ShownInv
  <2> QED BY <1>2, <1>5, <2>1, <2>4, <2>5 DEF CopyShown
<1>7. CASE CompleteSettlement(p) /\ ledger' # ledger
  <2>1. ledger' = Settled(r) /\ Holds(p, r) /\ pc[p] = "complete"
    BY <1>1, <1>7 DEF CompleteSettlement
  <2>2. record[i].status \in EndStatus BY <1>1, <2>1 DEF Fits
  <2> QED BY <1>5, <2>1, <2>2
<1> QED BY <1>3, <1>4, <1>6, <1>7 DEF SettlementFault

\* The admission writes the record of the item that its row owns.
LEMMA WriteAdmissionShown ==
  ASSUME RecordInv, NEW p \in Procs, WriteAdmission(p) PROVE ItemInv' /\ ShownInv'
<1> DEFINE r == loc[p].run
           i == loc[p].item
<1>1. /\ pc[p] = "admitWrite" /\ pc'[p] = "markProjected" /\ Others(p)
      /\ UNCHANGED <<ledger, loc>> /\ Placed(p) /\ i \in Items
  BY OthersNext
  DEF WriteAdmission, At, Goto, RecordInv, TypeInv, TypeOK, LocalOK, ItemInv, Step, AdmitStep
<1>2. /\ r \in Runs /\ ledger[r].item = i /\ ledger[r].state = "active" /\ ~ledger[r].projected
      /\ \A q \in Procs \ {p} : loc[q].run # r
  BY <1>1 DEF Placed, RunKnownPcs, AdmitPcs, RunPcs, RecordInv, CallInv, Starter, Admitted, Starts,
     ClosedPcs
<1>3. ~Owned(r) BY <1>2 DEF RecordInv, CallInv, RowsOK, Owned
<1>4. /\ record'[i].status = "running" /\ record'[i].latest = r
      /\ \A j \in Items \ {i} : record'[j] = record[j]
  <2>1. record' = [record EXCEPT ![i] = [loc[p].rec EXCEPT !.status = "running",
                                            !.latest = r, !.url = FALSE]]
    BY DEF WriteAdmission
  <2>2. loc[p].rec \in Record /\ record \in [Items -> Record]
    BY DEF RecordInv, TypeInv, TypeOK, Local
  <2>3. /\ [loc[p].rec EXCEPT !.status = "running", !.latest = r, !.url = FALSE].status = "running"
        /\ [loc[p].rec EXCEPT !.status = "running", !.latest = r, !.url = FALSE].latest = r
    BY <2>2 DEF Record
  <2> QED BY <1>1, <2>1, <2>2, <2>3
<1>5. Writes(p, i, r)
  BY <1>1, <1>2, <1>3, <1>4 DEF Writes, Others, ClosedPcs
<1>6. Placed(p)'
  BY <1>1 DEF Placed, Resumes, RunKnownPcs, AdmitPcs, RunPcs, SettlePcs, ResumePcs
<1>7. Fits(p)' BY <1>1, <1>4 DEF Fits, ClosedPcs
<1> QED BY <1>1, <1>2, <1>5, <1>6, <1>7, WriteKept DEF RecordInv

\* A resume writes the record of an item that its Run still owns: the log of a
\* Run that is blocked has not ended, so its row is active and not being settled.
LEMMA WriteResumeShown ==
  ASSUME NoOverwrite, RecordInv, NEW p \in Procs, WriteResume(p) PROVE ItemInv' /\ ShownInv'
<1> DEFINE r == loc[p].run
           i == loc[p].item
<1>1. /\ pc[p] = "resumeWrite" /\ pc'[p] = "resumeMark" /\ Others(p)
      /\ UNCHANGED <<ledger, loc>> /\ Placed(p) /\ i \in Items
  BY OthersNext
  DEF WriteResume, At, Goto, RecordInv, TypeInv, TypeOK, LocalOK, ItemInv, Step, ResumeStep
<1>2. pc[p] \in ResumePcs /\ Resumes(p) /\ pc[p] \in RunKnownPcs \ RunPcs
  BY <1>1 DEF ResumePcs, Resumes, RunKnownPcs, RunPcs
<1>3. Known(r) /\ ledger[r].item = i /\ ledger[r].state # "rejected" /\ ledger[r].projected
  BY <1>1, <1>2 DEF Placed, RecordInv, CallInv, Admitted, TypeInv, LocalOK
<1>4. r \in Runs /\ evt[r] = "blocked"
  <2>1. evt[r] \in {"blocked", "cancelled"} BY <1>2 DEF RecordInv, CallInv, Resumer
  <2>2. "blocked" \in Outcomes BY <1>1, <1>2 DEF Placed
  <2> QED BY <1>3, <2>1, <2>2 DEF RecordInv, EndInv, NoOverwrite, Known
<1>5. ~Owned(r) BY <1>4 DEF RecordInv, EndInv, Ended
<1>6. ledger[r].state = "active"
  <2>1. ledger[r] \in Row BY <1>4 DEF RecordInv, TypeInv, TypeOK
  <2> QED BY <1>3, <1>5, <2>1 DEF Row, Known, Owned
<1>7. /\ record'[i].status = "running" /\ record'[i].latest = r
      /\ \A j \in Items \ {i} : record'[j] = record[j]
  <2>1. record' = [record EXCEPT ![i] = [loc[p].rec EXCEPT !.status = "running",
                                            !.latest = r, !.url = FALSE]]
    BY DEF WriteResume
  <2>2. loc[p].rec \in Record /\ record \in [Items -> Record]
    BY DEF RecordInv, TypeInv, TypeOK, Local
  <2>3. /\ [loc[p].rec EXCEPT !.status = "running", !.latest = r, !.url = FALSE].status = "running"
        /\ [loc[p].rec EXCEPT !.status = "running", !.latest = r, !.url = FALSE].latest = r
    BY <2>2 DEF Record
  <2> QED BY <1>1, <2>1, <2>2, <2>3
<1>8. ASSUME NEW q \in Procs, pc'[q] \in ClosedPcs PROVE loc'[q].run # r
  <2>1. q # p BY <1>1, <1>8 DEF ClosedPcs
  <2>2. pc[q] \in ClosedPcs /\ loc'[q] = loc[q] BY <1>1, <1>8, <2>1 DEF Others
  <2>3. ~ledger[loc[q].run].projected BY <2>2 DEF RecordInv, CallInv, Admitted
  <2> QED BY <1>3, <2>2, <2>3
<1>9. Writes(p, i, r)
  BY <1>1, <1>3, <1>4, <1>5, <1>6, <1>7, <1>8 DEF Writes
<1>10. Placed(p)'
  BY <1>1 DEF Placed, Resumes, RunKnownPcs, AdmitPcs, RunPcs, SettlePcs, ResumePcs
<1>11. Fits(p)' BY <1>1 DEF Fits, ClosedPcs
<1> QED BY <1>1, <1>4, <1>9, <1>10, <1>11, WriteKept DEF RecordInv

\* The settlement writes the record of the item that its row owns.
LEMMA WriteOutcomeShown ==
  ASSUME RecordInv, NEW p \in Procs, WriteOutcome(p) PROVE ItemInv' /\ ShownInv'
<1> DEFINE r == loc[p].target
           i == loc[p].item
           to == loc[p].intent
<1>1. /\ pc[p] = "patchWrite" /\ pc'[p] = "complete" /\ Others(p)
      /\ UNCHANGED <<ledger, loc>> /\ Placed(p)
  BY OthersNext
  DEF WriteOutcome, At, Goto, RecordInv, TypeInv, TypeOK, ItemInv, Step, SettleStep
<1>2. /\ Holds(p, r) /\ r \in Runs /\ i \in Items /\ ledger[r].item = i /\ ledger[r].projected
  BY <1>1, SettlerShown DEF SettlerPcs
<1>3. to.status \in EndStatus
  <2>1. to \in Intent BY DEF RecordInv, TypeInv, TypeOK, Local
  <2> QED BY <1>1, <2>1 DEF RecordInv, TypeInv, LocalOK, SettlePcs, Intent, EndStatus
<1>4. /\ record'[i].status = to.status /\ record'[i].latest = r
      /\ \A j \in Items \ {i} : record'[j] = record[j]
  <2>1. record' = [record EXCEPT ![i] = [loc[p].rec EXCEPT !.status = to.status,
                                            !.latest = r, !.url = to.url]]
    BY DEF WriteOutcome
  <2>2. loc[p].rec \in Record /\ record \in [Items -> Record]
    BY DEF RecordInv, TypeInv, TypeOK, Local
  <2>3. /\ [loc[p].rec EXCEPT !.status = to.status, !.latest = r, !.url = to.url].status = to.status
        /\ [loc[p].rec EXCEPT !.status = to.status, !.latest = r, !.url = to.url].latest = r
    BY <2>2 DEF Record
  <2> QED BY <1>2, <2>1, <2>2, <2>3
<1>5. ASSUME NEW q \in Procs, pc'[q] \in ClosedPcs PROVE loc'[q].run # r
  <2>1. q # p BY <1>1, <1>5 DEF ClosedPcs
  <2>2. pc[q] \in ClosedPcs /\ loc'[q] = loc[q] BY <1>1, <1>5, <2>1 DEF Others
  <2>3. ~ledger[loc[q].run].projected BY <2>2 DEF RecordInv, CallInv, Admitted
  <2> QED BY <1>2, <2>2, <2>3
<1>6. Writes(p, i, r)
  BY <1>1, <1>2, <1>3, <1>4, <1>5 DEF Writes, Holds
<1>7. Placed(p)'
  BY <1>1 DEF Placed, Resumes, RunKnownPcs, AdmitPcs, RunPcs, SettlePcs, ResumePcs
<1>8. Fits(p)' BY <1>1, <1>3, <1>4 DEF Fits, ClosedPcs
<1> QED BY <1>2, <1>6, <1>7, <1>8, WriteKept DEF RecordInv

\* Nothing of it depends on logs, claims and bounds.
LEMMA ShownSame ==
  ASSUME ItemInv, ShownInv, UNCHANGED <<ledger, record, pc, loc>> PROVE ItemInv' /\ ShownInv'
BY DEF ItemInv, ShownInv, Placed, Resumes, RowShown, Fits, Holds, CopyShown

\* Where records are not edited and no cancelled log is reopened, every step
\* keeps the records in line with the rows.
LEMMA ShownNext ==
  ASSUME NoOverwrite, NoEdits, RecordInv, [Next]_vars PROVE ItemInv' /\ ShownInv'
<1>1. CASE UNCHANGED vars BY <1>1, ShownSame DEF vars, RecordInv
<1>2. ASSUME NEW p \in Procs, AdmitStep(p) PROVE ItemInv' /\ ShownInv'
  BY <1>2, AdmitLands, ClaimRunShown, RejectClaimShown, MarkProjectedShown, WriteAdmissionShown
  DEF AdmitStep
<1>3. ASSUME NEW p \in Procs, RunStep(p) \/ Crash(p) PROVE ItemInv' /\ ShownInv'
  BY <1>3, RunLands
<1>4. ASSUME NEW p \in Procs, SettleStep(p) PROVE ItemInv' /\ ShownInv'
  BY <1>4, SettleLands, BeginShown, EndShown, WriteOutcomeShown DEF SettleStep
<1>5. ASSUME NEW p \in Procs, ResumeStep(p) PROVE ItemInv' /\ ShownInv'
  BY <1>5, ResumeLands, WriteResumeShown DEF ResumeStep
<1>6. ASSUME NEW p \in Procs, Call(p) PROVE ItemInv' /\ ShownInv'
  BY <1>6, CallsLand
<1>7. ASSUME NEW p \in Procs, AdmissionFault(p) \/ DispatchFault(p) \/ SettlementFault(p)
      PROVE  ItemInv' /\ ShownInv'
  BY <1>7, AdmitLands, EndShown
<1>8. ASSUME NEW p \in Procs, Publish(p) PROVE ItemInv' /\ ShownInv'
  BY <1>8, ShownSame DEF Publish, RecordInv
<1>9. ASSUME NEW r \in Runs, LeaseGrowsOld(r) PROVE ItemInv' /\ ShownInv'
  BY <1>9, ShownSame DEF LeaseGrowsOld, RecordInv
<1> QED BY <1>1, <1>2, <1>3, <1>4, <1>5, <1>6, <1>7, <1>8, <1>9 DEF Next, Step

\* At first no record names a Run.
LEMMA ShownInit == ASSUME Init PROVE ItemInv /\ ShownInv
<1>1. ItemInv
  BY NullAssumption DEF Init, ItemInv, InitRecord, Placed, Resumes, NoLocal, RunKnownPcs, AdmitPcs,
     RunPcs, ResumePcs, SettlePcs
<1>2. \A r \in Runs : RowShown(r)
  BY DEF Init, RowShown, NoRow
<1>3. \A p \in Procs : Fits(p) /\ CopyShown(loc[p].rec)
  BY NullAssumption DEF Init, Fits, CopyShown, NoLocal, InitRecord, ClosedPcs
<1> QED BY <1>1, <1>2, <1>3 DEF ShownInv

\* Records and rows agree in every reachable state.
LEMMA RecordInvariant ==
  ASSUME NoOverwrite, NoEdits PROVE Spec => []RecordInv
<1>1. Init => ItemInv /\ ShownInv BY ShownInit
<1>2. RecordInv /\ [Next]_vars => (ItemInv /\ ShownInv)'
  BY ShownNext
<1>3. TypeInv /\ CallInv /\ SettleInv /\ EndInv /\ OneOwner /\ ItemInv /\ ShownInv <=> RecordInv
  BY DEF RecordInv
<1> QED BY <1>1, <1>2, <1>3, EndInvariant, OneOwnerAlways, PTL DEF Spec

\* A settled Run that its item still names is shown with the outcome that its
\* settlement recorded: the item does not stay `running`, and does not show
\* another call's outcome, even when the row was recovered from a stale lease.
THEOREM SettledRunIsShownAlways ==
  ASSUME NoOverwrite, NoEdits PROVE Spec => []SettledRunIsShown
<1>1. RecordInv => SettledRunIsShown
  <2> SUFFICES ASSUME RecordInv, NEW r \in Runs, ledger[r].state = "settled",
                      record[ledger[r].item].latest = r
               PROVE  Shows(record[ledger[r].item], r, ledger[r].intent)
    BY DEF SettledRunIsShown
  <2> DEFINE rec == record[ledger[r].item]
  <2>1. ledger[r].item \in Items BY DEF RecordInv, TypeInv, RunsKnown
  <2>2. rec.status \in EndStatus BY DEF RecordInv, ShownInv, RowShown
  <2>3. ledger[r].intent = [status |-> rec.status, url |-> rec.url]
    BY <2>1, <2>2 DEF RecordInv, SettleInv, Final
  <2> QED BY <2>3 DEF Shows
<1> QED BY <1>1, RecordInvariant, PTL

\* A runner whose Run has not ended works for the Run that owns the item, and the
\* item's record shows it: nothing admits another Run of the item beside it.
THEOREM ExecutingRunOwnsItemAlways ==
  ASSUME NoOverwrite, NoEdits PROVE Spec => []ExecutingRunOwnsItem
<1>1. RecordInv => ExecutingRunOwnsItem
  <2> SUFFICES ASSUME RecordInv, NEW p \in Procs, pc[p] = "execute", evt[loc[p].run] \notin Ended
               PROVE  LET r == loc[p].run IN
                      /\ ledger[r].state = "active" /\ ledger[r].projected
                      /\ record[ledger[r].item].status = "running"
                      /\ record[ledger[r].item].latest = r
    BY DEF ExecutingRunOwnsItem, At
  <2> DEFINE r == loc[p].run
             rec == record[ledger[r].item]
  <2>1. r \in Runs /\ ledger[r].state # "none"
    BY DEF RecordInv, TypeInv, LocalOK, RunKnownPcs, RunPcs, Known
  <2>2. ledger[r].item \in Items BY <2>1 DEF RecordInv, TypeInv, RunsKnown
  <2>3. ledger[r].state # "rejected" /\ ledger[r].projected
    BY DEF RecordInv, CallInv, Admitted
  <2>4. ~Owned(r) BY <2>1 DEF RecordInv, EndInv
  <2>5. ledger[r].state = "active"
    <3>1. ledger[r] \in Row BY <2>1 DEF RecordInv, TypeInv, TypeOK
    <3> QED BY <2>1, <2>3, <2>4, <3>1 DEF Row, Owned
  <2>6. rec.latest = r BY <2>1, <2>3, <2>5 DEF RecordInv, ShownInv, RowShown
  <2>7. rec.status \notin EndStatus
    BY <2>1, <2>2, <2>4, <2>6 DEF RecordInv, SettleInv, Final
  <2>8. rec.status = "running"
    <3>1. rec.status # "ready" BY <2>1, <2>2, <2>6 DEF RecordInv, ItemInv
    <3>2. rec \in Record BY <2>2 DEF RecordInv, TypeInv, TypeOK
    <3> QED BY <2>7, <3>1, <3>2 DEF Record, ItemStatus, EndStatus
  <2> QED BY <2>3, <2>5, <2>6, <2>8
<1> QED BY <1>1, RecordInvariant, PTL


-----------------------------------------------------------------------------
(* The refinement of RunOwnership.  A claim is Take, the write of the       *)
(* admission Start, the write of an outcome Show; a row that is settled or  *)
(* rejected is Leave; every other step is a stutter.                        *)

\* The Run of an active row is the only owner of its item.
LEMMA SoleOwner ==
  ASSUME RecordInv, NEW r \in Runs, ledger[r].state = "active"
  PROVE  ledger[r].item \in Items /\ Active(ledger[r].item) = {r}
<1>1. ledger[r].item \in Items BY DEF RecordInv, TypeInv, RunsKnown
<1>2. \A s \in Active(ledger[r].item) : s = r BY DEF Active, RecordInv, OneOwner
<1> QED BY <1>1, <1>2 DEF Active

\* A step that leaves what the rows own and what the records show of it.
LEMMA ViewSame ==
  ASSUME \A s \in Runs : ledger'[s].state = ledger[s].state /\ ledger'[s].item = ledger[s].item,
         \A i \in Items : record'[i].latest = record[i].latest /\ record'[i].status = record[i].status
  PROVE  UNCHANGED Ownership!vars
<1>1. \A i : Active(i)' = Active(i) BY DEF Active
<1>2. \A i \in Items : PhaseOf(i)' = PhaseOf(i) BY <1>1 DEF PhaseOf
<1>3. {r \in Runs : ledger[r].state # "none"}' = {r \in Runs : ledger[r].state # "none"} OBVIOUS
<1> QED BY <1>1, <1>2, <1>3 DEF Ownership!vars

\* A step that changes only the row of one Run, and leaves the records, is seen
\* by no other item.
LEMMA OthersViewed ==
  ASSUME UNCHANGED record, NEW r \in Runs, NEW i \in Items,
         \A s \in Runs \ {r} : ledger'[s] = ledger[s],
         ledger[r].state = "active" => ledger[r].item = i,
         ledger'[r].state = "active" => ledger'[r].item = i
  PROVE  \A j \in Items \ {i} : Active(j)' = Active(j) /\ PhaseOf(j)' = PhaseOf(j)
<1>1. \A j \in Items \ {i} : Active(j)' = Active(j)
  <2> SUFFICES ASSUME NEW j \in Items \ {i}, NEW s \in Runs
               PROVE  ledger'[s].state = "active" /\ ledger'[s].item = j <=>
                      ledger[s].state = "active" /\ ledger[s].item = j
    BY DEF Active
  <2> QED OBVIOUS
<1> QED BY <1>1 DEF PhaseOf

\* A row that is no longer active frees its item.
LEMMA OwnerLeaves ==
  ASSUME RecordInv, UNCHANGED record, NEW r \in Runs, NEW i \in Items,
         ledger[r].state = "active", ledger[r].item = i,
         record[i].latest # r \/ record[i].status # "running",
         ledger'[r].state \in {"settled", "rejected"},
         \A s \in Runs \ {r} : ledger'[s] = ledger[s]
  PROVE  Ownership!Next
<1>1. Active(i) = {r} BY SoleOwner
<1>2. Active(i)' = {}
  <2>1. \A s \in Runs : ledger[s].state = "active" /\ ledger[s].item = i => s = r
    BY <1>1 DEF Active
  <2> QED BY <2>1 DEF Active
<1>3. PhaseOf(i) \in {"taken", "shown"} /\ PhaseOf(i)' = "free" BY <1>1, <1>2 DEF PhaseOf
<1>4. \A j \in Items \ {i} : Active(j)' = Active(j) /\ PhaseOf(j)' = PhaseOf(j)
  BY OthersViewed
<1>5. {s \in Runs : ledger[s].state # "none"}' = {s \in Runs : ledger[s].state # "none"}
  OBVIOUS
<1>6. Ownership!Leave(i)
  <2>1. [j \in Items |-> Active(j)]' = [[j \in Items |-> Active(j)] EXCEPT ![i] = {}]
    BY <1>2, <1>4
  <2>2. [j \in Items |-> PhaseOf(j)]' = [[j \in Items |-> PhaseOf(j)] EXCEPT ![i] = "free"]
    BY <1>3, <1>4
  <2> QED BY <1>3, <1>5, <2>1, <2>2 DEF Ownership!Leave, Ownership!Advance
<1> QED BY <1>6 DEF Ownership!Next

\* A row that becomes active takes an item that nobody owned.
LEMMA OwnerTakes ==
  ASSUME RecordInv, UNCHANGED record, NEW r \in Runs, NEW i \in Items, Active(i) = {},
         ledger[r].state = "none", ledger'[r].state = "active", ledger'[r].item = i,
         \A s \in Runs \ {r} : ledger'[s] = ledger[s]
  PROVE  Ownership!Next
<1>1. record[i].latest # r BY DEF RecordInv, TypeInv, RunsKnown, Known
<1>2. Active(i)' = {r}
  <2>1. \A s \in Runs : ~(ledger[s].state = "active" /\ ledger[s].item = i) BY DEF Active
  <2> QED BY <2>1 DEF Active
<1>3. PhaseOf(i) = "free" /\ PhaseOf(i)' = "taken" BY <1>1, <1>2 DEF PhaseOf
<1>4. \A j \in Items \ {i} : Active(j)' = Active(j) /\ PhaseOf(j)' = PhaseOf(j)
  BY OthersViewed
<1>5. {s \in Runs : ledger[s].state # "none"}' = {s \in Runs : ledger[s].state # "none"} \cup {r}
  OBVIOUS
<1>6. Ownership!Take(i, r)
  <2>1. [j \in Items |-> Active(j)]' = [[j \in Items |-> Active(j)] EXCEPT ![i] = {r}]
    BY <1>2, <1>4
  <2>2. [j \in Items |-> PhaseOf(j)]' = [[j \in Items |-> PhaseOf(j)] EXCEPT ![i] = "taken"]
    BY <1>3, <1>4
  <2> QED BY <1>3, <1>5, <2>1, <2>2 DEF Ownership!Take, Ownership!Advance
<1> QED BY <1>6 DEF Ownership!Next

\* A write of the record of one item moves its owner on.
LEMMA OwnerMoves ==
  ASSUME RecordInv, UNCHANGED ledger, NEW r \in Runs, NEW i \in Items,
         ledger[r].state = "active", ledger[r].item = i, record'[i].latest = r,
         \A j \in Items \ {i} : record'[j] = record[j],
         \/ record[i].latest # r /\ record'[i].status = "running"
         \/ /\ record[i].latest = r /\ record[i].status = "running"
            /\ record'[i].status # "running"
  PROVE  Ownership!Next
<1>1. \A j : Active(j)' = Active(j) BY DEF Active
<1>2. \A j \in Items \ {i} : PhaseOf(j)' = PhaseOf(j) BY <1>1 DEF PhaseOf
<1>3. [j \in Items |-> Active(j)]' = [j \in Items |-> Active(j)] BY <1>1
<1>4. {s \in Runs : ledger[s].state # "none"}' = {s \in Runs : ledger[s].state # "none"}
  OBVIOUS
<1>5. Active(i) = {r} /\ Active(i)' = {r} BY <1>1, SoleOwner
<1>6. CASE record[i].latest # r /\ record'[i].status = "running"
  <2>1. PhaseOf(i) = "taken" /\ PhaseOf(i)' = "running" BY <1>5, <1>6 DEF PhaseOf
  <2>2. [j \in Items |-> PhaseOf(j)]' = [[j \in Items |-> PhaseOf(j)] EXCEPT ![i] = "running"]
    BY <1>2, <2>1
  <2>3. Ownership!Start(i)
    BY <1>3, <1>4, <2>1, <2>2 DEF Ownership!Start, Ownership!Advance
  <2> QED BY <2>3 DEF Ownership!Next
<1>7. CASE /\ record[i].latest = r /\ record[i].status = "running"
           /\ record'[i].status # "running"
  <2>1. PhaseOf(i) = "running" /\ PhaseOf(i)' = "shown" BY <1>5, <1>7 DEF PhaseOf
  <2>2. [j \in Items |-> PhaseOf(j)]' = [[j \in Items |-> PhaseOf(j)] EXCEPT ![i] = "shown"]
    BY <1>2, <2>1
  <2>3. Ownership!Show(i)
    BY <1>3, <1>4, <2>1, <2>2 DEF Ownership!Show, Ownership!Advance
  <2> QED BY <2>3 DEF Ownership!Next
<1> QED BY <1>6, <1>7

\* A claim takes an item that nobody owns for a Run that owned none.
LEMMA ClaimRunTakes ==
  ASSUME RecordInv, NEW p \in Procs, ClaimRun(p) PROVE [Ownership!Next]_(Ownership!vars)
<1> DEFINE r == loc[p].run
           i == loc[p].item
           row == [NoRow EXCEPT !.state = "active", !.item = i, !.cand = loc[p].cand, !.init = p]
<1>1. CASE UNCHANGED ledger BY <1>1, ViewSame DEF ClaimRun
<1>2. CASE ledger' # ledger
  <2>1. /\ Active(i) = {} /\ ledger' = [ledger EXCEPT ![r] = row] /\ UNCHANGED record
        /\ pc[p] \in ClaimPcs
    <3>1. Live(i, loc[p].cand) = {} => Active(i) = {} \/ ledger' = ledger BY DEF ClaimRun
    <3>2. Live(i, loc[p].cand) # {} => ledger' = ledger BY DEF ClaimRun
    <3> QED BY <1>2, <3>1, <3>2 DEF ClaimRun, ClaimPcs
  <2>2. r \in Runs /\ ledger[r].state = "none" /\ i \in Items
    BY <2>1 DEF ClaimPcs, RecordInv, CallInv, Admitted, Claiming, TypeInv, LocalOK
  <2>3. row.state = "active" /\ row.item = i BY DEF NoRow
  <2>4. ledger'[r] = row /\ \A s \in Runs \ {r} : ledger'[s] = ledger[s]
    BY <2>1, <2>2 DEF RecordInv, TypeInv, TypeOK
  <2> HIDE DEF r, i, row
  <2>5. ledger'[r].state = "active" /\ ledger'[r].item = i BY <2>3, <2>4
  <2>6. Ownership!Next BY <2>1, <2>2, <2>4, <2>5, OwnerTakes
  <2> QED BY <2>6
<1> QED BY <1>1, <1>2

\* A claim that is rejected leaves an item that never showed its Run.
LEMMA RejectClaimLeaves ==
  ASSUME RecordInv, NEW p \in Procs, RejectClaim(p) PROVE [Ownership!Next]_(Ownership!vars)
<1> DEFINE r == loc[p].run
<1>1. UNCHANGED record /\ pc[p] \in ClosedPcs /\ r \in Runs
  BY DEF RejectClaim, ClosedPcs, RecordInv, TypeInv, LocalOK, RunKnownPcs, AdmitPcs, Known
<1>2. CASE UNCHANGED ledger BY <1>1, <1>2, ViewSame
<1>3. CASE Unsettled(r) /\ ledger' = [ledger EXCEPT ![r].state = "rejected", ![r].init = NoProc]
  <2>1. ledger'[r].state = "rejected" /\ \A s \in Runs \ {r} : ledger'[s] = ledger[s]
    BY <1>1, <1>3 DEF RecordInv, TypeInv, TypeOK, Row
  <2>2. loc[p].item = ledger[r].item /\ record[ledger[r].item].latest # r
    BY <1>1 DEF RecordInv, ItemInv, Placed, ShownInv, Fits, ClosedPcs, RunKnownPcs, AdmitPcs, RunPcs
  <2>3. ledger[r].state = "active" BY <1>3 DEF Unsettled
  <2> QED BY <1>1, <2>1, <2>2, <2>3, SoleOwner, OwnerLeaves
<1> QED BY <1>2, <1>3 DEF RejectClaim

\* The admission's write shows the new owner of the item.
LEMMA WriteAdmissionStarts ==
  ASSUME RecordInv, NEW p \in Procs, WriteAdmission(p) PROVE [Ownership!Next]_(Ownership!vars)
<1> DEFINE r == loc[p].run
           i == loc[p].item
<1>1. pc[p] = "admitWrite" /\ UNCHANGED ledger /\ Placed(p) /\ Fits(p)
  BY DEF WriteAdmission, At, RecordInv, ItemInv, ShownInv
<1>2. /\ r \in Runs /\ i \in Items /\ ledger[r].item = i /\ ledger[r].state = "active"
      /\ record[i].latest # r
  BY <1>1 DEF Placed, Fits, RunKnownPcs, AdmitPcs, RunPcs, RecordInv, TypeInv, LocalOK, CallInv,
     Starter, Admitted, Starts, ClosedPcs
<1>3. /\ record'[i].status = "running" /\ record'[i].latest = r
      /\ \A j \in Items \ {i} : record'[j] = record[j]
  <2>1. record' = [record EXCEPT ![i] = [loc[p].rec EXCEPT !.status = "running",
                                            !.latest = r, !.url = FALSE]]
    BY DEF WriteAdmission
  <2>2. loc[p].rec \in Record /\ record \in [Items -> Record]
    BY DEF RecordInv, TypeInv, TypeOK, Local
  <2>3. /\ [loc[p].rec EXCEPT !.status = "running", !.latest = r, !.url = FALSE].status = "running"
        /\ [loc[p].rec EXCEPT !.status = "running", !.latest = r, !.url = FALSE].latest = r
    BY <2>2 DEF Record
  <2> QED BY <1>2, <2>1, <2>2, <2>3
<1> QED BY <1>1, <1>2, <1>3, OwnerMoves

\* The item of a Run that is being settled, and whose outcome is not written
\* yet, shows it as running; the write of its outcome is what changes that.
LEMMA WriteOutcomeShows ==
  ASSUME RecordInv, NEW p \in Procs, WriteOutcome(p) PROVE [Ownership!Next]_(Ownership!vars)
<1> DEFINE r == loc[p].target
           i == loc[p].item
           to == loc[p].intent
<1>1. pc[p] = "patchWrite" /\ UNCHANGED ledger BY DEF WriteOutcome, At
<1>2. /\ Holds(p, r) /\ r \in Runs /\ i \in Items /\ ledger[r].item = i /\ ledger[r].projected
  BY <1>1, SettlerShown DEF SettlerPcs
<1>3. ledger[r].state = "active" BY <1>2 DEF Holds
<1>4. record[i].latest = r BY <1>2, <1>3 DEF RecordInv, ShownInv, RowShown
<1>5. record[i].status = "running"
  <2>1. record[i].status \notin EndStatus
    BY <1>1, <1>2, <1>4 DEF RecordInv, SettleInv, Final, SettlerPcs
  <2>2. record[i].status # "ready" BY <1>2, <1>4 DEF RecordInv, ItemInv
  <2>3. record[i] \in Record BY <1>2 DEF RecordInv, TypeInv, TypeOK
  <2> QED BY <2>1, <2>2, <2>3 DEF Record, ItemStatus, EndStatus
<1>6. to.status \in EndStatus
  <2>1. to \in Intent BY DEF RecordInv, TypeInv, TypeOK, Local
  <2> QED BY <1>1, <2>1 DEF RecordInv, TypeInv, LocalOK, SettlePcs, Intent, EndStatus
<1>7. /\ record'[i].status = to.status /\ record'[i].latest = r
      /\ \A j \in Items \ {i} : record'[j] = record[j]
  <2>1. record' = [record EXCEPT ![i] = [loc[p].rec EXCEPT !.status = to.status,
                                            !.latest = r, !.url = to.url]]
    BY DEF WriteOutcome
  <2>2. loc[p].rec \in Record /\ record \in [Items -> Record]
    BY DEF RecordInv, TypeInv, TypeOK, Local
  <2>3. /\ [loc[p].rec EXCEPT !.status = to.status, !.latest = r, !.url = to.url].status = to.status
        /\ [loc[p].rec EXCEPT !.status = to.status, !.latest = r, !.url = to.url].latest = r
    BY <2>2 DEF Record
  <2> QED BY <1>2, <2>1, <2>2, <2>3
<1>8. record'[i].status # "running" BY <1>6, <1>7 DEF EndStatus
<1> QED BY <1>1, <1>2, <1>3, <1>4, <1>5, <1>7, <1>8, OwnerMoves

\* A resume finds its item as it is going to write it.
LEMMA WriteResumeStutters ==
  ASSUME NoOverwrite, RecordInv, NEW p \in Procs, WriteResume(p) PROVE UNCHANGED Ownership!vars
<1> DEFINE r == loc[p].run
           i == loc[p].item
<1>1. pc[p] = "resumeWrite" /\ UNCHANGED ledger /\ Placed(p) /\ i \in Items
  BY DEF WriteResume, At, RecordInv, ItemInv, TypeInv, TypeOK, LocalOK
<1>2. pc[p] \in ResumePcs /\ Resumes(p) /\ pc[p] \in RunKnownPcs \ RunPcs
  BY <1>1 DEF ResumePcs, Resumes, RunKnownPcs, RunPcs
<1>3. Known(r) /\ ledger[r].item = i /\ ledger[r].state # "rejected" /\ ledger[r].projected
  BY <1>1, <1>2 DEF Placed, RecordInv, CallInv, Admitted, TypeInv, LocalOK
<1>4. r \in Runs /\ evt[r] = "blocked"
  <2>1. evt[r] \in {"blocked", "cancelled"} BY <1>2 DEF RecordInv, CallInv, Resumer
  <2>2. "blocked" \in Outcomes BY <1>1, <1>2 DEF Placed
  <2> QED BY <1>3, <2>1, <2>2 DEF RecordInv, EndInv, NoOverwrite, Known
<1>5. ~Owned(r) BY <1>4 DEF RecordInv, EndInv, Ended
<1>6. ledger[r].state = "active"
  <2>1. ledger[r] \in Row BY <1>4 DEF RecordInv, TypeInv, TypeOK
  <2> QED BY <1>3, <1>5, <2>1 DEF Row, Known, Owned
<1>7. record[i].latest = r BY <1>3, <1>4, <1>6 DEF RecordInv, ShownInv, RowShown
<1>8. record[i].status = "running"
  <2>1. record[i].status \notin EndStatus
    BY <1>1, <1>4, <1>5, <1>7 DEF RecordInv, SettleInv, Final
  <2>2. record[i].status # "ready" BY <1>1, <1>4, <1>7 DEF RecordInv, ItemInv
  <2>3. record[i] \in Record BY <1>1 DEF RecordInv, TypeInv, TypeOK
  <2> QED BY <2>1, <2>2, <2>3 DEF Record, ItemStatus, EndStatus
<1>9. /\ record'[i].status = "running" /\ record'[i].latest = r
      /\ \A j \in Items \ {i} : record'[j] = record[j]
  <2>1. record' = [record EXCEPT ![i] = [loc[p].rec EXCEPT !.status = "running",
                                            !.latest = r, !.url = FALSE]]
    BY DEF WriteResume
  <2>2. loc[p].rec \in Record /\ record \in [Items -> Record]
    BY DEF RecordInv, TypeInv, TypeOK, Local
  <2>3. /\ [loc[p].rec EXCEPT !.status = "running", !.latest = r, !.url = FALSE].status = "running"
        /\ [loc[p].rec EXCEPT !.status = "running", !.latest = r, !.url = FALSE].latest = r
    BY <2>2 DEF Record
  <2> QED BY <1>1, <2>1, <2>2, <2>3
<1> QED BY <1>1, <1>7, <1>8, <1>9, ViewSame

\* A row is settled once its item shows the outcome.
LEMMA EndLeaves ==
  ASSUME RecordInv, NEW p \in Procs,
         RecoverStale(p) \/ CompleteSettlement(p) \/ SettlementFault(p)
  PROVE  [Ownership!Next]_(Ownership!vars)
<1> DEFINE r == loc[p].target
           i == loc[p].item
<1>1. /\ UNCHANGED record /\ pc[p] \in SettlePcs /\ pc[p] # "superseded" /\ Placed(p) /\ Fits(p)
  BY DEF RecoverStale, CompleteSettlement, SettlementFault, At, SettlePcs,
     RecordInv, ItemInv, ShownInv, Fits
<1>2. r \in Runs /\ ledger[r].item = i /\ ledger[r].state # "none"
  BY <1>1 DEF RecordInv, TypeInv, LocalOK, Known, Placed
<1>3. CASE UNCHANGED ledger BY <1>1, <1>3, ViewSame
<1>4. CASE ledger' = Released(r)
  <2>1. /\ ledger'[r].state = ledger[r].state /\ ledger'[r].item = ledger[r].item
        /\ \A s \in Runs \ {r} : ledger'[s] = ledger[s]
    BY <1>2, <1>4, ReleasedRow DEF RecordInv
  <2> QED BY <1>1, <1>2, <2>1, ViewSame
<1>5. ASSUME ledger' = Settled(r), ledger[r].state = "active", ledger[r].token # NoProc,
             record[i].latest = r => record[i].status \in EndStatus
      PROVE  Ownership!Next
  <2>1. ledger'[r].state = "settled" /\ \A s \in Runs \ {r} : ledger'[s] = ledger[s]
    BY <1>2, <1>5, SettledRow DEF RecordInv
  <2>2. ledger[r].projected BY <1>2, <1>5 DEF RecordInv, CallInv, RowsOK
  <2>3. record[i].latest = r BY <1>2, <1>5, <2>2 DEF RecordInv, ShownInv, RowShown
  <2>4. record[i].status # "running" BY <1>5, <2>3 DEF EndStatus
  <2> QED BY <1>1, <1>2, <1>5, <2>1, <2>4, SoleOwner, OwnerLeaves
<1>6. CASE RecoverStale(p) /\ ledger' # ledger
  <2>1. ledger' = Settled(r) /\ ProjectionIsDurable(p) /\ Holds(loc[p].seen, r)
    BY <1>6 DEF RecoverStale
  <2>2. loc[p].intent \in Intent BY DEF RecordInv, TypeInv, TypeOK, Local
  <2>3. loc[p].intent.status \in EndStatus
    BY <1>1, <2>2 DEF RecordInv, TypeInv, LocalOK, Intent, EndStatus
  <2>4. loc[p].rec.latest = r /\ loc[p].rec.status \in EndStatus
    BY <2>1, <2>3 DEF ProjectionIsDurable, Shows
  <2>5. CopyShown(loc[p].rec) BY DEF RecordInv, ShownInv
  <2>6. ledger[r].state = "active" /\ ledger[r].token # NoProc
    BY <1>2, <2>1, <2>4 DEF Holds, RecordInv, SettleInv, Final, Owned
  <2> QED BY <1>2, <1>5, <2>1, <2>4, <2>5, <2>6 DEF CopyShown
<1>7. CASE CompleteSettlement(p) /\ ledger' # ledger
  <2>1. ledger' = Settled(r) /\ Holds(p, r) /\ pc[p] = "complete"
    BY <1>1, <1>7 DEF CompleteSettlement
  <2>2. record[i].status \in EndStatus BY <1>1, <2>1 DEF Fits
  <2>3. ledger[r].state = "active" /\ ledger[r].token # NoProc
    BY <2>1, NullAssumption DEF Holds
  <2> QED BY <1>5, <2>1, <2>2, <2>3
<1> QED BY <1>3, <1>4, <1>6, <1>7 DEF SettlementFault

\* The other steps that write the ledger change a mark or a token.
LEMMA MarksStutter ==
  ASSUME RecordInv, NEW p \in Procs, MarkProjected(p) \/ BeginSettlement(p)
  PROVE  UNCHANGED Ownership!vars
<1>1. UNCHANGED record /\ ledger \in [Runs -> Row]
  BY DEF MarkProjected, BeginSettlement, RecordInv, TypeInv, TypeOK
<1>2. \A s \in Runs : ledger'[s].state = ledger[s].state /\ ledger'[s].item = ledger[s].item
  <2>1. CASE MarkProjected(p) BY <1>1, <2>1 DEF MarkProjected, Row
  <2>2. CASE BeginSettlement(p) BY <1>1, <2>2 DEF BeginSettlement, Row
  <2> QED BY <2>1, <2>2
<1> QED BY <1>1, <1>2, ViewSame

\* The steps that touch neither the ledger nor the records.
LEMMA QuietStutters ==
  ASSUME UNCHANGED <<ledger, record>> PROVE UNCHANGED Ownership!vars
BY ViewSame

\* Every step of the stores and the calls is a step of RunOwnership or a stutter.
LEMMA OwnershipNext ==
  ASSUME NoOverwrite, NoEdits, RecordInv, [Next]_vars PROVE [Ownership!Next]_(Ownership!vars)
<1>1. CASE UNCHANGED vars BY <1>1, QuietStutters DEF vars
<1>2. ASSUME NEW p \in Procs, AdmitStep(p) PROVE [Ownership!Next]_(Ownership!vars)
  <2>1. CASE CheckCandidate(p) \/ VerifyCandidate(p) \/ RecordAdmitted(p)
             \/ ReadForAdmission(p) \/ ConfirmDispatch(p)
    BY <2>1, QuietStutters
    DEF CheckCandidate, VerifyCandidate, RecordAdmitted, ReadForAdmission, ConfirmDispatch
  <2> QED BY <1>2, <2>1, ClaimRunTakes, RejectClaimLeaves, WriteAdmissionStarts, MarksStutter
          DEF AdmitStep
<1>3. ASSUME NEW p \in Procs, RunStep(p) \/ Crash(p) \/ Publish(p)
      PROVE  [Ownership!Next]_(Ownership!vars)
  BY <1>3, QuietStutters
  DEF RunStep, CompleteRun, StopRun, AwaitApproval, ThrowRun, RunnerError, Reconcile, Crash, Publish
<1>4. ASSUME NEW p \in Procs, SettleStep(p) PROVE [Ownership!Next]_(Ownership!vars)
  <2>1. CASE ReadOwner(p) \/ ReadContended(p) \/ ReadForSettlement(p) \/ RenewLease(p)
             \/ ReadForPatch(p)
    BY <2>1, QuietStutters
    DEF ReadOwner, ReadContended, ReadForSettlement, RenewLease, ReadForPatch
  <2> QED BY <1>4, <2>1, MarksStutter, EndLeaves, WriteOutcomeShows DEF SettleStep
<1>5. ASSUME NEW p \in Procs, ResumeStep(p) PROVE [Ownership!Next]_(Ownership!vars)
  <2>1. CASE Revalidate(p) \/ ReadForResume(p) \/ MarkLog(p) \/ ResumeRun(p)
    BY <2>1, QuietStutters DEF Revalidate, ReadForResume, MarkLog, ResumeRun
  <2>2. ~WriteEdit(p) BY DEF WriteEdit, At, RecordInv, ItemInv, Placed
  <2> QED BY <1>5, <2>1, <2>2, WriteResumeStutters DEF ResumeStep
<1>6. ASSUME NEW p \in Procs, Call(p) PROVE [Ownership!Next]_(Ownership!vars)
  BY <1>6, QuietStutters
  DEF Call, StartAdmission, StartReconcile, StartEdit, CancelRun, ClaimContinuation
<1>7. ASSUME NEW p \in Procs, AdmissionFault(p) \/ DispatchFault(p) \/ SettlementFault(p)
      PROVE  [Ownership!Next]_(Ownership!vars)
  BY <1>7, QuietStutters, EndLeaves DEF AdmissionFault, DispatchFault
<1>8. ASSUME NEW r \in Runs, LeaseGrowsOld(r) PROVE [Ownership!Next]_(Ownership!vars)
  BY <1>8, QuietStutters DEF LeaseGrowsOld
<1> QED BY <1>1, <1>2, <1>3, <1>4, <1>5, <1>6, <1>7, <1>8 DEF Next, Step

\* At first nobody owns an item.
LEMMA OwnershipInit == ASSUME Init PROVE Ownership!Init
<1>1. \A i : Active(i) = {} BY DEF Init, Active, NoRow
<1>2. {r \in Runs : ledger[r].state # "none"} = {} BY DEF Init, NoRow
<1> QED BY <1>1, <1>2 DEF Ownership!Init, PhaseOf

\* The ledger, the records and the calls implement single ownership: an item is
\* taken by one Run at a time, which leaves only after the item shows how it
\* ended, or before the item ever showed it.
THEOREM OwnershipRefinedAlways ==
  ASSUME NoOverwrite, NoEdits PROVE Spec => OwnershipRefined
<1>1. Init => Ownership!Init BY OwnershipInit
<1>2. RecordInv /\ [Next]_vars => [Ownership!Next]_(Ownership!vars) BY OwnershipNext
<1> QED BY <1>1, <1>2, RecordInvariant, PTL DEF Spec, OwnershipRefined, Ownership!Spec
=============================================================================
