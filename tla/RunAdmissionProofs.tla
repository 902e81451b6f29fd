----------------------- MODULE RunAdmissionProofs -----------------------
(* Theorems about RunAdmission, for any items, Runs, processes and bounds.  *)
EXTENDS RunAdmissionProps, TLAPS

\* A Run that has a ledger row, in whatever state.
Known(r) == r \in Runs /\ ledger[r].state # "none"

ResumePcs == {"revalidate", "resumeRead", "resumeWrite", "resumeMark", "resumeRun"}
ClaimPcs  == {"claim", "reclaim"}
\* The steps at which loc[p].run has a row.
RunKnownPcs == (AdmitPcs \ {"check", "claim", "reclaim"}) \cup RunPcs \cup ResumePcs

\* What a call's local variables hold at the steps that use them.
LocalOK(p) ==
  /\ pc[p] \notin {"idle", "dead"} => loc[p].item \in Items
  /\ pc[p] \in ClaimPcs => loc[p].run \in Runs
  /\ pc[p] \in RunKnownPcs => Known(loc[p].run)
  /\ pc[p] \in SettlePcs \cup {"reconcile"} => Known(loc[p].target)
  /\ pc[p] \in SettlePcs /\ loc[p].then = "reclaim" => loc[p].run \in Runs
  /\ pc[p] \in SettlePcs /\ loc[p].then = "runnerError" => Known(loc[p].run)
  /\ pc[p] \in SettlePcs => loc[p].intent.status # "none"
  /\ loc[p].rec.latest \in Runs => Known(loc[p].rec.latest)
  /\ pc[p] = "editWrite" => loc[p].rec.edits < MaxEdits

\* A row names its item; logs and records name Runs that have a row.
RunsKnown ==
  /\ \A r \in Runs : ledger[r].state # "none" => ledger[r].item \in Items
  /\ \A r \in Runs : ledger[r].token # NoProc => ledger[r].intent.status # "none"
  /\ \A r \in Runs : evt[r] # "none" => Known(r)
  /\ \A i \in Items : record[i].latest \in Runs => Known(record[i].latest)

TypeInv == TypeOK /\ (\A p \in Procs : LocalOK(p)) /\ RunsKnown

Typed ==
  /\ pc' \in [Procs -> Pcs] /\ loc' \in [Procs -> Local]
  /\ continuation' \in [Runs -> Procs \cup {NoProc}]

-----------------------------------------------------------------------------
(* Types of the null values and of a candidate                             *)

\* The null intent, first record and null candidate are typed.
LEMMA NullTypes ==
  NoIntent \in Intent /\ InitRecord \in Record /\ NoCand \in Candidate
BY BoundAssumption, SMT DEF NoIntent, Intent, InitRecord, Record, NoCand,
   Candidate, ItemStatus

\* An idle call's local variables are typed.
LEMMA NullLocal == NoLocal \in Local
BY NullTypes, SMT DEF NoLocal, Local, EvtStatus

\* The row of a Run that was never admitted is typed.
LEMMA NullRow == NoRow \in Row
BY NullTypes, SMT DEF NoRow, Row

\* The candidate that currentCandidate reads is typed.
LEMMA CandidateType ==
  ASSUME TypeOK, NEW i \in Items PROVE CandidateOf(i) \in Candidate
<1>1. record[i] \in Record BY DEF TypeOK
<1>2. ASSUME NEW d \in Deps[i]
      PROVE  <<d, record[d].status, record[d].url>> \in Items \X ItemStatus \X BOOLEAN
  <2>1. d \in Items BY RoleAssumption
  <2>2. record[d] \in Record BY <2>1 DEF TypeOK
  <2> QED BY <2>1, <2>2 DEF Record
<1>3. {<<d, record[d].status, record[d].url>> : d \in Deps[i]}
        \in SUBSET (Items \X ItemStatus \X BOOLEAN)
  BY <1>2
<1> QED BY <1>1, <1>3 DEF CandidateOf, Candidate

-----------------------------------------------------------------------------
(* What the control-flow operators preserve                                *)

\* A step of p keeps what the other calls know of their Runs.
LEMMA OthersOK ==
  ASSUME TypeInv, NEW p \in Procs,
         \A q \in Procs \ {p} : pc'[q] = pc[q] /\ loc'[q] = loc[q],
         \A r \in Runs : Known(r) => Known(r)'
  PROVE  \A q \in Procs \ {p} : LocalOK(q)'
<1>1. ASSUME NEW q \in Procs \ {p} PROVE LocalOK(q)'
  <2>1. LocalOK(q) BY DEF TypeInv
  <2>2. \A r : Known(r) => Known(r)' BY DEF Known
  <2> QED BY <2>1, <2>2 DEF LocalOK
<1> QED BY <1>1

\* A step to another label of the same kind keeps the local invariant.
LEMMA MoveOK ==
  ASSUME TypeInv, NEW p \in Procs,
         \/ pc[p] \in RunKnownPcs /\ pc'[p] \in RunKnownPcs
         \/ pc[p] \in SettlePcs /\ pc'[p] \in SettlePcs,
         loc'[p].item = loc[p].item, loc'[p].run = loc[p].run,
         loc'[p].target = loc[p].target, loc'[p].then = loc[p].then,
         loc'[p].intent = loc[p].intent,
         loc'[p].rec \in {loc[p].rec} \cup {record[i] : i \in Items},
         \A r \in Runs : Known(r) => Known(r)'
  PROVE  LocalOK(p)'
<1>1. \A r : Known(r) => Known(r)' BY DEF Known
<1>2. LocalOK(p) BY DEF TypeInv
<1>3. (loc[p].rec.latest \in Runs => Known(loc[p].rec.latest))'
  BY <1>1, <1>2 DEF TypeInv, RunsKnown, LocalOK
<1> QED
  BY <1>1, <1>2, <1>3 DEF LocalOK, RunKnownPcs, ClaimPcs, AdmitPcs, RunPcs,
     SettlePcs, ResumePcs

\* A call that returns keeps the invariant.
LEMMA FinishOK ==
  ASSUME TypeInv, NEW p \in Procs, Finish(p)
  PROVE  Typed /\ LocalOK(p)'
<1>1. pc'[p] = "idle" /\ loc'[p] = NoLocal
  BY DEF TypeInv, TypeOK, Finish
<1>2. LocalOK(p)'
  BY <1>1, NullAssumption DEF LocalOK, RunKnownPcs, ClaimPcs, AdmitPcs, RunPcs,
     SettlePcs, ResumePcs, NoLocal, InitRecord
<1> QED
  BY <1>2, NullLocal DEF TypeInv, TypeOK, Finish, Pcs, OtherPcs, Typed

\* A call of settleWorkItemRun starts with a known Run and an intent.
LEMMA CallOK ==
  ASSUME TypeInv, NEW p \in Procs, NEW r, Known(r), NEW intent \in Intent,
         NEW next \in {"finish", "reclaim", "runnerError"},
         CallSettle(p, r, intent, next), intent.status # "none",
         next = "reclaim" => loc[p].run \in Runs,
         next = "runnerError" => Known(loc[p].run),
         \A s \in Runs : Known(s) => Known(s)'
  PROVE  Typed /\ LocalOK(p)'
<1>1. r \in Runs /\ ledger[r].item \in Items
  BY DEF TypeInv, RunsKnown, Known
<1>2. loc' \in [Procs -> Local]
  <2>1. loc[p] \in Local BY DEF TypeInv, TypeOK
  <2>2. [loc[p] EXCEPT !.target = r, !.item = ledger[r].item,
                       !.intent = intent, !.then = next] \in Local
    BY <2>1, <1>1 DEF Local
  <2> QED BY <2>2 DEF TypeInv, TypeOK, CallSettle
<1>3. /\ pc'[p] = "settle" /\ loc'[p].target = r /\ loc'[p].item \in Items
      /\ loc'[p].then = next /\ loc'[p].run = loc[p].run
      /\ loc'[p].rec = loc[p].rec /\ loc'[p].intent = intent
  BY <1>1 DEF TypeInv, TypeOK, CallSettle, Goto, Local
<1>4. LocalOK(p) BY DEF TypeInv
<1>5. \A s : Known(s) => Known(s)' BY DEF Known
<1>6. LocalOK(p)'
  BY <1>3, <1>4, <1>5 DEF LocalOK, RunKnownPcs, ClaimPcs, AdmitPcs, RunPcs,
     SettlePcs, ResumePcs
<1> QED
  BY <1>2, <1>6 DEF TypeInv, TypeOK, CallSettle, Goto, Pcs, SettlePcs, Typed

\* settleWorkItemRun returns to a caller that knows its own Run.
LEMMA ReturnOK ==
  ASSUME TypeInv, NEW p \in Procs, pc[p] \in SettlePcs, NEW result,
         Return(p, result), \A s \in Runs : Known(s) => Known(s)'
  PROVE  /\ Typed /\ LocalOK(p)'
         /\ \A q \in Procs \ {p} : pc'[q] = pc[q] /\ loc'[q] = loc[q]
<1>1. CASE Finish(p)
  BY <1>1, FinishOK DEF Finish, TypeInv, TypeOK
<1>2. ASSUME NEW label \in {"reclaim", "runnerError"}, Goto(p, label),
             label = "reclaim" => loc[p].then = "reclaim",
             label = "runnerError" => loc[p].then = "runnerError",
             UNCHANGED <<loc, continuation>>
      PROVE  Typed /\ LocalOK(p)' /\ \A q \in Procs \ {p} : pc'[q] = pc[q] /\ loc'[q] = loc[q]
  <2>1. pc'[p] = label /\ loc'[p] = loc[p]
    BY <1>2 DEF TypeInv, TypeOK, Goto
  <2>2. LocalOK(p) BY DEF TypeInv
  <2>3. \A s : Known(s) => Known(s)' BY DEF Known
  <2>4. LocalOK(p)'
    BY <1>2, <2>1, <2>2, <2>3 DEF LocalOK, RunKnownPcs, ClaimPcs, AdmitPcs, RunPcs,
       SettlePcs, ResumePcs
  <2> QED
    BY <1>2, <2>4 DEF Goto, TypeInv, TypeOK, Typed, Pcs, AdmitPcs, RunPcs
<1> QED
  BY <1>1, <1>2 DEF Return

\* A step of p that preserves each part preserves the invariant.
Others(p) == \A q \in Procs \ {p} : pc'[q] = pc[q] /\ loc'[q] = loc[q]
FlagsTyped ==
  /\ quiet' \in [Runs -> SUBSET Procs]
  /\ pr' \in [Runs -> BOOLEAN] /\ stale' \in [Runs -> BOOLEAN]
  /\ faults' \in 0..MaxFaults
Keeps == \A r \in Runs : Known(r) => Known(r)'

\* What is left to show of a step once its own call is dealt with.
LEMMA StepOK ==
  ASSUME TypeInv, NEW p \in Procs, Typed, LocalOK(p)', Others(p), FlagsTyped,
         ledger' \in [Runs -> Row], record' \in [Items -> Record],
         evt' \in [Runs -> EvtStatus], Keeps, RunsKnown'
  PROVE  TypeInv'
<1>1. \A q \in Procs \ {p} : LocalOK(q)'
  BY OthersOK DEF Others, Keeps
<1> QED
  BY <1>1 DEF TypeInv, TypeOK, Typed, FlagsTyped

\* The same for a step that writes to no store.
LEMMA LocalStepOK ==
  ASSUME TypeInv, NEW p \in Procs, Typed, LocalOK(p)', Others(p), FlagsTyped,
         UNCHANGED <<ledger, record, evt>>
  PROVE  TypeInv'
<1>1. Keeps /\ RunsKnown' BY DEF Keeps, Known, TypeInv, RunsKnown
<1> QED BY <1>1, StepOK DEF TypeInv, TypeOK

-----------------------------------------------------------------------------
(* The steps of admitWorkItemRun                                           *)

\* admitWorkItemRun starts from a typed candidate.
LEMMA StartAdmissionOK ==
  ASSUME TypeInv, NEW p \in Procs, NEW i \in Items, StartAdmission(p, i)
  PROVE  TypeInv'
<1>1. [NoLocal EXCEPT !.item = i, !.cand = CandidateOf(i)] \in Local
  BY NullLocal, CandidateType DEF TypeInv, Local
<1>2. Typed /\ Others(p) /\ FlagsTyped
  BY <1>1 DEF StartAdmission, Goto, TypeInv, TypeOK, Typed, Others, FlagsTyped,
     Pcs, AdmitPcs
<1>3. /\ pc'[p] = "check" /\ loc'[p].item = i /\ loc'[p].rec.latest = NoRun
  BY DEF StartAdmission, Goto, TypeInv, TypeOK, NoLocal, InitRecord
<1>4. LocalOK(p)'
  BY <1>3, NullAssumption DEF LocalOK, RunKnownPcs, ClaimPcs, AdmitPcs, RunPcs,
     SettlePcs, ResumePcs
<1> QED BY <1>2, <1>4, LocalStepOK DEF StartAdmission

\* The first comparison of the candidate draws a fresh Run id.
LEMMA CheckCandidateOK ==
  ASSUME TypeInv, NEW p \in Procs, CheckCandidate(p) PROVE TypeInv'
<1>1. CASE Finish(p)
  BY <1>1, FinishOK, LocalStepOK DEF CheckCandidate, Finish, TypeInv, TypeOK,
     Others, FlagsTyped
<1>2. ASSUME NEW r \in Fresh, Goto(p, "claim"), loc' = [loc EXCEPT ![p].run = r],
             UNCHANGED continuation
      PROVE  TypeInv'
  <2>1. r \in Runs BY DEF Fresh
  <2>2. [loc[p] EXCEPT !.run = r] \in Local
    BY <2>1 DEF TypeInv, TypeOK, Local
  <2>3. Typed /\ Others(p) /\ FlagsTyped
    BY <1>2, <2>2 DEF CheckCandidate, Goto, TypeInv, TypeOK, Typed, Others, FlagsTyped,
       Pcs, AdmitPcs
  <2>4. /\ pc[p] = "check" /\ pc'[p] = "claim" /\ loc'[p].item = loc[p].item
        /\ loc'[p].rec = loc[p].rec /\ loc'[p].run = r /\ ledger' = ledger
    BY <1>2 DEF CheckCandidate, At, Goto, TypeInv, TypeOK, Local
  <2>5. LocalOK(p) BY DEF TypeInv
  <2>6. LocalOK(p)'
    BY <2>1, <2>4, <2>5 DEF LocalOK, RunKnownPcs, ClaimPcs, AdmitPcs, RunPcs,
       SettlePcs, ResumePcs, Known
  <2> QED BY <2>3, <2>6, LocalStepOK DEF CheckCandidate
<1> QED BY <1>1, <1>2 DEF CheckCandidate

\* A claim inserts a typed row, or settles the owner it met.
LEMMA ClaimRunOK ==
  ASSUME TypeInv, NEW p \in Procs, ClaimRun(p) PROVE TypeInv'
<1> DEFINE i == loc[p].item
           r == loc[p].run
           live == Live(i, loc[p].cand)
           row == [NoRow EXCEPT !.state = "active", !.item = i,
                                !.cand = loc[p].cand, !.init = p]
<1>1. i \in Items /\ r \in Runs /\ loc[p] \in Local /\ LocalOK(p)
  BY DEF ClaimRun, TypeInv, TypeOK, LocalOK, ClaimPcs
<1>2. FlagsTyped /\ UNCHANGED <<record, evt>>
  BY DEF ClaimRun, TypeInv, TypeOK, FlagsTyped
<1>3. CASE /\ ledger' = [ledger EXCEPT ![r] = row] /\ Goto(p, "verify")
           /\ UNCHANGED <<loc, continuation>>
  <2>1. row \in Row BY <1>1, NullRow DEF Row, Local
  <2>2. ledger' \in [Runs -> Row] BY <1>3, <2>1 DEF TypeInv, TypeOK
  <2>3. row.state = "active" /\ row.item = i /\ row.token = NoProc
    BY DEF NoRow
  <2>4. /\ ledger'[r] = row /\ \A s \in Runs \ {r} : ledger'[s] = ledger[s]
    BY <1>1, <1>3 DEF TypeInv, TypeOK
  <2>5. Keeps BY <2>3, <2>4 DEF Keeps, Known
  <2>6. RunsKnown'
    BY <1>1, <1>2, <2>3, <2>4, <2>5 DEF RunsKnown, Keeps, TypeInv, Known
  <2>7. Typed /\ Others(p)
    BY <1>3 DEF Goto, TypeInv, TypeOK, Typed, Others, Pcs, AdmitPcs
  <2>8. pc'[p] = "verify" /\ loc' = loc /\ Known(r)'
    BY <1>1, <1>3, <2>3, <2>4 DEF Goto, TypeInv, TypeOK, Known
  <2>9. LocalOK(p)'
    BY <1>1, <2>5, <2>8 DEF LocalOK, RunKnownPcs, ClaimPcs, AdmitPcs, RunPcs,
       SettlePcs, ResumePcs, Keeps, Known
  <2> QED BY <1>2, <2>2, <2>5, <2>6, <2>7, <2>9, StepOK DEF TypeInv, TypeOK
<1>4. ASSUME NEW q \in Runs, ledger[q].state = "active", ledger[q].token # NoProc,
             CallSettle(p, q, ledger[q].intent, "reclaim"), UNCHANGED ledger
      PROVE  TypeInv'
  <2>1. Known(q) BY <1>4 DEF Known
  <2>2. ledger[q].intent \in Intent /\ ledger[q].intent.status # "none"
    BY <1>4 DEF TypeInv, TypeOK, Row, RunsKnown
  <2>3. Typed /\ LocalOK(p)'
    BY <1>1, <1>4, <2>1, <2>2, CallOK DEF Known
  <2>4. Others(p)
    BY <1>4 DEF CallSettle, Goto, Others, TypeInv, TypeOK
  <2> QED BY <1>2, <1>4, <2>3, <2>4, LocalStepOK
<1>5. CASE Finish(p) /\ UNCHANGED ledger
  BY <1>2, <1>5, FinishOK, LocalStepOK DEF Finish, TypeInv, TypeOK, Others
<1> QED BY <1>3, <1>4, <1>5 DEF ClaimRun, Live, Active

\* The comparison after the claim only moves the call.
LEMMA VerifyCandidateOK ==
  ASSUME TypeInv, NEW p \in Procs, VerifyCandidate(p) PROVE TypeInv'
<1>1. Typed /\ Others(p) /\ FlagsTyped
  BY DEF VerifyCandidate, Goto, TypeInv, TypeOK, Typed, Others, FlagsTyped, Pcs, AdmitPcs
<1>2. pc[p] = "verify" /\ pc'[p] \in {"admitEvent", "reject"} /\ loc' = loc /\ ledger' = ledger
  BY DEF VerifyCandidate, At, Goto, TypeInv, TypeOK
<1>3. LocalOK(p)'
  BY <1>2, MoveOK DEF RunKnownPcs, AdmitPcs, Known
<1> QED BY <1>1, <1>3, LocalStepOK DEF VerifyCandidate

\* A rejected claim keeps its row and may end its log.
LEMMA RejectClaimOK ==
  ASSUME TypeInv, NEW p \in Procs, RejectClaim(p) PROVE TypeInv'
<1> DEFINE r == loc[p].run
<1>1. Typed /\ LocalOK(p)' /\ Others(p)
  BY FinishOK DEF RejectClaim, Finish, TypeInv, TypeOK, Others
<1>2. Known(r) /\ r \in Runs
  BY DEF RejectClaim, TypeInv, LocalOK, RunKnownPcs, AdmitPcs, Known
<1>3. ledger' \in [Runs -> Row]
  <2> DEFINE row == [ledger[r] EXCEPT !.state = "rejected", !.init = NoProc]
  <2>1. ledger[r] \in Row BY <1>2 DEF TypeInv, TypeOK
  <2>2. row \in Row BY <2>1 DEF Row
  <2>3. ledger' = ledger \/ ledger' = [ledger EXCEPT ![r] = row]
    BY <1>2 DEF RejectClaim, TypeInv, TypeOK
  <2> HIDE DEF row
  <2> QED BY <2>2, <2>3 DEF TypeInv, TypeOK
<1>4. \A s \in Runs : /\ ledger'[s].item = ledger[s].item
                      /\ ledger'[s].token = ledger[s].token
                      /\ ledger'[s].intent = ledger[s].intent
                      /\ ledger[s].state # "none" <=> ledger'[s].state # "none"
  BY <1>2 DEF RejectClaim, TypeInv, TypeOK, Row, Known
<1>5. Keeps BY <1>4 DEF Keeps, Known
<1>6. evt' \in [Runs -> EvtStatus]
      /\ \A s \in Runs : evt'[s] # "none" => evt[s] # "none"
  BY <1>2 DEF RejectClaim, Append, TypeInv, TypeOK, EvtStatus
<1>7. RunsKnown'
  BY <1>4, <1>5, <1>6 DEF RejectClaim, RunsKnown, Keeps, TypeInv, Known
<1>8. UNCHANGED <<record, pr, stale, faults>> /\ quiet' \in [Runs -> SUBSET Procs]
  BY <1>2 DEF RejectClaim, Append, TypeInv, TypeOK
<1>9. FlagsTyped BY <1>8 DEF FlagsTyped, TypeInv, TypeOK
<1> QED
  BY <1>1, <1>3, <1>5, <1>6, <1>7, <1>8, <1>9, StepOK DEF TypeInv, TypeOK

\* run.admitted opens the log of a Run that has a row.
LEMMA RecordAdmittedOK ==
  ASSUME TypeInv, NEW p \in Procs, RecordAdmitted(p) PROVE TypeInv'
<1>1. Typed /\ Others(p) /\ FlagsTyped
  BY DEF RecordAdmitted, Goto, TypeInv, TypeOK, Typed, Others, FlagsTyped, Pcs, AdmitPcs
<1>2. /\ pc[p] = "admitEvent" /\ pc'[p] = "admitRead"
      /\ loc' = loc /\ ledger' = ledger /\ record' = record
  BY DEF RecordAdmitted, At, Goto, TypeInv, TypeOK
<1>3. Keeps BY <1>2 DEF Keeps, Known
<1>4. LocalOK(p)'
  BY <1>2, <1>3, MoveOK DEF RunKnownPcs, AdmitPcs, Keeps
<1>5. Known(loc[p].run)
  BY <1>2 DEF TypeInv, LocalOK, RunKnownPcs, AdmitPcs
<1>6. evt' \in [Runs -> EvtStatus]
      /\ \A s \in Runs : evt'[s] # "none" => Known(s)
  BY <1>5 DEF RecordAdmitted, TypeInv, TypeOK, EvtStatus, RunsKnown
<1>7. RunsKnown'
  BY <1>2, <1>6 DEF RunsKnown, TypeInv, Known
<1> QED
  BY <1>1, <1>2, <1>3, <1>4, <1>6, <1>7, StepOK DEF TypeInv, TypeOK

\* An exception before the record is written.
LEMMA AdmissionFaultOK ==
  ASSUME TypeInv, NEW p \in Procs, AdmissionFault(p) PROVE TypeInv'
<1>1. Typed /\ Others(p) /\ FlagsTyped
  BY BoundAssumption DEF AdmissionFault, Goto, TypeInv, TypeOK, Typed, Others,
     FlagsTyped, Pcs, AdmitPcs
<1>2. /\ pc[p] \in {"verify", "admitEvent", "admitRead", "admitWrite"}
      /\ pc'[p] = "compensate" /\ loc' = loc /\ ledger' = ledger
  BY DEF AdmissionFault, Goto, TypeInv, TypeOK
<1>3. LocalOK(p)' BY <1>2, MoveOK DEF RunKnownPcs, AdmitPcs, Known
<1> QED BY <1>1, <1>3, LocalStepOK DEF AdmissionFault

\* An exception after the record is written.
LEMMA DispatchFaultOK ==
  ASSUME TypeInv, NEW p \in Procs, DispatchFault(p) PROVE TypeInv'
<1>1. Typed /\ LocalOK(p)' /\ Others(p)
  BY FinishOK DEF DispatchFault, Finish, TypeInv, TypeOK, Others
<1>2. FlagsTyped
  BY BoundAssumption DEF DispatchFault, FlagsTyped, TypeInv, TypeOK
<1> QED BY <1>1, <1>2, LocalStepOK DEF DispatchFault

\* Reading the item's record into the local copy, on the way to a write.
LEMMA ReadOK ==
  ASSUME TypeInv, NEW p \in Procs, NEW label,
         \/ pc[p] \in RunKnownPcs /\ label \in RunKnownPcs
         \/ pc[p] \in SettlePcs /\ label \in SettlePcs,
         Goto(p, label), loc' = [loc EXCEPT ![p].rec = record[loc[p].item]],
         UNCHANGED <<ledger, record, evt, quiet, pr, continuation, stale, faults>>
  PROVE  TypeInv'
<1>1. loc[p].item \in Items
  BY DEF TypeInv, LocalOK, RunKnownPcs, AdmitPcs, RunPcs, SettlePcs, ResumePcs
<1>2. record[loc[p].item] \in Record /\ loc[p] \in Local
  BY <1>1 DEF TypeInv, TypeOK
<1>3. [loc[p] EXCEPT !.rec = record[loc[p].item]] \in Local
  BY <1>2 DEF Local
<1>4. label \in Pcs
  BY DEF Pcs, OtherPcs, RunKnownPcs, ResumePcs
<1>5. Typed /\ Others(p) /\ FlagsTyped
  BY <1>3, <1>4 DEF Goto, TypeInv, TypeOK, Typed, Others, FlagsTyped
<1>6. pc'[p] = label /\ loc'[p] = [loc[p] EXCEPT !.rec = record[loc[p].item]]
  BY DEF Goto, TypeInv, TypeOK
<1>7. LocalOK(p)'
  BY <1>1, <1>2, <1>6, MoveOK DEF Local, Known
<1> QED BY <1>5, <1>7, LocalStepOK

\* The read of admitTaskRunState.
LEMMA ReadForAdmissionOK ==
  ASSUME TypeInv, NEW p \in Procs, ReadForAdmission(p) PROVE TypeInv'
BY ReadOK DEF ReadForAdmission, At, RunKnownPcs, AdmitPcs

\* Writing a typed record that names a known Run, then a step of the same kind.
LEMMA WriteOK ==
  ASSUME TypeInv, NEW p \in Procs, NEW label, NEW rec \in Record,
         \/ pc[p] \in RunKnownPcs /\ label \in RunKnownPcs
         \/ pc[p] \in SettlePcs /\ label \in SettlePcs,
         Known(rec.latest), Goto(p, label),
         record' = [record EXCEPT ![loc[p].item] = rec],
         UNCHANGED <<ledger, evt, quiet, pr, continuation, stale, loc, faults>>
  PROVE  TypeInv'
<1>1. label \in Pcs
  BY DEF Pcs, OtherPcs, RunKnownPcs, ResumePcs
<1>2. Typed /\ Others(p) /\ FlagsTyped
  BY <1>1 DEF Goto, TypeInv, TypeOK, Typed, Others, FlagsTyped
<1>3. Keeps BY DEF Keeps, Known
<1>4. LocalOK(p)'
  <2>1. pc'[p] = label BY DEF Goto, TypeInv, TypeOK
  <2> QED BY <2>1, <1>3, MoveOK DEF Keeps
<1>5. record' \in [Items -> Record] /\ RunsKnown'
  BY DEF TypeInv, TypeOK, RunsKnown, Known
<1> QED BY <1>2, <1>3, <1>4, <1>5, StepOK DEF TypeInv, TypeOK

\* The write of admitTaskRunState.
LEMMA WriteAdmissionOK ==
  ASSUME TypeInv, NEW p \in Procs, WriteAdmission(p) PROVE TypeInv'
<1> DEFINE rec == [loc[p].rec EXCEPT !.status = "running", !.latest = loc[p].run,
                                     !.url = FALSE]
<1>1. loc[p] \in Local BY DEF TypeInv, TypeOK
<1>2. Known(loc[p].run)
  BY DEF WriteAdmission, At, TypeInv, LocalOK, RunKnownPcs, AdmitPcs
<1>3. rec \in Record /\ rec.latest = loc[p].run
  BY <1>1, <1>2 DEF Local, Record, ItemStatus, Known
<1> QED
  BY <1>2, <1>3, WriteOK DEF WriteAdmission, At, RunKnownPcs, AdmitPcs

\* markProjected updates the row that its token names.
LEMMA MarkProjectedOK ==
  ASSUME TypeInv, NEW p \in Procs, MarkProjected(p) PROVE TypeInv'
<1> DEFINE r == loc[p].run
<1>1. pc[p] = "markProjected" /\ Known(r)
  BY DEF MarkProjected, At, TypeInv, LocalOK, RunKnownPcs, AdmitPcs
<1>2. CASE Finish(p) /\ UNCHANGED ledger
  BY <1>2, FinishOK, LocalStepOK DEF MarkProjected, Finish, TypeInv, TypeOK,
     Others, FlagsTyped
<1>3. CASE /\ ledger' = [ledger EXCEPT ![r].projected = TRUE, ![r].init = NoProc]
           /\ Goto(p, "confirm") /\ UNCHANGED <<loc, continuation>>
  <2>1. Typed /\ Others(p) /\ FlagsTyped
    BY <1>3 DEF MarkProjected, Goto, TypeInv, TypeOK, Typed, Others, FlagsTyped,
       Pcs, AdmitPcs
  <2>2. ledger' \in [Runs -> Row]
    <3>1. ledger[r] \in Row BY <1>1 DEF TypeInv, TypeOK, Known
    <3>2. [ledger[r] EXCEPT !.projected = TRUE, !.init = NoProc] \in Row
      BY <3>1 DEF Row
    <3>3. ledger' = [ledger EXCEPT ![r] = [ledger[r] EXCEPT !.projected = TRUE, !.init = NoProc]]
      BY <1>1, <1>3 DEF TypeInv, TypeOK, Known
    <3> QED BY <3>2, <3>3 DEF TypeInv, TypeOK
  <2>3. \A s \in Runs : /\ ledger'[s].item = ledger[s].item
                        /\ ledger'[s].token = ledger[s].token
                        /\ ledger'[s].intent = ledger[s].intent
                        /\ ledger'[s].state = ledger[s].state
    BY <1>1, <1>3 DEF TypeInv, TypeOK, Row, Known
  <2>4. Keeps BY <2>3 DEF Keeps, Known
  <2>5. RunsKnown'
    BY <2>3, <2>4 DEF MarkProjected, RunsKnown, Keeps, TypeInv, Known
  <2>6. pc'[p] = "confirm" /\ loc' = loc
    BY <1>3 DEF Goto, TypeInv, TypeOK
  <2>7. LocalOK(p)'
    BY <1>1, <2>4, <2>6, MoveOK DEF RunKnownPcs, AdmitPcs, Keeps
  <2> QED
    BY <2>1, <2>2, <2>4, <2>5, <2>7, StepOK DEF MarkProjected, TypeInv, TypeOK
<1> QED BY <1>2, <1>3 DEF MarkProjected

\* The last read before a Run is dispatched.
LEMMA ConfirmDispatchOK ==
  ASSUME TypeInv, NEW p \in Procs, ConfirmDispatch(p) PROVE TypeInv'
<1>1. CASE Finish(p)
  BY <1>1, FinishOK, LocalStepOK DEF ConfirmDispatch, Finish, TypeInv, TypeOK,
     Others, FlagsTyped
<1>2. CASE Goto(p, "execute") /\ UNCHANGED <<loc, continuation>>
  <2>1. Typed /\ Others(p) /\ FlagsTyped
    BY <1>2 DEF ConfirmDispatch, Goto, TypeInv, TypeOK, Typed, Others, FlagsTyped,
       Pcs, RunPcs
  <2>2. pc[p] = "confirm" /\ pc'[p] = "execute" /\ loc' = loc /\ ledger' = ledger
    BY <1>2 DEF ConfirmDispatch, At, Goto, TypeInv, TypeOK
  <2>3. LocalOK(p)' BY <2>2, MoveOK DEF RunKnownPcs, AdmitPcs, RunPcs, Known
  <2> QED BY <2>1, <2>3, LocalStepOK DEF ConfirmDispatch
<1> QED BY <1>1, <1>2 DEF ConfirmDispatch

-----------------------------------------------------------------------------
(* The runner, cancelRun and reconcileTerminalWorkItemRun                  *)

\* The publication of a change request.
LEMMA PublishOK ==
  ASSUME TypeInv, NEW p \in Procs, Publish(p) PROVE TypeInv'
<1>1. LocalOK(p)' BY DEF Publish, TypeInv, LocalOK, Known
<1> QED
  BY <1>1, LocalStepOK DEF Publish, TypeInv, TypeOK, Typed, Others, FlagsTyped

\* Appending a status to the log of a Run that has a row.
LEMMA AppendOK ==
  ASSUME TypeInv, NEW p \in Procs, NEW r, Known(r), NEW status \in EvtStatus,
         Typed, LocalOK(p)', Others(p), UNCHANGED <<ledger, record, pr, faults>>,
         stale' \in [Runs -> BOOLEAN], Append(r, status)
  PROVE  TypeInv'
<1>1. Keeps BY DEF Keeps, Known
<1>2. evt' \in [Runs -> EvtStatus] /\ \A s \in Runs : evt'[s] # "none" => Known(s)
  BY DEF Append, TypeInv, TypeOK, RunsKnown, Known
<1>3. RunsKnown' BY <1>2 DEF RunsKnown, TypeInv, Known
<1>4. FlagsTyped BY DEF Append, FlagsTyped, TypeInv, TypeOK
<1> QED BY <1>1, <1>2, <1>3, <1>4, StepOK DEF TypeInv, TypeOK

\* run.completed, and the settlement it leads to.
LEMMA CompleteRunOK ==
  ASSUME TypeInv, NEW p \in Procs, CompleteRun(p) PROVE TypeInv'
<1> DEFINE r == loc[p].run
           intent == [status |-> "completed", url |-> pr[r]]
<1>1. pc[p] = "execute" /\ Known(r) /\ r \in Runs
  BY DEF CompleteRun, At, TypeInv, LocalOK, RunKnownPcs, RunPcs, Known
<1>2. UNCHANGED <<ledger, record, pr, stale, faults>> BY DEF CompleteRun
<1>3. CASE Goto(p, "runnerError") /\ UNCHANGED <<evt, quiet, loc, continuation>>
  <2>1. Typed /\ Others(p)
    BY <1>3 DEF Goto, TypeInv, TypeOK, Typed, Others, Pcs, RunPcs
  <2>2. pc'[p] = "runnerError" /\ loc' = loc /\ ledger' = ledger
    BY <1>3 DEF CompleteRun, Goto, TypeInv, TypeOK
  <2>3. LocalOK(p)' BY <1>1, <2>2, MoveOK DEF RunKnownPcs, RunPcs, Known
  <2>4. FlagsTyped BY <1>2, <1>3 DEF FlagsTyped, TypeInv, TypeOK
  <2> QED BY <1>2, <1>3, <2>1, <2>3, <2>4, LocalStepOK
<1>4. CASE /\ Append(r, "completed")
           /\ CallSettle(p, r, intent, "runnerError")
  <2>1. intent \in Intent /\ intent.status # "none"
    BY <1>1 DEF Intent, TypeInv, TypeOK
  <2>2. ledger' = ledger /\ record' = record BY DEF CompleteRun
  <2>3. Typed /\ LocalOK(p)'
    <3> HIDE DEF intent
    <3> QED BY <1>1, <1>4, <2>1, <2>2, CallOK DEF Known
  <2>4. Others(p) BY <1>4 DEF CallSettle, Goto, Others, TypeInv, TypeOK
  <2>5. stale' \in [Runs -> BOOLEAN] BY <1>2 DEF TypeInv, TypeOK
  <2> QED BY <1>1, <1>2, <1>4, <2>3, <2>4, <2>5, AppendOK DEF EvtStatus
<1> QED BY <1>3, <1>4 DEF CompleteRun

\* run.failed or run.blocked from a stage.
LEMMA StopRunOK ==
  ASSUME TypeInv, NEW p \in Procs, NEW o \in Outcomes, StopRun(p, o) PROVE TypeInv'
<1>1. pc[p] = "execute" /\ Known(loc[p].run)
  BY DEF StopRun, At, TypeInv, LocalOK, RunKnownPcs, RunPcs
<1>2. Typed /\ Others(p) /\ stale' \in [Runs -> BOOLEAN]
  BY DEF StopRun, Goto, TypeInv, TypeOK, Typed, Others, Pcs, RunPcs
<1>3. pc'[p] = "runnerError" /\ loc' = loc /\ ledger' = ledger /\ o \in EvtStatus
  BY RoleAssumption DEF StopRun, Goto, TypeInv, TypeOK, EvtStatus
<1>4. LocalOK(p)' BY <1>1, <1>3, MoveOK DEF RunKnownPcs, RunPcs, Known
<1> QED BY <1>1, <1>2, <1>3, <1>4, AppendOK DEF StopRun

\* run.failed from the runner's own catch block.
LEMMA ThrowRunOK ==
  ASSUME TypeInv, NEW p \in Procs, ThrowRun(p) PROVE TypeInv'
<1>1. pc[p] = "execute" /\ Known(loc[p].run)
  BY DEF ThrowRun, At, TypeInv, LocalOK, RunKnownPcs, RunPcs
<1>2. Typed /\ Others(p) /\ UNCHANGED <<ledger, record, pr, stale, faults>>
  BY DEF ThrowRun, Goto, TypeInv, TypeOK, Typed, Others, Pcs, RunPcs
<1>3. pc'[p] = "runnerError" /\ loc' = loc
  BY DEF ThrowRun, Goto, TypeInv, TypeOK
<1>4. LocalOK(p)' BY <1>1, <1>2, <1>3, MoveOK DEF RunKnownPcs, RunPcs, Known
<1>5. CASE UNCHANGED <<evt, quiet>>
  <2>1. FlagsTyped BY <1>2, <1>5 DEF FlagsTyped, TypeInv, TypeOK
  <2> QED BY <1>2, <1>4, <1>5, <2>1, LocalStepOK
<1>6. CASE Append(loc[p].run, "failed")
  <2>1. stale' \in [Runs -> BOOLEAN] BY <1>2 DEF TypeInv, TypeOK
  <2> QED BY <1>1, <1>2, <1>4, <1>6, <2>1, AppendOK DEF EvtStatus
<1> QED BY <1>5, <1>6 DEF ThrowRun

\* What the scheduler does with a runner that threw.
LEMMA RunnerErrorOK ==
  ASSUME TypeInv, NEW p \in Procs, RunnerError(p) PROVE TypeInv'
<1> DEFINE r == loc[p].run
           recorded == IF loc[p].resumed THEN p \notin quiet[r] ELSE evt[r] \in Stopped
           status == IF recorded THEN evt[r] ELSE "failed"
           intent == [status |-> IF status = "completed" THEN status ELSE "failed",
                      url |-> pr[r]]
<1>1. Known(r) /\ r \in Runs
  BY DEF RunnerError, At, TypeInv, LocalOK, RunKnownPcs, RunPcs, Known
<1>2. UNCHANGED <<ledger, record, pr, stale, faults>> BY DEF RunnerError
<1>3. intent \in Intent /\ intent.status # "none"
  BY <1>1 DEF Intent, TypeInv, TypeOK
<1>4. \/ Finish(p)
      \/ CallSettle(p, r, intent, "finish")
  BY DEF RunnerError
<1>5. UNCHANGED <<evt, quiet>> \/ Append(r, "failed")
  BY DEF RunnerError
<1> HIDE DEF intent, status
<1>6. Typed /\ LocalOK(p)'
  BY <1>1, <1>2, <1>3, <1>4, FinishOK, CallOK DEF Known
<1>7. Others(p) BY <1>4 DEF Finish, CallSettle, Goto, Others, TypeInv, TypeOK
<1>8. CASE UNCHANGED <<evt, quiet>>
  <2>1. FlagsTyped BY <1>2, <1>8 DEF FlagsTyped, TypeInv, TypeOK
  <2> QED BY <1>2, <1>6, <1>7, <1>8, <2>1, LocalStepOK
<1>9. CASE Append(r, "failed")
  <2>1. stale' \in [Runs -> BOOLEAN] BY <1>2 DEF TypeInv, TypeOK
  <2> QED BY <1>1, <1>2, <1>6, <1>7, <1>9, <2>1, AppendOK DEF EvtStatus
<1> QED BY <1>5, <1>8, <1>9

\* A Run that waits for an approval returns.
LEMMA AwaitApprovalOK ==
  ASSUME TypeInv, NEW p \in Procs, AwaitApproval(p) PROVE TypeInv'
<1>1. FlagsTyped /\ UNCHANGED <<ledger, record, evt>> /\ Finish(p)
  BY DEF AwaitApproval, FlagsTyped, TypeInv, TypeOK
<1>2. Typed /\ LocalOK(p)' BY <1>1, FinishOK
<1>3. Others(p) BY <1>1 DEF Finish, Others, TypeInv, TypeOK
<1> QED BY <1>1, <1>2, <1>3, LocalStepOK

\* reconcileTerminalWorkItemRun settles a Run whose log has ended.
LEMMA ReconcileOK ==
  ASSUME TypeInv, NEW p \in Procs, Reconcile(p) PROVE TypeInv'
<1> DEFINE r == loc[p].target
           intent == [status |-> IF evt[r] = "completed" THEN "completed" ELSE "failed",
                      url |-> pr[r]]
<1>1. Known(r) /\ r \in Runs
  BY DEF Reconcile, At, TypeInv, LocalOK, Known
<1>2. FlagsTyped /\ UNCHANGED <<ledger, record, evt>>
  BY DEF Reconcile, FlagsTyped, TypeInv, TypeOK
<1>3. intent \in Intent /\ intent.status # "none"
  BY <1>1 DEF Intent, TypeInv, TypeOK
<1>4. Finish(p) \/ CallSettle(p, r, intent, "finish") BY DEF Reconcile
<1> HIDE DEF intent
<1>5. Typed /\ LocalOK(p)'
  BY <1>1, <1>2, <1>3, <1>4, FinishOK, CallOK DEF Known
<1>6. Others(p) BY <1>4 DEF Finish, CallSettle, Goto, Others, TypeInv, TypeOK
<1> QED BY <1>2, <1>5, <1>6, LocalStepOK

\* run.cancelled, and the reconciliation it leads to.
LEMMA CancelRunOK ==
  ASSUME TypeInv, NEW p \in Procs, NEW r \in Runs, CancelRun(p, r) PROVE TypeInv'
<1>1. Known(r) /\ ledger[r].item \in Items
  BY DEF CancelRun, TypeInv, RunsKnown, Known
<1>2. [loc[p] EXCEPT !.target = r, !.item = ledger[r].item] \in Local
  <2>1. loc[p] \in Local BY DEF TypeInv, TypeOK
  <2> QED BY <1>1, <2>1 DEF Local
<1>3. Typed /\ Others(p)
  <2>1. loc' = [loc EXCEPT ![p] = [loc[p] EXCEPT !.target = r, !.item = ledger[r].item]]
    BY <1>1 DEF CancelRun, TypeInv, TypeOK
  <2>2. pc' \in [Procs -> Pcs] BY DEF CancelRun, Goto, TypeInv, TypeOK, Pcs, OtherPcs
  <2>3. loc' \in [Procs -> Local] BY <1>2, <2>1 DEF TypeInv, TypeOK
  <2>4. Others(p) BY <2>1 DEF CancelRun, Goto, TypeInv, TypeOK, Others
  <2> QED BY <2>2, <2>3, <2>4 DEF CancelRun, TypeInv, TypeOK, Typed
<1>4. /\ pc'[p] = "reconcile" /\ loc'[p].target = r /\ loc'[p].item \in Items
      /\ loc'[p].rec = loc[p].rec
  BY <1>1 DEF CancelRun, Goto, TypeInv, TypeOK, Local
<1>5. /\ UNCHANGED <<ledger, record, pr, faults>> /\ stale' \in [Runs -> BOOLEAN]
      /\ Append(r, "cancelled")
  BY DEF CancelRun, TypeInv, TypeOK
<1>6. LocalOK(p) BY DEF TypeInv
<1>7. LocalOK(p)'
  BY <1>1, <1>4, <1>5, <1>6 DEF LocalOK, RunKnownPcs, ClaimPcs, AdmitPcs, RunPcs,
     SettlePcs, ResumePcs, Known
<1> QED
  BY <1>1, <1>3, <1>5, <1>7, AppendOK DEF EvtStatus

\* A reconciliation of a record that names a Run.
LEMMA StartReconcileOK ==
  ASSUME TypeInv, NEW p \in Procs, NEW i \in Items, StartReconcile(p, i) PROVE TypeInv'
<1> DEFINE r == record[i].latest
<1>1. r \in Runs /\ Known(r)
  BY DEF StartReconcile, TypeInv, TypeOK, Record, RunsKnown
<1>2. [loc[p] EXCEPT !.target = r, !.item = i] \in Local
  <2>1. loc[p] \in Local BY DEF TypeInv, TypeOK
  <2> QED BY <1>1, <2>1 DEF Local
<1>3. Typed /\ Others(p) /\ FlagsTyped
  <2>1. loc' = [loc EXCEPT ![p] = [loc[p] EXCEPT !.target = r, !.item = i]]
    BY <1>1 DEF StartReconcile, TypeInv, TypeOK
  <2>2. pc' \in [Procs -> Pcs] BY DEF StartReconcile, Goto, TypeInv, TypeOK, Pcs, OtherPcs
  <2>3. loc' \in [Procs -> Local] BY <1>2, <2>1 DEF TypeInv, TypeOK
  <2>4. Others(p) BY <2>1 DEF StartReconcile, Goto, TypeInv, TypeOK, Others
  <2> QED BY <2>2, <2>3, <2>4 DEF StartReconcile, TypeInv, TypeOK, Typed, FlagsTyped
<1>4. /\ pc'[p] = "reconcile" /\ loc'[p].target = r /\ loc'[p].item = i
      /\ loc'[p].rec = loc[p].rec
  BY DEF StartReconcile, Goto, TypeInv, TypeOK, Local
<1>5. UNCHANGED <<ledger, record, evt>> BY DEF StartReconcile
<1>6. LocalOK(p) BY DEF TypeInv
<1>7. LocalOK(p)'
  BY <1>1, <1>4, <1>5, <1>6 DEF LocalOK, RunKnownPcs, ClaimPcs, AdmitPcs, RunPcs,
     SettlePcs, ResumePcs, Known
<1> QED BY <1>3, <1>5, <1>7, LocalStepOK

-----------------------------------------------------------------------------
(* The steps of settleWorkItemRun                                          *)

\* The updates of the row that a settlement makes.
LEMMA RowOK ==
  ASSUME TypeInv, NEW r, Known(r), NEW row \in Row,
         row.state # "none", row.item = ledger[r].item,
         row.token # NoProc => row.intent.status # "none",
         ledger' = [ledger EXCEPT ![r] = row], UNCHANGED <<record, evt>>
  PROVE  ledger' \in [Runs -> Row] /\ Keeps /\ RunsKnown'
<1>1. r \in Runs /\ ledger' \in [Runs -> Row] BY DEF TypeInv, TypeOK, Known
<1>2. ledger'[r] = row /\ \A s \in Runs \ {r} : ledger'[s] = ledger[s]
  BY <1>1 DEF TypeInv, TypeOK
<1>3. Keeps BY <1>2 DEF Keeps, Known
<1>4. RunsKnown' BY <1>2, <1>3 DEF RunsKnown, Keeps, TypeInv, Known
<1> QED BY <1>1, <1>3, <1>4

\* Completing or aborting a settlement leaves a typed row.
LEMMA EndOK ==
  ASSUME TypeInv, NEW r, Known(r), ledger' \in {ledger, Settled(r), Released(r)},
         UNCHANGED <<record, evt>>
  PROVE  ledger' \in [Runs -> Row] /\ Keeps /\ RunsKnown'
<1>1. ledger[r] \in Row /\ r \in Runs BY DEF Known, TypeInv, TypeOK
<1>2. CASE ledger' = ledger
  BY <1>2 DEF TypeInv, TypeOK, Keeps, RunsKnown, Known
<1>3. CASE ledger' = Settled(r)
  <2> DEFINE row == [ledger[r] EXCEPT !.state = "settled", !.token = NoProc]
  <2>1. row \in Row /\ row.state # "none" /\ row.token = NoProc /\ row.item = ledger[r].item
    BY <1>1 DEF Row
  <2>2. ledger' = [ledger EXCEPT ![r] = row]
    BY <1>1, <1>3 DEF Settled, TypeInv, TypeOK
  <2> HIDE DEF row
  <2> QED BY <2>1, <2>2, RowOK
<1>4. CASE ledger' = Released(r)
  <2> DEFINE row == [ledger[r] EXCEPT !.token = NoProc, !.intent = NoIntent]
  <2>1. row \in Row /\ row.state # "none" /\ row.token = NoProc /\ row.item = ledger[r].item
    BY <1>1, NullTypes DEF Row, Known
  <2>2. ledger' = [ledger EXCEPT ![r] = row]
    BY <1>1, <1>4 DEF Released, TypeInv, TypeOK
  <2> HIDE DEF row
  <2> QED BY <2>1, <2>2, RowOK
<1> QED BY <1>2, <1>3, <1>4

\* beginSettlement records the token and the intent.
LEMMA BeginSettlementOK ==
  ASSUME TypeInv, NEW p \in Procs, BeginSettlement(p) PROVE TypeInv'
<1> DEFINE r == loc[p].target
<1>1. /\ pc[p] = "settle" /\ Known(r) /\ r \in Runs /\ ledger[r] \in Row
      /\ loc[p] \in Local /\ loc[p].intent.status # "none"
  BY DEF BeginSettlement, At, TypeInv, TypeOK, LocalOK, SettlePcs, Known
<1>2. CASE /\ ledger' = [ledger EXCEPT ![r].token = p, ![r].intent = loc[p].intent]
           /\ stale' = [stale EXCEPT ![r] = FALSE]
           /\ Goto(p, "settleRead")
           /\ UNCHANGED <<loc, continuation>>
  <2> DEFINE row == [ledger[r] EXCEPT !.token = p, !.intent = loc[p].intent]
  <2>1. /\ row \in Row /\ row.state # "none" /\ row.item = ledger[r].item
        /\ row.intent.status # "none"
    BY <1>1 DEF Row, Local, Known
  <2>2. ledger' = [ledger EXCEPT ![r] = row]
    BY <1>1, <1>2 DEF TypeInv, TypeOK
  <2>3. ledger' \in [Runs -> Row] /\ Keeps /\ RunsKnown'
    <3> HIDE DEF row
    <3> QED BY <1>1, <2>1, <2>2, RowOK DEF BeginSettlement
  <2>4. Typed /\ Others(p) /\ FlagsTyped
    BY <1>2 DEF BeginSettlement, Goto, TypeInv, TypeOK, Typed, Others, FlagsTyped,
       Pcs, SettlePcs
  <2>5. pc'[p] = "settleRead" /\ loc' = loc BY <1>2 DEF Goto, TypeInv, TypeOK
  <2>6. LocalOK(p)' BY <1>1, <2>3, <2>5, MoveOK DEF SettlePcs, Keeps
  <2> QED
    BY <2>3, <2>4, <2>6, StepOK DEF BeginSettlement, TypeInv, TypeOK
<1>3. CASE Goto(p, "refused") /\ UNCHANGED <<loc, continuation, ledger, stale>>
  <2>1. pc'[p] = "refused" /\ loc' = loc BY <1>3 DEF Goto, TypeInv, TypeOK
  <2>2. LocalOK(p)' BY <1>1, <1>3, <2>1, MoveOK DEF SettlePcs, Known
  <2>3. Typed /\ Others(p) /\ FlagsTyped
    BY <1>3 DEF BeginSettlement, Goto, TypeInv, TypeOK, Typed, Others, FlagsTyped,
       Pcs, SettlePcs
  <2> QED BY <1>3, <2>2, <2>3, LocalStepOK DEF BeginSettlement
<1>4. ASSUME NEW result, Return(p, result), UNCHANGED <<ledger, stale>>
      PROVE  TypeInv'
  <2>1. Typed /\ LocalOK(p)' /\ Others(p)
    BY <1>1, <1>4, ReturnOK DEF SettlePcs, Known, Others
  <2>2. FlagsTyped BY <1>4 DEF BeginSettlement, FlagsTyped, TypeInv, TypeOK
  <2> QED BY <1>4, <2>1, <2>2, LocalStepOK DEF BeginSettlement
<1> QED BY <1>2, <1>3, <1>4 DEF BeginSettlement

\* The read of the settlement that was there first.
LEMMA ReadOwnerOK ==
  ASSUME TypeInv, NEW p \in Procs, ReadOwner(p) PROVE TypeInv'
<1> DEFINE r == loc[p].target
<1>1. pc[p] = "refused" /\ Known(r) /\ ledger[r] \in Row /\ loc[p] \in Local
  BY DEF ReadOwner, At, TypeInv, TypeOK, LocalOK, SettlePcs, Known
<1>2. FlagsTyped /\ UNCHANGED <<ledger, record, evt>>
  BY DEF ReadOwner, FlagsTyped, TypeInv, TypeOK
<1>3. CASE /\ Goto(p, "contend")
           /\ loc' = [loc EXCEPT ![p].seen = ledger[r].token,
                                 ![p].held = ledger[r].intent]
           /\ UNCHANGED continuation
  <2> DEFINE l == [loc[p] EXCEPT !.seen = ledger[r].token, !.held = ledger[r].intent]
  <2>1. l \in Local BY <1>1 DEF Local, Row
  <2>2. loc' = [loc EXCEPT ![p] = l] BY <1>3 DEF TypeInv, TypeOK
  <2>3. pc'[p] = "contend" /\ loc'[p] = l BY <1>3, <2>2 DEF Goto, TypeInv, TypeOK
  <2>4. Typed /\ Others(p) /\ FlagsTyped
    <3> HIDE DEF l
    <3> QED
      BY <1>3, <2>1, <2>2 DEF ReadOwner, Goto, TypeInv, TypeOK, Typed, Others,
         FlagsTyped, Pcs, SettlePcs
  <2>5. /\ l.item = loc[p].item /\ l.run = loc[p].run /\ l.target = loc[p].target
        /\ l.then = loc[p].then /\ l.intent = loc[p].intent /\ l.rec = loc[p].rec
    BY <1>1 DEF Local
  <2>6. ledger' = ledger BY <1>2
  <2> HIDE DEF l
  <2>7. LocalOK(p)'
    BY <1>1, <2>3, <2>5, <2>6, MoveOK DEF SettlePcs, Known
  <2> QED BY <1>3, <2>4, <2>7, LocalStepOK DEF ReadOwner
<1>4. CASE Return(p, "notActive")
  <2>1. Typed /\ LocalOK(p)' /\ Others(p)
    BY <1>1, <1>2, <1>4, ReturnOK DEF SettlePcs, Known, Others
  <2> QED BY <1>2, <2>1, LocalStepOK
<1> QED BY <1>3, <1>4 DEF ReadOwner

\* The read of the record that may prove a recovery.
LEMMA ReadContendedOK ==
  ASSUME TypeInv, NEW p \in Procs, ReadContended(p) PROVE TypeInv'
BY ReadOK DEF ReadContended, At, SettlePcs

\* The read of updateTaskRunState.
LEMMA ReadForPatchOK ==
  ASSUME TypeInv, NEW p \in Procs, ReadForPatch(p) PROVE TypeInv'
BY ReadOK DEF ReadForPatch, At, SettlePcs

\* A settlement that ends, or leaves, its row and returns.
LEMMA EndReturnOK ==
  ASSUME TypeInv, NEW p \in Procs, pc[p] \in SettlePcs, NEW result, Return(p, result),
         ledger' \in {ledger, Settled(loc[p].target), Released(loc[p].target)},
         FlagsTyped, UNCHANGED <<record, evt>>
  PROVE  TypeInv'
<1>1. Known(loc[p].target) BY DEF TypeInv, LocalOK
<1>2. ledger' \in [Runs -> Row] /\ Keeps /\ RunsKnown' BY <1>1, EndOK
<1>3. Typed /\ LocalOK(p)' /\ Others(p) BY <1>2, ReturnOK DEF Keeps, Others
<1> QED BY <1>2, <1>3, StepOK DEF TypeInv, TypeOK

\* recoverStaleSettlementAfterProof settles the row or nothing.
LEMMA RecoverStaleOK ==
  ASSUME TypeInv, NEW p \in Procs, RecoverStale(p) PROVE TypeInv'
<1>1. /\ pc[p] \in SettlePcs /\ UNCHANGED <<record, evt>>
      /\ ledger' \in {ledger, Settled(loc[p].target)}
      /\ \E result : Return(p, result)
  BY DEF RecoverStale, At, SettlePcs
<1>2. FlagsTyped BY DEF RecoverStale, FlagsTyped, TypeInv, TypeOK
<1> QED BY <1>1, <1>2, EndReturnOK

\* The two comparisons with the item's latest Run.
LEMMA ReadForSettlementOK ==
  ASSUME TypeInv, NEW p \in Procs, ReadForSettlement(p) PROVE TypeInv'
<1>1. /\ pc[p] \in SettlePcs /\ ledger' = ledger /\ loc' = loc
      /\ pc'[p] \in SettlePcs
  BY DEF ReadForSettlement, Goto, SettlePcs, TypeInv, TypeOK
<1>2. LocalOK(p)' BY <1>1, MoveOK DEF Known
<1>3. Typed /\ Others(p) /\ FlagsTyped
  BY DEF ReadForSettlement, Goto, TypeInv, TypeOK, Typed, Others, FlagsTyped, Pcs,
     SettlePcs
<1> QED BY <1>2, <1>3, LocalStepOK DEF ReadForSettlement

\* renewSettlementLease, or the error it leads to.
LEMMA RenewLeaseOK ==
  ASSUME TypeInv, NEW p \in Procs, RenewLease(p) PROVE TypeInv'
<1>1. pc[p] = "renew" /\ UNCHANGED <<ledger, record, evt>>
  BY DEF RenewLease, At
<1>2. FlagsTyped BY DEF RenewLease, FlagsTyped, TypeInv, TypeOK
<1>3. CASE Goto(p, "recheck") /\ UNCHANGED <<loc, continuation>>
  <2>1. pc'[p] = "recheck" BY <1>3 DEF Goto, TypeInv, TypeOK
  <2>2. LocalOK(p)' BY <1>1, <1>3, <2>1, MoveOK DEF SettlePcs, Known
  <2>3. Typed /\ Others(p)
    BY <1>3 DEF Goto, TypeInv, TypeOK, Typed, Others, Pcs, SettlePcs
  <2> QED BY <1>1, <1>2, <2>2, <2>3, LocalStepOK
<1>4. CASE \E result : Return(p, result)
  BY <1>1, <1>2, <1>4, EndReturnOK DEF SettlePcs
<1> QED BY <1>3, <1>4 DEF RenewLease

\* The write of the outcome to the record.
LEMMA WriteOutcomeOK ==
  ASSUME TypeInv, NEW p \in Procs, WriteOutcome(p) PROVE TypeInv'
<1> DEFINE rec == [loc[p].rec EXCEPT !.status = loc[p].intent.status,
                                     !.latest = loc[p].target, !.url = loc[p].intent.url]
<1>1. loc[p] \in Local BY DEF TypeInv, TypeOK
<1>2. pc[p] = "patchWrite" /\ Known(loc[p].target) /\ loc[p].intent.status # "none"
  BY DEF WriteOutcome, At, TypeInv, LocalOK, SettlePcs
<1>3. loc[p].rec \in Record /\ loc[p].intent.status \in ItemStatus /\ loc[p].intent.url \in BOOLEAN
  BY <1>1, <1>2 DEF Local, Intent, ItemStatus
<1>4. rec \in Record /\ rec.latest = loc[p].target
  BY <1>2, <1>3 DEF Record, Known
<1> QED
  BY <1>2, <1>4, WriteOK DEF WriteOutcome, SettlePcs

\* completeSettlement, by the owner of the row or not.
LEMMA CompleteSettlementOK ==
  ASSUME TypeInv, NEW p \in Procs, CompleteSettlement(p) PROVE TypeInv'
<1>1. /\ pc[p] \in SettlePcs /\ UNCHANGED <<record, evt>>
      /\ ledger' \in {ledger, Settled(loc[p].target)}
      /\ \E result : Return(p, result)
  BY DEF CompleteSettlement, SettlePcs
<1>2. FlagsTyped BY DEF CompleteSettlement, FlagsTyped, TypeInv, TypeOK
<1> QED BY <1>1, <1>2, EndReturnOK

\* An exception in the middle of a settlement.
LEMMA SettlementFaultOK ==
  ASSUME TypeInv, NEW p \in Procs, SettlementFault(p) PROVE TypeInv'
<1>1. /\ pc[p] \in SettlePcs /\ UNCHANGED <<record, evt>>
      /\ ledger' \in {ledger, Released(loc[p].target)}
      /\ Return(p, "error")
  BY DEF SettlementFault, SettlePcs
<1>2. FlagsTyped
  BY BoundAssumption DEF SettlementFault, FlagsTyped, TypeInv, TypeOK
<1> QED BY <1>1, <1>2, EndReturnOK

-----------------------------------------------------------------------------
(* Resumes, edits and the environment                                      *)

\* The continuation claim of a Run that is the item's latest.
LEMMA ClaimContinuationOK ==
  ASSUME TypeInv, NEW p \in Procs, NEW i \in Items, NEW r \in Runs,
         ClaimContinuation(p, i, r)
  PROVE  TypeInv'
<1>1. Known(r) BY DEF ClaimContinuation, Resumable, TypeInv, RunsKnown
<1>2. [loc[p] EXCEPT !.item = i, !.run = r] \in Local
  <2>1. loc[p] \in Local BY DEF TypeInv, TypeOK
  <2> QED BY <2>1 DEF Local
<1>3. Typed /\ Others(p) /\ FlagsTyped
  <2>1. loc' = [loc EXCEPT ![p] = [loc[p] EXCEPT !.item = i, !.run = r]]
    BY <1>1 DEF ClaimContinuation, TypeInv, TypeOK
  <2>2. pc' \in [Procs -> Pcs] BY DEF ClaimContinuation, Goto, TypeInv, TypeOK, Pcs, OtherPcs
  <2>3. loc' \in [Procs -> Local] BY <1>2, <2>1 DEF TypeInv, TypeOK
  <2>4. Others(p) BY <2>1 DEF ClaimContinuation, Goto, TypeInv, TypeOK, Others
  <2> QED BY <2>2, <2>3, <2>4 DEF ClaimContinuation, TypeInv, TypeOK, Typed, FlagsTyped
<1>4. /\ pc'[p] = "revalidate" /\ loc'[p].run = r /\ loc'[p].item = i
      /\ loc'[p].rec = loc[p].rec
  BY DEF ClaimContinuation, Goto, TypeInv, TypeOK, Local
<1>5. UNCHANGED <<ledger, record, evt>> BY DEF ClaimContinuation
<1>6. LocalOK(p) BY DEF TypeInv
<1>7. LocalOK(p)'
  BY <1>1, <1>4, <1>5, <1>6 DEF LocalOK, RunKnownPcs, ClaimPcs, AdmitPcs, RunPcs,
     SettlePcs, ResumePcs, Known
<1> QED BY <1>3, <1>5, <1>7, LocalStepOK

\* The comparison under the continuation claim.
LEMMA RevalidateOK ==
  ASSUME TypeInv, NEW p \in Procs, Revalidate(p) PROVE TypeInv'
<1>1. CASE Finish(p)
  BY <1>1, FinishOK, LocalStepOK DEF Revalidate, Finish, TypeInv, TypeOK,
     Others, FlagsTyped
<1>2. CASE Goto(p, "resumeRead") /\ UNCHANGED <<loc, continuation>>
  <2>1. Typed /\ Others(p) /\ FlagsTyped
    BY <1>2 DEF Revalidate, Goto, TypeInv, TypeOK, Typed, Others, FlagsTyped,
       Pcs, OtherPcs
  <2>2. pc[p] = "revalidate" /\ pc'[p] = "resumeRead" /\ loc' = loc /\ ledger' = ledger
    BY <1>2 DEF Revalidate, At, Goto, TypeInv, TypeOK
  <2>3. LocalOK(p)' BY <2>2, MoveOK DEF RunKnownPcs, ResumePcs, Known
  <2> QED BY <2>1, <2>3, LocalStepOK DEF Revalidate
<1> QED BY <1>1, <1>2 DEF Revalidate

\* The read of updateSchedulerWorkItem.
LEMMA ReadForResumeOK ==
  ASSUME TypeInv, NEW p \in Procs, ReadForResume(p) PROVE TypeInv'
BY ReadOK DEF ReadForResume, At, RunKnownPcs, ResumePcs

\* The write of updateSchedulerWorkItem.
LEMMA WriteResumeOK ==
  ASSUME TypeInv, NEW p \in Procs, WriteResume(p) PROVE TypeInv'
<1> DEFINE rec == [loc[p].rec EXCEPT !.status = "running", !.latest = loc[p].run,
                                     !.url = FALSE]
<1>1. loc[p] \in Local BY DEF TypeInv, TypeOK
<1>2. Known(loc[p].run)
  BY DEF WriteResume, At, TypeInv, LocalOK, RunKnownPcs, ResumePcs
<1>3. rec \in Record /\ rec.latest = loc[p].run
  BY <1>1, <1>2 DEF Local, Record, ItemStatus, Known
<1> QED
  BY <1>2, <1>3, WriteOK DEF WriteResume, At, RunKnownPcs, ResumePcs

\* The mark in the log before the Run resumes.
LEMMA MarkLogOK ==
  ASSUME TypeInv, NEW p \in Procs, MarkLog(p) PROVE TypeInv'
<1> DEFINE l == [loc[p] EXCEPT !.resumed = TRUE]
<1>1. pc[p] = "resumeMark" /\ Known(loc[p].run) /\ loc[p] \in Local
  BY DEF MarkLog, At, TypeInv, TypeOK, LocalOK, RunKnownPcs, ResumePcs
<1>2. l \in Local BY <1>1 DEF Local, TypeInv, TypeOK, Known
<1>3. loc' = [loc EXCEPT ![p] = l] BY DEF MarkLog, TypeInv, TypeOK
<1>4. Typed /\ Others(p) /\ FlagsTyped
  <2> HIDE DEF l
  <2> QED
    BY <1>1, <1>2, <1>3 DEF MarkLog, Goto, TypeInv, TypeOK, Typed, Others,
       FlagsTyped, Known, Pcs, OtherPcs
<1>5. pc'[p] = "resumeRun" /\ loc'[p] = l /\ ledger' = ledger
  BY <1>3 DEF MarkLog, Goto, TypeInv, TypeOK
<1>6. LocalOK(p)' BY <1>1, <1>5, MoveOK DEF RunKnownPcs, ResumePcs, Local, Known
<1> QED BY <1>4, <1>6, LocalStepOK DEF MarkLog

\* A resumed Run executes, or is refused because it was cancelled.
LEMMA ResumeRunOK ==
  ASSUME TypeInv, NEW p \in Procs, ResumeRun(p) PROVE TypeInv'
<1>1. pc[p] = "resumeRun" /\ Known(loc[p].run)
  BY DEF ResumeRun, At, TypeInv, LocalOK, RunKnownPcs, ResumePcs
<1>2. Typed /\ Others(p) /\ FlagsTyped
  BY DEF ResumeRun, Goto, TypeInv, TypeOK, Typed, Others, FlagsTyped, Pcs, RunPcs
<1>3. pc'[p] \in RunPcs /\ loc' = loc /\ ledger' = ledger
  BY DEF ResumeRun, Goto, TypeInv, TypeOK, RunPcs
<1>4. LocalOK(p)' BY <1>1, <1>3, MoveOK DEF RunKnownPcs, RunPcs, ResumePcs, Known
<1> QED BY <1>2, <1>4, LocalStepOK DEF ResumeRun

\* The read of an edit.
LEMMA StartEditOK ==
  ASSUME TypeInv, NEW p \in Procs, NEW i \in Items, StartEdit(p, i) PROVE TypeInv'
<1> DEFINE l == [loc[p] EXCEPT !.item = i, !.rec = record[i]]
<1>1. l \in Local /\ l.item = i /\ l.rec = record[i]
  <2>1. loc[p] \in Local /\ record[i] \in Record BY DEF TypeInv, TypeOK
  <2> QED BY <2>1 DEF Local
<1>2. loc' = [loc EXCEPT ![p] = l] BY DEF StartEdit, TypeInv, TypeOK
<1> HIDE DEF l
<1>3. Typed /\ Others(p) /\ FlagsTyped
  <2>1. pc' \in [Procs -> Pcs] BY DEF StartEdit, Goto, TypeInv, TypeOK, Pcs, OtherPcs
  <2>2. loc' \in [Procs -> Local] BY <1>1, <1>2 DEF TypeInv, TypeOK
  <2>3. Others(p) BY <1>2 DEF StartEdit, Goto, TypeInv, TypeOK, Others
  <2> QED BY <2>1, <2>2, <2>3 DEF StartEdit, TypeInv, TypeOK, Typed, FlagsTyped
<1>4. pc'[p] = "editWrite" /\ loc'[p] = l
  BY <1>2 DEF StartEdit, Goto, TypeInv, TypeOK
<1>5. UNCHANGED <<ledger, record, evt>> /\ record[i].edits < MaxEdits
  BY DEF StartEdit
<1>6. record[i].latest \in Runs => Known(record[i].latest) BY DEF TypeInv, RunsKnown
<1>7. LocalOK(p)'
  BY <1>1, <1>4, <1>5, <1>6 DEF LocalOK, RunKnownPcs, ClaimPcs, AdmitPcs, RunPcs,
     SettlePcs, ResumePcs, Known
<1> QED BY <1>3, <1>5, <1>7, LocalStepOK

\* The write of an edit from its stale copy.
LEMMA WriteEditOK ==
  ASSUME TypeInv, NEW p \in Procs, WriteEdit(p) PROVE TypeInv'
<1> DEFINE rec == [loc[p].rec EXCEPT !.edits = @ + 1]
<1>1. loc[p].rec \in Record /\ loc[p].rec.edits < MaxEdits
      /\ (loc[p].rec.latest \in Runs => Known(loc[p].rec.latest))
  BY DEF WriteEdit, At, TypeInv, TypeOK, LocalOK, Local
<1>2. rec \in Record /\ rec.latest = loc[p].rec.latest
  BY <1>1, BoundAssumption DEF Record
<1>3. record' = [record EXCEPT ![loc[p].item] = rec] BY DEF WriteEdit
<1> HIDE DEF rec
<1>4. UNCHANGED <<ledger, evt>> /\ FlagsTyped
  BY DEF WriteEdit, FlagsTyped, TypeInv, TypeOK
<1>5. record' \in [Items -> Record] /\ Keeps /\ RunsKnown'
  BY <1>1, <1>2, <1>3, <1>4 DEF TypeInv, TypeOK, Keeps, RunsKnown, Known
<1>6. Typed /\ LocalOK(p)' /\ Others(p)
  BY FinishOK DEF WriteEdit, Finish, TypeInv, TypeOK, Others
<1> QED BY <1>4, <1>5, <1>6, StepOK DEF TypeInv, TypeOK

\* A process that dies forgets its local variables.
LEMMA CrashOK ==
  ASSUME TypeInv, NEW p \in Procs, Crash(p) PROVE TypeInv'
<1>1. Typed /\ Others(p) /\ FlagsTyped
  BY NullLocal DEF Crash, Goto, TypeInv, TypeOK, Typed, Others, FlagsTyped, Pcs, OtherPcs
<1>2. pc'[p] = "dead" /\ loc'[p] = NoLocal BY DEF Crash, Goto, TypeInv, TypeOK
<1>3. LocalOK(p)'
  BY <1>2, NullAssumption DEF LocalOK, RunKnownPcs, ClaimPcs, AdmitPcs, RunPcs,
     SettlePcs, ResumePcs, NoLocal, InitRecord
<1> QED BY <1>1, <1>3, LocalStepOK DEF Crash

\* The age of a lease is no state of its own call.
LEMMA LeaseGrowsOldOK ==
  ASSUME TypeInv, NEW r \in Runs, LeaseGrowsOld(r) PROVE TypeInv'
<1>1. stale' \in [Runs -> BOOLEAN] BY DEF LeaseGrowsOld, TypeInv, TypeOK
<1>2. UNCHANGED <<ledger, record, evt, quiet, pr, continuation, pc, loc, faults>>
  BY DEF LeaseGrowsOld
<1> QED BY <1>1, <1>2 DEF TypeInv, TypeOK, LocalOK, RunsKnown, Known

-----------------------------------------------------------------------------
(* Type correctness                                                        *)

\* The initial stores satisfy the invariant.
LEMMA InitOK == ASSUME Init PROVE TypeInv
<1>1. TypeOK
  BY NullTypes, NullLocal, NullRow, BoundAssumption
  DEF Init, TypeOK, EvtStatus, Pcs, OtherPcs
<1>2. ASSUME NEW p \in Procs PROVE LocalOK(p)
  BY NullAssumption DEF Init, LocalOK, RunKnownPcs, ClaimPcs, AdmitPcs, RunPcs,
     SettlePcs, ResumePcs, NoLocal, InitRecord
<1>3. RunsKnown
  BY NullAssumption DEF Init, RunsKnown, NoRow, InitRecord
<1> QED BY <1>1, <1>2, <1>3 DEF TypeInv

\* Every step keeps the invariant: one lemma per action.
LEMMA NextOK == ASSUME TypeInv, [Next]_vars PROVE TypeInv'
<1>1. CASE UNCHANGED vars
  BY <1>1 DEF vars, TypeInv, TypeOK, LocalOK, RunsKnown, Known
<1>2. ASSUME NEW p \in Procs, AdmitStep(p) PROVE TypeInv'
  BY <1>2, CheckCandidateOK, ClaimRunOK, VerifyCandidateOK, RejectClaimOK,
     RecordAdmittedOK, ReadForAdmissionOK, WriteAdmissionOK, MarkProjectedOK,
     ConfirmDispatchOK DEF AdmitStep
<1>3. ASSUME NEW p \in Procs, RunStep(p) PROVE TypeInv'
  BY <1>3, CompleteRunOK, StopRunOK, AwaitApprovalOK, ThrowRunOK, RunnerErrorOK, ReconcileOK
  DEF RunStep
<1>4. ASSUME NEW p \in Procs, SettleStep(p) PROVE TypeInv'
  BY <1>4, BeginSettlementOK, ReadOwnerOK, ReadContendedOK, RecoverStaleOK, ReadForSettlementOK,
     RenewLeaseOK, ReadForPatchOK, WriteOutcomeOK, CompleteSettlementOK DEF SettleStep
<1>5. ASSUME NEW p \in Procs, ResumeStep(p) PROVE TypeInv'
  BY <1>5, RevalidateOK, ReadForResumeOK, WriteResumeOK, MarkLogOK, ResumeRunOK,
     WriteEditOK DEF ResumeStep
<1>6. ASSUME NEW p \in Procs, Call(p) PROVE TypeInv'
  BY <1>6, StartAdmissionOK, StartReconcileOK, StartEditOK, CancelRunOK,
     ClaimContinuationOK DEF Call
<1> QED
  BY <1>1, <1>2, <1>3, <1>4, <1>5, <1>6, PublishOK, CrashOK, AdmissionFaultOK,
     DispatchFaultOK, SettlementFaultOK, LeaseGrowsOldOK DEF Next, Step

\* The invariant behind TypeCorrect.
LEMMA TypeInvariant == Spec => []TypeInv
<1>1. Init => TypeInv BY InitOK
<1>2. TypeInv /\ [Next]_vars => TypeInv' BY NextOK
<1> QED BY <1>1, <1>2, PTL DEF Spec

\* Every variable keeps its type.  The records and event logs only ever name
\* Runs that have a ledger row, which the invariant behind this adds.
THEOREM TypeCorrect == Spec => []TypeOK
<1>1. TypeInv => TypeOK BY DEF TypeInv
<1> QED BY <1>1, TypeInvariant, PTL

-----------------------------------------------------------------------------
(* Single ownership                                                        *)

\* No row becomes an owner, and the owners keep their item and candidate.
Narrows(r) ==
  /\ ledger'[r].state = "active" => ledger[r].state = "active"
  /\ ledger'[r].state \in {"active", "settled"} =>
       /\ ledger[r].state \in {"active", "settled"}
       /\ ledger'[r].item = ledger[r].item /\ ledger'[r].cand = ledger[r].cand

\* Row r was claimed for an item that no row owned, from a candidate that no
\* row that owns, or owned, an item was admitted with.
Claims(r) ==
  /\ \A s \in Runs \ {r} : ledger'[s] = ledger[s]
  /\ \A s \in Runs : ledger[s].state = "active" => ledger[s].item # ledger'[r].item
  /\ \A s \in Runs : ledger[s].state \in {"active", "settled"}
       => ledger[s].item # ledger'[r].item \/ ledger[s].cand # ledger'[r].cand

LedgerStep == (\A r \in Runs : Narrows(r)) \/ (\E r \in Runs : Claims(r))

\* A step that does not write to the ledger.
LEMMA SameLedger == ASSUME UNCHANGED ledger PROVE LedgerStep
BY DEF LedgerStep, Narrows

\* A new owner is admitted only where there is neither an owner
\* nor an earlier admission of its candidate.
LEMMA ClaimStep ==
  ASSUME TypeInv, NEW p \in Procs, ClaimRun(p) PROVE LedgerStep
<1> DEFINE i == loc[p].item
           r == loc[p].run
           c == loc[p].cand
           row == [NoRow EXCEPT !.state = "active", !.item = i, !.cand = c, !.init = p]
<1>1. CASE UNCHANGED ledger BY <1>1, SameLedger
<1>2. CASE /\ ledger' = [ledger EXCEPT ![r] = row]
           /\ Live(i, c) = {} /\ Active(i) = {}
  <2>1. r \in Runs
    BY DEF ClaimRun, TypeInv, TypeOK, LocalOK, ClaimPcs
  <2>2. row.item = i /\ row.cand = c BY DEF NoRow
  <2>3. ledger'[r] = row /\ \A s \in Runs \ {r} : ledger'[s] = ledger[s]
    BY <1>2, <2>1 DEF TypeInv, TypeOK
  <2> HIDE DEF row
  <2>4. Claims(r)
    BY <1>2, <2>2, <2>3 DEF Claims, Live, Active
  <2> QED BY <2>1, <2>4 DEF LedgerStep
<1> QED BY <1>1, <1>2 DEF ClaimRun

\* A rejected row is no owner.
LEMMA RejectStep ==
  ASSUME TypeInv, NEW p \in Procs, RejectClaim(p) PROVE LedgerStep
<1>1. ASSUME NEW s \in Runs PROVE Narrows(s)
  BY DEF RejectClaim, Narrows, TypeInv, TypeOK, Row
<1> QED BY <1>1 DEF LedgerStep

\* The projection mark changes neither owner nor candidate.
LEMMA MarkStep ==
  ASSUME TypeInv, NEW p \in Procs, MarkProjected(p) PROVE LedgerStep
<1>1. ASSUME NEW s \in Runs PROVE Narrows(s)
  BY DEF MarkProjected, Narrows, TypeInv, TypeOK, Row
<1> QED BY <1>1 DEF LedgerStep

\* A settlement that begins changes neither owner nor candidate.
LEMMA BeginStep ==
  ASSUME TypeInv, NEW p \in Procs, BeginSettlement(p) PROVE LedgerStep
<1>1. ASSUME NEW s \in Runs PROVE Narrows(s)
  BY DEF BeginSettlement, Narrows, TypeInv, TypeOK, Row
<1> QED BY <1>1 DEF LedgerStep

\* A settled row keeps its item and candidate; a released one its state.
LEMMA EndStep ==
  ASSUME TypeInv, NEW r \in Runs,
         \/ ledger' = Settled(r) /\ ledger[r].state = "active"
         \/ ledger' \in {ledger, Released(r)}
  PROVE  LedgerStep
<1>1. ASSUME NEW s \in Runs PROVE Narrows(s)
  <2>1. ledger \in [Runs -> Row] /\ ledger[s] \in Row BY DEF TypeInv, TypeOK
  <2>2. CASE ledger' = Settled(r) /\ ledger[r].state = "active"
    BY <2>1, <2>2 DEF Settled, Narrows, Row
  <2>3. CASE ledger' = Released(r)
    BY <2>1, <2>3 DEF Released, Narrows, Row
  <2>4. CASE ledger' = ledger BY <2>4 DEF Narrows
  <2> QED BY <2>2, <2>3, <2>4
<1> QED BY <1>1 DEF LedgerStep

\* No step of a settlement makes an owner.
LEMMA SettleStepNarrows ==
  ASSUME TypeInv, NEW p \in Procs,
         RecoverStale(p) \/ CompleteSettlement(p) \/ SettlementFault(p)
  PROVE  LedgerStep
<1>1. loc[p].target \in Runs
  BY DEF RecoverStale, CompleteSettlement, SettlementFault, At, TypeInv, LocalOK,
     SettlePcs, Known
<1>2. \/ ledger' = Settled(loc[p].target) /\ ledger[loc[p].target].state = "active"
      \/ ledger' \in {ledger, Released(loc[p].target)}
  BY DEF RecoverStale, CompleteSettlement, SettlementFault, Holds
<1> QED BY <1>1, <1>2, EndStep

\* Every step narrows the ledger, except a claim.
LEMMA NextLedger == ASSUME TypeInv, [Next]_vars PROVE LedgerStep
<1>1. CASE UNCHANGED vars BY <1>1, SameLedger DEF vars
<1>2. ASSUME NEW p \in Procs, AdmitStep(p) PROVE LedgerStep
  BY <1>2, ClaimStep, RejectStep, MarkStep, SameLedger
  DEF AdmitStep, CheckCandidate, VerifyCandidate, RecordAdmitted, ReadForAdmission,
      WriteAdmission, ConfirmDispatch
<1>3. ASSUME NEW p \in Procs, RunStep(p) PROVE LedgerStep
  BY <1>3, SameLedger DEF RunStep, CompleteRun, StopRun, AwaitApproval, ThrowRun, RunnerError, Reconcile
<1>4. ASSUME NEW p \in Procs, SettleStep(p) PROVE LedgerStep
  BY <1>4, BeginStep, SettleStepNarrows, SameLedger
  DEF SettleStep, ReadOwner, ReadContended, ReadForSettlement, RenewLease, ReadForPatch, WriteOutcome
<1>5. ASSUME NEW p \in Procs, ResumeStep(p) PROVE LedgerStep
  BY <1>5, SameLedger
  DEF ResumeStep, Revalidate, ReadForResume, WriteResume, MarkLog, ResumeRun, WriteEdit
<1>6. ASSUME NEW p \in Procs, Call(p) PROVE LedgerStep
  BY <1>6, SameLedger
  DEF Call, StartAdmission, StartReconcile, StartEdit, CancelRun, ClaimContinuation
<1>7. ASSUME NEW p \in Procs, Publish(p) \/ Crash(p) \/ AdmissionFault(p) \/ DispatchFault(p)
      PROVE  LedgerStep
  BY <1>7, SameLedger DEF Publish, Crash, AdmissionFault, DispatchFault
<1>8. ASSUME NEW r \in Runs, LeaseGrowsOld(r) PROVE LedgerStep
  BY <1>8, SameLedger DEF LeaseGrowsOld
<1> QED
  BY <1>1, <1>2, <1>3, <1>4, <1>5, <1>6, <1>7, <1>8, SettleStepNarrows DEF Next, Step

\* At most one Run owns an item, whatever the calls, crashes, faults, resumes
\* and lost record updates do: only the claim makes an owner.
THEOREM OneOwnerAlways == Spec => []OneOwner
<1>1. Init => OneOwner BY DEF Init, OneOwner, NoRow
<1>2. TypeInv /\ OneOwner /\ [Next]_vars => OneOwner'
  <2> SUFFICES ASSUME TypeInv, OneOwner, [Next]_vars PROVE OneOwner'
    OBVIOUS
  <2>1. LedgerStep BY NextLedger
  <2>2. CASE \A r \in Runs : Narrows(r) BY <2>2 DEF OneOwner, Narrows
  <2>3. CASE \E r \in Runs : Claims(r)
    <3>1. PICK r \in Runs : Claims(r) BY <2>3
    <3> QED BY <3>1 DEF OneOwner, Claims
  <2> QED BY <2>1, <2>2, <2>3 DEF LedgerStep
<1> QED BY <1>1, <1>2, TypeInvariant, PTL DEF Spec

\* Two Runs of an item that ran, or may run, were admitted from different
\* snapshots: settling a Run does not let the candidate it consumed start again.
THEOREM SnapshotRunsOnceAlways == Spec => []SnapshotRunsOnce
<1>1. Init => SnapshotRunsOnce BY DEF Init, SnapshotRunsOnce, NoRow
<1>2. TypeInv /\ SnapshotRunsOnce /\ [Next]_vars => SnapshotRunsOnce'
  <2> SUFFICES ASSUME TypeInv, SnapshotRunsOnce, [Next]_vars PROVE SnapshotRunsOnce'
    OBVIOUS
  <2>1. LedgerStep BY NextLedger
  <2>2. CASE \A r \in Runs : Narrows(r) BY <2>2 DEF SnapshotRunsOnce, Narrows
  <2>3. CASE \E r \in Runs : Claims(r)
    <3>1. PICK r \in Runs : Claims(r) BY <2>3
    <3> QED BY <3>1 DEF SnapshotRunsOnce, Claims
  <2> QED BY <2>1, <2>2, <2>3 DEF LedgerStep
<1> QED BY <1>1, <1>2, TypeInvariant, PTL DEF Spec
=============================================================================
