------------------------- MODULE RunAdmissionProps --------------------------
(* What RunAdmission is checked for.                                        *)
EXTENDS RunAdmission

\* An item has at most one Run that owns it, whatever else happens to its
\* record: the index run_admissions_one_active and the claim transaction.
OneOwner ==
  \A r, s \in Runs :
    /\ ledger[r].state = "active" /\ ledger[s].state = "active"
    /\ ledger[r].item = ledger[s].item
    => r = s

\* A snapshot of an item starts at most one Run (CONTEXT.md, "Run admission"):
\* two Runs that executed never started from the same candidate.
SnapshotRunsOnce ==
  \A r, s \in Runs :
    /\ {ledger[r].state, ledger[s].state} \subseteq {"active", "settled"}
    /\ ledger[r].item = ledger[s].item /\ ledger[r].cand = ledger[s].cand
    => r = s

\* A runner whose Run has not ended works for the owner of an item that shows
\* it: no other Run can be admitted while it executes.
ExecutingRunOwnsItem ==
  \A p \in Procs :
    LET r == loc[p].run IN
    At(p, "execute") /\ evt[r] \notin Ended =>
      /\ ledger[r].state = "active" /\ ledger[r].projected
      /\ record[ledger[r].item].status = "running"
      /\ record[ledger[r].item].latest = r

\* Ownership is given up only after the log says that the Run ended.
SettledRunEnded ==
  \A r \in Runs : ledger[r].state = "settled" => evt[r] \in Ended

\* A settled Run that is still its item's latest shows the outcome that its
\* settlement recorded: the item did not stay `running`.
SettledRunIsShown ==
  \A r \in Runs :
    LET i == ledger[r].item IN
    ledger[r].state = "settled" /\ record[i].latest = r
      => Shows(record[i], r, ledger[r].intent)

\* The process between beginSettlement and its write of the record holds the
\* row: "lost Run settlement lease before projection" cannot happen.
SettlerHoldsRow ==
  \A p \in Procs :
    pc[p] \in {"settleRead", "renew", "recheck", "patchRead", "patchWrite",
               "superseded"}
      => /\ Holds(p, loc[p].target)
         /\ ledger[loc[p].target].intent = loc[p].intent

\* The owner of an item is the Run of its active row; what the item's record
\* shows of that Run tells how far it is.
PhaseOf(i) ==
  LET rec == record[i] IN
  IF Active(i) = {} THEN "free"
  ELSE IF rec.latest \notin Active(i) THEN "taken"
  ELSE IF rec.status = "running" THEN "running" ELSE "shown"

Ownership ==
  INSTANCE RunOwnership
  WITH owner <- [i \in Items |-> Active(i)],
       phase <- [i \in Items |-> PhaseOf(i)],
       used  <- {r \in Runs : ledger[r].state # "none"}

\* The ledger, the record and the processes implement single ownership: the
\* refinement of RunOwnership.
OwnershipRefined == Ownership!Spec

\* A Run that is being executed, and was not cancelled, keeps its active row:
\* no other Run of its item can be admitted, even when an edit of the record
\* lost the update that shows the Run as running.
ExecutingRunKeepsRow ==
  \A p \in Procs :
    At(p, "execute") /\ evt[loc[p].run] # "cancelled"
      => ledger[loc[p].run].state = "active"

\* The continuation claim admits one runner per Run: a Run is never executed
\* by two processes, the one that started it and one that resumes it included.
OneRunnerPerRun ==
  \A p, q \in Procs :
    At(p, "execute") /\ At(q, "execute") /\ loc[p].run = loc[q].run => p = q

\* Once its latest Run ended, an item leaves `running`, unless its admission was
\* interrupted before the projection was marked (cancelRun: "settle the
\* Work item it belongs to so the Work item leaves `running`";
\* docs/remote-operations.md: "The task it belongs to leaves `running`").
EndedRunLeavesRunning ==
  \A i \in Items, r \in Runs :
    evt[r] \in Ended /\ ledger[r].projected /\ record[i].latest = r
      ~> ~(record[i].latest = r /\ record[i].status = "running")

\* The same promise as a safety property: when no call is in progress, an item
\* whose latest Run is settled is not left `running`; nothing would settle it.
SettledItemNotStuck ==
  (\A p \in Procs : At(p, "idle")) =>
    \A i \in Items, r \in Runs :
      ledger[r].state = "settled" /\ record[i].latest = r
        => record[i].status # "running"

\* docs/remote-operations.md: a cancelled Run "becomes terminal"; it is not
\* blocked, hence resumable, afterwards.
CancelledRunStaysEnded ==
  [][\A r \in Runs : evt[r] = "cancelled" => evt'[r] \in Ended]_evt
=============================================================================
