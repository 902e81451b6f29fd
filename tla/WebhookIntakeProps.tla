------------------------- MODULE WebhookIntakeProps -------------------------
(* What WebhookIntake is checked for.                                       *)
EXTENDS WebhookIntake

\* docs/work-coordination.md: "A newer activation becomes the lead": the lead is
\* never older than the one before it, nor than a delivery that the wake knows,
\* also when it has forgotten what came first; and a wake is to run again only
\* for a lead that waits for the lease of another.
LeadFollows ==
  \A x \in Works : LET w == wake'[x] IN
    /\ \A d \in ToSet(w.ids) \cup ({wake[x].lead} \ {NoDelivery}) : Cursor[d] <= Cursor[w.lead]
    /\ w.rerun => w.state = "leased" /\ w.lead # w.owner
LeadIsNewest == [][LeadFollows]_vars

\* "an older worker cannot clear a lease the newer lead already took": a lease
\* that has not expired ends in a step of a server that processes its owner.
OwnerEndsLease ==
  \A x \in Works :
    wake[x].live /\ wake'[x].owner # wake[x].owner =>
      \E p \in Procs : loc[p].d = wake[x].owner /\ pc[p] \in {"finish", "release"}
OnlyOwnerEndsLease == [][OwnerEndsLease]_vars

\* "a crash in between retries the same delivery instead of dropping it": a
\* delivery is recorded as turned into a task only when the task exists, and
\* its wake is finished only then.
CompletedHasTask ==
  \A d \in Deliveries :
    /\ record[d].state = "completed" => task[d] # "none"
    /\ wake[Domain[d]].lead = d /\ wake[Domain[d]].state = "done" => task[d] # "none"

\* "An older or duplicate delivery of that issue is stored and does not create
\* a second task": a delivery is coalesced into another of the same work, which
\* is not itself given up.
ActivationKept ==
  \A d \in Deliveries : record[d].state = "coalesced" =>
    \E e \in Deliveries :
      Domain[e] = Domain[d] /\ record[e].state \notin {"none", "coalesced"}

\* A task that a user has taken up, or a rework request that is over, is never
\* made into a draft again by a delivery that is processed once more.
TaskKept == \A d \in Deliveries : task[d] = "taken" => task'[d] = "taken"
TakenTaskKept == [][TaskKept]_vars

\* An activation that is stored is settled although nobody sends it again.
StoredIsSettled ==
  \A d \in Deliveries : Kind[d] = "issue" /\ Stored(d) ~> ~Queued(record[d])
=============================================================================
