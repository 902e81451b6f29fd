------------------------------ MODULE WorkWakes ------------------------------
(***************************************************************************)
(* One row of table wakes (coordination/claims.ts): which delivery leads   *)
(* the work named by a domain, and who holds its lease.  Each operator is  *)
(* one SQLite transaction, as a function of the row it finds.              *)
(***************************************************************************)
EXTENDS Naturals, SequencesExt

CONSTANTS
  Deliveries, NoDelivery,
  Cursor,       \* Cursor[d]: when the event of d happened
  WakeLimit     \* WAKE_DELIVERY_LIMIT

ASSUME WakeAssumption ==
  /\ NoDelivery \notin Deliveries
  /\ Cursor \in [Deliveries -> Nat]
  /\ WakeLimit \in Nat \ {0}

\* No row is a wake that nobody leads.  The owner of a lease is
\* `delivery:<id>`: it names the delivery, and not the process that drains it.
\* live: the lease has not expired; the cursor is that of the lead.
Wake == [lead : Deliveries \cup {NoDelivery}, ids : Seq(Deliveries),
         state : {"pending", "leased", "done"},
         owner : Deliveries \cup {NoDelivery}, live : BOOLEAN, rerun : BOOLEAN]
NoWake == [lead |-> NoDelivery, ids |-> <<>>, state |-> "pending",
           owner |-> NoDelivery, live |-> FALSE, rerun |-> FALSE]

Capped(ids) == IF Len(ids) > WakeLimit THEN Tail(ids) ELSE ids

\* Slip: the newest delivery to arrive leads, however old its event.
Recorded_AnyOrder(w, d) ==
  IF w.lead = NoDelivery THEN [NoWake EXCEPT !.lead = d, !.ids = <<d>>]
  ELSE IF d \in ToSet(w.ids) THEN w
  ELSE [w EXCEPT !.ids = Capped(Append(@, d)), !.lead = d,
                 !.state = IF @ = "done" THEN "pending" ELSE @,
                 !.rerun = w.state = "leased" \/ @]

\* recordWake: a delivery of a newer event leads; an older one, or one of the
\* same moment, is only remembered.
Recorded(w, d) ==
  IF w.lead = NoDelivery THEN [NoWake EXCEPT !.lead = d, !.ids = <<d>>]
  ELSE IF d \in ToSet(w.ids) THEN w
  ELSE IF Cursor[d] <= Cursor[w.lead] THEN [w EXCEPT !.ids = Capped(Append(@, d))]
  ELSE [w EXCEPT !.ids = Capped(Append(@, d)), !.lead = d,
                 !.state = IF @ = "done" THEN "pending" ELSE @,
                 !.rerun = w.state = "leased" \/ @]

Leased(w, d) == w.state = "leased" /\ w.owner = d

\* Slip: the lead takes over a lease that has not expired.
Answer_NoLease(w, d) ==
  IF w.lead = NoDelivery THEN "absent" ELSE IF w.lead # d THEN "skip" ELSE "process"

\* What claimWake answers; a lease that d itself holds, or that expired, is
\* taken over.
Answer(w, d) ==
  IF w.lead = NoDelivery THEN "absent"
  ELSE IF w.lead # d THEN "skip"
  ELSE IF w.state = "leased" /\ w.owner # d /\ w.live THEN "blocked"
  ELSE "process"

\* Slip: a wake that is claimed is over.
Claimed_Done(w, d) ==
  IF Answer(w, d) = "process" THEN [w EXCEPT !.state = "done", !.rerun = FALSE] ELSE w

\* The row after claimWake.
Claimed(w, d) ==
  IF Answer(w, d) = "process"
  THEN [w EXCEPT !.state = "leased", !.owner = d, !.live = TRUE, !.rerun = FALSE]
  ELSE w

\* Slip: a state that no reader knows.
Free_Idle(w) == [w EXCEPT !.state = "idle", !.owner = NoDelivery, !.live = FALSE]

\* A lease given up.
Free(w) == [w EXCEPT !.state = "pending", !.owner = NoDelivery, !.live = FALSE,
                     !.rerun = FALSE]

\* finishWake releases the lease of an owner that no longer leads, or that is
\* to run again.
Releases(w, d) == Leased(w, d) /\ (w.lead # d \/ w.rerun)

\* The row after finishWake.  The lead may finish a wake that nobody leases.
Finished(w, d) ==
  IF w.lead = NoDelivery \/ (w.state = "leased" /\ w.owner # d) THEN w
  ELSE IF Releases(w, d) THEN Free(w)
  ELSE IF w.lead # d \/ w.rerun THEN w
  ELSE [w EXCEPT !.state = "done", !.owner = NoDelivery, !.live = FALSE]

\* The row after releaseWake.
Released(w, d) == IF Leased(w, d) THEN Free(w) ELSE w
=============================================================================
