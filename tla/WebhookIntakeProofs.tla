------------------------ MODULE WebhookIntakeProofs -------------------------
(***************************************************************************)
(* Theorems about WebhookIntake: the newest delivery leads its work, a     *)
(* lease is ended by its owner, a delivery is completed only with its task,*)
(* and a task that somebody took up is kept.                               *)
(***************************************************************************)
EXTENDS WebhookIntakeProps, TLAPS

-----------------------------------------------------------------------------
(* The transactions on a wake.                                             *)

\* A wake is leased for the delivery that led when it was claimed; it is to run
\* again only when another leads by now.
RowOK(w) ==
  /\ w.lead = NoDelivery => w.ids = <<>> /\ w.state = "pending"
  /\ \A d \in ToSet(w.ids) : Cursor[d] <= Cursor[w.lead]
  /\ w.rerun => w.state = "leased" /\ w.lead # w.owner
  /\ w.live => w.state = "leased"

LEMMA CappedIds ==
  ASSUME NEW ids \in Seq(Deliveries), NEW d \in Deliveries
  PROVE  /\ Capped(Append(ids, d)) \in Seq(Deliveries)
         /\ ToSet(Capped(Append(ids, d))) \subseteq ToSet(ids) \cup {d}
<1> DEFINE s == Append(ids, d)
<1>1. s \in Seq(Deliveries) /\ Len(s) = Len(ids) + 1
  OBVIOUS
<1>2. ToSet(s) \subseteq ToSet(ids) \cup {d}
  BY DEF ToSet
<1>3. Tail(s) \in Seq(Deliveries) /\ ToSet(Tail(s)) \subseteq ToSet(s)
  BY <1>1 DEF ToSet
<1> QED BY <1>1, <1>2, <1>3 DEF Capped

LEMMA RecordedRow ==
  ASSUME NEW w \in Wake, NEW d \in Deliveries, RowOK(w), w.owner # d
  PROVE  /\ Recorded(w, d) \in Wake /\ RowOK(Recorded(w, d))
         /\ Recorded(w, d).lead \in {w.lead, d}
         /\ Recorded(w, d).owner \in {w.owner, NoDelivery}
         /\ w.live => Recorded(w, d).owner = w.owner
         /\ Recorded(w, d).state = "done" => w.state = "done" /\ Recorded(w, d).lead = w.lead
<1> DEFINE ids == Capped(Append(w.ids, d))
<1>1. w.ids \in Seq(Deliveries) BY DEF Wake
<1>2. ids \in Seq(Deliveries) /\ ToSet(ids) \subseteq ToSet(w.ids) \cup {d}
  BY <1>1, CappedIds
<1>3. \A e \in Deliveries : Cursor[e] \in Nat BY WakeAssumption
<1>4. \A e \in ToSet(w.ids) : e \in Deliveries BY <1>1 DEF ToSet
<1> HIDE DEF ids
<1>5. CASE w.lead = NoDelivery
  <2>1. <<d>> \in Seq(Deliveries) /\ ToSet(<<d>>) = {d} BY DEF ToSet
  <2>2. Recorded(w, d) = [lead |-> d, ids |-> <<d>>, state |-> "pending",
                          owner |-> NoDelivery, live |-> FALSE, rerun |-> FALSE]
    BY <1>5 DEF Recorded, NoWake
  <2>3. ~w.live BY <1>5 DEF RowOK
  <2> QED BY <2>1, <2>2, <2>3, <1>3, WakeAssumption DEF RowOK, Wake
<1>6. CASE w.lead # NoDelivery /\ d \in ToSet(w.ids)
  BY <1>6 DEF Recorded
<1>7. CASE w.lead # NoDelivery /\ d \notin ToSet(w.ids) /\ Cursor[d] <= Cursor[w.lead]
  <2>1. Recorded(w, d) = [w EXCEPT !.ids = ids] BY <1>7 DEF Recorded, ids
  <2> QED BY <1>2, <1>7, <2>1 DEF RowOK, Wake
<1>8. CASE w.lead # NoDelivery /\ d \notin ToSet(w.ids) /\ ~(Cursor[d] <= Cursor[w.lead])
  <2>1. Recorded(w, d) = [w EXCEPT !.ids = ids, !.lead = d,
                                   !.state = IF @ = "done" THEN "pending" ELSE @,
                                   !.rerun = w.state = "leased" \/ @]
    BY <1>8 DEF Recorded, ids
  <2>2. \A e \in ToSet(ids) : Cursor[e] <= Cursor[d]
    BY <1>2, <1>3, <1>4, <1>8 DEF RowOK, Wake
  <2>3. /\ Recorded(w, d).lead = d /\ Recorded(w, d).ids = ids
        /\ Recorded(w, d).state = (IF w.state = "done" THEN "pending" ELSE w.state)
        /\ Recorded(w, d).owner = w.owner /\ Recorded(w, d).live = w.live
        /\ Recorded(w, d).rerun = (w.state = "leased" \/ w.rerun)
    BY <2>1 DEF Wake
  <2>4. Recorded(w, d) \in Wake BY <1>2, <2>1 DEF Wake
  <2>5. RowOK(Recorded(w, d)) BY <2>2, <2>3, WakeAssumption DEF RowOK, Wake
  <2> QED BY <2>3, <2>4, <2>5 DEF Wake
<1> QED BY <1>5, <1>6, <1>7, <1>8

LEMMA RecordedLead ==
  ASSUME NEW w \in Wake, NEW d \in Deliveries, w.lead # NoDelivery
  PROVE  w.lead \in Deliveries /\ Cursor[w.lead] <= Cursor[Recorded(w, d).lead]
<1>1. w.lead \in Deliveries BY DEF Wake
<1>2. Cursor[w.lead] \in Nat /\ Cursor[d] \in Nat BY <1>1, WakeAssumption
<1>3. CASE Cursor[d] <= Cursor[w.lead] \/ d \in ToSet(w.ids)
  <2>1. Recorded(w, d).lead = w.lead BY <1>3 DEF Recorded, Wake
  <2> QED BY <1>1, <1>2, <2>1
<1>4. CASE ~(Cursor[d] <= Cursor[w.lead]) /\ d \notin ToSet(w.ids)
  <2>1. Recorded(w, d).lead = d BY <1>4 DEF Recorded, Wake
  <2> QED BY <1>1, <1>2, <1>4, <2>1
<1> QED BY <1>3, <1>4

LEMMA ClaimedRow ==
  ASSUME NEW w \in Wake, NEW d \in Deliveries, RowOK(w)
  PROVE  /\ Claimed(w, d) \in Wake /\ RowOK(Claimed(w, d))
         /\ Claimed(w, d).lead = w.lead
         /\ Claimed(w, d).owner \in {w.owner, w.lead}
         /\ w.live => Claimed(w, d).owner = w.owner
         /\ Claimed(w, d).state = "done" => w.state = "done"
<1>1. CASE Answer(w, d) # "process" BY <1>1 DEF Claimed
<1>2. CASE Answer(w, d) = "process"
  <2>1. w.lead = d /\ (w.state = "leased" /\ w.live => w.owner = d)
    BY <1>2 DEF Answer
  <2>2. Claimed(w, d) = [w EXCEPT !.state = "leased", !.owner = d, !.live = TRUE, !.rerun = FALSE]
    BY <1>2 DEF Claimed
  <2>3. /\ Claimed(w, d).lead = w.lead /\ Claimed(w, d).ids = w.ids
        /\ Claimed(w, d).state = "leased" /\ Claimed(w, d).owner = d
        /\ ~Claimed(w, d).rerun
    BY <2>2 DEF Wake
  <2>4. Claimed(w, d) \in Wake BY <2>2 DEF Wake
  <2>5. RowOK(Claimed(w, d)) BY <2>1, <2>3, WakeAssumption DEF RowOK
  <2>6. w.live => w.owner = d BY <2>1 DEF RowOK
  <2> QED BY <2>1, <2>3, <2>4, <2>5, <2>6
<1> QED BY <1>1, <1>2

LEMMA FreeRow ==
  ASSUME NEW w \in Wake, RowOK(w)
  PROVE  /\ Free(w) \in Wake /\ RowOK(Free(w)) /\ Free(w).lead = w.lead
         /\ Free(w).owner = NoDelivery /\ Free(w).state = "pending"
BY DEF Free, RowOK, Wake

LEMMA FinishedRow ==
  ASSUME NEW w \in Wake, NEW d \in Deliveries, RowOK(w)
  PROVE  /\ Finished(w, d) \in Wake /\ RowOK(Finished(w, d))
         /\ Finished(w, d).lead = w.lead
         /\ Finished(w, d).owner \in {w.owner, NoDelivery}
         /\ w.live /\ Finished(w, d).owner # w.owner => w.owner = d
         /\ Finished(w, d).state = "done" => w.state = "done" \/ w.lead = d
<1>1. CASE Finished(w, d) = w BY <1>1
<1>2. CASE Finished(w, d) # w
  <2>1. w.lead # NoDelivery /\ ~(w.state = "leased" /\ w.owner # d)
    BY <1>2 DEF Finished
  <2>2. CASE Releases(w, d)
    BY <2>1, <2>2, FreeRow DEF Finished, Releases, Leased
  <2>3. CASE ~Releases(w, d)
    <3>1. w.lead = d /\ ~w.rerun BY <1>2, <2>1, <2>3 DEF Finished
    <3>2. Finished(w, d) = [w EXCEPT !.state = "done", !.owner = NoDelivery, !.live = FALSE]
      BY <2>1, <2>3, <3>1 DEF Finished
    <3> QED BY <2>1, <3>1, <3>2 DEF RowOK, Wake
  <2> QED BY <2>2, <2>3
<1> QED BY <1>1, <1>2

LEMMA ReleasedRow ==
  ASSUME NEW w \in Wake, NEW d \in Deliveries, RowOK(w)
  PROVE  /\ Released(w, d) \in Wake /\ RowOK(Released(w, d))
         /\ Released(w, d).lead = w.lead
         /\ Released(w, d).owner \in {w.owner, NoDelivery}
         /\ w.live /\ Released(w, d).owner # w.owner => w.owner = d
         /\ Released(w, d).state = "done" => w.state = "done"
BY FreeRow DEF Released, Leased


-----------------------------------------------------------------------------
(* Types.                                                                  *)

\* A drain that is at work has a delivery, and one that publishes a callback
\* again has read a settled record.
Quiet == {"idle", "pick", "dead"}
LocalOK(p) ==
  /\ pc[p] \notin Quiet => loc[p].d \in Deliveries
  /\ pc[p] = "publish" => loc[p].cur.state \in {"completed", "failed"}
TypeInv == TypeOK /\ \A p \in Procs : LocalOK(p)

LEMMA NullTypes ==
  /\ NoRecord \in Record /\ NoLocal \in Local /\ NoLock \in Lock /\ NoWake \in Wake
  /\ MaxSends \in Nat /\ MaxFaults \in Nat /\ MaxPasses \in Nat
<1>1. MaxSends \in Nat /\ MaxFaults \in Nat /\ MaxPasses \in Nat BY IntakeAssumption
<1> QED
  BY <1>1 DEF NoRecord, Record, States, NoLocal, Local, NoLock, Lock, NoWake, Wake

\* A step of the drain of p to c leaves the other drains where they are.
LEMMA DrainMoves ==
  ASSUME TypeInv, NEW p \in Procs, NEW c \in Pcs, NEW l \in Local,
         pc' = [pc EXCEPT ![p] = c], loc' = [loc EXCEPT ![p] = l],
         c \notin Quiet => l.d \in Deliveries,
         c = "publish" => l.cur.state \in {"completed", "failed"}
  PROVE  /\ pc' \in [Procs -> Pcs] /\ loc' \in [Procs -> Local]
         /\ \A q \in Procs : LocalOK(q)'
         /\ \A q \in Procs \ {p} : pc'[q] = pc[q] /\ loc'[q] = loc[q]
         /\ pc'[p] = c /\ loc'[p] = l
BY DEF TypeInv, TypeOK, LocalOK

LEMMA DrainStays ==
  ASSUME TypeInv, UNCHANGED <<pc, loc>>
  PROVE  /\ pc' \in [Procs -> Pcs] /\ loc' \in [Procs -> Local]
         /\ \A q \in Procs : LocalOK(q)'
BY DEF TypeInv, TypeOK, LocalOK

LEMMA DrainGoes ==
  ASSUME TypeInv, NEW p \in Procs, NEW c \in Pcs, Goto(p, c), UNCHANGED loc,
         c \notin Quiet => loc[p].d \in Deliveries,
         c = "publish" => loc[p].cur.state \in {"completed", "failed"}
  PROVE  /\ pc' \in [Procs -> Pcs] /\ loc' \in [Procs -> Local]
         /\ \A q \in Procs : LocalOK(q)'
BY DEF TypeInv, TypeOK, LocalOK, Goto

LEMMA SetType ==
  ASSUME TypeInv, NEW d \in Deliveries, NEW state \in States,
         NEW callback \in {"none", "pending", "failed", "succeeded"},
         Set(d, state, callback)
  PROVE  record' \in [Deliveries -> Record]
BY DEF TypeInv, TypeOK, Set, Record

LEMMA RespondType ==
  ASSUME TypeInv, NEW p \in Procs, NEW d \in Deliveries, Respond(p, d)
  PROVE  /\ acc' \in [Procs -> [Deliveries -> {"idle", "link", "wake"}]]
         /\ due' \in [Procs -> Nat]
BY DEF TypeInv, TypeOK, Respond

LEMMA AccType ==
  ASSUME TypeInv, NEW p \in Procs, NEW d \in Deliveries, NEW v \in {"idle", "link", "wake"},
         acc' = [acc EXCEPT ![p][d] = v]
  PROVE  acc' \in [Procs -> [Deliveries -> {"idle", "link", "wake"}]]
BY DEF TypeInv, TypeOK

\* Handlers.
LEMMA AcceptType ==
  ASSUME TypeInv, NEW p \in Procs, NEW d \in Deliveries, Accept(p, d)
  PROVE  TypeInv'
<1>1. sends' \in 0..MaxSends BY NullTypes DEF Accept, TypeInv, TypeOK
<1>2. /\ acc' \in [Procs -> [Deliveries -> {"idle", "link", "wake"}]]
      /\ due' \in [Procs -> Nat]
  <2>1. CASE Stored(d) BY <2>1, RespondType DEF Accept
  <2>2. CASE ~Stored(d)
    BY <2>2, AccType DEF Accept, TypeInv, TypeOK
  <2> QED BY <2>1, <2>2
<1> QED BY <1>1, <1>2, DrainStays DEF Accept, TypeInv, TypeOK

LEMMA CreateRecordType ==
  ASSUME TypeInv, NEW p \in Procs, NEW d \in Deliveries, CreateRecord(p, d)
  PROVE  TypeInv'
<1>1. /\ acc' \in [Procs -> [Deliveries -> {"idle", "link", "wake"}]]
      /\ due' \in [Procs -> Nat] /\ record' \in [Deliveries -> Record]
  <2>1. CASE Stored(d) BY <2>1, RespondType DEF CreateRecord, TypeInv, TypeOK
  <2>2. CASE ~Stored(d)
    <3>1. [NoRecord EXCEPT !.state = "queued"] \in Record BY DEF NoRecord, Record, States
    <3>2. record' = [record EXCEPT ![d] = [NoRecord EXCEPT !.state = "queued"]]
          /\ acc' = [acc EXCEPT ![p][d] = "wake"] /\ due' = due
      BY <2>2 DEF CreateRecord
    <3>3. record' \in [Deliveries -> Record] BY <3>1, <3>2 DEF TypeInv, TypeOK
    <3> QED BY <3>2, <3>3, AccType DEF TypeInv, TypeOK
  <2> QED BY <2>1, <2>2
<1> QED BY <1>1, DrainStays DEF CreateRecord, TypeInv, TypeOK, env

\* The steps that write a wake, of rows in Wake.
LEMMA RecordWakeType ==
  ASSUME TypeInv, NEW p \in Procs, NEW d \in Deliveries, RecordWake(p, d),
         wake' \in [Works -> Wake]
  PROVE  TypeInv'
BY DrainStays, RespondType DEF RecordWake, TypeInv, TypeOK, env

\* Drains.
LEMMA ListType ==
  ASSUME TypeInv, NEW p \in Procs, NEW passes \in 0..MaxPasses, List(p, passes)
  PROVE  /\ pc' \in [Procs -> Pcs] /\ loc' \in [Procs -> Local]
         /\ \A q \in Procs : LocalOK(q)'
<1> DEFINE l == [NoLocal EXCEPT !.todo = {d \in Deliveries : Queued(record[d])},
                                !.retry = {d \in Deliveries : Unreported(record[d])},
                                !.passes = passes]
<1>1. l \in Local BY NullTypes DEF NoLocal, Local
<1>2. pc' = [pc EXCEPT ![p] = "pick"] /\ loc' = [loc EXCEPT ![p] = l]
  BY DEF List, Goto
<1> HIDE DEF l
<1> QED BY <1>1, <1>2, DrainMoves DEF Quiet, Pcs

LEMMA DoneType ==
  ASSUME TypeInv, NEW p \in Procs, Done(p)
  PROVE  /\ pc' \in [Procs -> Pcs] /\ loc' \in [Procs -> Local]
         /\ \A q \in Procs : LocalOK(q)'
         /\ pc'[p] = "pick" /\ \A q \in Procs \ {p} : pc'[q] = pc[q] /\ loc'[q] = loc[q]
<1> DEFINE l == [loc[p] EXCEPT !.todo = @ \ {loc[p].d}, !.retry = @ \ {loc[p].d},
                        !.d = NoDelivery, !.cur = NoRecord, !.fate = "fail",
                        !.second = FALSE]
<1>1. l \in Local BY NullTypes DEF TypeInv, TypeOK, Local
<1>2. pc' = [pc EXCEPT ![p] = "pick"] BY DEF Done, Goto
<1>3. loc' = [loc EXCEPT ![p] = l] BY DEF Done
<1> HIDE DEF l
<1> QED BY <1>1, <1>2, <1>3, DrainMoves DEF Quiet, Pcs

LEMMA StartDrainType ==
  ASSUME TypeInv, NEW p \in Procs, StartDrain(p)
  PROVE  TypeInv'
<1>1. due' \in [Procs -> Nat] BY DEF StartDrain, TypeInv, TypeOK
<1>2. CASE MaxPasses > 0
  <2>1. 1 \in 0..MaxPasses BY <1>2, NullTypes
  <2> QED BY <1>1, <2>1, ListType DEF StartDrain, TypeInv, TypeOK, env
<1> QED BY <1>2, IntakeAssumption, NullTypes

LEMMA EndPassType ==
  ASSUME TypeInv, NEW p \in Procs, EndPass(p)
  PROVE  TypeInv'
<1>1. CASE loc[p].again /\ loc[p].passes < MaxPasses
  <2>1. loc[p].passes + 1 \in 0..MaxPasses
    BY <1>1, NullTypes DEF TypeInv, TypeOK, Local
  <2> QED BY <1>1, <2>1, ListType DEF EndPass, TypeInv, TypeOK, env
<1>2. CASE ~(loc[p].again /\ loc[p].passes < MaxPasses)
  <2>1. pc' = [pc EXCEPT ![p] = "idle"] /\ loc' = [loc EXCEPT ![p] = NoLocal]
    BY <1>2 DEF EndPass, Goto
  <2> QED BY <2>1, NullTypes, DrainMoves DEF EndPass, TypeInv, TypeOK, env, Quiet, Pcs
<1> QED BY <1>1, <1>2

LEMMA PickType ==
  ASSUME TypeInv, NEW p \in Procs, Pick(p)
  PROVE  TypeInv'
<1>1. PICK d \in loc[p].todo \cup loc[p].retry :
        loc' = [loc EXCEPT ![p].d = d, ![p].second = FALSE]
  BY DEF Pick
<1> DEFINE l == [loc[p] EXCEPT !.d = d, !.second = FALSE]
<1>2. l \in Local /\ l.d = d /\ d \in Deliveries BY <1>1 DEF TypeInv, TypeOK, Local
<1>3. loc' = [loc EXCEPT ![p] = l] /\ pc' = [pc EXCEPT ![p] = "create"]
  BY <1>1 DEF Pick, Goto
<1> HIDE DEF l
<1> QED BY <1>2, <1>3, DrainMoves DEF Pick, TypeInv, TypeOK, env, Pcs

LEMMA CreateLockType ==
  ASSUME TypeInv, NEW p \in Procs, CreateLock(p)
  PROVE  TypeInv'
<1>1. lock' \in [Deliveries -> Lock]
  BY DEF CreateLock, TypeInv, TypeOK, Lock
<1>2. Goto(p, "write") \/ Goto(p, "inspect") BY DEF CreateLock
<1>3. loc[p].d \in Deliveries BY DEF CreateLock, At, TypeInv, LocalOK, Quiet
<1> QED BY <1>1, <1>2, <1>3, DrainGoes DEF CreateLock, TypeInv, TypeOK, env, Pcs

LEMMA WriteLockType ==
  ASSUME TypeInv, NEW p \in Procs, WriteLock(p)
  PROVE  TypeInv'
<1>1. lock' \in [Deliveries -> Lock]
  BY DEF WriteLock, TypeInv, TypeOK, Lock
<1>2. Goto(p, "read") BY DEF WriteLock
<1>3. loc[p].d \in Deliveries BY DEF WriteLock, At, TypeInv, LocalOK, Quiet
<1> QED BY <1>1, <1>2, <1>3, DrainGoes DEF WriteLock, TypeInv, TypeOK, env, Pcs

LEMMA InspectLockType ==
  ASSUME TypeInv, NEW p \in Procs, InspectLock(p)
  PROVE  TypeInv'
<1>1. CASE Done(p) BY <1>1, DoneType DEF InspectLock, TypeInv, TypeOK, env
<1>2. CASE Goto(p, "steal") /\ UNCHANGED loc
  <2>1. loc[p].d \in Deliveries BY DEF InspectLock, At, TypeInv, LocalOK, Quiet
  <2> QED BY <1>2, <2>1, DrainGoes DEF InspectLock, TypeInv, TypeOK, env, Pcs
<1> QED BY <1>1, <1>2 DEF InspectLock

LEMMA StealLockType ==
  ASSUME TypeInv, NEW p \in Procs, StealLock(p)
  PROVE  TypeInv'
<1>1. lock' \in [Deliveries -> Lock]
  BY NullTypes DEF StealLock, TypeInv, TypeOK
<1>2. CASE Done(p) BY <1>1, <1>2, DoneType DEF StealLock, TypeInv, TypeOK, env
<1>3. CASE Goto(p, "create") /\ loc' = [loc EXCEPT ![p].second = TRUE]
  <2> DEFINE l == [loc[p] EXCEPT !.second = TRUE]
  <2>1. l \in Local /\ l.d = loc[p].d BY DEF TypeInv, TypeOK, Local
  <2>2. loc' = [loc EXCEPT ![p] = l] /\ pc' = [pc EXCEPT ![p] = "create"]
    BY <1>3 DEF Goto
  <2>3. loc[p].d \in Deliveries BY DEF StealLock, At, TypeInv, LocalOK, Quiet
  <2> HIDE DEF l
  <2> QED BY <1>1, <2>1, <2>2, <2>3, DrainMoves DEF StealLock, TypeInv, TypeOK, env, Pcs
<1> QED BY <1>2, <1>3 DEF StealLock

LEMMA ReadTokenType ==
  ASSUME TypeInv, NEW p \in Procs, ReadToken(p)
  PROVE  TypeInv'
<1>1. CASE Done(p) BY <1>1, DoneType DEF ReadToken, TypeInv, TypeOK, env
<1>2. CASE Goto(p, "remove") /\ UNCHANGED loc
  <2>1. loc[p].d \in Deliveries BY DEF ReadToken, At, TypeInv, LocalOK, Quiet
  <2> QED BY <1>2, <2>1, DrainGoes DEF ReadToken, TypeInv, TypeOK, env, Pcs
<1> QED BY <1>1, <1>2 DEF ReadToken

LEMMA RemoveLockType ==
  ASSUME TypeInv, NEW p \in Procs, RemoveLock(p)
  PROVE  TypeInv'
<1>1. lock' \in [Deliveries -> Lock]
  BY NullTypes DEF RemoveLock, TypeInv, TypeOK
<1> QED BY <1>1, DoneType DEF RemoveLock, TypeInv, TypeOK, env

LEMMA ReadRecordType ==
  ASSUME TypeInv, NEW p \in Procs, ReadRecord(p)
  PROVE  TypeInv'
<1> DEFINE l == [loc[p] EXCEPT !.cur = record[loc[p].d]]
<1>1. loc[p].d \in Deliveries BY DEF ReadRecord, At, TypeInv, LocalOK, Quiet
<1>2. l \in Local /\ l.d = loc[p].d /\ l.cur = record[loc[p].d]
  BY <1>1 DEF TypeInv, TypeOK, Local
<1>3. loc' = [loc EXCEPT ![p] = l] BY DEF ReadRecord
<1>4. PICK c \in {"publish", "unlock", "mark"} :
        /\ pc' = [pc EXCEPT ![p] = c]
        /\ c = "publish" => record[loc[p].d].state \in {"completed", "failed"}
  BY DEF ReadRecord, Goto, Unreported
<1> HIDE DEF l
<1> QED BY <1>1, <1>2, <1>3, <1>4, DrainMoves DEF ReadRecord, TypeInv, TypeOK, env, Pcs

LEMMA RetryCallbackType ==
  ASSUME TypeInv, NEW p \in Procs, RetryCallback(p)
  PROVE  TypeInv'
<1>1. loc[p].d \in Deliveries /\ loc[p].cur \in Record /\ loc[p].cur.state \in {"completed", "failed"}
  BY DEF RetryCallback, At, TypeInv, TypeOK, LocalOK, Quiet, Local
<1>2. record' \in [Deliveries -> Record]
  BY <1>1, SetType DEF RetryCallback, Record, States
<1>3. Goto(p, "unlock") BY DEF RetryCallback
<1> QED BY <1>1, <1>2, <1>3, DrainGoes DEF RetryCallback, TypeInv, TypeOK, env, Pcs

LEMMA MarkProcessingType ==
  ASSUME TypeInv, NEW p \in Procs, MarkProcessing(p)
  PROVE  TypeInv'
<1>1. loc[p].d \in Deliveries /\ loc[p].cur \in Record
  BY DEF MarkProcessing, At, TypeInv, TypeOK, LocalOK, Quiet, Local
<1>2. record' \in [Deliveries -> Record]
  BY <1>1, SetType DEF MarkProcessing, Record, States
<1>3. Goto(p, "claim") BY DEF MarkProcessing
<1> QED BY <1>1, <1>2, <1>3, DrainGoes DEF MarkProcessing, TypeInv, TypeOK, env, Pcs

LEMMA CoalesceType ==
  ASSUME TypeInv, NEW p \in Procs, Coalesce(p)
  PROVE  TypeInv'
<1>1. loc[p].d \in Deliveries /\ loc[p].cur \in Record
  BY DEF Coalesce, At, TypeInv, TypeOK, LocalOK, Quiet, Local
<1>2. record' \in [Deliveries -> Record]
  BY <1>1, SetType DEF Coalesce, Record, States
<1>3. Goto(p, "unlock") BY DEF Coalesce
<1> QED BY <1>1, <1>2, <1>3, DrainGoes DEF Coalesce, TypeInv, TypeOK, env, Pcs

LEMMA RequeueType ==
  ASSUME TypeInv, NEW p \in Procs, Requeue(p)
  PROVE  TypeInv'
<1>1. loc[p].d \in Deliveries /\ loc[p].cur \in Record
  BY DEF Requeue, At, TypeInv, TypeOK, LocalOK, Quiet, Local
<1>2. record' \in [Deliveries -> Record]
  BY <1>1, SetType DEF Requeue, Record, States
<1>3. Goto(p, "unlock") BY DEF Requeue
<1> QED BY <1>1, <1>2, <1>3, DrainGoes DEF Requeue, TypeInv, TypeOK, env, Pcs

LEMMA CompleteType ==
  ASSUME TypeInv, NEW p \in Procs, Complete(p)
  PROVE  TypeInv'
<1>1. loc[p].d \in Deliveries /\ loc[p].cur \in Record
  BY DEF Complete, At, TypeInv, TypeOK, LocalOK, Quiet, Local
<1>2. record' \in [Deliveries -> Record]
  BY <1>1, SetType DEF Complete, Record, States
<1>3. Goto(p, "finish") BY DEF Complete
<1> QED BY <1>1, <1>2, <1>3, DrainGoes DEF Complete, TypeInv, TypeOK, env, Pcs

LEMMA FailType ==
  ASSUME TypeInv, NEW p \in Procs, Fail(p)
  PROVE  TypeInv'
<1>1. loc[p].d \in Deliveries /\ loc[p].cur \in Record
  BY DEF Fail, At, TypeInv, TypeOK, LocalOK, Quiet, Local
<1>2. record' \in [Deliveries -> Record]
  BY <1>1, SetType DEF Fail, Record, States
<1>3. Goto(p, "report") \/ Goto(p, "unlock") BY DEF Fail
<1> QED BY <1>1, <1>2, <1>3, DrainGoes DEF Fail, TypeInv, TypeOK, env, Pcs

LEMMA ReportType ==
  ASSUME TypeInv, NEW p \in Procs, Report(p)
  PROVE  TypeInv'
<1>1. loc[p].d \in Deliveries /\ loc[p].cur \in Record
  BY DEF Report, At, TypeInv, TypeOK, LocalOK, Quiet, Local
<1>2. record' \in [Deliveries -> Record]
  BY <1>1, SetType DEF Report, Record, States
<1>3. Goto(p, "unlock") BY DEF Report
<1> QED BY <1>1, <1>2, <1>3, DrainGoes DEF Report, TypeInv, TypeOK, env, Pcs

LEMMA LookUpType ==
  ASSUME TypeInv, NEW p \in Procs, LookUp(p)
  PROVE  TypeInv'
<1>1. loc[p].d \in Deliveries BY DEF LookUp, At, TypeInv, LocalOK, Quiet
<1>2. CASE UNCHANGED loc
  <2>1. Goto(p, "make") \/ Goto(p, "release") \/ Goto(p, "complete") BY DEF LookUp
  <2> QED BY <1>1, <1>2, <2>1, DrainGoes DEF LookUp, TypeInv, TypeOK, env, Pcs
<1>3. CASE Goto(p, "release") /\ loc' = [loc EXCEPT ![p].fate = "requeue"]
  <2> DEFINE l == [loc[p] EXCEPT !.fate = "requeue"]
  <2>1. l \in Local /\ l.d = loc[p].d BY DEF TypeInv, TypeOK, Local
  <2>2. loc' = [loc EXCEPT ![p] = l] /\ pc' = [pc EXCEPT ![p] = "release"]
    BY <1>3 DEF Goto
  <2> HIDE DEF l
  <2> QED BY <1>1, <2>1, <2>2, DrainMoves DEF LookUp, TypeInv, TypeOK, env, Pcs
<1> QED BY <1>2, <1>3 DEF LookUp

LEMMA MakeTaskType ==
  ASSUME TypeInv, NEW p \in Procs, MakeTask(p)
  PROVE  TypeInv'
<1>1. loc[p].d \in Deliveries BY DEF MakeTask, At, TypeInv, LocalOK, Quiet
<1>2. task' \in [Deliveries -> {"none", "draft", "taken"}]
  BY DEF MakeTask, TypeInv, TypeOK
<1> QED BY <1>1, <1>2, DrainGoes DEF MakeTask, TypeInv, TypeOK, env, Pcs

LEMMA ClaimWakeType ==
  ASSUME TypeInv, NEW p \in Procs, ClaimWake(p), wake' \in [Works -> Wake]
  PROVE  TypeInv'
<1>1. loc[p].d \in Deliveries BY DEF ClaimWake, At, TypeInv, LocalOK, Quiet
<1>2. Goto(p, "coalesce") \/ Goto(p, "requeue") \/ Goto(p, "look") BY DEF ClaimWake
<1> QED BY <1>1, <1>2, DrainGoes DEF ClaimWake, TypeInv, TypeOK, env, Pcs

LEMMA FinishWakeType ==
  ASSUME TypeInv, NEW p \in Procs, FinishWake(p), wake' \in [Works -> Wake]
  PROVE  TypeInv'
<1> DEFINE l == [loc[p] EXCEPT !.again = @ \/ Releases(wake[Domain[loc[p].d]], loc[p].d)]
<1>1. loc[p].d \in Deliveries BY DEF FinishWake, At, TypeInv, LocalOK, Quiet
<1>2. l \in Local /\ l.d = loc[p].d
  <2>1. loc[p].again \in BOOLEAN BY DEF TypeInv, TypeOK, Local
  <2>2. \A b \in BOOLEAN : [loc[p] EXCEPT !.again = b] \in Local
    BY DEF TypeInv, TypeOK, Local
  <2>3. (loc[p].again \/ Releases(wake[Domain[loc[p].d]], loc[p].d)) \in BOOLEAN
    BY <2>1 DEF Releases, Leased
  <2> QED BY <2>2, <2>3 DEF TypeInv, TypeOK, Local
<1>3. loc' = [loc EXCEPT ![p] = l] /\ pc' = [pc EXCEPT ![p] = "unlock"]
  BY DEF FinishWake, Goto
<1> HIDE DEF l
<1> QED BY <1>1, <1>2, <1>3, DrainMoves DEF FinishWake, TypeInv, TypeOK, env, Pcs

LEMMA ReleaseWakeType ==
  ASSUME TypeInv, NEW p \in Procs, ReleaseWake(p), wake' \in [Works -> Wake]
  PROVE  TypeInv'
<1>1. loc[p].d \in Deliveries /\ loc[p].fate \in {"fail", "requeue"}
  BY DEF ReleaseWake, At, TypeInv, TypeOK, LocalOK, Quiet, Local
<1> QED BY <1>1, DrainGoes DEF ReleaseWake, TypeInv, TypeOK, env, Pcs

\* The environment.
LEMMA ThrowsType ==
  ASSUME TypeInv, NEW p \in Procs, Throws(p)
  PROVE  TypeInv'
<1>1. faults' \in 0..MaxFaults /\ sends' = sends
  BY NullTypes DEF Throws, Fault, TypeInv, TypeOK
<1>2. /\ pc' \in [Procs -> Pcs] /\ loc' \in [Procs -> Local]
      /\ \A q \in Procs : LocalOK(q)'
  <2>1. CASE Done(p) BY <2>1, DoneType
  <2>2. CASE /\ pc[p] \notin Quiet /\ UNCHANGED loc
             /\ Goto(p, "fail") \/ Goto(p, "release") \/ Goto(p, "unlock")
    <3>1. loc[p].d \in Deliveries BY <2>2 DEF TypeInv, LocalOK
    <3> QED BY <2>2, <3>1, DrainGoes DEF Pcs
  <2> QED BY <2>1, <2>2 DEF Throws, At, Quiet
<1> QED BY <1>1, <1>2 DEF Throws, TypeInv, TypeOK

LEMMA AbortsType ==
  ASSUME TypeInv, NEW p \in Procs, Aborts(p)
  PROVE  TypeInv'
<1>1. faults' \in 0..MaxFaults /\ sends' = sends
  BY NullTypes DEF Aborts, Fault, TypeInv, TypeOK
<1>2. due' \in [Procs -> Nat] BY DEF Aborts, TypeInv, TypeOK
<1>3. /\ pc' \in [Procs -> Pcs] /\ loc' \in [Procs -> Local]
      /\ \A q \in Procs : LocalOK(q)'
  <2>1. CASE UNCHANGED <<pc, loc>> BY <2>1, DrainStays
  <2>2. CASE Goto(p, "idle") /\ loc' = [loc EXCEPT ![p] = NoLocal]
    <3>1. pc' = [pc EXCEPT ![p] = "idle"] BY <2>2 DEF Goto
    <3> QED BY <2>2, <3>1, NullTypes, DrainMoves DEF Quiet, Pcs
  <2>3. CASE /\ pc[p] \notin Quiet /\ Goto(p, "unlock")
             /\ loc' = [loc EXCEPT ![p].todo = {}, ![p].retry = {}, ![p].again = FALSE]
    <3> DEFINE l == [loc[p] EXCEPT !.todo = {}, !.retry = {}, !.again = FALSE]
    <3>1. l \in Local /\ l.d \in Deliveries
      BY <2>3 DEF TypeInv, TypeOK, LocalOK, Local
    <3>2. pc' = [pc EXCEPT ![p] = "unlock"] /\ loc' = [loc EXCEPT ![p] = l]
      BY <2>3 DEF Goto
    <3> HIDE DEF l
    <3> QED BY <3>1, <3>2, DrainMoves DEF Pcs
  <2> QED BY <2>1, <2>2, <2>3 DEF Aborts, At, Quiet
<1> QED BY <1>1, <1>2, <1>3 DEF Aborts, TypeInv, TypeOK

LEMMA RestartType ==
  ASSUME TypeInv, NEW p \in Procs, Restart(p)
  PROVE  TypeInv'
<1>1. faults' \in 0..MaxFaults /\ sends' = sends
  BY NullTypes DEF Restart, Fault, TypeInv, TypeOK
<1>2. lock' \in [Deliveries -> Lock]
  <2>1. \A d \in Deliveries : [lock[d] EXCEPT !.owner = Dead] \in Lock
    BY DEF TypeInv, TypeOK, Lock
  <2>2. \A d \in Deliveries : lock[d] \in Lock BY DEF TypeInv, TypeOK
  <2> QED BY <2>1, <2>2 DEF Restart
<1>3. /\ acc' \in [Procs -> [Deliveries -> {"idle", "link", "wake"}]]
      /\ due' \in [Procs -> Nat]
  BY DEF Restart, TypeInv, TypeOK
<1>4. PICK c \in {"idle", "dead"} : pc' = [pc EXCEPT ![p] = c]
  BY DEF Restart, Goto
<1>5. loc' = [loc EXCEPT ![p] = NoLocal] BY DEF Restart
<1>6. /\ pc' \in [Procs -> Pcs] /\ loc' \in [Procs -> Local]
      /\ \A q \in Procs : LocalOK(q)'
  BY <1>4, <1>5, NullTypes, DrainMoves DEF Pcs, Quiet
<1> QED BY <1>1, <1>2, <1>3, <1>6 DEF Restart, TypeInv, TypeOK

LEMMA PassesType ==
  ASSUME TypeInv, NEW busy \in BOOLEAN, Passes(busy)
  PROVE  faults' \in 0..MaxFaults /\ sends' = sends
BY NullTypes DEF Passes, Fault, env, TypeInv, TypeOK

LEMMA LockExpiresType ==
  ASSUME TypeInv, NEW d \in Deliveries, LockExpires(d)
  PROVE  TypeInv'
<1>1. lock' \in [Deliveries -> Lock] BY DEF LockExpires, TypeInv, TypeOK, Lock
<1>2. Busy(d) \in BOOLEAN BY DEF Busy
<1> QED BY <1>1, <1>2, PassesType, DrainStays DEF LockExpires, TypeInv, TypeOK

LEMMA WakeExpiresType ==
  ASSUME TypeInv, NEW x \in Works, WakeExpires(x), wake' \in [Works -> Wake]
  PROVE  TypeInv'
<1>1. Busy(wake[x].owner) \in BOOLEAN BY DEF Busy
<1> QED BY <1>1, PassesType, DrainStays DEF WakeExpires, TypeInv, TypeOK

LEMMA TakeTaskType ==
  ASSUME TypeInv, NEW d \in Deliveries, TakeTask(d)
  PROVE  TypeInv'
<1>1. task' \in [Deliveries -> {"none", "draft", "taken"}]
  BY DEF TakeTask, TypeInv, TypeOK
<1> QED BY <1>1, DrainStays DEF TakeTask, TypeInv, TypeOK, env

-----------------------------------------------------------------------------
(* Leads and leases.                                                       *)

\* A delivery is recorded in its wake once, and has never led before.
FirstWake(p, d) ==
  acc[p][d] = "wake" =>
    /\ Stored(d) /\ \A q \in Procs \ {p} : acc[q][d] # "wake"
    /\ wake[Domain[d]].lead # d /\ wake[Domain[d]].owner # d
WakesInv ==
  /\ \A x \in Works : RowOK(wake[x])
  /\ \A x \in Works, d \in Deliveries : d \in {wake[x].lead, wake[x].owner} => Stored(d)
  /\ \A p \in Procs, d \in Deliveries : FirstWake(p, d)

\* What a drain knows of the task of its delivery, and what is recorded of it.
TaskKnown(p) ==
  /\ pc[p] \in {"complete", "finish"} => task[loc[p].d] # "none"
  /\ pc[p] = "publish" /\ loc[p].cur.state = "completed" => task[loc[p].d] # "none"
TasksInv ==
  /\ \A d \in Deliveries : record[d].state = "completed" => task[d] # "none"
  /\ \A x \in Works : wake[x].state = "done" =>
       wake[x].lead \in Deliveries /\ task[wake[x].lead] # "none"
  /\ \A p \in Procs : TaskKnown(p)

IntakeInv == TypeInv /\ WakesInv /\ TasksInv

LEMMA DomainInWorks ==
  ASSUME NEW d \in Deliveries PROVE Domain[d] \in Works
BY DEF Works

\* Records and tasks stay.
Kept ==
  \A d \in Deliveries :
    /\ Stored(d) => Stored(d)'
    /\ task[d] # "none" => task'[d] # "none"

\* What a step of a drain does to the wakes.
WakeStep(p) ==
  \A x \in Works :
    LET w == wake[x] IN
    /\ wake'[x] \in Wake /\ RowOK(wake'[x])
    /\ wake'[x].lead = w.lead
    /\ wake'[x].owner \in {w.owner, w.lead, NoDelivery}
    /\ w.live /\ wake'[x].owner # w.owner =>
         loc[p].d = w.owner /\ pc[p] \in {"finish", "release"}
    /\ wake'[x].state = "done" => w.state = "done" \/ (w.lead = loc[p].d /\ pc[p] = "finish")

LEMMA WakesUnchanged ==
  ASSUME IntakeInv, NEW p \in Procs, UNCHANGED wake
  PROVE  WakeStep(p) /\ wake' \in [Works -> Wake]
BY DEF IntakeInv, WakesInv, WakeStep, TypeInv, TypeOK

LEMMA ClaimWakeStep ==
  ASSUME IntakeInv, NEW p \in Procs, ClaimWake(p)
  PROVE  WakeStep(p) /\ wake' \in [Works -> Wake]
<1> DEFINE d == loc[p].d
           y == Domain[d]
<1>1. d \in Deliveries BY DEF ClaimWake, At, IntakeInv, TypeInv, LocalOK, Quiet
<1>2. y \in Works /\ wake \in [Works -> Wake]
  BY <1>1, DomainInWorks DEF IntakeInv, TypeInv, TypeOK
<1>3. wake' = [wake EXCEPT ![y] = Claimed(wake[y], d)] BY DEF ClaimWake
<1> HIDE DEF y, d
<1>4. RowOK(wake[y]) /\ wake[y] \in Wake BY <1>2 DEF IntakeInv, WakesInv
<1>5. /\ Claimed(wake[y], d) \in Wake /\ RowOK(Claimed(wake[y], d))
      /\ Claimed(wake[y], d).lead = wake[y].lead
      /\ Claimed(wake[y], d).owner \in {wake[y].owner, wake[y].lead}
      /\ wake[y].live => Claimed(wake[y], d).owner = wake[y].owner
      /\ Claimed(wake[y], d).state = "done" => wake[y].state = "done"
  BY <1>1, <1>4, ClaimedRow
<1>6. \A x \in Works : RowOK(wake[x]) BY DEF IntakeInv, WakesInv
<1>7. wake'[y] = Claimed(wake[y], d) /\ \A x \in Works \ {y} : wake'[x] = wake[x]
  BY <1>2, <1>3
<1> QED BY <1>2, <1>3, <1>5, <1>6, <1>7 DEF WakeStep

LEMMA FinishWakeStep ==
  ASSUME IntakeInv, NEW p \in Procs, FinishWake(p)
  PROVE  WakeStep(p) /\ wake' \in [Works -> Wake]
<1> DEFINE d == loc[p].d
           y == Domain[d]
<1>1. d \in Deliveries /\ pc[p] = "finish"
  BY DEF FinishWake, At, IntakeInv, TypeInv, LocalOK, Quiet
<1>2. y \in Works /\ wake \in [Works -> Wake]
  BY <1>1, DomainInWorks DEF IntakeInv, TypeInv, TypeOK
<1>3. wake' = [wake EXCEPT ![y] = Finished(wake[y], d)] BY DEF FinishWake
<1>4. loc[p].d = d OBVIOUS
<1> HIDE DEF y, d
<1>5. RowOK(wake[y]) /\ wake[y] \in Wake BY <1>2 DEF IntakeInv, WakesInv
<1>6. /\ Finished(wake[y], d) \in Wake /\ RowOK(Finished(wake[y], d))
      /\ Finished(wake[y], d).lead = wake[y].lead
      /\ Finished(wake[y], d).owner \in {wake[y].owner, NoDelivery}
      /\ wake[y].live /\ Finished(wake[y], d).owner # wake[y].owner => wake[y].owner = d
      /\ Finished(wake[y], d).state = "done" => wake[y].state = "done" \/ wake[y].lead = d
  BY <1>1, <1>5, FinishedRow
<1>7. \A x \in Works : RowOK(wake[x]) BY DEF IntakeInv, WakesInv
<1>8. wake'[y] = Finished(wake[y], d) /\ \A x \in Works \ {y} : wake'[x] = wake[x]
  BY <1>2, <1>3
<1> QED BY <1>1, <1>2, <1>3, <1>4, <1>6, <1>7, <1>8 DEF WakeStep

LEMMA ReleaseWakeStep ==
  ASSUME IntakeInv, NEW p \in Procs, ReleaseWake(p)
  PROVE  WakeStep(p) /\ wake' \in [Works -> Wake]
<1> DEFINE d == loc[p].d
           y == Domain[d]
<1>1. d \in Deliveries /\ pc[p] = "release"
  BY DEF ReleaseWake, At, IntakeInv, TypeInv, LocalOK, Quiet
<1>2. y \in Works /\ wake \in [Works -> Wake]
  BY <1>1, DomainInWorks DEF IntakeInv, TypeInv, TypeOK
<1>3. wake' = [wake EXCEPT ![y] = Released(wake[y], d)] BY DEF ReleaseWake
<1>4. loc[p].d = d OBVIOUS
<1> HIDE DEF y, d
<1>5. RowOK(wake[y]) /\ wake[y] \in Wake BY <1>2 DEF IntakeInv, WakesInv
<1>6. /\ Released(wake[y], d) \in Wake /\ RowOK(Released(wake[y], d))
      /\ Released(wake[y], d).lead = wake[y].lead
      /\ Released(wake[y], d).owner \in {wake[y].owner, NoDelivery}
      /\ wake[y].live /\ Released(wake[y], d).owner # wake[y].owner => wake[y].owner = d
      /\ Released(wake[y], d).state = "done" => wake[y].state = "done"
  BY <1>1, <1>5, ReleasedRow
<1>7. \A x \in Works : RowOK(wake[x]) BY DEF IntakeInv, WakesInv
<1>8. wake'[y] = Released(wake[y], d) /\ \A x \in Works \ {y} : wake'[x] = wake[x]
  BY <1>2, <1>3
<1> QED BY <1>1, <1>2, <1>3, <1>4, <1>6, <1>7, <1>8 DEF WakeStep

LEMMA DrainWakes ==
  ASSUME IntakeInv, NEW p \in Procs, Drain(p)
  PROVE  WakeStep(p) /\ wake' \in [Works -> Wake]
<1>1. CASE ClaimWake(p) \/ FinishWake(p) \/ ReleaseWake(p)
  BY <1>1, ClaimWakeStep, FinishWakeStep, ReleaseWakeStep
<1>2. CASE ~(ClaimWake(p) \/ FinishWake(p) \/ ReleaseWake(p))
  <2>1. UNCHANGED wake
    BY <1>2 DEF Drain, StartDrain, EndPass, Pick, CreateLock, WriteLock, InspectLock,
       StealLock, ReadToken, RemoveLock, ReadRecord, RetryCallback, MarkProcessing, Coalesce,
       Requeue, LookUp, MakeTask, Complete, Fail, Report
  <2> QED BY <2>1, WakesUnchanged
<1> QED BY <1>1, <1>2

\* What a step of a drain does to records and tasks.
RecordStep(p) ==
  \A d \in Deliveries :
    /\ \/ record'[d] = record[d]
       \/ /\ record'[d].state # "none"
          /\ record'[d].state = "completed" => task[d] # "none"
    /\ task'[d] = task[d] \/ task'[d] = "draft"
Others(p) == \A q \in Procs \ {p} : pc'[q] = pc[q] /\ loc'[q] = loc[q]

LEMMA SetStep ==
  ASSUME IntakeInv, NEW p \in Procs, NEW d \in Deliveries, NEW state \in States \ {"none"},
         NEW callback, Set(d, state, callback), UNCHANGED task,
         state = "completed" => task[d] # "none"
  PROVE  RecordStep(p)
BY DEF Set, RecordStep, IntakeInv, TypeInv, TypeOK

LEMMA LocksStep ==
  ASSUME IntakeInv, NEW p \in Procs,
         \/ StartDrain(p) \/ EndPass(p) \/ Pick(p) \/ CreateLock(p) \/ WriteLock(p)
         \/ InspectLock(p) \/ StealLock(p) \/ ReadToken(p) \/ RemoveLock(p)
  PROVE  RecordStep(p) /\ Others(p) /\ TaskKnown(p)'
<1>1. UNCHANGED <<record, task>>
  BY DEF StartDrain, EndPass, Pick, CreateLock, WriteLock, InspectLock, StealLock, ReadToken,
     RemoveLock
<1>2. PICK c \in {"pick", "idle", "create", "write", "inspect", "read", "steal", "remove"} :
        pc' = [pc EXCEPT ![p] = c]
  BY DEF StartDrain, EndPass, Pick, CreateLock, WriteLock, InspectLock, StealLock, ReadToken,
     RemoveLock, List, Done, Goto
<1>3. \A q \in Procs \ {p} : loc'[q] = loc[q]
  BY DEF StartDrain, EndPass, Pick, CreateLock, WriteLock, InspectLock, StealLock, ReadToken,
     RemoveLock, List, Done, IntakeInv, TypeInv, TypeOK
<1>4. pc'[p] = c /\ \A q \in Procs \ {p} : pc'[q] = pc[q]
  BY <1>2 DEF IntakeInv, TypeInv, TypeOK
<1> QED BY <1>1, <1>3, <1>4 DEF RecordStep, Others, TaskKnown

LEMMA ReadRecordStep ==
  ASSUME IntakeInv, NEW p \in Procs, ReadRecord(p)
  PROVE  RecordStep(p) /\ Others(p) /\ TaskKnown(p)'
<1> DEFINE l == [loc[p] EXCEPT !.cur = record[loc[p].d]]
<1>1. loc[p].d \in Deliveries /\ pc \in [Procs -> Pcs] /\ loc \in [Procs -> Local]
  BY DEF ReadRecord, At, IntakeInv, TypeInv, TypeOK, LocalOK, Quiet
<1>2. l.d = loc[p].d /\ l.cur = record[loc[p].d]
  BY <1>1 DEF Local
<1>3. loc' = [loc EXCEPT ![p] = l] BY DEF ReadRecord
<1>4. PICK c \in {"publish", "unlock", "mark"} : pc' = [pc EXCEPT ![p] = c]
  BY DEF ReadRecord, Goto
<1> HIDE DEF l
<1>5. /\ pc'[p] = c /\ loc'[p] = l
      /\ \A q \in Procs \ {p} : pc'[q] = pc[q] /\ loc'[q] = loc[q]
  BY <1>1, <1>3, <1>4
<1>6. record[loc[p].d].state = "completed" => task[loc[p].d] # "none"
  BY <1>1 DEF IntakeInv, TasksInv
<1>7. UNCHANGED <<record, task>> BY DEF ReadRecord
<1> QED BY <1>2, <1>5, <1>6, <1>7 DEF RecordStep, Others, TaskKnown

LEMMA RetryCallbackStep ==
  ASSUME IntakeInv, NEW p \in Procs, RetryCallback(p)
  PROVE  RecordStep(p) /\ Others(p) /\ TaskKnown(p)'
<1>1. loc[p].d \in Deliveries /\ pc \in [Procs -> Pcs] /\ loc \in [Procs -> Local]
  BY DEF RetryCallback, At, IntakeInv, TypeInv, TypeOK, LocalOK, Quiet
<1>2. /\ loc[p].cur.state \in {"completed", "failed"}
      /\ loc[p].cur.state = "completed" => task[loc[p].d] # "none"
  BY DEF RetryCallback, At, IntakeInv, TypeInv, LocalOK, TasksInv, TaskKnown
<1>3. RecordStep(p)
  <2>1. PICK result \in {"failed", "succeeded"} : Set(loc[p].d, loc[p].cur.state, result)
    BY DEF RetryCallback
  <2> QED BY <1>1, <1>2, <2>1, SetStep DEF RetryCallback, States
<1>4. Goto(p, "unlock") BY DEF RetryCallback
<1>5. UNCHANGED <<loc, task>> BY DEF RetryCallback
<1> QED BY <1>1, <1>3, <1>4, <1>5 DEF Goto, Others, TaskKnown

LEMMA MarkProcessingStep ==
  ASSUME IntakeInv, NEW p \in Procs, MarkProcessing(p)
  PROVE  RecordStep(p) /\ Others(p) /\ TaskKnown(p)'
<1>1. loc[p].d \in Deliveries /\ pc \in [Procs -> Pcs] /\ loc \in [Procs -> Local]
  BY DEF MarkProcessing, At, IntakeInv, TypeInv, TypeOK, LocalOK, Quiet
<1>3. RecordStep(p)
  BY <1>1, SetStep DEF MarkProcessing, States
<1>4. Goto(p, "claim") BY DEF MarkProcessing
<1>5. UNCHANGED <<loc, task>> BY DEF MarkProcessing
<1> QED BY <1>1, <1>3, <1>4, <1>5 DEF Goto, Others, TaskKnown

LEMMA CoalesceStep ==
  ASSUME IntakeInv, NEW p \in Procs, Coalesce(p)
  PROVE  RecordStep(p) /\ Others(p) /\ TaskKnown(p)'
<1>1. loc[p].d \in Deliveries /\ pc \in [Procs -> Pcs] /\ loc \in [Procs -> Local]
  BY DEF Coalesce, At, IntakeInv, TypeInv, TypeOK, LocalOK, Quiet
<1>3. RecordStep(p)
  BY <1>1, SetStep DEF Coalesce, States
<1>4. Goto(p, "unlock") BY DEF Coalesce
<1>5. UNCHANGED <<loc, task>> BY DEF Coalesce
<1> QED BY <1>1, <1>3, <1>4, <1>5 DEF Goto, Others, TaskKnown

LEMMA RequeueStep ==
  ASSUME IntakeInv, NEW p \in Procs, Requeue(p)
  PROVE  RecordStep(p) /\ Others(p) /\ TaskKnown(p)'
<1>1. loc[p].d \in Deliveries /\ pc \in [Procs -> Pcs] /\ loc \in [Procs -> Local]
  BY DEF Requeue, At, IntakeInv, TypeInv, TypeOK, LocalOK, Quiet
<1>3. RecordStep(p)
  BY <1>1, SetStep DEF Requeue, States
<1>4. Goto(p, "unlock") BY DEF Requeue
<1>5. UNCHANGED <<loc, task>> BY DEF Requeue
<1> QED BY <1>1, <1>3, <1>4, <1>5 DEF Goto, Others, TaskKnown

LEMMA CompleteStep ==
  ASSUME IntakeInv, NEW p \in Procs, Complete(p)
  PROVE  RecordStep(p) /\ Others(p) /\ TaskKnown(p)'
<1>1. loc[p].d \in Deliveries /\ pc \in [Procs -> Pcs] /\ loc \in [Procs -> Local]
  BY DEF Complete, At, IntakeInv, TypeInv, TypeOK, LocalOK, Quiet
<1>2. task[loc[p].d] # "none"
  BY DEF Complete, At, IntakeInv, TasksInv, TaskKnown
<1>3. RecordStep(p)
  <2>1. PICK result \in {"none", "failed", "succeeded"} : Set(loc[p].d, "completed", result)
    BY DEF Complete
  <2> QED BY <1>1, <1>2, <2>1, SetStep DEF Complete, States
<1>4. Goto(p, "finish") BY DEF Complete
<1>5. UNCHANGED <<loc, task>> BY DEF Complete
<1> QED BY <1>1, <1>2, <1>3, <1>4, <1>5 DEF Goto, Others, TaskKnown

LEMMA FailStep ==
  ASSUME IntakeInv, NEW p \in Procs, Fail(p)
  PROVE  RecordStep(p) /\ Others(p) /\ TaskKnown(p)'
<1>1. loc[p].d \in Deliveries /\ pc \in [Procs -> Pcs] /\ loc \in [Procs -> Local]
  BY DEF Fail, At, IntakeInv, TypeInv, TypeOK, LocalOK, Quiet
<1>3. RecordStep(p)
  BY <1>1, SetStep DEF Fail, States
<1>4. Goto(p, "report") \/ Goto(p, "unlock") BY DEF Fail
<1>5. UNCHANGED <<loc, task>> BY DEF Fail
<1> QED BY <1>1, <1>3, <1>4, <1>5 DEF Goto, Others, TaskKnown

LEMMA ReportStep ==
  ASSUME IntakeInv, NEW p \in Procs, Report(p)
  PROVE  RecordStep(p) /\ Others(p) /\ TaskKnown(p)'
<1>1. loc[p].d \in Deliveries /\ pc \in [Procs -> Pcs] /\ loc \in [Procs -> Local]
  BY DEF Report, At, IntakeInv, TypeInv, TypeOK, LocalOK, Quiet
<1>3. RecordStep(p)
  BY <1>1, SetStep DEF Report, States
<1>4. Goto(p, "unlock") BY DEF Report
<1>5. UNCHANGED <<loc, task>> BY DEF Report
<1> QED BY <1>1, <1>3, <1>4, <1>5 DEF Goto, Others, TaskKnown

LEMMA LookUpStep ==
  ASSUME IntakeInv, NEW p \in Procs, LookUp(p)
  PROVE  RecordStep(p) /\ Others(p) /\ TaskKnown(p)'
<1>1. UNCHANGED <<record, task>> BY DEF LookUp
<1>2. Others(p) BY DEF LookUp, Goto, Others, IntakeInv, TypeInv, TypeOK
<1>3. CASE UNCHANGED loc /\ task[loc[p].d] # "none"
  <2>1. PICK c \in {"complete", "release", "make"} : pc' = [pc EXCEPT ![p] = c]
    BY DEF LookUp, Goto
  <2>2. pc'[p] = c BY <2>1 DEF IntakeInv, TypeInv, TypeOK
  <2> QED BY <1>1, <1>2, <1>3, <2>2 DEF RecordStep, TaskKnown
<1>4. CASE Goto(p, "make") \/ Goto(p, "release")
  <2>1. pc'[p] \in {"make", "release"} BY <1>4 DEF Goto, IntakeInv, TypeInv, TypeOK
  <2> QED BY <1>1, <1>2, <2>1 DEF RecordStep, TaskKnown
<1>5. (UNCHANGED loc /\ task[loc[p].d] # "none") \/ Goto(p, "make") \/ Goto(p, "release")
  BY DEF LookUp
<1> QED BY <1>3, <1>4, <1>5

LEMMA MakeTaskStep ==
  ASSUME IntakeInv, NEW p \in Procs, MakeTask(p)
  PROVE  RecordStep(p) /\ Others(p) /\ TaskKnown(p)'
<1>1. loc[p].d \in Deliveries /\ pc \in [Procs -> Pcs]
  BY DEF MakeTask, At, IntakeInv, TypeInv, TypeOK, LocalOK, Quiet
<1>2. UNCHANGED <<record, loc>> /\ task' = [task EXCEPT ![loc[p].d] = "draft"]
      /\ pc' = [pc EXCEPT ![p] = "complete"]
  BY DEF MakeTask, Goto
<1>3. task'[loc[p].d] = "draft" /\ \A d \in Deliveries : task'[d] = task[d] \/ task'[d] = "draft"
  BY <1>1, <1>2 DEF IntakeInv, TypeInv, TypeOK
<1> QED BY <1>1, <1>2, <1>3 DEF RecordStep, Others, TaskKnown

LEMMA WakingStep ==
  ASSUME IntakeInv, NEW p \in Procs, ClaimWake(p) \/ FinishWake(p) \/ ReleaseWake(p)
  PROVE  RecordStep(p) /\ Others(p) /\ TaskKnown(p)'
<1>1. UNCHANGED <<record, task>> BY DEF ClaimWake, FinishWake, ReleaseWake
<1>2. PICK c \in {"coalesce", "requeue", "look", "unlock", "fail"} : pc' = [pc EXCEPT ![p] = c]
  <2>1. CASE ClaimWake(p) \/ FinishWake(p) BY <2>1 DEF ClaimWake, FinishWake, Goto
  <2>2. CASE ReleaseWake(p)
    <3>1. loc[p].fate \in {"fail", "requeue"} BY DEF IntakeInv, TypeInv, TypeOK, Local
    <3> QED BY <2>2, <3>1 DEF ReleaseWake, Goto
  <2> QED BY <2>1, <2>2
<1>3. \A q \in Procs \ {p} : loc'[q] = loc[q]
  BY DEF ClaimWake, FinishWake, ReleaseWake, IntakeInv, TypeInv, TypeOK
<1>4. pc'[p] = c /\ \A q \in Procs \ {p} : pc'[q] = pc[q]
  BY <1>2 DEF IntakeInv, TypeInv, TypeOK
<1> QED BY <1>1, <1>3, <1>4 DEF RecordStep, Others, TaskKnown

LEMMA DrainStep ==
  ASSUME IntakeInv, NEW p \in Procs, Drain(p)
  PROVE  RecordStep(p) /\ Others(p) /\ TaskKnown(p)'
BY LocksStep, ReadRecordStep, RetryCallbackStep, MarkProcessingStep, CoalesceStep, RequeueStep,
   CompleteStep, FailStep, ReportStep, LookUpStep, MakeTaskStep, WakingStep DEF Drain

LEMMA DrainType ==
  ASSUME IntakeInv, NEW p \in Procs, Drain(p)
  PROVE  TypeInv' /\ acc' = acc
<1>1. wake' \in [Works -> Wake] /\ TypeInv BY DrainWakes DEF IntakeInv
<1>2. TypeInv'
  BY <1>1, StartDrainType, EndPassType, PickType, CreateLockType, WriteLockType,
     InspectLockType, StealLockType, ReadTokenType, RemoveLockType, ReadRecordType,
     RetryCallbackType, MarkProcessingType, ClaimWakeType, CoalesceType, RequeueType,
     LookUpType, MakeTaskType, CompleteType, FinishWakeType, ReleaseWakeType, FailType,
     ReportType
     DEF Drain
<1>3. acc' = acc
  BY DEF Drain, StartDrain, EndPass, Pick, CreateLock, WriteLock, InspectLock, StealLock,
     ReadToken, RemoveLock, ReadRecord, RetryCallback, MarkProcessing, ClaimWake, Coalesce,
     Requeue, LookUp, MakeTask, Complete, FinishWake, ReleaseWake, Fail, Report, Done, List
<1> QED BY <1>2, <1>3

LEMMA DrainInv ==
  ASSUME IntakeInv, NEW p \in Procs, Drain(p)
  PROVE  IntakeInv' /\ Kept
<1>1. TypeInv' /\ acc' = acc BY DrainType
<1>2. WakeStep(p) BY DrainWakes
<1>3. RecordStep(p) /\ Others(p) /\ TaskKnown(p)' BY DrainStep
<1>4. Kept BY <1>3 DEF RecordStep, Kept, Stored
<1>5. WakesInv'
  <2>1. ASSUME NEW q \in Procs, NEW d \in Deliveries PROVE FirstWake(q, d)'
    <3>1. SUFFICES ASSUME acc[q][d] = "wake"
                   PROVE  /\ Stored(d)' /\ \A r \in Procs \ {q} : acc[r][d] # "wake"
                          /\ wake'[Domain[d]].lead # d /\ wake'[Domain[d]].owner # d
      BY <1>1 DEF FirstWake
    <3>2. FirstWake(q, d) BY DEF IntakeInv, WakesInv
    <3>3. Domain[d] \in Works /\ d # NoDelivery BY DomainInWorks, WakeAssumption
    <3>4. /\ wake'[Domain[d]].lead = wake[Domain[d]].lead
          /\ wake'[Domain[d]].owner \in {wake[Domain[d]].owner, wake[Domain[d]].lead, NoDelivery}
      BY <1>2, <3>3 DEF WakeStep
    <3> QED BY <1>4, <3>1, <3>2, <3>3, <3>4 DEF FirstWake, Kept
  <2>2. ASSUME NEW x \in Works, NEW d \in Deliveries, d \in {wake'[x].lead, wake'[x].owner}
        PROVE  Stored(d)'
    <3>1. d \in {wake[x].lead, wake[x].owner} BY <1>2, <2>2, WakeAssumption DEF WakeStep
    <3> QED BY <1>4, <3>1 DEF IntakeInv, WakesInv, Kept
  <2> QED BY <1>2, <2>1, <2>2 DEF WakeStep, WakesInv
<1>6. TasksInv'
  <2>1. \A d \in Deliveries : record'[d].state = "completed" => task'[d] # "none"
    BY <1>3, <1>4 DEF IntakeInv, TasksInv, RecordStep, Kept
  <2>2. ASSUME NEW x \in Works, wake'[x].state = "done"
        PROVE  wake'[x].lead \in Deliveries /\ task'[wake'[x].lead] # "none"
    <3>1. /\ wake'[x].lead = wake[x].lead
          /\ wake[x].state = "done" \/ (wake[x].lead = loc[p].d /\ pc[p] = "finish")
      BY <1>2, <2>2 DEF WakeStep
    <3>2. CASE wake[x].state = "done" BY <1>4, <3>1, <3>2 DEF IntakeInv, TasksInv, Kept
    <3>3. CASE wake[x].lead = loc[p].d /\ pc[p] = "finish"
      <4>1. loc[p].d \in Deliveries /\ task[loc[p].d] # "none"
        BY <3>3 DEF IntakeInv, TypeInv, LocalOK, Quiet, TasksInv, TaskKnown
      <4> QED BY <1>4, <3>1, <3>3, <4>1 DEF Kept
    <3> QED BY <3>1, <3>2, <3>3
  <2>3. ASSUME NEW q \in Procs \ {p} PROVE TaskKnown(q)'
    <3>1. pc'[q] = pc[q] /\ loc'[q] = loc[q] BY <1>3, <2>3 DEF Others
    <3>2. pc[q] \in {"complete", "finish", "publish"} => loc[q].d \in Deliveries
      BY <2>3 DEF IntakeInv, TypeInv, LocalOK, Quiet
    <3>3. TaskKnown(q) BY <2>3 DEF IntakeInv, TasksInv
    <3> QED BY <1>4, <3>1, <3>2, <3>3 DEF TaskKnown, Kept
  <2> QED BY <1>3, <2>1, <2>2, <2>3 DEF TasksInv
<1> QED BY <1>1, <1>4, <1>5, <1>6 DEF IntakeInv

-----------------------------------------------------------------------------
(* Handlers and the environment.                                           *)

\* Steps that change no wake, and no acceptance but to one before the wake.
LEMMA WakesStay ==
  ASSUME IntakeInv, UNCHANGED wake, Kept,
         \A q \in Procs, d \in Deliveries : acc'[q][d] = "wake" => acc[q][d] = "wake"
  PROVE  WakesInv'
<1>1. ASSUME NEW q \in Procs, NEW d \in Deliveries PROVE FirstWake(q, d)'
  <2>1. FirstWake(q, d) BY DEF IntakeInv, WakesInv
  <2> QED BY <2>1 DEF FirstWake, Kept
<1>2. \A x \in Works : RowOK(wake'[x]) BY DEF IntakeInv, WakesInv
<1>3. \A x \in Works, d \in Deliveries : d \in {wake'[x].lead, wake'[x].owner} => Stored(d)'
  BY DEF IntakeInv, WakesInv, Kept
<1> QED BY <1>1, <1>2, <1>3 DEF WakesInv

\* Steps that leave records, wakes and drains alone but for those that stop.
LEMMA TasksStay ==
  ASSUME IntakeInv, UNCHANGED <<record, wake>>, Kept,
         \A q \in Procs : \/ pc'[q] = pc[q] /\ loc'[q] = loc[q]
                          \/ pc'[q] \notin {"complete", "finish", "publish"}
  PROVE  TasksInv'
<1>1. ASSUME NEW q \in Procs PROVE TaskKnown(q)'
  <2>1. TaskKnown(q) BY DEF IntakeInv, TasksInv
  <2>2. pc[q] \in {"complete", "finish", "publish"} => loc[q].d \in Deliveries
    BY DEF IntakeInv, TypeInv, LocalOK, Quiet
  <2> QED BY <2>1, <2>2 DEF TaskKnown, Kept
<1>2. \A d \in Deliveries : record'[d].state = "completed" => task'[d] # "none"
  BY DEF IntakeInv, TasksInv, Kept
<1>3. \A x \in Works : wake'[x].state = "done" =>
         wake'[x].lead \in Deliveries /\ task'[wake'[x].lead] # "none"
  BY DEF IntakeInv, TasksInv, Kept
<1> QED BY <1>1, <1>2, <1>3 DEF TasksInv

LEMMA RespondAcc ==
  ASSUME TypeInv, NEW p \in Procs, NEW d \in Deliveries, Respond(p, d)
  PROVE  /\ acc'[p][d] = "idle"
         /\ \A q \in Procs, e \in Deliveries : <<q, e>> # <<p, d>> => acc'[q][e] = acc[q][e]
BY DEF Respond, TypeInv, TypeOK

LEMMA AcceptInv ==
  ASSUME IntakeInv, NEW p \in Procs, NEW d \in Deliveries, Accept(p, d)
  PROVE  IntakeInv' /\ Kept
<1>1. TypeInv' BY AcceptType DEF IntakeInv
<1>2. UNCHANGED <<record, wake, task, pc, loc>> BY DEF Accept
<1>3. Kept BY <1>2 DEF Kept, Stored
<1>4. ASSUME NEW q \in Procs, NEW e \in Deliveries, acc'[q][e] = "wake"
      PROVE  acc[q][e] = "wake"
  <2>1. CASE Stored(d) BY <1>4, <2>1, RespondAcc DEF Accept, IntakeInv
  <2>2. CASE ~Stored(d)
    <3>1. acc' = [acc EXCEPT ![p][d] = "link"] BY <2>2 DEF Accept
    <3> QED BY <1>4, <3>1 DEF IntakeInv, TypeInv, TypeOK
  <2> QED BY <2>1, <2>2
<1> QED BY <1>1, <1>2, <1>3, <1>4, WakesStay, TasksStay DEF IntakeInv

LEMMA CreateRecordInv ==
  ASSUME IntakeInv, NEW p \in Procs, NEW d \in Deliveries, CreateRecord(p, d)
  PROVE  IntakeInv' /\ Kept
<1>1. TypeInv' BY CreateRecordType DEF IntakeInv
<1>2. UNCHANGED <<wake, task, pc, loc>> BY DEF CreateRecord
<1>3. CASE Stored(d)
  <2>1. UNCHANGED record /\ Respond(p, d) BY <1>3 DEF CreateRecord
  <2>2. Kept BY <1>2, <2>1 DEF Kept, Stored
  <2>3. ASSUME NEW q \in Procs, NEW e \in Deliveries, acc'[q][e] = "wake"
        PROVE  acc[q][e] = "wake"
    BY <2>1, <2>3, RespondAcc DEF IntakeInv
  <2> QED BY <1>1, <1>2, <2>1, <2>2, <2>3, WakesStay, TasksStay DEF IntakeInv
<1>4. CASE ~Stored(d)
  <2>1. /\ record' = [record EXCEPT ![d] = [NoRecord EXCEPT !.state = "queued"]]
        /\ acc' = [acc EXCEPT ![p][d] = "wake"]
    BY <1>4 DEF CreateRecord
  <2>2. /\ record'[d].state = "queued"
        /\ \A e \in Deliveries \ {d} : record'[e] = record[e]
    BY <2>1 DEF NoRecord, IntakeInv, TypeInv, TypeOK
  <2>3. Kept BY <1>2, <2>2 DEF Kept, Stored
  <2>4. acc'[p][d] = "wake"
        /\ \A q \in Procs, e \in Deliveries : <<q, e>> # <<p, d>> => acc'[q][e] = acc[q][e]
    BY <2>1 DEF IntakeInv, TypeInv, TypeOK
  <2>5. \A q \in Procs : acc[q][d] # "wake"
    BY <1>4 DEF IntakeInv, WakesInv, FirstWake
  <2>6. wake[Domain[d]].lead # d /\ wake[Domain[d]].owner # d
    BY <1>4, DomainInWorks DEF IntakeInv, WakesInv
  <2>7. ASSUME NEW q \in Procs, NEW e \in Deliveries PROVE FirstWake(q, e)'
    <3>1. CASE e = d
      BY <1>2, <2>2, <2>4, <2>5, <2>6, <3>1 DEF FirstWake, Stored
    <3>2. CASE e # d
      <4>1. FirstWake(q, e) BY DEF IntakeInv, WakesInv
      <4> QED BY <1>2, <2>2, <2>4, <3>2, <4>1 DEF FirstWake, Stored
    <3> QED BY <3>1, <3>2
  <2>8. \A x \in Works : RowOK(wake'[x]) BY <1>2 DEF IntakeInv, WakesInv
  <2>9. TasksInv'
    <3>1. ASSUME NEW q \in Procs PROVE TaskKnown(q)'
      <4>1. TaskKnown(q) BY DEF IntakeInv, TasksInv
      <4> QED BY <1>2, <4>1 DEF TaskKnown
    <3>2. \A e \in Deliveries : record'[e].state = "completed" => task'[e] # "none"
      BY <1>2, <2>2 DEF IntakeInv, TasksInv
    <3> QED BY <1>2, <3>1, <3>2 DEF IntakeInv, TasksInv
  <2>10. \A x \in Works, e \in Deliveries : e \in {wake'[x].lead, wake'[x].owner} => Stored(e)'
    BY <1>2, <2>3 DEF IntakeInv, WakesInv, Kept
  <2> QED BY <1>1, <2>3, <2>7, <2>8, <2>9, <2>10 DEF IntakeInv, WakesInv
<1> QED BY <1>3, <1>4

LEMMA RecordWakeInv ==
  ASSUME IntakeInv, NEW p \in Procs, NEW d \in Deliveries, RecordWake(p, d)
  PROVE  /\ IntakeInv' /\ Kept
         /\ \A x \in Works : wake[x].live => wake'[x].owner = wake[x].owner
<1> DEFINE y == Domain[d]
<1>1. y \in Works /\ wake \in [Works -> Wake] /\ wake[y] \in Wake /\ RowOK(wake[y])
  BY DomainInWorks DEF IntakeInv, TypeInv, TypeOK, WakesInv
<1>2. /\ wake' = [wake EXCEPT ![y] = Recorded(wake[y], d)] /\ Respond(p, d)
      /\ UNCHANGED <<record, task, pc, loc>> /\ acc[p][d] = "wake"
  BY DEF RecordWake
<1>3. /\ \A q \in Procs \ {p} : acc[q][d] # "wake"
      /\ wake[y].lead # d /\ wake[y].owner # d
  BY <1>2 DEF IntakeInv, WakesInv, FirstWake
<1> HIDE DEF y
<1>4. /\ Recorded(wake[y], d) \in Wake /\ RowOK(Recorded(wake[y], d))
      /\ Recorded(wake[y], d).lead \in {wake[y].lead, d}
      /\ Recorded(wake[y], d).owner \in {wake[y].owner, NoDelivery}
      /\ wake[y].live => Recorded(wake[y], d).owner = wake[y].owner
      /\ Recorded(wake[y], d).state = "done" =>
           wake[y].state = "done" /\ Recorded(wake[y], d).lead = wake[y].lead
  BY <1>1, <1>3, RecordedRow
<1>5. wake'[y] = Recorded(wake[y], d) /\ \A x \in Works \ {y} : wake'[x] = wake[x]
  BY <1>1, <1>2
<1>6. TypeInv'
  <2>1. wake' \in [Works -> Wake] BY <1>1, <1>2, <1>4
  <2> QED BY <2>1, RecordWakeType DEF IntakeInv
<1>7. Kept BY <1>2 DEF Kept, Stored
<1>8. ASSUME NEW q \in Procs, NEW e \in Deliveries PROVE FirstWake(q, e)'
  <2>1. FirstWake(q, e) BY DEF IntakeInv, WakesInv
  <2>2. /\ acc'[p][d] = "idle"
        /\ \A r \in Procs, f \in Deliveries : <<r, f>> # <<p, d>> => acc'[r][f] = acc[r][f]
    BY <1>2, RespondAcc DEF IntakeInv
  <2>3. CASE e = d
    <3>1. acc'[q][e] # "wake" BY <1>3, <2>2, <2>3
    <3> QED BY <3>1 DEF FirstWake
  <2>4. CASE e # d
    <3>1. e # NoDelivery /\ Domain[e] \in Works BY DomainInWorks, WakeAssumption
    <3>2. /\ wake'[Domain[e]].lead \in {wake[Domain[e]].lead, d}
          /\ wake'[Domain[e]].owner \in {wake[Domain[e]].owner, NoDelivery}
      BY <1>4, <1>5, <3>1
    <3> QED BY <1>2, <2>1, <2>2, <2>4, <3>1, <3>2 DEF FirstWake, Stored
  <2> QED BY <2>3, <2>4
<1>9. \A x \in Works : RowOK(wake'[x]) BY <1>4, <1>5 DEF IntakeInv, WakesInv
<1>10. TasksInv'
  <2>1. ASSUME NEW q \in Procs PROVE TaskKnown(q)'
    <3>1. TaskKnown(q) BY DEF IntakeInv, TasksInv
    <3> QED BY <1>2, <3>1 DEF TaskKnown
  <2>2. \A x \in Works : wake'[x].state = "done" =>
          wake'[x].lead \in Deliveries /\ task'[wake'[x].lead] # "none"
    BY <1>2, <1>4, <1>5 DEF IntakeInv, TasksInv
  <2> QED BY <1>2, <2>1, <2>2 DEF IntakeInv, TasksInv
<1>11. ASSUME NEW x \in Works, NEW e \in Deliveries, e \in {wake'[x].lead, wake'[x].owner}
       PROVE  Stored(e)'
  <2>1. Stored(d) BY <1>2 DEF IntakeInv, WakesInv, FirstWake
  <2>2. e = d \/ e \in {wake[x].lead, wake[x].owner}
    BY <1>4, <1>5, <1>11, WakeAssumption
  <2> QED BY <1>7, <2>1, <2>2 DEF IntakeInv, WakesInv, Kept
<1> QED BY <1>4, <1>5, <1>6, <1>7, <1>8, <1>9, <1>10, <1>11 DEF IntakeInv, WakesInv

\* A drain whose call throws writes nothing, and goes on with no task.
LEMMA ThrowsInv ==
  ASSUME IntakeInv, NEW p \in Procs, Throws(p) \/ Aborts(p)
  PROVE  IntakeInv' /\ Kept
<1>1. TypeInv' BY ThrowsType, AbortsType DEF IntakeInv
<1>2. UNCHANGED <<record, wake, task, acc>> BY DEF Throws, Aborts
<1>3. Kept BY <1>2 DEF Kept, Stored
<1>4. pc \in [Procs -> Pcs] /\ loc \in [Procs -> Local] BY DEF IntakeInv, TypeInv, TypeOK
<1>5. \/ UNCHANGED <<pc, loc>>
      \/ \E c \in {"fail", "release", "unlock", "pick", "idle"} : pc' = [pc EXCEPT ![p] = c]
  BY DEF Throws, Aborts, Done, Goto
<1>6. \A q \in Procs \ {p} : loc'[q] = loc[q]
  BY <1>4 DEF Throws, Aborts, Done
<1>7. \A q \in Procs : \/ pc'[q] = pc[q] /\ loc'[q] = loc[q]
                       \/ pc'[q] \notin {"complete", "finish", "publish"}
  BY <1>4, <1>5, <1>6
<1> QED BY <1>1, <1>2, <1>3, <1>7, WakesStay, TasksStay DEF IntakeInv

LEMMA RestartInv ==
  ASSUME IntakeInv, NEW p \in Procs, Restart(p)
  PROVE  IntakeInv' /\ Kept
<1>1. TypeInv' BY RestartType DEF IntakeInv
<1>2. UNCHANGED <<record, wake, task>> BY DEF Restart
<1>3. Kept BY <1>2 DEF Kept, Stored
<1>4. PICK c \in {"idle", "dead"} : pc' = [pc EXCEPT ![p] = c]
  BY DEF Restart, Goto
<1>5. \A q \in Procs : \/ pc'[q] = pc[q] /\ loc'[q] = loc[q]
                       \/ pc'[q] \notin {"complete", "finish", "publish"}
  BY <1>4 DEF Restart, IntakeInv, TypeInv, TypeOK
<1>6. \A q \in Procs, d \in Deliveries : acc'[q][d] = "wake" => acc[q][d] = "wake"
  <2>1. acc' = [acc EXCEPT ![p] = [d \in Deliveries |-> "idle"]] BY DEF Restart
  <2>2. acc'[p] = [d \in Deliveries |-> "idle"] /\ \A q \in Procs \ {p} : acc'[q] = acc[q]
    BY <2>1 DEF IntakeInv, TypeInv, TypeOK
  <2> QED BY <2>2
<1> QED BY <1>1, <1>2, <1>3, <1>5, <1>6, WakesStay, TasksStay DEF IntakeInv

LEMMA LockExpiresInv ==
  ASSUME IntakeInv, NEW d \in Deliveries, LockExpires(d)
  PROVE  IntakeInv' /\ Kept
<1>1. TypeInv' BY LockExpiresType DEF IntakeInv
<1>2. UNCHANGED <<record, wake, task, acc, pc, loc>> BY DEF LockExpires
<1>3. Kept BY <1>2 DEF Kept, Stored
<1> QED BY <1>1, <1>2, <1>3, WakesStay, TasksStay DEF IntakeInv

LEMMA TakeTaskInv ==
  ASSUME IntakeInv, NEW d \in Deliveries, TakeTask(d)
  PROVE  IntakeInv' /\ Kept
<1>1. TypeInv' BY TakeTaskType DEF IntakeInv
<1>2. UNCHANGED <<record, wake, acc, pc, loc>> BY DEF TakeTask
<1>3. Kept BY <1>2 DEF Kept, Stored, TakeTask, IntakeInv, TypeInv, TypeOK
<1> QED BY <1>1, <1>2, <1>3, WakesStay, TasksStay DEF IntakeInv

LEMMA WakeExpiresInv ==
  ASSUME IntakeInv, NEW x \in Works, WakeExpires(x)
  PROVE  IntakeInv' /\ Kept /\ \A y \in Works : wake'[y].owner = wake[y].owner
<1>1. wake \in [Works -> Wake] /\ wake[x] \in Wake /\ RowOK(wake[x])
  BY DEF IntakeInv, TypeInv, TypeOK, WakesInv
<1> DEFINE w == [wake[x] EXCEPT !.live = FALSE]
<1>2. /\ w \in Wake /\ w.lead = wake[x].lead /\ w.ids = wake[x].ids /\ w.state = wake[x].state
      /\ w.owner = wake[x].owner /\ ~w.live /\ w.rerun = wake[x].rerun
  BY <1>1 DEF Wake
<1>3. wake' = [wake EXCEPT ![x] = w] /\ UNCHANGED <<record, task, acc, pc, loc>>
  BY DEF WakeExpires
<1> HIDE DEF w
<1>4. wake'[x] = w /\ \A y \in Works \ {x} : wake'[y] = wake[y] BY <1>1, <1>3
<1>5. TypeInv'
  <2>1. wake' \in [Works -> Wake] BY <1>1, <1>2, <1>3
  <2> QED BY <2>1, WakeExpiresType DEF IntakeInv
<1>6. Kept BY <1>3 DEF Kept, Stored
<1>7. \A y \in Works : RowOK(wake'[y])
  <2>1. RowOK(w) BY <1>1, <1>2 DEF RowOK
  <2> QED BY <1>4, <2>1 DEF IntakeInv, WakesInv
<1>8. ASSUME NEW q \in Procs, NEW e \in Deliveries PROVE FirstWake(q, e)'
  <2>1. FirstWake(q, e) /\ Domain[e] \in Works BY DomainInWorks DEF IntakeInv, WakesInv
  <2> QED BY <1>2, <1>3, <1>4, <2>1 DEF FirstWake, Stored
<1>9. TasksInv'
  <2>1. ASSUME NEW q \in Procs PROVE TaskKnown(q)'
    <3>1. TaskKnown(q) BY DEF IntakeInv, TasksInv
    <3> QED BY <1>3, <3>1 DEF TaskKnown
  <2> QED BY <1>2, <1>3, <1>4, <2>1 DEF IntakeInv, TasksInv
<1>10. \A y \in Works, e \in Deliveries : e \in {wake'[y].lead, wake'[y].owner} => Stored(e)'
  BY <1>2, <1>4, <1>6 DEF IntakeInv, WakesInv, Kept
<1> QED BY <1>2, <1>4, <1>5, <1>6, <1>7, <1>8, <1>9, <1>10 DEF IntakeInv, WakesInv

-----------------------------------------------------------------------------
(* The specification.                                                      *)

LEMMA InitInv == Init => IntakeInv
<1> SUFFICES ASSUME Init PROVE IntakeInv
  OBVIOUS
<1>1. TypeInv
  <2>1. TypeOK BY NullTypes DEF Init, TypeOK, Pcs
  <2> QED BY <2>1 DEF Init, TypeInv, LocalOK, Quiet
<1>2. RowOK(NoWake) BY DEF RowOK, NoWake, ToSet
<1>3. WakesInv BY <1>2, WakeAssumption DEF Init, WakesInv, FirstWake, NoWake
<1>4. TasksInv BY DEF Init, TasksInv, TaskKnown, NoRecord, NoWake
<1> QED BY <1>1, <1>3, <1>4 DEF IntakeInv

LEMMA StutterInv == IntakeInv /\ UNCHANGED vars => IntakeInv' /\ Kept
<1> SUFFICES ASSUME IntakeInv, UNCHANGED vars PROVE IntakeInv' /\ Kept
  OBVIOUS
<1>1. UNCHANGED <<record, wake, lock, task, acc, due, pc, loc, sends, faults>> BY DEF vars
<1>2. Kept BY <1>1 DEF Kept, Stored
<1>3. TypeInv' BY <1>1, DrainStays DEF IntakeInv, TypeInv, TypeOK
<1> QED BY <1>1, <1>2, <1>3, WakesStay, TasksStay DEF IntakeInv

LEMMA NextInv == IntakeInv /\ [Next]_vars => IntakeInv'
<1> SUFFICES ASSUME IntakeInv, [Next]_vars PROVE IntakeInv'
  OBVIOUS
<1> QED
  BY AcceptInv, CreateRecordInv, RecordWakeInv, DrainInv, ThrowsInv, RestartInv,
     LockExpiresInv, TakeTaskInv, WakeExpiresInv, StutterInv
     DEF Next, Handle

LEMMA IntakeInvariant == Spec => []IntakeInv
BY InitInv, NextInv, PTL DEF Spec

\* Every store, lock, wake and drain has its type, for any number of servers
\* that drain, die and are started again.
THEOREM IntakeTypeCorrect == Spec => []TypeOK
<1>1. IntakeInv => TypeOK BY DEF IntakeInv, TypeInv
<1> QED BY <1>1, IntakeInvariant, PTL

\* The lead of a wake is never older than the lead before it, nor than what the
\* wake knows, whatever ids the cap has made it forget; and the wake is to run
\* again only for a lead that waits for the lease of another (recordWake).
THEOREM LeadIsNewestAlways == Spec => LeadIsNewest
<1>1. IntakeInv /\ [Next]_vars => [LeadFollows]_vars
  <2> DEFINE LeadsKept ==
        \A x \in Works : wake[x].lead # NoDelivery =>
                          Cursor[wake[x].lead] <= Cursor[wake'[x].lead]
  <2> SUFFICES ASSUME IntakeInv, Next PROVE LeadFollows
    OBVIOUS
  <2>1. \A x \in Works : wake[x].lead # NoDelivery => Cursor[wake[x].lead] \in Nat
    BY WakeAssumption DEF IntakeInv, TypeInv, TypeOK, Wake
  <2>2. ASSUME \A x \in Works : wake'[x].lead = wake[x].lead PROVE LeadsKept
    BY <2>1, <2>2
  <2>3. ASSUME NEW p \in Procs, Drain(p) PROVE LeadsKept
    BY <2>2, <2>3, DrainWakes DEF WakeStep
  <2>4. ASSUME NEW p \in Procs, NEW d \in Deliveries, RecordWake(p, d) PROVE LeadsKept
    <3>1. Domain[d] \in Works /\ wake \in [Works -> Wake]
      BY DomainInWorks DEF IntakeInv, TypeInv, TypeOK
    <3>2. \A x \in Works :
            wake'[x] = IF x = Domain[d] THEN Recorded(wake[x], d) ELSE wake[x]
      BY <2>4, <3>1 DEF RecordWake
    <3> QED BY <2>1, <3>1, <3>2, RecordedLead
  <2>5. ASSUME NEW x \in Works, WakeExpires(x) PROVE LeadsKept
    <3>1. \A y \in Works : wake'[y].lead = wake[y].lead
      BY <2>5 DEF WakeExpires, IntakeInv, TypeInv, TypeOK, Wake
    <3> QED BY <2>2, <3>1
  <2>6. ASSUME UNCHANGED wake PROVE LeadsKept BY <2>2, <2>6
  <2>7. ASSUME NEW p \in Procs, NEW d \in Deliveries, Accept(p, d) \/ CreateRecord(p, d)
        PROVE  UNCHANGED wake
    BY <2>7 DEF Accept, CreateRecord
  <2>8. ASSUME NEW p \in Procs, Throws(p) \/ Aborts(p) \/ Restart(p) PROVE UNCHANGED wake
    BY <2>8 DEF Throws, Aborts, Restart
  <2>9. ASSUME NEW d \in Deliveries, LockExpires(d) \/ TakeTask(d) PROVE UNCHANGED wake
    BY <2>9 DEF LockExpires, TakeTask
  <2>10. LeadsKept
    BY <2>3, <2>4, <2>5, <2>6, <2>7, <2>8, <2>9 DEF Next, Handle
  <2>11. \A x \in Works : RowOK(wake'[x]) BY NextInv DEF IntakeInv, WakesInv
  <2> QED BY <2>10, <2>11 DEF LeadFollows, RowOK
<1> QED BY <1>1, IntakeInvariant, PTL DEF Spec, LeadIsNewest

\* A delivery is completed, and a wake done, only once the task exists: a crash
\* in between repeats a delivery and never drops it.
THEOREM CompletedHasTaskAlways == Spec => []CompletedHasTask
<1>1. IntakeInv => CompletedHasTask
  BY DomainInWorks DEF IntakeInv, TasksInv, CompletedHasTask
<1> QED BY <1>1, IntakeInvariant, PTL

\* A lease that has not expired ends only in finishWake or releaseWake of a
\* server that processes its owner: an older worker clears no newer lease.
THEOREM OnlyOwnerEndsLeaseAlways == Spec => OnlyOwnerEndsLease
<1>1. IntakeInv /\ [Next]_vars => [OwnerEndsLease]_vars
  <2> SUFFICES ASSUME IntakeInv, Next PROVE OwnerEndsLease
    OBVIOUS
  <2>1. CASE UNCHANGED wake BY <2>1 DEF OwnerEndsLease
  <2>2. ASSUME NEW p \in Procs, Drain(p) PROVE OwnerEndsLease
    BY <2>2, DrainWakes DEF WakeStep, OwnerEndsLease
  <2>3. ASSUME NEW p \in Procs, NEW d \in Deliveries, RecordWake(p, d) PROVE OwnerEndsLease
    BY <2>3, RecordWakeInv DEF OwnerEndsLease
  <2>4. ASSUME NEW x \in Works, WakeExpires(x) PROVE OwnerEndsLease
    BY <2>4, WakeExpiresInv DEF OwnerEndsLease
  <2>5. ASSUME NEW p \in Procs, NEW d \in Deliveries, Accept(p, d) \/ CreateRecord(p, d)
        PROVE  UNCHANGED wake
    BY <2>5 DEF Accept, CreateRecord
  <2>6. ASSUME NEW p \in Procs, Throws(p) \/ Aborts(p) \/ Restart(p) PROVE UNCHANGED wake
    BY <2>6 DEF Throws, Aborts, Restart
  <2>7. ASSUME NEW d \in Deliveries, LockExpires(d) \/ TakeTask(d) PROVE UNCHANGED wake
    BY <2>7 DEF LockExpires, TakeTask
  <2> QED BY <2>1, <2>2, <2>3, <2>4, <2>5, <2>6, <2>7 DEF Next, Handle
<1> QED BY <1>1, IntakeInvariant, PTL DEF Spec, OnlyOwnerEndsLease

-----------------------------------------------------------------------------
(* One server.  Two of them may both find that a task does not exist: the   *)
(* lock file does not keep them apart, and a task that was taken up in      *)
(* between is written over.                                                 *)

OneServer == \A p, q \in Procs : p = q
MakeInv == \A p \in Procs : pc[p] = "make" => task[loc[p].d] = "none"

LEMMA MakeNext ==
  ASSUME OneServer, IntakeInv, MakeInv, [Next]_vars
  PROVE  MakeInv' /\ TaskKept
<1>1. ASSUME UNCHANGED <<task, pc, loc>> PROVE MakeInv' /\ TaskKept
  BY <1>1 DEF MakeInv, TaskKept
<1>2. ASSUME NEW p \in Procs, UNCHANGED task, pc'[p] # "make" PROVE MakeInv' /\ TaskKept
  BY <1>2 DEF OneServer, MakeInv, TaskKept
<1>3. ASSUME NEW p \in Procs, LookUp(p) PROVE MakeInv' /\ TaskKept
  <2>1. UNCHANGED task /\ pc \in [Procs -> Pcs] BY <1>3 DEF LookUp, IntakeInv, TypeInv, TypeOK
  <2>2. CASE task[loc[p].d] = "none" /\ UNCHANGED loc
    BY <2>1, <2>2 DEF OneServer, MakeInv, TaskKept
  <2>3. CASE Goto(p, "release") \/ Goto(p, "complete")
    <3>1. pc'[p] # "make" BY <2>1, <2>3 DEF Goto
    <3> QED BY <1>2, <2>1, <3>1
  <2> QED BY <1>3, <2>2, <2>3 DEF LookUp
<1>4. ASSUME NEW p \in Procs, MakeTask(p) PROVE MakeInv' /\ TaskKept
  <2>1. /\ task[loc[p].d] = "none" /\ task' = [task EXCEPT ![loc[p].d] = "draft"]
        /\ pc' = [pc EXCEPT ![p] = "complete"]
    BY <1>4 DEF MakeTask, At, MakeInv, Goto
  <2>2. pc'[p] = "complete" BY <2>1 DEF IntakeInv, TypeInv, TypeOK
  <2> QED BY <2>1, <2>2 DEF OneServer, MakeInv, TaskKept, IntakeInv, TypeInv, TypeOK
<1>5. ASSUME NEW p \in Procs, Drain(p), ~LookUp(p), ~MakeTask(p) PROVE MakeInv' /\ TaskKept
  <2>1. UNCHANGED task
    BY <1>5 DEF Drain, StartDrain, EndPass, Pick, CreateLock, WriteLock, InspectLock, StealLock,
       ReadToken, RemoveLock, ReadRecord, RetryCallback, MarkProcessing, ClaimWake, Coalesce,
       Requeue, Complete, FinishWake, ReleaseWake, Fail, Report
  <2>2. PICK c \in Pcs \ {"make"} : pc' = [pc EXCEPT ![p] = c]
    <3>1. loc[p].fate \in {"fail", "requeue"} BY DEF IntakeInv, TypeInv, TypeOK, Local
    <3> QED
      BY <1>5, <3>1 DEF Drain, StartDrain, EndPass, Pick, CreateLock, WriteLock, InspectLock,
         StealLock, ReadToken, RemoveLock, ReadRecord, RetryCallback, MarkProcessing, ClaimWake,
         Coalesce, Requeue, Complete, FinishWake, ReleaseWake, Fail, Report, List, Done, Goto,
         Pcs
  <2>3. pc'[p] # "make" BY <2>2 DEF IntakeInv, TypeInv, TypeOK
  <2> QED BY <1>2, <2>1, <2>3
<1>6. ASSUME NEW p \in Procs, Throws(p) \/ Aborts(p) \/ Restart(p)
      PROVE  MakeInv' /\ TaskKept
  <2>1. UNCHANGED task BY <1>6 DEF Throws, Aborts, Restart
  <2>2. \/ UNCHANGED <<pc, loc>>
        \/ \E c \in {"fail", "release", "unlock", "pick", "idle", "dead"} :
             pc' = [pc EXCEPT ![p] = c]
    BY <1>6 DEF Throws, Aborts, Restart, Done, Goto
  <2>3. CASE UNCHANGED <<pc, loc>> BY <1>1, <2>1, <2>3
  <2>4. CASE ~UNCHANGED <<pc, loc>>
    <3>1. pc'[p] # "make" BY <2>2, <2>4 DEF IntakeInv, TypeInv, TypeOK
    <3> QED BY <1>2, <2>1, <3>1
  <2> QED BY <2>3, <2>4
<1>7. ASSUME NEW d \in Deliveries, TakeTask(d) PROVE MakeInv' /\ TaskKept
  <2>1. /\ task[d] = "draft" /\ task' = [task EXCEPT ![d] = "taken"] /\ UNCHANGED <<pc, loc>>
    BY <1>7 DEF TakeTask
  <2>2. \A e \in Deliveries \ {d} : task'[e] = task[e] BY <2>1 DEF IntakeInv, TypeInv, TypeOK
  <2>3. task'[d] = "taken" BY <2>1 DEF IntakeInv, TypeInv, TypeOK
  <2>4. \A p \in Procs : pc[p] = "make" => loc[p].d \in Deliveries \ {d}
    BY <2>1 DEF MakeInv, IntakeInv, TypeInv, LocalOK, Quiet
  <2> QED BY <2>1, <2>2, <2>3, <2>4 DEF MakeInv, TaskKept
<1>8. ASSUME NEW p \in Procs, NEW d \in Deliveries,
             Accept(p, d) \/ CreateRecord(p, d) \/ RecordWake(p, d)
      PROVE  UNCHANGED <<task, pc, loc>>
  BY <1>8 DEF Accept, CreateRecord, RecordWake
<1>9. ASSUME NEW d \in Deliveries, LockExpires(d) PROVE UNCHANGED <<task, pc, loc>>
  BY <1>9 DEF LockExpires
<1>10. ASSUME NEW x \in Works, WakeExpires(x) PROVE UNCHANGED <<task, pc, loc>>
  BY <1>10 DEF WakeExpires
<1> QED
  BY <1>1, <1>3, <1>4, <1>5, <1>6, <1>7, <1>8, <1>9, <1>10 DEF Next, Handle, vars

\* A task that a user took up, or a rework request that is over, is never made
\* into a draft again, however often its server dies and its delivery is drained.
THEOREM TakenTaskKeptAlways ==
  ASSUME OneServer PROVE Spec => TakenTaskKept
<1>1. Init => MakeInv BY DEF Init, MakeInv
<1>2. IntakeInv /\ MakeInv /\ [Next]_vars => MakeInv' BY MakeNext
<1>3. IntakeInv /\ MakeInv /\ [Next]_vars => [TaskKept]_vars BY MakeNext
<1> QED BY <1>1, <1>2, <1>3, IntakeInvariant, PTL DEF Spec, TakenTaskKept
=============================================================================
