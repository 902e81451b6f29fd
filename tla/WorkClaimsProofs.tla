-------------------------- MODULE WorkClaimsProofs --------------------------
(* Theorems about WorkClaims, for any mutations, processes and bounds.      *)
EXTENDS WorkClaimsProps, TLAPS

\* What the local variables of a call hold.
LocalOK(p) ==
  /\ pc[p] # "idle" => loc[p].key \in Keys
  /\ loc[p].outer # NoKey => loc[p].outer \in Repairs

TypeInv == TypeOK /\ \A p \in Procs : LocalOK(p)

\* How far the effect of a mutation is: started at most once, by one call, and
\* remembered as unknown or completed once it was applied.
Applying(p) == pc[p] \in {"effect", "applied"}
EffectInv ==
  /\ \A p \in Procs : Applying(p) /\ loc[p].key \notin Repairs =>
       /\ Claimed(loc[p].key, "unknown")
       /\ At(p, "effect") => pushes[loc[p].key] = 0
  /\ \A p, q \in Procs :
       /\ Applying(p) /\ Applying(q)
       /\ loc[p].key = loc[q].key /\ loc[p].key \notin Repairs
       => p = q
  /\ \A k \in Keys, d \in Domains :
       d \in DomainsOf(k) /\ pushes[k] > 0 => claims[d][k] \in {"unknown", "completed"}
  /\ EffectOnce

Others(p) == \A q \in Procs \ {p} : pc'[q] = pc[q] /\ loc'[q] = loc[q]

-----------------------------------------------------------------------------
(* Domains, claims and local variables are typed                           *)

\* A mutation names at least its action domain.
LEMMA DomainTypes ==
  \A k \in Keys : ActionDomain(k) \in DomainsOf(k) /\ DomainsOf(k) \subseteq Domains
BY DEF DomainsOf, Domains

\* The branch of a stage is one of the branches of GitHub.
LEMMA BranchTypes ==
  \A k \in Keys : /\ k \notin Repairs => Branch(k) \in Branches
                  /\ k \in Repairs => Nested(k) \in Keys \ Repairs
BY MutationAssumption DEF Branch, Branches, Repairs, Nested, Kinds

\* Setting the claims of one mutation.
LEMMA ClaimTypes ==
  ASSUME TypeOK, NEW k \in Keys, NEW status \in Status
  PROVE  /\ SetClaims(k, status) \in [Domains -> [Keys -> Status]]
         /\ \A d \in Domains, j \in Keys :
              SetClaims(k, status)[d][j] =
                IF d \in DomainsOf(k) /\ j = k THEN status ELSE claims[d][j]
BY DEF TypeOK, SetClaims

\* An idle call's local variables are typed.
LEMMA NullLocal == NoLocal \in Local
BY NullAssumption DEF NoLocal, Local, Heads

\* A call that is over keeps the invariant.
LEMMA FinishOK ==
  ASSUME TypeInv, NEW p \in Procs, Finish(p)
  PROVE  /\ pc' \in [Procs -> Pcs] /\ loc' \in [Procs -> Local]
         /\ \A q \in Procs : LocalOK(q)'
         /\ Others(p) /\ pc'[p] = "idle"
<1>1. /\ pc' \in [Procs -> Pcs] /\ loc' \in [Procs -> Local]
      /\ Others(p) /\ pc'[p] = "idle" /\ loc'[p] = NoLocal
  BY NullLocal DEF TypeInv, TypeOK, Finish, Goto, Pcs, Others
<1>2. \A q \in Procs : LocalOK(q)'
  BY <1>1 DEF TypeInv, LocalOK, Others, NoLocal
<1> QED BY <1>1, <1>2

\* runGuardedMutation is entered with a key, an observed head and its domains.
LEMMA GuardOK ==
  ASSUME TypeInv, NEW p \in Procs, NEW k \in Keys, NEW outer \in Repairs \cup {NoKey},
         NEW obs \in Heads, Guard(p, k, outer, obs)
  PROVE  /\ pc' \in [Procs -> Pcs] /\ loc' \in [Procs -> Local]
         /\ \A q \in Procs : LocalOK(q)'
         /\ Others(p) /\ pc'[p] = "snapshot"
<1> DEFINE new == [NoLocal EXCEPT !.key = k, !.outer = outer, !.obs = obs,
                                  !.todo = DomainsOf(k)]
<1>1. new \in Local /\ new.key = k /\ new.outer = outer
  BY NullLocal, DomainTypes DEF Local, NoLocal, Repairs
<1>2. /\ pc' \in [Procs -> Pcs] /\ loc' \in [Procs -> Local]
      /\ Others(p) /\ pc'[p] = "snapshot" /\ loc'[p] = new
  BY <1>1 DEF TypeInv, TypeOK, Guard, Goto, Pcs, Others
<1>3. \A q \in Procs : LocalOK(q)'
  BY <1>1, <1>2 DEF TypeInv, LocalOK, Others
<1> QED BY <1>2, <1>3

-----------------------------------------------------------------------------
(* Type correctness                                                        *)

\* The initial stores are typed.
LEMMA InitOK == ASSUME Init PROVE TypeInv
BY NullLocal, FaultAssumption, NullAssumption
   DEF Init, TypeInv, TypeOK, LocalOK, NoLocal, Status, Heads, Pcs

\* A check-out reads the head of the branch of a stage.
LEMMA CheckOutOK ==
  ASSUME TypeInv, NEW k \in Keys, CheckOut(k) PROVE TypeInv'
<1>1. remote[Branch(k)] \in Heads
  BY BranchTypes DEF CheckOut, Repairs, TypeInv, TypeOK
<1> QED
  BY <1>1 DEF CheckOut, TypeInv, TypeOK, LocalOK

\* A stage enters runGuardedMutation with what its Run checked out.
LEMMA StartStageOK ==
  ASSUME TypeInv, NEW p \in Procs, NEW k \in Keys, StartStage(p, k) PROVE TypeInv'
<1>1. checkout[k] \in Heads BY DEF TypeInv, TypeOK
<1>2. Guard(p, k, NoKey, checkout[k]) BY DEF StartStage
<1> QED BY <1>1, <1>2, GuardOK DEF StartStage, TypeInv, TypeOK

\* A repair enters it with the head of the pull request.
LEMMA StartRepairOK ==
  ASSUME TypeInv, NEW p \in Procs, NEW k \in Keys, StartRepair(p, k) PROVE TypeInv'
<1> DEFINE head == remote[Branch(Nested(k))]
<1>1. head \in Heads
  BY BranchTypes DEF StartRepair, TypeInv, TypeOK
<1>2. Guard(p, k, NoKey, head) BY DEF StartRepair
<1>3. checkout' \in [Keys -> Heads] BY <1>1 DEF StartRepair, TypeInv, TypeOK
<1> QED BY <1>1, <1>2, <1>3, GuardOK DEF StartRepair, TypeInv, TypeOK

\* The Run of a repair enters it for its own stage.
LEMMA RunRepairFlowOK ==
  ASSUME TypeInv, NEW p \in Procs, RunRepairFlow(p) PROVE TypeInv'
<1> DEFINE k == loc[p].key
           u == Nested(k)
<1>1. k \in Repairs /\ u \in Keys \ Repairs
  BY BranchTypes DEF RunRepairFlow, Repairs
<1>2. remote[Branch(u)] \in Heads
  BY <1>1, BranchTypes DEF TypeInv, TypeOK
<1>3. Guard(p, u, k, remote[Branch(u)]) BY DEF RunRepairFlow
<1>4. checkout' \in [Keys -> Heads]
  BY <1>1, <1>2 DEF RunRepairFlow, TypeInv, TypeOK
<1> QED BY <1>1, <1>2, <1>3, <1>4, GuardOK DEF RunRepairFlow, TypeInv, TypeOK

\* A domain is read into the local variables.
LEMMA SnapshotOK ==
  ASSUME TypeInv, NEW p \in Procs, Snapshot(p) PROVE TypeInv'
<1>1. PICK d \in loc[p].todo :
        /\ loc' = [loc EXCEPT ![p].seen[d] = world[d].rev, ![p].todo = @ \ {d}]
        /\ IF loc[p].todo = {d} THEN Goto(p, "propose") ELSE UNCHANGED pc
  BY DEF Snapshot
<1>2. loc[p] \in Local /\ d \in Domains /\ world[d].rev \in Nat
  BY DEF TypeInv, TypeOK, Local
<1> DEFINE new == [loc[p] EXCEPT !.seen[d] = world[d].rev, !.todo = @ \ {d}]
<1>3. new \in Local /\ new.key = loc[p].key /\ new.outer = loc[p].outer
  BY <1>2 DEF Local
<1>4. loc' = [loc EXCEPT ![p] = new] BY <1>1
<1>5. /\ pc' \in [Procs -> Pcs] /\ \A q \in Procs : pc'[q] # "idle" => pc[q] # "idle"
  BY <1>1 DEF Snapshot, At, Goto, TypeInv, TypeOK, Pcs
<1>6. \A q \in Procs : LocalOK(q)'
  BY <1>3, <1>4, <1>5 DEF LocalOK, TypeInv, TypeOK
<1> QED BY <1>3, <1>4, <1>5, <1>6 DEF Snapshot, TypeInv, TypeOK

\* A proposal claims the domains of its key, holds it, or ends the call.
LEMMA ProposeOK ==
  ASSUME TypeInv, NEW p \in Procs, Propose(p) PROVE TypeInv'
<1> DEFINE k == loc[p].key
           a == ActionDomain(k)
<1>1. k \in Keys /\ loc[p] \in Local /\ pc[p] # "idle" /\ a \in Domains
  BY DomainTypes DEF Propose, At, TypeInv, TypeOK, LocalOK
<1>2. \/ Finish(p)
      \/ Goto(p, "mark") /\ UNCHANGED loc
  BY DEF Propose
<1>3. /\ pc' \in [Procs -> Pcs] /\ loc' \in [Procs -> Local]
      /\ \A q \in Procs : LocalOK(q)'
  <2>1. CASE Finish(p) BY <2>1, FinishOK
  <2>2. CASE Goto(p, "mark") /\ UNCHANGED loc
    BY <1>1, <2>2 DEF Goto, TypeInv, TypeOK, LocalOK, Pcs
  <2> QED BY <1>2, <2>1, <2>2
<1>4. claims' \in [Domains -> [Keys -> Status]]
  <2>1. SetClaims(k, "claimed") \in [Domains -> [Keys -> Status]]
    BY <1>1, ClaimTypes DEF TypeInv, Status
  <2> QED BY <2>1 DEF Propose, TypeInv, TypeOK
<1>5. holds' \subseteq Domains \X Keys \X (Nat \X Heads)
  <2>1. <<a, k, <<loc[p].seen[a], loc[p].obs>>>> \in Domains \X Keys \X (Nat \X Heads)
    BY <1>1 DEF Local
  <2> QED BY <2>1 DEF Propose, TypeInv, TypeOK
<1> QED BY <1>3, <1>4, <1>5 DEF Propose, TypeInv, TypeOK

\* markEffectStarted makes the claims unknown, or ends the call.
LEMMA MarkStartedOK ==
  ASSUME TypeInv, NEW p \in Procs, MarkStarted(p) PROVE TypeInv'
<1>1. loc[p].key \in Keys /\ pc[p] # "idle"
  BY DEF MarkStarted, At, TypeInv, LocalOK
<1>2. /\ pc' \in [Procs -> Pcs] /\ loc' \in [Procs -> Local]
      /\ \A q \in Procs : LocalOK(q)'
  <2>1. CASE Finish(p) BY <2>1, FinishOK
  <2>2. CASE Goto(p, "effect") /\ UNCHANGED loc
    BY <1>1, <2>2 DEF Goto, TypeInv, TypeOK, LocalOK, Pcs
  <2> QED BY <2>1, <2>2 DEF MarkStarted
<1>3. claims' \in [Domains -> [Keys -> Status]]
  <2>1. SetClaims(loc[p].key, "unknown") \in [Domains -> [Keys -> Status]]
    BY <1>1, ClaimTypes DEF TypeInv, Status
  <2> QED BY <2>1 DEF MarkStarted, TypeInv, TypeOK
<1> QED BY <1>2, <1>3 DEF MarkStarted, TypeInv, TypeOK

\* A push moves a branch to its mutation.
LEMMA PushOK ==
  ASSUME TypeInv, NEW p \in Procs, Push(p) PROVE TypeInv'
<1>1. loc[p].key \in Keys /\ loc[p].key \in Heads /\ pc[p] # "idle"
  BY DEF Push, At, TypeInv, LocalOK, Heads
<1>2. remote' \in [Branches -> Heads]
  BY <1>1 DEF Push, TypeInv, TypeOK
<1>3. pushes' \in [Keys -> Nat]
  <2>1. pushes[loc[p].key] + 1 \in Nat BY <1>1 DEF TypeInv, TypeOK
  <2> QED BY <2>1 DEF Push, TypeInv, TypeOK
<1>4. pc' \in [Procs -> Pcs] /\ \A q \in Procs : LocalOK(q)'
  BY <1>1 DEF Push, Goto, TypeInv, TypeOK, LocalOK, Pcs
<1> QED BY <1>2, <1>3, <1>4 DEF Push, TypeInv, TypeOK

\* The head that a mutation records was pushed by a mutation.
LEMMA WorldTypes ==
  ASSUME TypeOK, NEW k \in Keys
  PROVE  WorldAfter(k) \in [Domains -> [rev : Nat, head : Heads]]
<1>1. PushedBy(k) \in Heads BY BranchTypes DEF PushedBy, Heads
<1> QED BY <1>1 DEF WorldAfter, Advanced, TypeOK

\* A completed mutation ends the call, or returns to its repair.
LEMMA CompleteOK ==
  ASSUME TypeInv, NEW p \in Procs, Complete(p) PROVE TypeInv'
<1> DEFINE k == loc[p].key
<1>1. k \in Keys /\ pc[p] # "idle" /\ loc[p] \in Local
  BY DEF Complete, At, TypeInv, TypeOK, LocalOK
<1>2. /\ pc' \in [Procs -> Pcs] /\ loc' \in [Procs -> Local]
      /\ \A q \in Procs : LocalOK(q)'
  <2>1. CASE Finish(p) BY <2>1, FinishOK
  <2>2. CASE /\ loc[p].outer # NoKey /\ UNCHANGED pc
             /\ loc' = [loc EXCEPT ![p].key = loc[p].outer, ![p].outer = NoKey]
    <3>1. loc[p].outer \in Repairs BY <2>2 DEF TypeInv, LocalOK
    <3>2. [loc[p] EXCEPT !.key = loc[p].outer, !.outer = NoKey] \in Local
      BY <1>1, <3>1 DEF Local, Repairs
    <3> QED BY <1>1, <2>2, <3>1, <3>2 DEF TypeInv, TypeOK, LocalOK, Local, Repairs
  <2> QED BY <2>1, <2>2 DEF Complete
<1>3. claims' \in [Domains -> [Keys -> Status]]
  <2>1. Recorded(k) \in [Domains -> [Keys -> Status]]
    BY <1>1, ClaimTypes DEF TypeInv, Status, Recorded
  <2> QED BY <2>1 DEF Complete, TypeInv, TypeOK
<1>4. world' \in [Domains -> [rev : Nat, head : Heads]]
  BY <1>1, WorldTypes DEF Complete, TypeInv, TypeOK
<1> QED BY <1>2, <1>3, <1>4 DEF Complete, TypeInv, TypeOK

\* A call that dies or throws.
LEMMA AbandonOK ==
  ASSUME TypeInv, NEW p \in Procs, Abandon(p) PROVE TypeInv'
<1>1. faults' \in 0..MaxFaults BY FaultAssumption DEF Abandon, TypeInv, TypeOK
<1> QED BY <1>1, FinishOK DEF Abandon, TypeInv, TypeOK

\* A push by somebody else.
LEMMA StrangerPushesOK ==
  ASSUME TypeInv, NEW s \in Strangers, NEW b \in Branches, StrangerPushes(s, b)
  PROVE  TypeInv'
BY DEF StrangerPushes, TypeInv, TypeOK, LocalOK, Heads

\* Every step keeps the types: one lemma per action.
LEMMA NextOK == ASSUME TypeInv, [Next]_vars PROVE TypeInv'
<1>1. CASE UNCHANGED vars BY <1>1 DEF vars, TypeInv, TypeOK, LocalOK
<1> QED
  BY <1>1, CheckOutOK, StartStageOK, StartRepairOK, RunRepairFlowOK, SnapshotOK,
     ProposeOK, MarkStartedOK, PushOK, CompleteOK, AbandonOK, StrangerPushesOK
  DEF Next, Step

\* The invariant behind the theorems below.
LEMMA TypeInvariant == Spec => []TypeInv
BY InitOK, NextOK, PTL DEF Spec

\* Every store, and every local variable of a guarded mutation, is typed.
THEOREM ClaimsTypeCorrect == Spec => []TypeOK
<1>1. TypeInv => TypeOK BY DEF TypeInv
<1> QED BY <1>1, TypeInvariant, PTL

-----------------------------------------------------------------------------
(* One claim per domain                                                    *)

\* The claims of a mutation move on together; none becomes active beside
\* another one.
Activates(k) == Rivals(k) = {} /\ claims' = SetClaims(k, "claimed")
Moves(k) ==
  \/ Claimed(k, "claimed") /\ claims' = SetClaims(k, "unknown")
  \/ claims' = SetClaims(k, "completed")
ClaimStep ==
  \/ UNCHANGED claims
  \/ \E k \in Keys : Activates(k) \/ Moves(k)

\* Only a proposal, a mark and a completion write to the claims.
LEMMA NextClaims == ASSUME TypeInv, [Next]_vars PROVE ClaimStep
<1>1. CASE UNCHANGED vars BY <1>1 DEF vars, ClaimStep
<1>2. ASSUME NEW p \in Procs, Propose(p) PROVE ClaimStep
  <2>1. loc[p].key \in Keys BY <1>2 DEF Propose, At, TypeInv, LocalOK
  <2> QED BY <1>2, <2>1 DEF Propose, ClaimStep, Activates
<1>3. ASSUME NEW p \in Procs, MarkStarted(p) PROVE ClaimStep
  <2>1. loc[p].key \in Keys BY <1>3 DEF MarkStarted, At, TypeInv, LocalOK
  <2> QED BY <1>3, <2>1 DEF MarkStarted, ClaimStep, Moves
<1>4. ASSUME NEW p \in Procs, Complete(p) PROVE ClaimStep
  <2>1. loc[p].key \in Keys BY <1>4 DEF Complete, At, TypeInv, LocalOK
  <2> QED BY <1>4, <2>1 DEF Complete, Recorded, ClaimStep, Moves
<1> QED
  BY <1>1, <1>2, <1>3, <1>4
  DEF Next, Step, CheckOut, StartStage, StartRepair, RunRepairFlow, Snapshot, Push,
      Abandon, StrangerPushes, ClaimStep

\* A conflict domain is never claimed by two mutations, whichever domains they
\* share, whoever dies, and however the reads of their snapshots interleave.
THEOREM OneClaimPerDomainAlways == Spec => []OneClaimPerDomain
<1>1. Init => OneClaimPerDomain BY DEF Init, OneClaimPerDomain
<1>2. TypeInv /\ OneClaimPerDomain /\ [Next]_vars => OneClaimPerDomain'
  <2> SUFFICES ASSUME TypeInv, OneClaimPerDomain, [Next]_vars PROVE OneClaimPerDomain'
    OBVIOUS
  <2>1. TypeOK BY DEF TypeInv
  <2>2. CASE UNCHANGED claims BY <2>2 DEF OneClaimPerDomain
  <2>3. ASSUME NEW k \in Keys, Activates(k) PROVE OneClaimPerDomain'
    <3>1. \A d \in Domains, j \in Keys :
            claims'[d][j] = IF d \in DomainsOf(k) /\ j = k THEN "claimed" ELSE claims[d][j]
      BY <2>1, <2>3, ClaimTypes DEF Activates, Status
    <3>2. \A d \in DomainsOf(k), j \in Keys \ {k} : claims[d][j] \notin {"claimed", "unknown"}
      BY <2>3 DEF Activates, Rivals
    <3> QED BY <3>1, <3>2 DEF OneClaimPerDomain
  <2>4. ASSUME NEW k \in Keys, Moves(k) PROVE OneClaimPerDomain'
    <3>1. \A d \in Domains, j \in Keys :
            claims'[d][j] \in {"claimed", "unknown"} => claims[d][j] \in {"claimed", "unknown"}
      <4>1. PICK to \in {"unknown", "completed"} :
              /\ claims' = SetClaims(k, to)
              /\ to = "unknown" => Claimed(k, "claimed")
        BY <2>4 DEF Moves
      <4>2. \A d \in Domains, j \in Keys :
              claims'[d][j] = IF d \in DomainsOf(k) /\ j = k THEN to ELSE claims[d][j]
        BY <2>1, <4>1, ClaimTypes DEF Status
      <4> QED BY <4>1, <4>2 DEF Claimed
    <3> QED BY <3>1 DEF OneClaimPerDomain
  <2> QED BY <2>2, <2>3, <2>4, NextClaims DEF ClaimStep
<1> QED BY <1>1, <1>2, TypeInvariant, PTL DEF Spec

-----------------------------------------------------------------------------
(* An effect is applied at most once                                       *)

\* A call that ends or starts over is not applying an effect, and what the
\* stores say of the effects is unchanged.
LEMMA LeaveKeeps ==
  ASSUME TypeInv, EffectInv, NEW p \in Procs, Others(p), ~Applying(p)',
         UNCHANGED <<claims, pushes>>
  PROVE  EffectInv'
BY DEF EffectInv, Others, Applying, At, Claimed, EffectOnce

\* A step of p at which the claims of its key change from `from`, where no
\* effect of that key is under way.
LEMMA ClaimsKeep ==
  ASSUME TypeInv, EffectInv, NEW p \in Procs, Others(p), NEW k \in Keys,
         NEW to \in Status, claims' = SetClaims(k, to), UNCHANGED pushes,
         k \in Repairs \/ \A q \in Procs \ {p} : Applying(q) => loc[q].key # k,
         pushes[k] > 0 => to \in {"unknown", "completed"},
         Applying(p)' /\ loc'[p].key \notin Repairs =>
           /\ loc'[p].key = k /\ k \notin Repairs /\ to = "unknown" /\ pushes[k] = 0
  PROVE  EffectInv'
<1>1. \A d \in Domains, j \in Keys :
        claims'[d][j] = IF d \in DomainsOf(k) /\ j = k THEN to ELSE claims[d][j]
  BY ClaimTypes DEF TypeInv
<1>2. \A q \in Procs \ {p} :
        Applying(q) /\ loc[q].key \notin Repairs => loc[q].key \in Keys \ {k}
  BY DEF TypeInv, LocalOK, Applying
<1>3. ASSUME NEW q \in Procs, Applying(q)', loc'[q].key \notin Repairs
      PROVE  /\ Claimed(loc[q].key, "unknown")'
             /\ At(q, "effect")' => pushes'[loc'[q].key] = 0
  <2>1. CASE q = p
    BY <1>1, <1>3, <2>1, DomainTypes DEF Claimed
  <2>2. CASE q # p
    <3>1. Applying(q) /\ loc[q].key \in Keys \ {k} /\ loc'[q] = loc[q] /\ pc'[q] = pc[q]
      BY <1>2, <1>3, <2>2 DEF Others, Applying
    <3>2. Claimed(loc[q].key, "unknown") /\ (At(q, "effect") => pushes[loc[q].key] = 0)
      BY <1>3, <3>1 DEF EffectInv
    <3> QED BY <1>1, <3>1, <3>2, DomainTypes DEF Claimed, At
  <2> QED BY <2>1, <2>2
<1>4. ASSUME NEW q \in Procs, NEW r \in Procs, Applying(q)', Applying(r)',
             loc'[q].key = loc'[r].key, loc'[q].key \notin Repairs
      PROVE  q = r
  BY <1>2, <1>4 DEF EffectInv, Others, Applying
<1>5. \A j \in Keys, d \in Domains :
        d \in DomainsOf(j) /\ pushes'[j] > 0 => claims'[d][j] \in {"unknown", "completed"}
  BY <1>1 DEF EffectInv
<1> QED BY <1>3, <1>4, <1>5 DEF EffectInv, EffectOnce

\* What a call that ended, or entered runGuardedMutation, leaves behind.
LEMMA NotApplying ==
  ASSUME TypeInv, NEW p \in Procs,
         \/ Finish(p)
         \/ \E k \in Keys, outer \in Repairs \cup {NoKey}, obs \in Heads :
              Guard(p, k, outer, obs)
  PROVE  Others(p) /\ ~Applying(p)'
<1>1. Others(p) /\ pc'[p] \in {"idle", "snapshot"} BY FinishOK, GuardOK
<1> QED BY <1>1 DEF Applying

\* A snapshot, or a proposal, ends before the effect.
LEMMA ProposeKeeps ==
  ASSUME TypeInv, EffectInv, NEW p \in Procs, Snapshot(p) \/ Propose(p)
  PROVE  EffectInv'
<1> DEFINE k == loc[p].key
<1>1. k \in Keys BY DEF Snapshot, Propose, At, TypeInv, LocalOK
<1>2. Others(p) /\ ~Applying(p)'
  <2>1. CASE Finish(p) BY <2>1, NotApplying
  <2>2. CASE ~Finish(p)
    BY <2>2 DEF Snapshot, Propose, At, Goto, TypeInv, TypeOK, Others, Applying
  <2> QED BY <2>1, <2>2
<1>3. CASE UNCHANGED claims
  BY <1>2, <1>3, LeaveKeeps DEF Snapshot, Propose
<1>4. CASE claims[ActionDomain(k)][k] = "none" /\ claims' = SetClaims(k, "claimed")
           /\ UNCHANGED pushes
  <2>1. ActionDomain(k) \in DomainsOf(k) \cap Domains BY <1>1, DomainTypes
  <2>2. pushes[k] \in Nat /\ ~(pushes[k] > 0)
    BY <1>1, <1>4, <2>1 DEF EffectInv, TypeInv, TypeOK
  <2>3. k \in Repairs \/ \A q \in Procs \ {p} : Applying(q) => loc[q].key # k
    BY <1>4, <2>1 DEF EffectInv, Claimed
  <2> QED BY <1>1, <1>2, <1>4, <2>2, <2>3, ClaimsKeep DEF Status
<1> QED BY <1>3, <1>4 DEF Snapshot, Propose

\* The claims become unknown before an effect is applied for the first time.
LEMMA MarkStartedKeeps ==
  ASSUME TypeInv, EffectInv, NEW p \in Procs, MarkStarted(p) PROVE EffectInv'
<1> DEFINE k == loc[p].key
<1>1. k \in Keys /\ ActionDomain(k) \in DomainsOf(k) \cap Domains
  BY DomainTypes DEF MarkStarted, At, TypeInv, LocalOK
<1>2. CASE Finish(p) /\ UNCHANGED <<claims, pushes>>
  BY <1>2, NotApplying, LeaveKeeps
<1>3. CASE /\ Claimed(k, "claimed") /\ claims' = SetClaims(k, "unknown")
           /\ Goto(p, "effect") /\ UNCHANGED <<loc, pushes>>
  <2>1. pushes[k] \in Nat /\ pushes[k] = 0
    <3>1. ~(pushes[k] > 0) BY <1>1, <1>3 DEF EffectInv, Claimed
    <3> QED BY <1>1, <3>1 DEF TypeInv, TypeOK
  <2>2. k \in Repairs \/ \A q \in Procs \ {p} : Applying(q) => loc[q].key # k
    BY <1>1, <1>3 DEF EffectInv, Claimed
  <2>3. Others(p) /\ loc'[p].key = k
    BY <1>3 DEF Goto, TypeInv, TypeOK, Others
  <2> QED BY <1>1, <1>3, <2>1, <2>2, <2>3, ClaimsKeep DEF Status
<1> QED BY <1>2, <1>3 DEF MarkStarted

\* The push is the first of its key.
LEMMA PushKeeps ==
  ASSUME TypeInv, EffectInv, NEW p \in Procs, Push(p) PROVE EffectInv'
<1> DEFINE k == loc[p].key
<1>1. k \in Keys \ Repairs /\ pushes[k] = 0 /\ Claimed(k, "unknown") /\ Applying(p)
  BY DEF Push, At, TypeInv, LocalOK, EffectInv, Applying
<1>2. /\ pc' = [pc EXCEPT ![p] = "applied"] /\ loc' = loc /\ claims' = claims
      /\ \A j \in Keys : pushes'[j] = IF j = k THEN 1 ELSE pushes[j]
  BY <1>1 DEF Push, Goto, TypeInv, TypeOK
<1>3. ASSUME NEW q \in Procs, Applying(q)', loc'[q].key \notin Repairs
      PROVE  /\ Claimed(loc[q].key, "unknown")'
             /\ At(q, "effect")' => pushes'[loc'[q].key] = 0
  <2>1. Applying(q) /\ loc'[q] = loc[q] /\ loc[q].key \in Keys
    BY <1>1, <1>2, <1>3 DEF Applying, TypeInv, TypeOK, LocalOK
  <2>2. At(q, "effect")' => q # p /\ At(q, "effect") /\ loc[q].key # k
    BY <1>1, <1>2, <1>3, <2>1 DEF At, EffectInv, TypeInv, TypeOK
  <2> QED BY <1>2, <1>3, <2>1, <2>2 DEF EffectInv, Claimed
<1>4. ASSUME NEW q \in Procs, NEW r \in Procs, Applying(q)', Applying(r)',
             loc'[q].key = loc'[r].key, loc'[q].key \notin Repairs
      PROVE  q = r
  BY <1>1, <1>2, <1>4 DEF EffectInv, Applying, TypeInv, TypeOK
<1>5. \A j \in Keys, d \in Domains :
        d \in DomainsOf(j) /\ pushes'[j] > 0 => claims'[d][j] \in {"unknown", "completed"}
  BY <1>1, <1>2 DEF EffectInv, Claimed
<1>6. EffectOnce' BY <1>2 DEF EffectInv, EffectOnce
<1> QED BY <1>3, <1>4, <1>5, <1>6 DEF EffectInv

\* A completion ends the only call that applied the effect of its key.
LEMMA CompleteKeeps ==
  ASSUME TypeInv, EffectInv, NEW p \in Procs, Complete(p) PROVE EffectInv'
<1> DEFINE k == loc[p].key
<1>1. k \in Keys /\ Applying(p)
  BY DEF Complete, At, TypeInv, LocalOK, Applying
<1>2. Others(p)
  <2>1. CASE Finish(p) BY <2>1, NotApplying
  <2>2. CASE ~Finish(p) BY <2>2 DEF Complete, TypeInv, TypeOK, Others
  <2> QED BY <2>1, <2>2
<1>3. Applying(p)' => loc'[p].key \in Repairs
  <2>1. CASE Finish(p) BY <2>1, NotApplying
  <2>2. CASE ~Finish(p)
    <3>1. loc[p].outer # NoKey => loc[p].outer \in Repairs BY DEF TypeInv, LocalOK
    <3>2. loc[p] \in Local BY DEF TypeInv, TypeOK
    <3> QED BY <2>2, <3>1, <3>2 DEF Complete, TypeInv, TypeOK, Local
  <2> QED BY <2>1, <2>2
<1>4. CASE Claimed(k, "unknown") /\ claims' = Recorded(k) /\ UNCHANGED pushes
  <2>1. k \in Repairs \/ \A q \in Procs \ {p} : Applying(q) => loc[q].key # k
    BY <1>1 DEF EffectInv
  <2> QED BY <1>1, <1>2, <1>3, <1>4, <2>1, ClaimsKeep DEF Recorded, Status
<1>5. CASE Finish(p) /\ UNCHANGED <<claims, pushes>>
  BY <1>5, NotApplying, LeaveKeeps
<1> QED BY <1>4, <1>5 DEF Complete

\* How far an effect is, in every reachable state.
LEMMA EffectInvariant == Spec => []EffectInv
<1>1. Init => EffectInv
  BY DEF Init, EffectInv, EffectOnce, Applying
<1>2. TypeInv /\ EffectInv /\ [Next]_vars => EffectInv'
  <2> SUFFICES ASSUME TypeInv, EffectInv, [Next]_vars PROVE EffectInv'
    OBVIOUS
  <2>1. CASE UNCHANGED vars
    BY <2>1 DEF vars, EffectInv, Applying, At, Claimed, EffectOnce
  <2>2. ASSUME NEW p \in Procs, NEW k \in Keys, StartStage(p, k) PROVE EffectInv'
    <3>1. checkout[k] \in Heads BY DEF TypeInv, TypeOK
    <3>2. Guard(p, k, NoKey, checkout[k]) BY <2>2 DEF StartStage
    <3> QED BY <2>2, <3>1, <3>2, NotApplying, LeaveKeeps DEF StartStage
  <2>3. ASSUME NEW p \in Procs, NEW k \in Keys, StartRepair(p, k) PROVE EffectInv'
    <3>1. remote[Branch(Nested(k))] \in Heads
      BY <2>3, BranchTypes DEF StartRepair, TypeInv, TypeOK
    <3>2. Guard(p, k, NoKey, remote[Branch(Nested(k))]) BY <2>3 DEF StartRepair
    <3> QED BY <2>3, <3>1, <3>2, NotApplying, LeaveKeeps DEF StartRepair
  <2>4. ASSUME NEW p \in Procs, RunRepairFlow(p) PROVE EffectInv'
    <3> DEFINE k == loc[p].key
               u == Nested(k)
    <3>1. k \in Repairs /\ u \in Keys /\ remote[Branch(u)] \in Heads
      BY <2>4, BranchTypes DEF RunRepairFlow, Repairs, TypeInv, TypeOK
    <3>2. Guard(p, u, k, remote[Branch(u)]) BY <2>4 DEF RunRepairFlow
    <3> QED BY <2>4, <3>1, <3>2, NotApplying, LeaveKeeps DEF RunRepairFlow
  <2>5. ASSUME NEW p \in Procs, Abandon(p) PROVE EffectInv'
    BY <2>5, NotApplying, LeaveKeeps DEF Abandon
  <2>6. ASSUME NEW k \in Keys, CheckOut(k) PROVE EffectInv'
    BY <2>6 DEF CheckOut, EffectInv, Applying, At, Claimed, EffectOnce
  <2>7. ASSUME NEW s \in Strangers, NEW b \in Branches, StrangerPushes(s, b)
        PROVE  EffectInv'
    BY <2>7 DEF StrangerPushes, EffectInv, Applying, At, Claimed, EffectOnce
  <2> QED
    BY <2>1, <2>2, <2>3, <2>4, <2>5, <2>6, <2>7, ProposeKeeps, MarkStartedKeeps,
       PushKeeps, CompleteKeeps DEF Next, Step
<1> QED BY <1>1, <1>2, TypeInvariant, PTL DEF Spec

\* The effect of a mutation is applied at most once, however often its stage or
\* repair is run again and wherever a process died ("Nitely does not guess that
\* it failed and does not replay it", docs/work-coordination.md).
THEOREM EffectOnceAlways == Spec => []EffectOnce
<1>1. EffectInv => EffectOnce BY DEF EffectInv
<1> QED BY <1>1, EffectInvariant, PTL

-----------------------------------------------------------------------------
(* What a call observed is still recorded when it pushes                   *)

\* p works on k before its effect is applied.
Active(p, k) == pc[p] \notin {"idle", "applied"} /\ loc[p].key = k
\* p applies, or applied, the effect of k; that of a repair is a whole Run.
Engaged(p, k) == (Applying(p) /\ loc[p].key = k) \/ loc[p].outer = k
\* The claim of k's action; the claims of its other domains agree with it.
ClaimOf(k) == claims[ActionDomain(k)][k]
InUse(k) == ClaimOf(k) # "none" \/ \E p \in Procs : Active(p, k)

Agree == \A k \in Keys : \A d \in DomainsOf(k) : claims[d][k] = ClaimOf(k)
EngagedOnce ==
  /\ \A p \in Procs, k \in Keys : Engaged(p, k) => ClaimOf(k) = "unknown"
  /\ \A p, q \in Procs, k \in Keys : Engaged(p, k) /\ Engaged(q, k) => p = q
\* The head that a call observed is the one that its Run checked out.
Observed == \A p \in Procs, k \in Keys : Active(p, k) => loc[p].obs = checkout[k]
CheckedOut ==
  \A k \in Keys : Mutation[k].kind # "publish" /\ ~InRepair(k) /\ InUse(k)
                   => checkout[k] # NoHead
\* The stage of a repair's Run is reached only from the effect of the repair.
NestedOnce ==
  \A k \in Repairs : InUse(Nested(k)) =>
    /\ ClaimOf(k) \in {"unknown", "completed"}
    /\ \A p \in Procs : ~(At(p, "effect") /\ loc[p].key = k)
\* A claimed domain does not move.
Current(k) ==
  \A d \in DomainsOf(k) : world[d].rev = 0 \/ world[d].head = checkout[k]
ClaimedCurrent ==
  \A k \in Keys :
    ClaimOf(k) = "claimed" \/ (\E p \in Procs : At(p, "effect") /\ loc[p].key = k)
      => Current(k)

\* A call that works for a repair works on its stage.
OuterNested ==
  \A p \in Procs : loc[p].outer # NoKey =>
    loc[p].outer \in Repairs /\ loc[p].key = Nested(loc[p].outer)

FreshInv ==
  /\ Agree /\ EngagedOnce /\ Observed /\ CheckedOut /\ NestedOnce /\ ClaimedCurrent
  /\ OuterNested

\* The claims, and what they say of every key, after one key was set.
LEMMA ClaimOfAfter ==
  ASSUME TypeInv, Agree, NEW k \in Keys, NEW to \in Status, claims' = SetClaims(k, to)
  PROVE  /\ \A j \in Keys : ClaimOf(j)' = IF j = k THEN to ELSE ClaimOf(j)
         /\ Agree'
<1>1. \A d \in Domains, j \in Keys :
        claims'[d][j] = IF d \in DomainsOf(k) /\ j = k THEN to ELSE claims[d][j]
  BY ClaimTypes DEF TypeInv
<1>2. \A j \in Keys : ClaimOf(j)' = IF j = k THEN to ELSE ClaimOf(j)
  BY <1>1, DomainTypes DEF ClaimOf
<1>3. Agree' BY <1>1, <1>2, DomainTypes DEF Agree
<1> QED BY <1>2, <1>3

\* A step that writes to no store, and after which the calls are no further.
LEMMA ShrinkKeeps ==
  ASSUME FreshInv, UNCHANGED <<claims, world, checkout>>,
         \A q \in Procs, k \in Keys :
           /\ Engaged(q, k)' => Engaged(q, k)
           /\ Active(q, k)' => Active(q, k) /\ loc'[q].obs = loc[q].obs
           /\ At(q, "effect")' /\ loc'[q].key = k => At(q, "effect") /\ loc[q].key = k,
         OuterNested'
  PROVE  FreshInv'
<1>1. Agree' /\ (\A k : ClaimOf(k)' = ClaimOf(k)) /\ (\A k : Current(k)' = Current(k))
  BY DEF FreshInv, Agree, ClaimOf, Current
<1>2. \A k \in Keys : InUse(k)' => InUse(k) BY <1>1 DEF InUse
<1>3. EngagedOnce' /\ Observed' BY <1>1 DEF FreshInv, EngagedOnce, Observed
<1>4. CheckedOut' BY <1>2 DEF FreshInv, CheckedOut
<1>5. NestedOnce'
  <2>1. \A k \in Repairs : k \in Keys /\ Nested(k) \in Keys BY BranchTypes DEF Repairs
  <2> QED BY <1>1, <1>2, <2>1 DEF FreshInv, NestedOnce
<1>6. ClaimedCurrent' BY <1>1 DEF FreshInv, ClaimedCurrent
<1> QED BY <1>1, <1>3, <1>4, <1>5, <1>6 DEF FreshInv

\* A call that is over.
LEMMA FinishFresh ==
  ASSUME TypeInv, FreshInv, NEW p \in Procs, Finish(p),
         UNCHANGED <<claims, world, checkout>>
  PROVE  FreshInv'
<1>1. /\ pc'[p] = "idle" /\ loc'[p] = NoLocal
      /\ \A q \in Procs \ {p} : pc'[q] = pc[q] /\ loc'[q] = loc[q]
  BY DEF Finish, Goto, TypeInv, TypeOK
<1>2. \A q \in Procs, k \in Keys :
        /\ Engaged(q, k)' => Engaged(q, k)
        /\ Active(q, k)' => Active(q, k) /\ loc'[q].obs = loc[q].obs
        /\ At(q, "effect")' /\ loc'[q].key = k => At(q, "effect") /\ loc[q].key = k
  BY <1>1, NullAssumption DEF Engaged, Active, Applying, At, NoLocal
<1>3. OuterNested' BY <1>1 DEF FreshInv, OuterNested, NoLocal
<1> QED BY <1>2, <1>3, ShrinkKeeps

\* A call that moves on with the same key, observation and repair.
LEMMA MoveFresh ==
  ASSUME TypeInv, FreshInv, NEW p \in Procs, NEW label \in Pcs, Goto(p, label),
         loc'[p].key = loc[p].key, loc'[p].obs = loc[p].obs, loc'[p].outer = loc[p].outer,
         \A q \in Procs \ {p} : loc'[q] = loc[q],
         UNCHANGED <<claims, world, checkout>>,
         label # "idle" => pc[p] # "idle", label # "effect",
         label = "applied" \/ pc[p] # "applied", label = "applied" => Applying(p)
  PROVE  FreshInv'
<1>1. pc'[p] = label /\ \A q \in Procs \ {p} : pc'[q] = pc[q]
  BY DEF Goto, TypeInv, TypeOK
<1>2. \A q \in Procs, k \in Keys :
        /\ Engaged(q, k)' => Engaged(q, k)
        /\ Active(q, k)' => Active(q, k) /\ loc'[q].obs = loc[q].obs
        /\ At(q, "effect")' /\ loc'[q].key = k => At(q, "effect") /\ loc[q].key = k
  BY <1>1 DEF Engaged, Active, Applying, At
<1>3. OuterNested'
  <2>1. \A q \in Procs : loc'[q].outer = loc[q].outer /\ loc'[q].key = loc[q].key OBVIOUS
  <2> QED BY <2>1 DEF FreshInv, OuterNested
<1> QED BY <1>2, <1>3, ShrinkKeeps

\* A domain is read.
LEMMA SnapshotFresh ==
  ASSUME TypeInv, FreshInv, NEW p \in Procs, Snapshot(p) PROVE FreshInv'
<1>1. PICK d \in loc[p].todo :
        /\ loc' = [loc EXCEPT ![p].seen[d] = world[d].rev, ![p].todo = @ \ {d}]
        /\ IF loc[p].todo = {d} THEN Goto(p, "propose") ELSE UNCHANGED pc
  BY DEF Snapshot
<1>2. loc[p] \in Local BY DEF TypeInv, TypeOK
<1> DEFINE new == [loc[p] EXCEPT !.seen[d] = world[d].rev, !.todo = @ \ {d}]
<1>3. new.key = loc[p].key /\ new.obs = loc[p].obs /\ new.outer = loc[p].outer
  BY <1>2 DEF Local
<1>4. loc' = [loc EXCEPT ![p] = new] BY <1>1
<1>5. /\ loc'[p].key = loc[p].key /\ loc'[p].obs = loc[p].obs /\ loc'[p].outer = loc[p].outer
      /\ \A q \in Procs \ {p} : loc'[q] = loc[q]
  BY <1>3, <1>4 DEF TypeInv, TypeOK
<1>6. Goto(p, "propose") \/ Goto(p, "snapshot")
  BY <1>1 DEF Snapshot, At, Goto, TypeInv, TypeOK
<1>7. pc[p] = "snapshot" /\ UNCHANGED <<claims, world, checkout>> BY DEF Snapshot, At
<1> QED BY <1>5, <1>6, <1>7, MoveFresh DEF Pcs

\* A proposal claims only domains whose head is the observed one.
LEMMA ProposeFresh ==
  ASSUME TypeInv, FreshInv, NEW p \in Procs, Propose(p) PROVE FreshInv'
<1> DEFINE k == loc[p].key
<1>1. k \in Keys /\ pc[p] = "propose" BY DEF Propose, At, TypeInv, LocalOK
<1>2. CASE UNCHANGED claims /\ Finish(p)
  BY <1>2, FinishFresh DEF Propose
<1>3. CASE UNCHANGED claims /\ Goto(p, "mark") /\ UNCHANGED loc
  BY <1>1, <1>3, MoveFresh DEF Propose, Pcs
<1>4. CASE /\ ClaimOf(k) = "none" /\ \A d \in DomainsOf(k) : ~Stale(p, d)
           /\ claims' = SetClaims(k, "claimed") /\ Goto(p, "mark") /\ UNCHANGED loc
  <2>1. /\ Agree' /\ UNCHANGED <<world, checkout>>
        /\ \A j \in Keys : ClaimOf(j)' = IF j = k THEN "claimed" ELSE ClaimOf(j)
    BY <1>1, <1>4, ClaimOfAfter DEF FreshInv, Status, Propose
  <2>2. \A q \in Procs, j \in Keys :
          /\ Engaged(q, j)' <=> Engaged(q, j)
          /\ Active(q, j)' <=> Active(q, j)
          /\ At(q, "effect")' <=> At(q, "effect")
    BY <1>1, <1>4 DEF Goto, TypeInv, TypeOK, Engaged, Applying, Active, At
  <2>3. Active(p, k) BY <1>1 DEF Active
  <2>4. \A j \in Keys : InUse(j)' => InUse(j) BY <2>1, <2>2, <2>3 DEF InUse
  <2>5. EngagedOnce' BY <1>1, <1>4, <2>1, <2>2 DEF FreshInv, EngagedOnce
  <2>6. Observed' BY <1>4, <2>1, <2>2 DEF FreshInv, Observed
  <2>7. CheckedOut' BY <2>1, <2>4 DEF FreshInv, CheckedOut
  <2>8. NestedOnce'
    <3>1. \A j \in Repairs : j \in Keys /\ Nested(j) \in Keys BY BranchTypes DEF Repairs
    <3> QED BY <1>1, <1>4, <2>1, <2>2, <2>4, <3>1 DEF FreshInv, NestedOnce
  <2>9. Current(k)
    <3>1. loc[p].obs = checkout[k] BY <1>1, <2>3 DEF FreshInv, Observed
    <3> QED BY <1>4, <3>1 DEF Current, Stale
  <2>10. ClaimedCurrent'
    <3>1. \A j : Current(j)' = Current(j) BY <2>1 DEF Current
    <3> QED BY <1>4, <2>1, <2>2, <2>9, <3>1 DEF FreshInv, ClaimedCurrent
  <2>11. OuterNested' BY <1>4 DEF FreshInv, OuterNested
  <2> QED BY <2>1, <2>5, <2>6, <2>7, <2>8, <2>10, <2>11 DEF FreshInv
<1>5. \/ UNCHANGED claims /\ Finish(p)
      \/ UNCHANGED claims /\ Goto(p, "mark") /\ UNCHANGED loc
      \/ /\ ClaimOf(k) = "none" /\ \A d \in DomainsOf(k) : ~Stale(p, d)
         /\ claims' = SetClaims(k, "claimed") /\ Goto(p, "mark") /\ UNCHANGED loc
  BY DEF Propose, ClaimOf
<1> QED BY <1>2, <1>3, <1>4, <1>5

\* A call becomes engaged with a key that no other call is engaged with.
LEMMA MarkStartedFresh ==
  ASSUME TypeInv, FreshInv, NEW p \in Procs, MarkStarted(p) PROVE FreshInv'
<1> DEFINE k == loc[p].key
<1>1. k \in Keys /\ pc[p] = "mark" BY DEF MarkStarted, At, TypeInv, LocalOK
<1>2. CASE Finish(p) /\ UNCHANGED claims
  BY <1>2, FinishFresh DEF MarkStarted
<1>3. CASE /\ Claimed(k, "claimed") /\ claims' = SetClaims(k, "unknown")
           /\ Goto(p, "effect") /\ UNCHANGED loc
  <2>1. ClaimOf(k) = "claimed" BY <1>1, <1>3, DomainTypes DEF Claimed, ClaimOf
  <2>2. /\ Agree' /\ UNCHANGED <<world, checkout>>
        /\ \A j \in Keys : ClaimOf(j)' = IF j = k THEN "unknown" ELSE ClaimOf(j)
    BY <1>1, <1>3, ClaimOfAfter DEF FreshInv, Status, MarkStarted
  <2>3. \A q \in Procs, j \in Keys :
          /\ Engaged(q, j)' <=> Engaged(q, j) \/ (q = p /\ j = k)
          /\ Active(q, j)' <=> Active(q, j)
          /\ At(q, "effect")' <=> At(q, "effect") \/ q = p
    BY <1>1, <1>3 DEF Goto, TypeInv, TypeOK, Engaged, Applying, Active, At
  <2>4. \A j \in Keys : InUse(j)' => InUse(j) BY <2>1, <2>2, <2>3 DEF InUse
  <2>5. EngagedOnce' BY <1>1, <2>1, <2>2, <2>3 DEF FreshInv, EngagedOnce
  <2>6. Observed' BY <1>3, <2>2, <2>3 DEF FreshInv, Observed
  <2>7. CheckedOut' BY <2>2, <2>4 DEF FreshInv, CheckedOut
  <2>8. NestedOnce'
    <3>1. \A j \in Repairs : j \in Keys /\ Nested(j) \in Keys BY BranchTypes DEF Repairs
    <3> QED BY <1>1, <1>3, <2>1, <2>2, <2>3, <2>4, <3>1 DEF FreshInv, NestedOnce
  <2>9. ClaimedCurrent'
    <3>1. \A j : Current(j)' = Current(j) BY <2>2 DEF Current
    <3> QED BY <1>1, <1>3, <2>1, <2>2, <2>3, <3>1 DEF FreshInv, ClaimedCurrent
  <2>10. OuterNested' BY <1>3 DEF FreshInv, OuterNested
  <2> QED BY <2>2, <2>5, <2>6, <2>7, <2>8, <2>9, <2>10 DEF FreshInv
<1> QED BY <1>2, <1>3 DEF MarkStarted

\* The push changes no claim and no recorded head.
LEMMA PushFresh ==
  ASSUME TypeInv, FreshInv, NEW p \in Procs, Push(p) PROVE FreshInv'
BY MoveFresh DEF Push, At, Applying, Pcs

\* A completion moves the domains of its key, which no other key has claimed.
LEMMA CompleteFresh ==
  ASSUME TypeInv, OneClaimPerDomain, FreshInv, NEW p \in Procs, Complete(p)
  PROVE  FreshInv'
<1> DEFINE k == loc[p].key
           r == loc[p].outer
<1>1. k \in Keys /\ pc[p] = "applied" /\ Engaged(p, k)
  BY DEF Complete, At, TypeInv, LocalOK, Engaged, Applying
<1>2. CASE Finish(p) /\ UNCHANGED <<claims, world>>
  BY <1>2, FinishFresh DEF Complete
<1>3. CASE claims' = Recorded(k) /\ world' = WorldAfter(k)
  <2>1. ClaimOf(k) = "unknown" BY <1>1 DEF FreshInv, EngagedOnce
  <2>2. /\ Agree' /\ UNCHANGED checkout
        /\ \A j \in Keys : ClaimOf(j)' = IF j = k THEN "completed" ELSE ClaimOf(j)
    BY <1>1, <1>3, ClaimOfAfter DEF FreshInv, Status, Recorded, Complete
  <2>3. r # NoKey => r \in Repairs /\ r \in Keys /\ r # k
    BY BranchTypes DEF FreshInv, OuterNested, Repairs
  <2>4. /\ \A q \in Procs \ {p} : pc'[q] = pc[q] /\ loc'[q] = loc[q]
        /\ pc'[p] \in {"idle", "applied"} /\ loc'[p].outer = NoKey
        /\ pc'[p] = "applied" => r # NoKey /\ loc'[p].key = r
    <3>1. CASE Finish(p) BY <3>1 DEF Finish, Goto, NoLocal, TypeInv, TypeOK
    <3>2. CASE ~Finish(p)
      <4>1. loc[p] \in Local BY DEF TypeInv, TypeOK
      <4>2. /\ r # NoKey /\ UNCHANGED pc
            /\ loc' = [loc EXCEPT ![p].key = r, ![p].outer = NoKey]
        BY <1>1, <1>3, <3>2 DEF Complete
      <4> QED BY <1>1, <4>1, <4>2 DEF TypeInv, TypeOK, Local
    <3> QED BY <3>1, <3>2
  <2>5. \A q \in Procs, j \in Keys :
          /\ Engaged(q, j)' => Engaged(q, j) /\ j # k
          /\ Active(q, j)' => Active(q, j) /\ loc'[q].obs = loc[q].obs
          /\ At(q, "effect")' => At(q, "effect") /\ loc'[q].key = loc[q].key
    <3>1. ASSUME NEW q \in Procs \ {p}, NEW j \in Keys, Engaged(q, j)'
          PROVE  Engaged(q, j) /\ j # k
      BY <1>1, <2>4, <3>1 DEF Engaged, Applying, FreshInv, EngagedOnce
    <3>2. ASSUME NEW j \in Keys, Engaged(p, j)' PROVE Engaged(p, j) /\ j # k
      BY <2>3, <2>4, <3>2, NullAssumption DEF Engaged, Applying
    <3> QED BY <2>4, <3>1, <3>2 DEF Active, At
  <2>6. \A j \in Keys : InUse(j)' => InUse(j) BY <2>1, <2>2, <2>5 DEF InUse
  <2>7. EngagedOnce' BY <2>2, <2>5 DEF FreshInv, EngagedOnce
  <2>8. Observed' BY <2>2, <2>5 DEF FreshInv, Observed
  <2>9. CheckedOut' BY <2>2, <2>6 DEF FreshInv, CheckedOut
  <2>10. NestedOnce'
    <3>1. \A j \in Repairs : j \in Keys /\ Nested(j) \in Keys BY BranchTypes DEF Repairs
    <3> QED BY <2>2, <2>5, <2>6, <3>1 DEF FreshInv, NestedOnce
  <2>11. ASSUME NEW j \in Keys \ {k}, ClaimOf(j) \in {"claimed", "unknown"}, Current(j)
         PROVE  Current(j)'
    <3>1. ASSUME NEW d \in DomainsOf(j) PROVE world'[d] = world[d]
      <4>1. d \in Domains /\ claims[d][j] \in {"claimed", "unknown"}
        BY <2>11, DomainTypes DEF FreshInv, Agree
      <4>2. d \notin DomainsOf(k)
        <5>1. d \in DomainsOf(k) => claims[d][k] = "unknown"
          BY <1>1, <2>1 DEF FreshInv, Agree
        <5> QED BY <1>1, <4>1, <5>1 DEF OneClaimPerDomain
      <4> QED BY <1>3, <4>1, <4>2 DEF WorldAfter, Advanced
    <3> QED BY <2>2, <2>11, <3>1 DEF Current
  <2>12. ClaimedCurrent'
    <3>1. ASSUME NEW j \in Keys, ClaimOf(j)' = "claimed" PROVE Current(j)'
      BY <2>2, <2>11, <3>1 DEF FreshInv, ClaimedCurrent
    <3>2. ASSUME NEW j \in Keys, NEW q \in Procs, At(q, "effect")', loc'[q].key = j
          PROVE  Current(j)'
      <4>1. At(q, "effect") /\ loc[q].key = j /\ Engaged(q, j) /\ Engaged(q, j)'
        BY <2>5, <3>2 DEF Engaged, Applying, At
      <4>2. j # k /\ ClaimOf(j) = "unknown" /\ Current(j)
        BY <2>5, <4>1 DEF FreshInv, EngagedOnce, ClaimedCurrent
      <4> QED BY <2>11, <4>2
    <3> QED BY <3>1, <3>2 DEF ClaimedCurrent
  <2>13. OuterNested' BY <2>4 DEF FreshInv, OuterNested
  <2> QED BY <2>2, <2>7, <2>8, <2>9, <2>10, <2>12, <2>13 DEF FreshInv
<1> QED BY <1>2, <1>3 DEF Complete

\* A check-out is of a mutation that is not in use yet.
LEMMA CheckOutFresh ==
  ASSUME TypeInv, FreshInv, NEW k \in Keys, CheckOut(k) PROVE FreshInv'
<1>1. ~InUse(k) BY DEF CheckOut, FreshInv, CheckedOut
<1>2. /\ UNCHANGED <<claims, world, pc, loc>>
      /\ \A j \in Keys \ {k} : checkout'[j] = checkout[j]
      /\ checkout[k] = NoHead
  BY DEF CheckOut, TypeInv, TypeOK
<1>3. \A j \in Keys :
        /\ ClaimOf(j)' = ClaimOf(j) /\ (InUse(j)' <=> InUse(j))
        /\ \A q \in Procs :
             /\ (Engaged(q, j)' <=> Engaged(q, j)) /\ (Active(q, j)' <=> Active(q, j))
             /\ At(q, "effect")' <=> At(q, "effect")
  BY <1>2 DEF ClaimOf, InUse, Engaged, Applying, Active, At
<1>4. Agree' /\ EngagedOnce' /\ OuterNested'
  <2>1. Agree' BY <1>2, <1>3 DEF FreshInv, Agree
  <2>2. EngagedOnce' BY <1>3 DEF FreshInv, EngagedOnce
  <2>3. OuterNested' BY <1>2 DEF FreshInv, OuterNested
  <2> QED BY <2>1, <2>2, <2>3
<1>5. Observed' /\ CheckedOut'
  <2>1. Observed' BY <1>1, <1>2, <1>3 DEF FreshInv, Observed, InUse
  <2>2. \A j \in Keys : InRepair(j)' <=> InRepair(j) BY DEF InRepair
  <2>3. CheckedOut' BY <1>1, <1>2, <1>3, <2>2 DEF FreshInv, CheckedOut
  <2> QED BY <2>1, <2>3
<1>6. NestedOnce'
  <2>1. \A j \in Repairs : j \in Keys /\ Nested(j) \in Keys BY BranchTypes DEF Repairs
  <2> QED BY <1>2, <1>3, <2>1 DEF FreshInv, NestedOnce
<1>7. ClaimedCurrent'
  <2>1. ASSUME NEW j \in Keys \ {k} PROVE Current(j)' <=> Current(j)
    BY <1>2 DEF Current
  <2>2. ~(ClaimOf(k) = "claimed" \/ \E q \in Procs : At(q, "effect") /\ loc[q].key = k)
    BY <1>1 DEF InUse, Active, At
  <2> QED BY <1>2, <1>3, <2>1, <2>2 DEF FreshInv, ClaimedCurrent
<1> QED BY <1>4, <1>5, <1>6, <1>7 DEF FreshInv

\* A call that enters runGuardedMutation.
LEMMA GuardFresh ==
  ASSUME TypeInv, NEW p \in Procs, NEW k \in Keys, NEW outer, NEW obs,
         Guard(p, k, outer, obs)
  PROVE  /\ pc'[p] = "snapshot"
         /\ loc'[p].key = k /\ loc'[p].outer = outer /\ loc'[p].obs = obs
         /\ \A q \in Procs \ {p} : pc'[q] = pc[q] /\ loc'[q] = loc[q]
BY DEF Guard, Goto, NoLocal, TypeInv, TypeOK

\* A stage observes what its Run checked out.
LEMMA StartStageFresh ==
  ASSUME TypeInv, FreshInv, NEW p \in Procs, NEW k \in Keys, StartStage(p, k)
  PROVE  FreshInv'
<1>1. /\ pc'[p] = "snapshot" /\ loc'[p].key = k /\ loc'[p].outer = NoKey
      /\ loc'[p].obs = checkout[k]
      /\ \A q \in Procs \ {p} : pc'[q] = pc[q] /\ loc'[q] = loc[q]
  BY GuardFresh DEF StartStage
<1>2. /\ UNCHANGED <<claims, world, checkout>> /\ pc[p] = "idle"
      /\ ~InRepair(k) /\ (Mutation[k].kind # "publish" => checkout[k] # NoHead)
  BY DEF StartStage, At
<1>3. \A q \in Procs, j \in Keys :
        /\ Engaged(q, j)' => Engaged(q, j)
        /\ Active(q, j)' => Active(q, j) \/ (q = p /\ j = k)
        /\ At(q, "effect")' => At(q, "effect") /\ q # p
  BY <1>1, <1>2, NullAssumption DEF Engaged, Applying, Active, At
<1>4. \A j \in Keys : ClaimOf(j)' = ClaimOf(j) /\ (InUse(j)' => InUse(j) \/ j = k)
  BY <1>2, <1>3 DEF ClaimOf, InUse
<1>5. Agree' BY <1>2, <1>4 DEF FreshInv, Agree
<1>6. EngagedOnce' BY <1>3, <1>4 DEF FreshInv, EngagedOnce
<1>7. Observed'
  <2>1. ASSUME NEW q \in Procs \ {p}, NEW j \in Keys, Active(q, j)'
        PROVE  loc'[q].obs = checkout'[j]
    BY <1>1, <1>2, <1>3, <2>1 DEF FreshInv, Observed
  <2>2. ASSUME NEW j \in Keys, Active(p, j)' PROVE loc'[p].obs = checkout'[j]
    BY <1>1, <1>2, <2>2 DEF Active
  <2> QED BY <2>1, <2>2 DEF Observed
<1>8. CheckedOut' BY <1>2, <1>4 DEF FreshInv, CheckedOut
<1>9. NestedOnce'
  <2>1. \A j \in Repairs : j \in Keys /\ Nested(j) \in Keys /\ Nested(j) # k
    BY <1>2, BranchTypes DEF Repairs, InRepair
  <2> QED BY <1>1, <1>3, <1>4, <2>1 DEF FreshInv, NestedOnce
<1>10. ClaimedCurrent'
  <2>1. \A j : Current(j)' <=> Current(j) BY <1>2 DEF Current
  <2> QED BY <1>1, <1>3, <1>4, <2>1 DEF FreshInv, ClaimedCurrent
<1>11. OuterNested' BY <1>1 DEF FreshInv, OuterNested
<1> QED BY <1>5, <1>6, <1>7, <1>8, <1>9, <1>10, <1>11 DEF FreshInv

\* A repair observes the head that its key names.
LEMMA StartRepairFresh ==
  ASSUME TypeInv, FreshInv, NEW p \in Procs, NEW k \in Keys, StartRepair(p, k)
  PROVE  FreshInv'
<1> DEFINE head == remote[Branch(Nested(k))]
<1>1. /\ pc'[p] = "snapshot" /\ loc'[p].key = k /\ loc'[p].outer = NoKey
      /\ loc'[p].obs = head
      /\ \A q \in Procs \ {p} : pc'[q] = pc[q] /\ loc'[q] = loc[q]
  BY GuardFresh DEF StartRepair
<1>2. /\ UNCHANGED <<claims, world>> /\ pc[p] = "idle" /\ k \in Repairs
      /\ head # NoHead /\ checkout[k] \in {NoHead, head}
      /\ checkout'[k] = head /\ \A j \in Keys \ {k} : checkout'[j] = checkout[j]
  BY DEF StartRepair, At, TypeInv, TypeOK
<1>3. \A q \in Procs, j \in Keys :
        /\ Engaged(q, j)' => Engaged(q, j)
        /\ Active(q, j)' => Active(q, j) \/ (q = p /\ j = k)
        /\ At(q, "effect")' => At(q, "effect") /\ q # p
  BY <1>1, <1>2, NullAssumption DEF Engaged, Applying, Active, At
<1>4. \A j \in Keys : ClaimOf(j)' = ClaimOf(j) /\ (InUse(j)' => InUse(j) \/ j = k)
  BY <1>2, <1>3 DEF ClaimOf, InUse
<1>5. InUse(k) => checkout[k] = head
  <2>1. Mutation[k].kind = "repair" BY <1>2 DEF Repairs
  <2>2. ~InRepair(k) BY <1>2, BranchTypes DEF InRepair, Repairs
  <2> QED BY <1>2, <2>1, <2>2 DEF FreshInv, CheckedOut
<1>6. Agree' BY <1>2, <1>4 DEF FreshInv, Agree
<1>7. EngagedOnce' BY <1>3, <1>4 DEF FreshInv, EngagedOnce
<1>8. Observed'
  <2>1. ASSUME NEW q \in Procs \ {p}, NEW j \in Keys, Active(q, j)'
        PROVE  loc'[q].obs = checkout'[j]
    <3>1. Active(q, j) /\ InUse(j) BY <1>3, <2>1 DEF InUse
    <3> QED BY <1>1, <1>2, <1>5, <3>1 DEF FreshInv, Observed
  <2>2. ASSUME NEW j \in Keys, Active(p, j)' PROVE loc'[p].obs = checkout'[j]
    BY <1>1, <1>2, <2>2 DEF Active
  <2> QED BY <2>1, <2>2 DEF Observed
<1>9. CheckedOut'
  <2>1. \A j \in Keys : InRepair(j)' <=> InRepair(j) BY DEF InRepair
  <2> QED BY <1>2, <1>4, <2>1 DEF FreshInv, CheckedOut
<1>10. NestedOnce'
  <2>1. \A j \in Repairs : j \in Keys /\ Nested(j) \in Keys /\ Nested(j) # k
    BY <1>2, BranchTypes DEF Repairs
  <2> QED BY <1>1, <1>3, <1>4, <2>1 DEF FreshInv, NestedOnce
<1>11. ClaimedCurrent'
  <2>1. ASSUME NEW j \in Keys, InUse(j) PROVE Current(j)' <=> Current(j)
    BY <1>2, <1>5, <2>1 DEF Current
  <2>2. ASSUME NEW j \in Keys, ClaimOf(j)' = "claimed" PROVE Current(j)'
    BY <1>4, <2>1, <2>2 DEF FreshInv, ClaimedCurrent, InUse
  <2>3. ASSUME NEW j \in Keys, NEW q \in Procs, At(q, "effect")', loc'[q].key = j
        PROVE  Current(j)'
    <3>1. At(q, "effect") /\ loc[q].key = j BY <1>1, <1>3, <2>3
    <3>2. InUse(j) BY <3>1 DEF InUse, Active, At
    <3> QED BY <2>1, <3>1, <3>2 DEF FreshInv, ClaimedCurrent
  <2> QED BY <2>2, <2>3 DEF ClaimedCurrent
<1>12. OuterNested' BY <1>1 DEF FreshInv, OuterNested
<1> QED BY <1>6, <1>7, <1>8, <1>9, <1>10, <1>11, <1>12 DEF FreshInv

\* The Run of a repair observes the head it resolves for its stage, which no
\* other call has worked on.
LEMMA RunRepairFlowFresh ==
  ASSUME TypeInv, FreshInv, NEW p \in Procs, RunRepairFlow(p) PROVE FreshInv'
<1> DEFINE k == loc[p].key
           u == Nested(k)
           head == remote[Branch(u)]
<1>1. /\ k \in Repairs /\ k \in Keys /\ u \in Keys \ Repairs
      /\ pc[p] = "effect" /\ Engaged(p, k) /\ ~InUse(u)
  <2>1. k \in Repairs /\ k \in Keys /\ pc[p] = "effect"
    BY DEF RunRepairFlow, At, Repairs
  <2>2. u \in Keys \ Repairs BY <2>1, BranchTypes
  <2> QED BY <2>1, <2>2 DEF Engaged, Applying, At, FreshInv, NestedOnce
<1>2. /\ pc'[p] = "snapshot" /\ loc'[p].key = u /\ loc'[p].outer = k
      /\ loc'[p].obs = head
      /\ \A q \in Procs \ {p} : pc'[q] = pc[q] /\ loc'[q] = loc[q]
  BY <1>1, GuardFresh DEF RunRepairFlow
<1>3. /\ UNCHANGED <<claims, world>> /\ ClaimOf(k) = "unknown"
      /\ checkout'[u] = head /\ \A j \in Keys \ {u} : checkout'[j] = checkout[j]
  BY <1>1 DEF RunRepairFlow, TypeInv, TypeOK, FreshInv, EngagedOnce
<1>4. \A q \in Procs, j \in Keys :
        /\ Engaged(q, j)' => Engaged(q, j)
        /\ Active(q, j)' => Active(q, j) \/ (q = p /\ j = u)
        /\ At(q, "effect")' => At(q, "effect") /\ q # p
  BY <1>1, <1>2 DEF Engaged, Applying, Active, At
<1>5. \A j \in Keys : ClaimOf(j)' = ClaimOf(j) /\ (InUse(j)' => InUse(j) \/ j = u)
  BY <1>3, <1>4 DEF ClaimOf, InUse
<1>6. Agree' BY <1>3, <1>5 DEF FreshInv, Agree
<1>7. EngagedOnce' BY <1>4, <1>5 DEF FreshInv, EngagedOnce
<1>8. Observed'
  <2>1. ASSUME NEW q \in Procs \ {p}, NEW j \in Keys, Active(q, j)'
        PROVE  loc'[q].obs = checkout'[j]
    <3>1. Active(q, j) /\ j # u BY <1>1, <1>4, <2>1 DEF InUse
    <3> QED BY <1>2, <1>3, <3>1 DEF FreshInv, Observed
  <2>2. ASSUME NEW j \in Keys, Active(p, j)' PROVE loc'[p].obs = checkout'[j]
    BY <1>2, <1>3, <2>2 DEF Active
  <2> QED BY <2>1, <2>2 DEF Observed
<1>9. CheckedOut'
  <2>1. InRepair(u) BY <1>1 DEF InRepair
  <2>2. \A j \in Keys : InRepair(j)' <=> InRepair(j) BY DEF InRepair
  <2> QED BY <1>3, <1>5, <2>1, <2>2 DEF FreshInv, CheckedOut
<1>10. NestedOnce'
  <2>1. ASSUME NEW j \in Repairs, InUse(Nested(j))'
        PROVE  /\ ClaimOf(j)' \in {"unknown", "completed"}
               /\ \A q \in Procs : ~(At(q, "effect")' /\ loc'[q].key = j)
    <3>1. j \in Keys /\ Nested(j) \in Keys BY BranchTypes DEF Repairs
    <3>2. CASE j = k
      <4>1. ASSUME NEW q \in Procs, At(q, "effect")', loc'[q].key = k PROVE FALSE
        <5>1. q # p /\ Engaged(q, k) BY <1>2, <1>4, <4>1 DEF Engaged, Applying, At
        <5> QED BY <1>1, <5>1 DEF FreshInv, EngagedOnce
      <4> QED BY <1>1, <1>3, <1>5, <3>2, <4>1
    <3>3. CASE j # k
      <4>1. Nested(j) # u
        BY <1>1, <3>1, <3>3, NestedAssumption DEF Nested, Repairs
      <4> QED BY <1>2, <1>4, <1>5, <2>1, <3>1, <4>1 DEF FreshInv, NestedOnce
    <3> QED BY <3>2, <3>3
  <2> QED BY <2>1 DEF NestedOnce
<1>11. ClaimedCurrent'
  <2>1. ASSUME NEW j \in Keys, InUse(j) PROVE Current(j)' <=> Current(j)
    BY <1>1, <1>3, <2>1 DEF Current
  <2>2. ASSUME NEW j \in Keys, ClaimOf(j)' = "claimed" PROVE Current(j)'
    BY <1>5, <2>1, <2>2 DEF FreshInv, ClaimedCurrent, InUse
  <2>3. ASSUME NEW j \in Keys, NEW q \in Procs, At(q, "effect")', loc'[q].key = j
        PROVE  Current(j)'
    <3>1. At(q, "effect") /\ loc[q].key = j BY <1>2, <1>4, <2>3
    <3>2. InUse(j) BY <3>1 DEF InUse, Active, At
    <3> QED BY <2>1, <3>1, <3>2 DEF FreshInv, ClaimedCurrent
  <2> QED BY <2>2, <2>3 DEF ClaimedCurrent
<1>12. OuterNested' BY <1>1, <1>2 DEF FreshInv, OuterNested
<1> QED BY <1>6, <1>7, <1>8, <1>9, <1>10, <1>11, <1>12 DEF FreshInv

\* Observations, check-outs and claims agree in every reachable state.
LEMMA FreshInvariant == Spec => []FreshInv
<1>1. Init => FreshInv
  <2> SUFFICES ASSUME Init PROVE FreshInv
    OBVIOUS
  <2>1. \A p \in Procs : pc[p] = "idle" /\ loc[p].outer = NoKey
    BY DEF Init, NoLocal
  <2>2. \A k \in Keys : \A d \in DomainsOf(k) : claims[d][k] = "none"
    BY DomainTypes DEF Init
  <2>3. \A k \in Keys : ClaimOf(k) = "none" BY <2>2, DomainTypes DEF ClaimOf
  <2>4. \A p \in Procs, k \in Keys : ~Engaged(p, k) /\ ~Active(p, k) /\ ~At(p, "effect")
    BY <2>1, NullAssumption DEF Engaged, Applying, Active, At
  <2>5. \A k \in Keys : ~InUse(k) BY <2>3, <2>4 DEF InUse
  <2>6. Agree BY <2>2, <2>3 DEF Agree
  <2>7. EngagedOnce /\ Observed BY <2>4 DEF EngagedOnce, Observed
  <2>8. CheckedOut BY <2>5 DEF CheckedOut
  <2>9. NestedOnce
    <3>1. \A k \in Repairs : Nested(k) \in Keys BY BranchTypes DEF Repairs
    <3> QED BY <2>5, <3>1 DEF NestedOnce
  <2>10. ClaimedCurrent BY <2>3, <2>4 DEF ClaimedCurrent
  <2>11. OuterNested BY <2>1 DEF OuterNested
  <2> QED BY <2>6, <2>7, <2>8, <2>9, <2>10, <2>11 DEF FreshInv
<1>2. TypeInv /\ OneClaimPerDomain /\ FreshInv /\ [Next]_vars => FreshInv'
  <2> SUFFICES ASSUME TypeInv, OneClaimPerDomain, FreshInv, [Next]_vars PROVE FreshInv'
    OBVIOUS
  <2>1. ASSUME UNCHANGED <<claims, world, checkout, pc, loc>> PROVE FreshInv'
    <3>1. \A q \in Procs, k \in Keys :
            /\ Engaged(q, k)' => Engaged(q, k)
            /\ Active(q, k)' => Active(q, k) /\ loc'[q].obs = loc[q].obs
            /\ At(q, "effect")' /\ loc'[q].key = k => At(q, "effect") /\ loc[q].key = k
      BY <2>1 DEF Engaged, Active, Applying, At
    <3>2. OuterNested' BY <2>1 DEF FreshInv, OuterNested
    <3> QED BY <2>1, <3>1, <3>2, ShrinkKeeps
  <2>2. CASE UNCHANGED vars BY <2>1, <2>2 DEF vars
  <2>3. ASSUME NEW s \in Strangers, NEW b \in Branches, StrangerPushes(s, b)
        PROVE  FreshInv'
    BY <2>1, <2>3 DEF StrangerPushes
  <2>4. ASSUME NEW p \in Procs, Abandon(p) PROVE FreshInv'
    BY <2>4, FinishFresh DEF Abandon
  <2> QED
    BY <2>2, <2>3, <2>4, CheckOutFresh, StartStageFresh, StartRepairFresh,
       RunRepairFlowFresh, SnapshotFresh, ProposeFresh, MarkStartedFresh, PushFresh,
       CompleteFresh DEF Next, Step
<1> QED BY <1>1, <1>2, TypeInvariant, OneClaimPerDomainAlways, PTL DEF Spec

\* No head but the observed one is recorded in a domain of a mutation when it
\* pushes: what it observed its Run checked out, and a claimed domain does not
\* move ("stale" in docs/work-coordination.md is decided at the proposal).
THEOREM FreshEffectAlways == Spec => []FreshEffect
<1>1. TypeInv /\ FreshInv => FreshEffect
  <2> SUFFICES ASSUME TypeInv, FreshInv, NEW p \in Procs, At(p, "effect")
               PROVE  Current(loc[p].key) /\ loc[p].obs = checkout[loc[p].key]
    BY DEF FreshEffect, Current
  <2>1. loc[p].key \in Keys /\ Active(p, loc[p].key)
    BY DEF At, TypeInv, LocalOK, Active
  <2> QED BY <2>1 DEF FreshInv, Observed, ClaimedCurrent
<1> QED BY <1>1, TypeInvariant, FreshInvariant, PTL

-----------------------------------------------------------------------------
(* What a branch shows is recorded, or waits to be                         *)

BranchDomain(b) == <<"branch", b>>

\* The last push to a branch, if a mutation made it, is recorded in the domain
\* of the branch, unless its effect is still unknown there.
Latest(b) ==
  remote[b] \in Keys =>
    /\ remote[b] \notin Repairs /\ Branch(remote[b]) = b
    /\ \/ claims[BranchDomain(b)][remote[b]] = "unknown"
       \/ world[BranchDomain(b)].head = remote[b]
\* Until it records its own push, nobody else's mutation pushes over it.
OwnPush(p) ==
  At(p, "applied") /\ loc[p].key \notin Repairs =>
    remote[Branch(loc[p].key)] \notin Keys \ {loc[p].key}
RemoteInv ==
  /\ \A b \in Branches : Latest(b)
  /\ \A p \in Procs : OwnPush(p)
  /\ \A d \in Domains : world[d].head \in Keys => world[d].rev # 0

\* A stage claims the domain of its branch, and of no other; a repair claims none.
LEMMA BranchDomains ==
  \A k \in Keys, b \in Branches :
    BranchDomain(b) \in DomainsOf(k) <=> (k \notin Repairs /\ Branch(k) = b)
<1> SUFFICES ASSUME NEW k \in Keys, NEW b \in Branches
             PROVE  BranchDomain(b) \in DomainsOf(k) <=> (k \notin Repairs /\ Branch(k) = b)
  OBVIOUS
<1>1. b # NoName BY DEF Branches
<1>2. BranchDomain(b) # ActionDomain(k)
  <2>1. BranchDomain(b)[1] = "branch" /\ ActionDomain(k)[1] = "action"
    BY DEF BranchDomain, ActionDomain
  <2> QED BY <2>1
<1>3. BranchDomain(b) \in DomainsOf(k) <=> Branch(k) = b
  BY <1>1, <1>2 DEF BranchDomain, DomainsOf, Names, Branch
<1>4. k \in Repairs => Branch(k) # b BY <1>1, MutationAssumption DEF Repairs, Branch
<1> QED BY <1>3, <1>4

\* A step that writes no store, and after which no call applied more.
LEMMA StillRemote ==
  ASSUME RemoteInv, UNCHANGED <<claims, world, remote>>,
         \A p \in Procs : At(p, "applied")' /\ loc'[p].key \notin Repairs =>
                            At(p, "applied") /\ loc'[p].key = loc[p].key
  PROVE  RemoteInv'
BY DEF RemoteInv, Latest, OwnPush

\* A step that writes only claims, none of which was unknown.
LEMMA ClaimsRemote ==
  ASSUME TypeInv, RemoteInv, NEW k \in Keys, NEW from, NEW to \in Status, from # "unknown",
         Claimed(k, from), claims' = SetClaims(k, to), UNCHANGED <<world, remote>>,
         \A p \in Procs : At(p, "applied")' => At(p, "applied") /\ loc'[p].key = loc[p].key
  PROVE  RemoteInv'
<1>1. \A d \in Domains, j \in Keys :
        claims'[d][j] = IF d \in DomainsOf(k) /\ j = k THEN to ELSE claims[d][j]
  BY ClaimTypes DEF TypeInv
<1>2. ASSUME NEW b \in Branches PROVE Latest(b)'
  <2>1. CASE remote[b] \in Keys
    <3>1. BranchDomain(b) \in DomainsOf(remote[b]) /\ BranchDomain(b) \in Domains
      BY <2>1, BranchDomains, DomainTypes DEF RemoteInv, Latest
    <3> QED BY <1>1, <2>1, <3>1 DEF RemoteInv, Latest, Claimed
  <2> QED BY <2>1 DEF Latest
<1> QED BY <1>2 DEF RemoteInv, OwnPush, At

\* A proposal claims a key that had no claim; a mark starts one that was claimed.
LEMMA MarksRemote ==
  ASSUME TypeInv, FreshInv, RemoteInv, NEW p \in Procs, Propose(p) \/ MarkStarted(p)
  PROVE  RemoteInv'
<1> DEFINE k == loc[p].key
<1>1. k \in Keys /\ UNCHANGED <<world, remote>>
  BY DEF Propose, MarkStarted, At, TypeInv, LocalOK
<1>2. \A q \in Procs : At(q, "applied")' => At(q, "applied") /\ loc'[q].key = loc[q].key
  <2>1. CASE Finish(p) BY <2>1, FinishOK DEF Others, At
  <2>2. CASE UNCHANGED loc /\ (Goto(p, "mark") \/ Goto(p, "effect"))
    BY <2>2 DEF Goto, At, TypeInv, TypeOK
  <2> QED BY <2>1, <2>2 DEF Propose, MarkStarted
<1>3. CASE UNCHANGED claims BY <1>1, <1>2, <1>3, StillRemote
<1>4. CASE ClaimOf(k) = "none" /\ claims' = SetClaims(k, "claimed")
  <2>1. Claimed(k, "none") BY <1>1, <1>4 DEF FreshInv, Agree, Claimed
  <2> QED BY <1>1, <1>2, <1>4, <2>1, ClaimsRemote DEF Status
<1>5. CASE Claimed(k, "claimed") /\ claims' = SetClaims(k, "unknown")
  BY <1>1, <1>2, <1>5, ClaimsRemote DEF Status
<1> QED BY <1>3, <1>4, <1>5 DEF Propose, MarkStarted, ClaimOf

\* The claims of a call that applies its effect are unknown, on its branch too.
LEMMA EffectClaims ==
  ASSUME TypeInv, EffectInv, NEW p \in Procs, Applying(p), loc[p].key \notin Repairs
  PROVE  /\ loc[p].key \in Keys /\ Branch(loc[p].key) \in Branches
         /\ BranchDomain(Branch(loc[p].key)) \in Domains
         /\ claims[BranchDomain(Branch(loc[p].key))][loc[p].key] = "unknown"
<1> DEFINE k == loc[p].key
<1>1. k \in Keys BY DEF TypeInv, LocalOK, Applying
<1>2. Branch(k) \in Branches BY <1>1, BranchTypes
<1>3. BranchDomain(Branch(k)) \in DomainsOf(k) BY <1>1, <1>2, BranchDomains
<1>4. Claimed(k, "unknown") BY DEF EffectInv
<1> QED BY <1>1, <1>2, <1>3, <1>4, DomainTypes DEF Claimed

\* A push is unknown until it is recorded, and no other call of the branch is
\* applying its effect.
LEMMA PushRemote ==
  ASSUME TypeInv, OneClaimPerDomain, EffectInv, RemoteInv, NEW p \in Procs, Push(p)
  PROVE  RemoteInv'
<1> DEFINE k == loc[p].key
           b == Branch(k)
<1>1. k \in Keys \ Repairs /\ b \in Branches /\ BranchDomain(b) \in Domains
      /\ claims[BranchDomain(b)][k] = "unknown" /\ Applying(p)
  BY EffectClaims DEF Push, At, Applying
<1>2. /\ remote'[b] = k /\ \A c \in Branches \ {b} : remote'[c] = remote[c]
      /\ UNCHANGED <<claims, world, loc>> /\ pc' = [pc EXCEPT ![p] = "applied"]
  BY <1>1 DEF Push, Goto, TypeInv, TypeOK
<1>3. ASSUME NEW c \in Branches PROVE Latest(c)'
  BY <1>1, <1>2 DEF RemoteInv, Latest
<1>4. ASSUME NEW q \in Procs, At(q, "applied")', loc'[q].key \notin Repairs
      PROVE  remote'[Branch(loc'[q].key)] \notin Keys \ {loc'[q].key}
  <2>1. CASE q = p BY <1>2, <2>1
  <2>2. CASE q # p
    <3>1. At(q, "applied") /\ Applying(q) /\ loc'[q] = loc[q] /\ loc[q].key \notin Repairs
      BY <1>2, <1>4, <2>2 DEF At, Applying, TypeInv, TypeOK
    <3>2. Branch(loc[q].key) = b => loc[q].key = k
      BY <1>1, <3>1, EffectClaims DEF OneClaimPerDomain
    <3>3. Branch(loc[q].key) \in Branches BY <3>1, EffectClaims
    <3> QED BY <1>2, <3>1, <3>2, <3>3 DEF RemoteInv, OwnPush
  <2> QED BY <2>1, <2>2
<1> QED BY <1>2, <1>3, <1>4 DEF RemoteInv, OwnPush

\* A completion records the head that its call pushed.
LEMMA CompleteRemote ==
  ASSUME TypeInv, EffectInv, RemoteInv, NEW p \in Procs, Complete(p)
  PROVE  RemoteInv'
<1> DEFINE k == loc[p].key
<1>1. k \in Keys /\ pc[p] = "applied" /\ UNCHANGED remote
  BY DEF Complete, At, TypeInv, LocalOK
<1>2. \A q \in Procs : At(q, "applied")' /\ loc'[q].key \notin Repairs =>
                         At(q, "applied") /\ loc'[q].key = loc[q].key
  <2>1. CASE Finish(p) BY <2>1, FinishOK DEF Others, At
  <2>2. CASE ~Finish(p)
    <3>1. /\ loc[p].outer # NoKey /\ UNCHANGED pc
          /\ loc' = [loc EXCEPT ![p].key = loc[p].outer, ![p].outer = NoKey]
      BY <2>2 DEF Complete
    <3>2. loc[p] \in Local /\ loc[p].outer \in Repairs BY <3>1 DEF TypeInv, TypeOK, LocalOK
    <3>3. loc'[p].key \in Repairs BY <3>1, <3>2 DEF TypeInv, TypeOK, Local
    <3> QED BY <3>1, <3>3 DEF At, TypeInv, TypeOK
  <2> QED BY <2>1, <2>2
<1>3. CASE UNCHANGED <<claims, world>> BY <1>1, <1>2, <1>3, StillRemote
<1>4. CASE claims' = Recorded(k) /\ world' = WorldAfter(k)
  <2>1. \A d \in Domains, j \in Keys :
          claims'[d][j] = IF d \in DomainsOf(k) /\ j = k THEN "completed" ELSE claims[d][j]
    BY <1>1, <1>4, ClaimTypes DEF Recorded, TypeInv, Status
  <2>2. \A d \in Domains :
          /\ d \in DomainsOf(k) => /\ world'[d].rev = world[d].rev + 1
                                  /\ world'[d].head = PushedBy(k)
          /\ d \notin DomainsOf(k) => world'[d] = world[d]
    <3> SUFFICES ASSUME NEW d \in Domains
                 PROVE  /\ d \in DomainsOf(k) => /\ world'[d].rev = world[d].rev + 1
                                                 /\ world'[d].head = PushedBy(k)
                        /\ d \notin DomainsOf(k) => world'[d] = world[d]
      OBVIOUS
    <3> HIDE DEF k
    <3>1. CASE d \in DomainsOf(k)
      <4>1. world'[d] = [rev |-> world[d].rev + 1, head |-> PushedBy(k)]
        BY <1>4, <3>1 DEF WorldAfter, Advanced
      <4> QED BY <3>1, <4>1
    <3>2. CASE d \notin DomainsOf(k) BY <1>4, <3>2 DEF WorldAfter, Advanced
    <3> QED BY <3>1, <3>2
  <2>3. ASSUME NEW b \in Branches, remote[b] \in Keys PROVE Latest(b)'
    <3> DEFINE d == BranchDomain(b)
    <3>1. d \in Domains /\ remote[b] \notin Repairs /\ Branch(remote[b]) = b
      BY <2>3, BranchDomains, DomainTypes DEF RemoteInv, Latest
    <3>2. CASE d \in DomainsOf(k)
      <4>1. k \notin Repairs /\ Branch(k) = b BY <1>1, <3>2, BranchDomains
      <4>2. remote[b] = k BY <1>1, <2>3, <4>1 DEF RemoteInv, OwnPush, At
      <4>3. PushedBy(k) = k BY <4>1 DEF PushedBy
      <4>4. world'[d].head = k BY <2>2, <3>1, <3>2, <4>3
      <4> QED BY <1>1, <3>1, <4>2, <4>4 DEF Latest
    <3>3. CASE d \notin DomainsOf(k)
      <4>1. claims'[d][remote[b]] = claims[d][remote[b]] /\ world'[d] = world[d]
        BY <2>1, <2>2, <2>3, <3>1, <3>3
      <4> QED BY <1>1, <2>3, <4>1 DEF RemoteInv, Latest
    <3> QED BY <3>2, <3>3
  <2>4. \A b \in Branches : Latest(b)' BY <1>1, <2>3 DEF Latest
  <2>5. \A q \in Procs : OwnPush(q)' BY <1>1, <1>2 DEF RemoteInv, OwnPush
  <2>6. ASSUME NEW d \in Domains, world'[d].head \in Keys PROVE world'[d].rev # 0
    <3>1. world[d].rev \in Nat BY DEF TypeInv, TypeOK
    <3>2. CASE d \in DomainsOf(k)
      <4>1. world'[d].rev = world[d].rev + 1 BY <2>2, <3>2
      <4> QED BY <3>1, <4>1
    <3>3. CASE d \notin DomainsOf(k)
      <4>1. world'[d] = world[d] BY <2>2, <3>3
      <4> QED BY <2>6, <4>1 DEF RemoteInv
    <3> QED BY <3>2, <3>3
  <2> QED BY <2>4, <2>5, <2>6 DEF RemoteInv
<1> QED BY <1>3, <1>4 DEF Complete

\* What GitHub shows is recorded, or waits to be, in every reachable state.
LEMMA RemoteInvariant == Spec => []RemoteInv
<1>1. Init => RemoteInv
  BY NullAssumption DEF Init, RemoteInv, Latest, OwnPush, At
<1>2. TypeInv /\ OneClaimPerDomain /\ EffectInv /\ FreshInv /\ RemoteInv /\ [Next]_vars
        => RemoteInv'
  <2> SUFFICES ASSUME TypeInv, OneClaimPerDomain, EffectInv, FreshInv, RemoteInv, [Next]_vars
               PROVE  RemoteInv'
    OBVIOUS
  <2>1. CASE UNCHANGED vars BY <2>1, StillRemote DEF vars, At
  <2>2. ASSUME NEW p \in Procs, Finish(p) \/ Goto(p, "snapshot") \/ Snapshot(p),
               UNCHANGED <<claims, world, remote>>, \A q \in Procs \ {p} : loc'[q] = loc[q]
        PROVE  RemoteInv'
    <3>1. \A q \in Procs : At(q, "applied")' => At(q, "applied") /\ q # p
      BY <2>2 DEF Finish, Goto, Snapshot, At, TypeInv, TypeOK
    <3> QED BY <2>2, <3>1, StillRemote
  <2>3. ASSUME NEW p \in Procs, NEW k \in Keys, StartStage(p, k) \/ StartRepair(p, k)
        PROVE  RemoteInv'
    <3>1. Goto(p, "snapshot") /\ \A q \in Procs \ {p} : loc'[q] = loc[q]
      BY <2>3 DEF StartStage, StartRepair, Guard, TypeInv, TypeOK
    <3> QED BY <2>2, <2>3, <3>1 DEF StartStage, StartRepair
  <2>4. ASSUME NEW p \in Procs, RunRepairFlow(p) PROVE RemoteInv'
    <3>1. Goto(p, "snapshot") /\ \A q \in Procs \ {p} : loc'[q] = loc[q]
      BY <2>4 DEF RunRepairFlow, Guard, TypeInv, TypeOK
    <3> QED BY <2>2, <2>4, <3>1 DEF RunRepairFlow
  <2>5. ASSUME NEW p \in Procs, Snapshot(p) \/ Abandon(p) PROVE RemoteInv'
    <3>1. \A q \in Procs \ {p} : loc'[q] = loc[q]
      BY <2>5 DEF Snapshot, Abandon, Finish, TypeInv, TypeOK
    <3> QED BY <2>2, <2>5, <3>1 DEF Snapshot, Abandon
  <2>6. ASSUME NEW k \in Keys, CheckOut(k) PROVE RemoteInv'
    BY <2>6, StillRemote DEF CheckOut, At
  <2>7. ASSUME NEW s \in Strangers, NEW b \in Branches, StrangerPushes(s, b)
        PROVE  RemoteInv'
    <3>1. s \notin Keys BY NullAssumption
    <3>2. \A c \in Branches : remote'[c] \in Keys => remote'[c] = remote[c]
      BY <2>7, <3>1 DEF StrangerPushes, TypeInv, TypeOK
    <3>3. UNCHANGED <<claims, world, pc, loc>> BY <2>7 DEF StrangerPushes
    <3>4. \A c \in Branches : Latest(c)' BY <3>2, <3>3 DEF RemoteInv, Latest
    <3>5. \A q \in Procs : OwnPush(q)'
      <4>1. \A q \in Procs : At(q, "applied") /\ loc[q].key \notin Repairs =>
                               Branch(loc[q].key) \in Branches
        BY EffectClaims DEF At, Applying
      <4> QED BY <3>2, <3>3, <4>1 DEF RemoteInv, OwnPush, At
    <3> QED BY <3>3, <3>4, <3>5 DEF RemoteInv
  <2> QED
    BY <2>1, <2>3, <2>4, <2>5, <2>6, <2>7, MarksRemote, PushRemote, CompleteRemote
    DEF Next, Step
<1> QED
  BY <1>1, <1>2, TypeInvariant, OneClaimPerDomainAlways, EffectInvariant, FreshInvariant, PTL
  DEF Spec

\* Once no effect on a branch is unknown, the gate's record of the branch is
\* what a mutation last pushed there: a later observation is judged against the
\* true head, whoever died between a push and its completion.
THEOREM RecordedHeadIsLatestAlways == Spec => []RecordedHeadIsLatest
<1>1. RemoteInv => RecordedHeadIsLatest
  <2> SUFFICES ASSUME RemoteInv, NEW b \in Branches, remote[b] \in Keys,
                      \A k \in Keys : <<"branch", b>> \in DomainsOf(k) =>
                                        claims[<<"branch", b>>][k] # "unknown"
               PROVE  world[<<"branch", b>>].head = remote[b]
    BY DEF RecordedHeadIsLatest
  <2>1. BranchDomain(b) \in DomainsOf(remote[b])
    BY BranchDomains DEF RemoteInv, Latest
  <2> QED BY <2>1 DEF RemoteInv, Latest, BranchDomain
<1> QED BY <1>1, RemoteInvariant, PTL

\* A head of another mutation that a push replaces is recorded, and what is
\* recorded in a claimed domain is what the call observed.
LEMMA PushSeesHead ==
  ASSUME TypeInv, OneClaimPerDomain, EffectInv, FreshInv, RemoteInv, NEW p \in Procs, Push(p),
         remote[Branch(loc[p].key)] \in Keys \ {loc[p].key}
  PROVE  checkout[loc[p].key] = remote[Branch(loc[p].key)]
<1> DEFINE k == loc[p].key
           b == Branch(k)
<1>1. pc[p] = "effect" /\ k \in Keys \ Repairs /\ b \in Branches /\ Applying(p)
  BY EffectClaims DEF Push, At, Applying
<1>2. BranchDomain(b) \in Domains /\ claims[BranchDomain(b)][k] = "unknown"
  BY <1>1, EffectClaims
<1>3. claims[BranchDomain(b)][remote[b]] # "unknown" BY <1>1, <1>2 DEF OneClaimPerDomain
<1>4. world[BranchDomain(b)].head = remote[b] BY <1>1, <1>3 DEF RemoteInv, Latest
<1>5. world[BranchDomain(b)].rev # 0 BY <1>2, <1>4 DEF RemoteInv
<1>6. Current(k) BY <1>1 DEF FreshInv, ClaimedCurrent, At
<1>7. BranchDomain(b) \in DomainsOf(k) BY <1>1, BranchDomains
<1> QED BY <1>4, <1>5, <1>6, <1>7 DEF Current

\* No mutation replaces the head that another one pushed unless its Run had
\* checked that head out.
THEOREM NoBlindPushAlways == Spec => NoBlindPush
<1>1. TypeInv /\ OneClaimPerDomain /\ EffectInv /\ FreshInv /\ RemoteInv /\ [Next]_vars
        => [\A b \in Branches, k \in Keys :
              remote'[b] = k /\ remote[b] \in Keys \ {k} => checkout[k] = remote[b]]_remote
  <2> SUFFICES ASSUME TypeInv, OneClaimPerDomain, EffectInv, FreshInv, RemoteInv, [Next]_vars,
                      remote' # remote, NEW b \in Branches, NEW k \in Keys,
                      remote'[b] = k, remote[b] \in Keys \ {k}
               PROVE  checkout[k] = remote[b]
    OBVIOUS
  <2>1. ~\E s \in Strangers, c \in Branches : StrangerPushes(s, c)
    BY NullAssumption DEF StrangerPushes, TypeInv, TypeOK
  <2>2. PICK p \in Procs : Push(p)
    BY <2>1 DEF Next, Step, vars, CheckOut, StartStage, StartRepair, RunRepairFlow, Snapshot,
       Propose, MarkStarted, Complete, Abandon
  <2>3. loc[p].key = k /\ Branch(k) = b
    BY <2>2 DEF Push, At, TypeInv, TypeOK, LocalOK
  <2> QED BY <2>2, <2>3, PushSeesHead
<1> QED
  BY <1>1, TypeInvariant, OneClaimPerDomainAlways, EffectInvariant, FreshInvariant,
     RemoteInvariant, PTL DEF Spec, NoBlindPush

-----------------------------------------------------------------------------
(* The refinement of GuardedMutations.  What the mapping needs beyond the   *)
(* invariants above: the effect of a call that applied it was pushed, that  *)
(* of a repair recorded; the Run of a repair resolves its head once; and    *)
(* only mutations that pushed are heads.                                    *)

AppliedDone(p) ==
  At(p, "applied") =>
    IF loc[p].key \in Repairs THEN ClaimOf(Nested(loc[p].key)) = "completed"
    ELSE pushes[loc[p].key] = 1
ChosenOnce ==
  \A k \in Repairs : checkout[Nested(k)] # NoHead =>
    /\ ClaimOf(k) \in {"unknown", "completed"}
    /\ \A p \in Procs : ~(At(p, "effect") /\ loc[p].key = k)
MappingInv ==
  /\ \A p \in Procs : AppliedDone(p)
  /\ ChosenOnce
  /\ \A k \in Repairs : pushes[k] = 0
  /\ \A b \in Branches : remote[b] \in Keys => pushes[remote[b]] # 0
  /\ \A d \in Domains : world[d].head \in Keys \cup {NoHead}

\* A started claim stays until it is completed, and a completed one stays.
LEMMA ClaimsAdvance ==
  ASSUME TypeInv, FreshInv, [Next]_vars, NEW k \in Keys
  PROVE  /\ ClaimOf(k) = "completed" => ClaimOf(k)' = "completed"
         /\ ClaimOf(k) = "unknown" => ClaimOf(k)' \in {"unknown", "completed"}
<1>1. CASE UNCHANGED claims BY <1>1 DEF ClaimOf
<1>2. ASSUME NEW p \in Procs, Propose(p) \/ MarkStarted(p) \/ Complete(p), claims' # claims
      PROVE  /\ ClaimOf(k) = "completed" => ClaimOf(k)' = "completed"
             /\ ClaimOf(k) = "unknown" => ClaimOf(k)' \in {"unknown", "completed"}
  <2> DEFINE j == loc[p].key
  <2>1. j \in Keys
    BY <1>2 DEF Propose, MarkStarted, Complete, At, TypeInv, LocalOK
  <2>2. Agree BY DEF FreshInv
  <2>3. CASE Propose(p)
    <3>1. ClaimOf(j) = "none" /\ claims' = SetClaims(j, "claimed")
      BY <1>2, <2>3 DEF Propose, ClaimOf
    <3>2. \A i \in Keys : ClaimOf(i)' = IF i = j THEN "claimed" ELSE ClaimOf(i)
      BY <2>1, <2>2, <3>1, ClaimOfAfter DEF Status
    <3> QED BY <3>1, <3>2
  <2>4. CASE MarkStarted(p)
    <3>1. Claimed(j, "claimed") /\ claims' = SetClaims(j, "unknown")
      BY <1>2, <2>4 DEF MarkStarted
    <3>2. ClaimOf(j) = "claimed" BY <2>1, <3>1, DomainTypes DEF Claimed, ClaimOf
    <3>3. \A i \in Keys : ClaimOf(i)' = IF i = j THEN "unknown" ELSE ClaimOf(i)
      BY <2>1, <2>2, <3>1, ClaimOfAfter DEF Status
    <3> QED BY <3>2, <3>3
  <2>5. CASE Complete(p)
    <3>1. claims' = SetClaims(j, "completed") BY <1>2, <2>5 DEF Complete, Recorded
    <3>2. \A i \in Keys : ClaimOf(i)' = IF i = j THEN "completed" ELSE ClaimOf(i)
      BY <2>1, <2>2, <3>1, ClaimOfAfter DEF Status
    <3> QED BY <3>2
  <2> QED BY <1>2, <2>3, <2>4, <2>5
<1> QED
  BY <1>1, <1>2
  DEF Next, Step, vars, CheckOut, StartStage, StartRepair, RunRepairFlow, Snapshot, Push,
      Abandon, StrangerPushes

\* A call comes to "applied" by its push, or by completing the stage of a repair.
LEMMA AppliedCalls ==
  ASSUME TypeInv, [Next]_vars, NEW q \in Procs, At(q, "applied")'
  PROVE  \/ At(q, "applied") /\ loc'[q].key = loc[q].key
         \/ Push(q)
         \/ /\ Complete(q) /\ claims' = Recorded(loc[q].key)
            /\ loc[q].outer # NoKey /\ loc'[q].key = loc[q].outer
<1>1. ASSUME UNCHANGED <<pc, loc>> PROVE At(q, "applied") /\ loc'[q].key = loc[q].key
  BY <1>1 DEF At
<1>2. ASSUME NEW p \in Procs, Finish(p) \/ Goto(p, "snapshot") \/ Goto(p, "propose")
                              \/ Goto(p, "mark") \/ Goto(p, "effect"),
             \A i \in Procs \ {p} : loc'[i] = loc[i]
      PROVE  At(q, "applied") /\ loc'[q].key = loc[q].key
  BY <1>2 DEF Finish, Goto, At, TypeInv, TypeOK
<1>3. ASSUME NEW p \in Procs, NEW k \in Keys, StartStage(p, k) \/ StartRepair(p, k)
      PROVE  At(q, "applied") /\ loc'[q].key = loc[q].key
  <2>1. Goto(p, "snapshot") /\ \A i \in Procs \ {p} : loc'[i] = loc[i]
    BY <1>3 DEF StartStage, StartRepair, Guard, TypeInv, TypeOK
  <2> QED BY <1>2, <2>1
<1>4. ASSUME NEW p \in Procs, RunRepairFlow(p) \/ Propose(p) \/ MarkStarted(p) \/ Abandon(p)
      PROVE  At(q, "applied") /\ loc'[q].key = loc[q].key
  <2>1. \A i \in Procs \ {p} : loc'[i] = loc[i]
    BY <1>4 DEF RunRepairFlow, Guard, Propose, MarkStarted, Abandon, Finish, TypeInv, TypeOK
  <2>2. Finish(p) \/ Goto(p, "snapshot") \/ Goto(p, "mark") \/ Goto(p, "effect")
    BY <1>4 DEF RunRepairFlow, Guard, Propose, MarkStarted, Abandon
  <2> QED BY <1>2, <2>1, <2>2
<1>5. ASSUME NEW p \in Procs, Snapshot(p)
      PROVE  At(q, "applied") /\ loc'[q].key = loc[q].key
  <2>1. \A i \in Procs \ {p} : loc'[i] = loc[i] BY <1>5 DEF Snapshot, TypeInv, TypeOK
  <2>2. Goto(p, "propose") \/ Goto(p, "snapshot")
    BY <1>5 DEF Snapshot, At, Goto, TypeInv, TypeOK
  <2> QED BY <1>2, <2>1, <2>2
<1>6. ASSUME NEW p \in Procs, Push(p)
      PROVE  \/ At(q, "applied") /\ loc'[q].key = loc[q].key
             \/ Push(q)
  BY <1>6 DEF Push, Goto, At, TypeInv, TypeOK
<1>7. ASSUME NEW p \in Procs, Complete(p)
      PROVE  \/ At(q, "applied") /\ loc'[q].key = loc[q].key
             \/ /\ Complete(q) /\ claims' = Recorded(loc[q].key)
                /\ loc[q].outer # NoKey /\ loc'[q].key = loc[q].outer
  <2>1. CASE Finish(p)
    <3>1. \A i \in Procs \ {p} : loc'[i] = loc[i] BY <2>1 DEF Finish, TypeInv, TypeOK
    <3> QED BY <1>2, <2>1, <3>1
  <2>2. CASE ~Finish(p)
    <3>1. /\ claims' = Recorded(loc[p].key) /\ loc[p].outer # NoKey /\ UNCHANGED pc
          /\ loc' = [loc EXCEPT ![p].key = loc[p].outer, ![p].outer = NoKey]
      BY <1>7, <2>2 DEF Complete
    <3>2. loc[p] \in Local BY DEF TypeInv, TypeOK
    <3>3. loc'[p].key = loc[p].outer /\ \A i \in Procs \ {p} : loc'[i] = loc[i]
      BY <3>1, <3>2 DEF TypeInv, TypeOK, Local
    <3> QED BY <1>7, <3>1, <3>3 DEF At
  <2> QED BY <2>1, <2>2
<1> QED
  BY <1>1, <1>3, <1>4, <1>5, <1>6, <1>7 DEF Next, Step, vars, CheckOut, StrangerPushes

\* A call comes to "effect" by marking claims that were only claimed.
LEMMA EffectCalls ==
  ASSUME TypeInv, [Next]_vars, NEW q \in Procs, At(q, "effect")'
  PROVE  \/ At(q, "effect") /\ loc'[q] = loc[q]
         \/ loc'[q].key = loc[q].key /\ loc[q].key \in Keys /\ Claimed(loc[q].key, "claimed")
<1>1. ASSUME UNCHANGED <<pc, loc>> PROVE At(q, "effect") /\ loc'[q] = loc[q]
  BY <1>1 DEF At
<1>2. ASSUME NEW p \in Procs, NEW label \in Pcs \ {"effect"}, pc'[p] = label,
             \A i \in Procs \ {p} : loc'[i] = loc[i] /\ pc'[i] = pc[i]
      PROVE  At(q, "effect") /\ loc'[q] = loc[q]
  BY <1>2 DEF At
<1>3. ASSUME NEW p \in Procs, NEW k \in Keys, StartStage(p, k) \/ StartRepair(p, k)
      PROVE  At(q, "effect") /\ loc'[q] = loc[q]
  <2>1. pc'[p] = "snapshot" /\ \A i \in Procs \ {p} : loc'[i] = loc[i] /\ pc'[i] = pc[i]
    BY <1>3, GuardFresh DEF StartStage, StartRepair
  <2> QED BY <1>2, <2>1 DEF Pcs
<1>4. ASSUME NEW p \in Procs, RunRepairFlow(p) PROVE At(q, "effect") /\ loc'[q] = loc[q]
  <2>1. Nested(loc[p].key) \in Keys BY <1>4, BranchTypes DEF RunRepairFlow, Repairs
  <2>2. pc'[p] = "snapshot" /\ \A i \in Procs \ {p} : loc'[i] = loc[i] /\ pc'[i] = pc[i]
    BY <1>4, <2>1, GuardFresh DEF RunRepairFlow
  <2> QED BY <1>2, <2>2 DEF Pcs
<1>5. ASSUME NEW p \in Procs, Finish(p) PROVE At(q, "effect") /\ loc'[q] = loc[q]
  <2>1. pc'[p] = "idle" /\ \A i \in Procs \ {p} : loc'[i] = loc[i] /\ pc'[i] = pc[i]
    BY <1>5 DEF Finish, Goto, TypeInv, TypeOK
  <2> QED BY <1>2, <2>1 DEF Pcs
<1>6. ASSUME NEW p \in Procs, Goto(p, "mark") \/ Goto(p, "applied") \/ Goto(p, "propose")
                              \/ Goto(p, "snapshot"),
             \A i \in Procs \ {p} : loc'[i] = loc[i]
      PROVE  At(q, "effect") /\ loc'[q] = loc[q]
  BY <1>6 DEF Goto, At, TypeInv, TypeOK
<1>7. ASSUME NEW p \in Procs, Snapshot(p) PROVE At(q, "effect") /\ loc'[q] = loc[q]
  <2>1. \A i \in Procs \ {p} : loc'[i] = loc[i] BY <1>7 DEF Snapshot, TypeInv, TypeOK
  <2>2. Goto(p, "propose") \/ Goto(p, "snapshot")
    BY <1>7 DEF Snapshot, At, Goto, TypeInv, TypeOK
  <2> QED BY <1>6, <2>1, <2>2
<1>8. ASSUME NEW p \in Procs, MarkStarted(p)
      PROVE  \/ At(q, "effect") /\ loc'[q] = loc[q]
             \/ loc'[q].key = loc[q].key /\ loc[q].key \in Keys /\ Claimed(loc[q].key, "claimed")
  <2>1. CASE Finish(p) BY <1>5, <2>1
  <2>2. CASE Claimed(loc[p].key, "claimed") /\ Goto(p, "effect") /\ UNCHANGED loc
    <3>1. loc[p].key \in Keys BY <1>8 DEF MarkStarted, At, TypeInv, LocalOK
    <3> QED BY <2>2, <3>1 DEF Goto, At, TypeInv, TypeOK
  <2> QED BY <1>8, <2>1, <2>2 DEF MarkStarted
<1>9. ASSUME NEW p \in Procs, Propose(p) \/ Push(p) \/ Abandon(p)
      PROVE  At(q, "effect") /\ loc'[q] = loc[q]
  BY <1>5, <1>6, <1>9 DEF Propose, Push, Abandon
<1>10. ASSUME NEW p \in Procs, Complete(p) PROVE At(q, "effect") /\ loc'[q] = loc[q]
  <2>1. CASE Finish(p) BY <1>5, <2>1
  <2>2. CASE ~Finish(p)
    <3>1. UNCHANGED pc /\ pc[p] = "applied" /\ \A i \in Procs \ {p} : loc'[i] = loc[i]
      BY <1>10, <2>2 DEF Complete, At, TypeInv, TypeOK
    <3> QED BY <1>2, <3>1 DEF Pcs
  <2> QED BY <2>1, <2>2
<1> QED
  BY <1>1, <1>3, <1>4, <1>7, <1>8, <1>9, <1>10 DEF Next, Step, vars, CheckOut, StrangerPushes

\* A call that applied its effect pushed, or completed the stage of its repair.
LEMMA AppliedDoneKept ==
  ASSUME TypeInv, EffectInv, FreshInv, MappingInv, [Next]_vars, NEW q \in Procs,
         At(q, "applied")'
  PROVE  AppliedDone(q)'
<1>1. CASE Push(q)
  <2>1. loc[q].key \in Keys \ Repairs /\ pushes[loc[q].key] = 0 /\ loc'[q] = loc[q]
    BY <1>1 DEF Push, At, TypeInv, LocalOK, EffectInv, Applying
  <2>2. pushes'[loc[q].key] = 1 BY <1>1, <2>1 DEF Push, TypeInv, TypeOK
  <2> QED BY <2>1, <2>2 DEF AppliedDone
<1>2. CASE /\ Complete(q) /\ claims' = Recorded(loc[q].key)
           /\ loc[q].outer # NoKey /\ loc'[q].key = loc[q].outer
  <2>1. loc[q].key \in Keys /\ loc[q].outer \in Repairs /\ loc[q].key = Nested(loc[q].outer)
    BY <1>2 DEF Complete, At, TypeInv, LocalOK, FreshInv, OuterNested
  <2>2. PICK k \in Keys : k = loc[q].key BY <2>1
  <2>3. ClaimOf(k)' = "completed"
    BY <1>2, <2>2, ClaimOfAfter DEF FreshInv, Recorded, Status
  <2> QED BY <1>2, <2>1, <2>2, <2>3 DEF AppliedDone, ClaimOf
<1>3. CASE At(q, "applied") /\ loc'[q].key = loc[q].key
  <2>1. PICK k \in Keys : k = loc[q].key BY <1>3 DEF At, TypeInv, LocalOK
  <2>2. CASE k \in Repairs
    <3>1. Nested(k) \in Keys /\ ClaimOf(Nested(k)) = "completed"
      BY <1>3, <2>1, <2>2, BranchTypes DEF MappingInv, AppliedDone
    <3>2. ClaimOf(Nested(k))' = "completed" BY <3>1, ClaimsAdvance
    <3> QED BY <1>3, <2>1, <2>2, <3>2 DEF AppliedDone, ClaimOf
  <2>3. CASE k \notin Repairs
    <3>1. pushes[k] = 1 BY <1>3, <2>1, <2>3 DEF MappingInv, AppliedDone
    <3>2. ASSUME NEW p \in Procs, Push(p) PROVE loc[p].key # k
      <4>1. Applying(p) /\ Applying(q) /\ p # q BY <1>3, <3>2 DEF Push, Applying, At
      <4> QED BY <2>1, <2>3, <4>1 DEF EffectInv
    <3>3. ASSUME NEW p \in Procs, Push(p) PROVE pushes'[k] = pushes[k]
      BY <3>2, <3>3 DEF Push, TypeInv, TypeOK
    <3>4. UNCHANGED pushes \/ \E p \in Procs : Push(p)
      BY DEF Next, Step, vars, CheckOut, StartStage, StartRepair, RunRepairFlow, Snapshot,
             Propose, MarkStarted, Complete, Abandon, StrangerPushes
    <3> QED BY <1>3, <2>1, <2>3, <3>1, <3>3, <3>4 DEF AppliedDone
  <2> QED BY <2>2, <2>3
<1> QED BY <1>1, <1>2, <1>3, AppliedCalls

\* The Run of a repair resolves the head of its stage once: nobody comes back to
\* the effect of a repair.
LEMMA ChosenOnceKept ==
  ASSUME TypeInv, FreshInv, MappingInv, [Next]_vars PROVE ChosenOnce'
<1> SUFFICES ASSUME NEW k \in Repairs, checkout'[Nested(k)] # NoHead
             PROVE  /\ ClaimOf(k)' \in {"unknown", "completed"}
                    /\ \A p \in Procs : ~(At(p, "effect")' /\ loc'[p].key = k)
  BY DEF ChosenOnce
<1> DEFINE u == Nested(k)
<1>1. k \in Keys /\ u \in Keys \ Repairs /\ InRepair(u)
  BY BranchTypes DEF Repairs, InRepair
<1>2. CASE checkout[u] # NoHead
  <2>1. /\ ClaimOf(k) \in {"unknown", "completed"}
        /\ \A p \in Procs : ~(At(p, "effect") /\ loc[p].key = k)
    BY <1>2 DEF MappingInv, ChosenOnce
  <2>2. ClaimOf(k)' \in {"unknown", "completed"} BY <1>1, <2>1, ClaimsAdvance
  <2>3. ~Claimed(k, "claimed") BY <1>1, <2>1, DomainTypes DEF Claimed, ClaimOf
  <2> QED BY <2>1, <2>2, <2>3, EffectCalls
<1>3. ASSUME NEW p \in Procs, RunRepairFlow(p), Nested(loc[p].key) = u
      PROVE  /\ ClaimOf(k)' \in {"unknown", "completed"}
             /\ \A q \in Procs : ~(At(q, "effect")' /\ loc'[q].key = k)
  <2>1. loc[p].key = k
    <3>1. loc[p].key \in Repairs BY <1>3 DEF RunRepairFlow
    <3> QED BY <1>3, <3>1, NestedAssumption DEF Nested, Repairs
  <2>2. Engaged(p, k) /\ ClaimOf(k) = "unknown"
    BY <1>1, <1>3, <2>1 DEF RunRepairFlow, Engaged, Applying, At, FreshInv, EngagedOnce
  <2>3. ClaimOf(k)' \in {"unknown", "completed"} BY <1>1, <2>2, ClaimsAdvance
  <2>4. pc'[p] = "snapshot" BY <1>1, <1>3, <2>1, GuardFresh DEF RunRepairFlow
  <2>5. ASSUME NEW q \in Procs, At(q, "effect")', loc'[q].key = k PROVE FALSE
    <3>1. q # p BY <2>4, <2>5 DEF At
    <3>2. ~Claimed(k, "claimed") BY <1>1, <2>2, DomainTypes DEF Claimed, ClaimOf
    <3>3. At(q, "effect") /\ loc[q].key = k BY <2>5, <3>2, EffectCalls
    <3>4. Engaged(q, k) BY <3>3 DEF Engaged, Applying, At
    <3> QED BY <1>1, <2>2, <3>1, <3>4 DEF FreshInv, EngagedOnce
  <2> QED BY <2>3, <2>5
<1>4. CASE checkout[u] = NoHead
  <2>1. checkout'[u] # checkout[u] BY <1>4
  <2>2. ASSUME NEW j \in Keys, CheckOut(j) PROVE FALSE
    <3>1. j # u BY <1>1, <2>2 DEF CheckOut
    <3> QED BY <2>1, <2>2, <3>1 DEF CheckOut, TypeInv, TypeOK
  <2>3. ASSUME NEW p \in Procs, NEW j \in Keys, StartRepair(p, j) PROVE FALSE
    <3>1. j # u BY <1>1, <2>3 DEF StartRepair
    <3> QED BY <2>1, <2>3, <3>1 DEF StartRepair, TypeInv, TypeOK
  <2>4. ASSUME NEW p \in Procs, RunRepairFlow(p) PROVE Nested(loc[p].key) = u
    BY <2>1, <2>4 DEF RunRepairFlow, TypeInv, TypeOK
  <2>5. \E p \in Procs : RunRepairFlow(p)
    BY <2>1, <2>2, <2>3
    DEF Next, Step, vars, StartStage, Snapshot, Propose, MarkStarted, Push, Complete,
        Abandon, StrangerPushes
  <2> QED BY <1>3, <2>4, <2>5
<1> QED BY <1>2, <1>4

\* What the mapping needs holds in every reachable state.
LEMMA MappingInvariant == Spec => []MappingInv
<1>1. Init => MappingInv
  <2> SUFFICES ASSUME Init PROVE MappingInv
    OBVIOUS
  <2>1. \A p \in Procs : AppliedDone(p) BY DEF Init, AppliedDone, At
  <2>2. \A j \in Repairs : j \in Keys /\ Nested(j) \in Keys BY BranchTypes DEF Repairs
  <2>3. ChosenOnce BY <2>2 DEF Init, ChosenOnce
  <2>4. \A j \in Repairs : pushes[j] = 0 BY <2>2 DEF Init
  <2>5. \A b \in Branches : remote[b] \notin Keys BY NullAssumption DEF Init
  <2>6. \A d \in Domains : world[d].head = NoHead BY DEF Init
  <2> QED BY <2>1, <2>3, <2>4, <2>5, <2>6 DEF MappingInv
<1>2. TypeInv /\ EffectInv /\ FreshInv /\ MappingInv /\ [Next]_vars => MappingInv'
  <2> SUFFICES ASSUME TypeInv, EffectInv, FreshInv, MappingInv, [Next]_vars PROVE MappingInv'
    OBVIOUS
  <2>1. \A p \in Procs : AppliedDone(p)' BY AppliedDoneKept DEF AppliedDone, At
  <2>2. ChosenOnce' BY ChosenOnceKept
  <2>3. CASE UNCHANGED <<remote, pushes, world>>
    BY <2>1, <2>2, <2>3 DEF MappingInv
  <2>4. ASSUME NEW p \in Procs, Push(p) PROVE MappingInv'
    <3> DEFINE k == loc[p].key
    <3>1. k \in Keys \ Repairs /\ UNCHANGED world
      BY <2>4 DEF Push, At, TypeInv, LocalOK
    <3>2. /\ \A b \in Branches : remote'[b] = remote[b] \/ remote'[b] = k
          /\ pushes'[k] = pushes[k] + 1 /\ \A j \in Keys \ {k} : pushes'[j] = pushes[j]
          /\ pushes[k] \in Nat
      BY <2>4, <3>1 DEF Push, TypeInv, TypeOK
    <3>3. \A j \in Repairs : pushes'[j] = 0 BY <3>1, <3>2 DEF MappingInv, Repairs
    <3>4. pushes'[k] # 0 BY <3>2
    <3>5. \A b \in Branches : remote'[b] \in Keys => pushes'[remote'[b]] # 0
      BY <3>2, <3>4 DEF MappingInv
    <3> QED BY <2>1, <2>2, <3>1, <3>3, <3>5 DEF MappingInv
  <2>5. ASSUME NEW p \in Procs, Complete(p) PROVE MappingInv'
    <3>1. loc[p].key \in Keys /\ UNCHANGED <<remote, pushes>>
      BY <2>5 DEF Complete, At, TypeInv, LocalOK
    <3>2. PushedBy(loc[p].key) \in Keys BY <3>1, BranchTypes DEF PushedBy, Repairs
    <3>3. \A d \in Domains : world'[d] = world[d] \/ world'[d].head = PushedBy(loc[p].key)
      BY <2>5 DEF Complete, WorldAfter, Advanced
    <3> QED BY <2>1, <2>2, <3>1, <3>2, <3>3 DEF MappingInv
  <2>6. ASSUME NEW s \in Strangers, NEW b \in Branches, StrangerPushes(s, b)
        PROVE  MappingInv'
    <3>1. s \notin Keys BY NullAssumption
    <3>2. \A c \in Branches : remote'[c] \in Keys => remote'[c] = remote[c]
      BY <2>6, <3>1 DEF StrangerPushes, TypeInv, TypeOK
    <3>3. UNCHANGED <<pushes, world>> BY <2>6 DEF StrangerPushes
    <3> QED BY <2>1, <2>2, <3>2, <3>3 DEF MappingInv
  <2> QED
    BY <2>3, <2>4, <2>5, <2>6
    DEF Next, Step, vars, CheckOut, StartStage, StartRepair, RunRepairFlow, Snapshot,
        Propose, MarkStarted, Abandon
<1> QED BY <1>1, <1>2, TypeInvariant, EffectInvariant, FreshInvariant, PTL DEF Spec

\* What the mapping says of one mutation.
LEMMA StageNamesOf ==
  ASSUME NEW k \in Keys
  PROVE  /\ ClaimOf(k) = "none" => StageOf(k) = "new"
         /\ ClaimOf(k) = "claimed" => StageOf(k) = "claimed"
         /\ ClaimOf(k) = "unknown" /\ pushes[k] = 0 => StageOf(k) = "started"
         /\ ClaimOf(k) = "unknown" /\ pushes[k] # 0 => StageOf(k) = "applied"
         /\ ClaimOf(k) = "completed" => StageOf(k) = "recorded"
BY DEF ClaimOf, StageOf, ActionOf, StageNames

\* A stage that was held is one of a claim that was active.
LEMMA HeldStages ==
  ASSUME TypeInv, NEW k \in Keys, StageOf(k) \in {"claimed", "started", "applied"}
  PROVE  ClaimOf(k) \in {"claimed", "unknown"}
<1>1. ClaimOf(k) \in Status BY DomainTypes DEF ClaimOf, TypeInv, TypeOK
<1> QED BY <1>1, StageNamesOf DEF Status

\* The stages after a step at which only that of k changes.
LEMMA OneStage ==
  ASSUME NEW k \in Keys, NEW to, StageOf(k)' = to,
         \A j \in Keys \ {k} : ClaimOf(j)' = ClaimOf(j) /\ pushes'[j] = pushes[j]
  PROVE  [j \in Keys |-> StageOf(j)]' = [[j \in Keys |-> StageOf(j)] EXCEPT ![k] = to]
<1>1. \A j \in Keys \ {k} : StageOf(j)' = StageOf(j) BY DEF ClaimOf, StageOf, ActionOf
<1> QED BY <1>1

\* A step that writes no store that the mapping reads.
LEMMA SameMutations ==
  ASSUME UNCHANGED <<claims, pushes, checkout, remote, world>>
  PROVE  UNCHANGED Mutations!vars
<1>1. \A k : StageOf(k)' = StageOf(k) BY DEF StageOf, ActionOf
<1> QED BY <1>1 DEF Mutations!vars

\* A Run resolves the head it will work on: the base of a mutation that has no
\* claim yet, and had none before.
LEMMA Chooses ==
  ASSUME TypeInv, NEW k \in Keys, ClaimOf(k) = "none", checkout[k] = NoHead,
         checkout' = [checkout EXCEPT ![k] = remote[Branch(PushedBy(k))]],
         UNCHANGED <<claims, pushes, remote, world>>
  PROVE  Mutations!Next
<1>1. \A j : StageOf(j)' = StageOf(j) BY DEF StageOf, ActionOf
<1>2. StageOf(k) = "new" BY StageNamesOf
<1>3. Mutations!Choose(k) BY <1>1, <1>2 DEF Mutations!Choose, BranchOf
<1> QED BY <1>3 DEF Mutations!Next

LEMMA CheckOutChooses ==
  ASSUME TypeInv, FreshInv, NEW k \in Keys, CheckOut(k) PROVE Mutations!Next
<1>1. ~InUse(k) BY DEF CheckOut, FreshInv, CheckedOut
<1>2. ClaimOf(k) = "none" BY <1>1 DEF InUse
<1>3. PushedBy(k) = k BY DEF CheckOut, PushedBy, Repairs
<1> QED BY <1>2, <1>3, Chooses DEF CheckOut

\* The first submission of a repair fixes the head that its key names.
LEMMA StartRepairChooses ==
  ASSUME TypeInv, FreshInv, NEW p \in Procs, NEW k \in Keys, StartRepair(p, k)
  PROVE  [Mutations!Next]_(Mutations!vars)
<1>1. k \in Repairs /\ PushedBy(k) = Nested(k) BY DEF StartRepair, PushedBy
<1>2. CASE checkout[k] = NoHead
  <2>1. ~InRepair(k) /\ Mutation[k].kind = "repair"
    BY <1>1, BranchTypes DEF InRepair, Repairs
  <2>2. ~InUse(k) BY <1>2, <2>1 DEF FreshInv, CheckedOut
  <2>3. ClaimOf(k) = "none" BY <2>2 DEF InUse
  <2> QED BY <1>1, <1>2, <2>3, Chooses DEF StartRepair
<1>3. CASE checkout[k] # NoHead
  <2>1. UNCHANGED checkout BY <1>3 DEF StartRepair, TypeInv, TypeOK
  <2> QED BY <2>1, SameMutations DEF StartRepair
<1> QED BY <1>2, <1>3

\* The Run of a repair resolves the head of its stage, which nobody did before.
LEMMA RunRepairFlowChooses ==
  ASSUME TypeInv, FreshInv, MappingInv, NEW p \in Procs, RunRepairFlow(p)
  PROVE  Mutations!Next
<1> DEFINE k == loc[p].key
           u == Nested(k)
<1>1. k \in Repairs /\ k \in Keys /\ u \in Keys \ Repairs
  BY BranchTypes DEF RunRepairFlow, Repairs
<1>2. ~InUse(u) /\ checkout[u] = NoHead
  BY <1>1 DEF RunRepairFlow, FreshInv, NestedOnce, MappingInv, ChosenOnce
<1>3. ClaimOf(u) = "none" BY <1>2 DEF InUse
<1>4. PushedBy(u) = u BY <1>1 DEF PushedBy
<1>5. checkout' = [checkout EXCEPT ![u] = remote[Branch(PushedBy(u))]]
  BY <1>4 DEF RunRepairFlow
<1> QED BY <1>1, <1>2, <1>3, <1>5, Chooses DEF RunRepairFlow

\* A proposal claims work that nobody holds and whose recorded head is the base.
LEMMA ProposeClaims ==
  ASSUME TypeInv, FreshInv, RemoteInv, MappingInv, NEW p \in Procs, Propose(p)
  PROVE  [Mutations!Next]_(Mutations!vars)
<1>1. CASE UNCHANGED claims BY <1>1, SameMutations DEF Propose
<1>2. CASE claims' # claims
  <2>1. PICK k \in Keys : k = loc[p].key BY DEF Propose, At, TypeInv, LocalOK
  <2>2. /\ ClaimOf(k) = "none" /\ Rivals(k) = {} /\ claims' = SetClaims(k, "claimed")
        /\ \A d \in DomainsOf(k) : ~Stale(p, d)
        /\ UNCHANGED <<world, remote, pushes, checkout>>
    BY <1>2, <2>1 DEF Propose, ClaimOf
  <2>3. \A j \in Keys : ClaimOf(j)' = IF j = k THEN "claimed" ELSE ClaimOf(j)
    BY <2>2, ClaimOfAfter DEF FreshInv, Status
  <2>4. StageOf(k) = "new" /\ StageOf(k)' = "claimed"
    BY <2>2, <2>3 DEF StageOf, ActionOf, StageNames, ClaimOf
  <2>5. [j \in Keys |-> StageOf(j)]' = [[j \in Keys |-> StageOf(j)] EXCEPT ![k] = "claimed"]
    BY <2>2, <2>3, <2>4, OneStage
  <2>6. ASSUME NEW j \in Keys \ {k}, StageOf(j) \in {"claimed", "started", "applied"}
        PROVE  DomainsOf(j) \cap DomainsOf(k) = {}
    <3>1. ClaimOf(j) \in {"claimed", "unknown"} BY <2>6, HeldStages
    <3>2. \A d \in DomainsOf(j) : claims[d][j] \in {"claimed", "unknown"}
      BY <3>1 DEF FreshInv, Agree
    <3> QED BY <2>2, <3>2 DEF Rivals
  <2>7. ASSUME NEW d \in DomainsOf(k) PROVE world[d].head \in {NoHead, checkout[k]}
    <3>1. d \in Domains BY DomainTypes
    <3>2. CASE world[d].rev = 0 BY <3>1, <3>2 DEF RemoteInv, MappingInv
    <3>3. CASE world[d].rev # 0
      <4>1. world[d].head = loc[p].obs BY <2>2, <3>3 DEF Stale
      <4>2. Active(p, k) BY <2>1 DEF Active, Propose, At
      <4> QED BY <4>1, <4>2 DEF FreshInv, Observed
    <3> QED BY <3>2, <3>3
  <2>8. Mutations!Claim(k)
    <3>1. \A d \in DomainsOf(k) : d \in Domains BY DomainTypes
    <3>2. Mutations!Advance(k, "new", "claimed") BY <2>4, <2>5 DEF Mutations!Advance
    <3> QED BY <2>2, <2>6, <2>7, <3>1, <3>2 DEF Mutations!Claim, Mutations!Holds, Work
  <2> QED BY <2>8 DEF Mutations!Next
<1> QED BY <1>1, <1>2

\* A mark starts a mutation that was claimed, and whose effect was not applied.
LEMMA MarkStarts ==
  ASSUME TypeInv, EffectInv, FreshInv, NEW p \in Procs, MarkStarted(p)
  PROVE  [Mutations!Next]_(Mutations!vars)
<1>1. CASE UNCHANGED claims BY <1>1, SameMutations DEF MarkStarted
<1>2. CASE claims' # claims
  <2>1. PICK k \in Keys : k = loc[p].key BY DEF MarkStarted, At, TypeInv, LocalOK
  <2>2. /\ Claimed(k, "claimed") /\ claims' = SetClaims(k, "unknown")
        /\ UNCHANGED <<world, remote, pushes, checkout>>
    BY <1>2, <2>1 DEF MarkStarted
  <2>3. ClaimOf(k) = "claimed" BY <2>2, DomainTypes DEF Claimed, ClaimOf
  <2>4. pushes[k] = 0
    <3>1. ~(pushes[k] > 0) BY <2>3, DomainTypes DEF EffectInv, ClaimOf
    <3>2. pushes[k] \in Nat BY DEF TypeInv, TypeOK
    <3> QED BY <3>1, <3>2
  <2>5. \A j \in Keys : ClaimOf(j)' = IF j = k THEN "unknown" ELSE ClaimOf(j)
    BY <2>2, ClaimOfAfter DEF FreshInv, Status
  <2>6. StageOf(k) = "claimed" /\ StageOf(k)' = "started"
    BY <2>2, <2>3, <2>4, <2>5 DEF StageOf, ActionOf, StageNames, ClaimOf
  <2>7. [j \in Keys |-> StageOf(j)]' = [[j \in Keys |-> StageOf(j)] EXCEPT ![k] = "started"]
    BY <2>2, <2>5, <2>6, OneStage
  <2>8. Mutations!Start(k) BY <2>2, <2>6, <2>7 DEF Mutations!Start, Mutations!Advance
  <2> QED BY <2>8 DEF Mutations!Next
<1> QED BY <1>1, <1>2

\* A push applies an effect that was started, over no head of another mutation
\* but the base.
LEMMA PushApplies ==
  ASSUME TypeInv, OneClaimPerDomain, EffectInv, FreshInv, RemoteInv, MappingInv,
         NEW p \in Procs, Push(p)
  PROVE  Mutations!Next
<1>1. PICK k \in Keys : k = loc[p].key BY DEF Push, At, TypeInv, LocalOK
<1>2. /\ k \notin Repairs /\ PushedBy(k) = k /\ Applying(p)
      /\ remote' = [remote EXCEPT ![Branch(k)] = k]
      /\ pushes' = [pushes EXCEPT ![k] = @ + 1]
      /\ UNCHANGED <<claims, world, checkout>>
  BY <1>1 DEF Push, PushedBy, Applying, At
<1>3. ClaimOf(k) = "unknown"
  BY <1>1, <1>2, DomainTypes DEF EffectInv, Claimed, ClaimOf
<1>4. pushes[k] = 0 BY <1>1, <1>2 DEF Push, EffectInv
<1>5. pushes'[k] # 0 /\ \A j \in Keys \ {k} : pushes'[j] = pushes[j]
  BY <1>2, <1>4 DEF TypeInv, TypeOK
<1>6. \A j : ClaimOf(j)' = ClaimOf(j) BY <1>2 DEF ClaimOf
<1>7. StageOf(k) = "started" /\ StageOf(k)' = "applied"
  BY <1>2, <1>3, <1>4, <1>5 DEF StageOf, ActionOf, StageNames, ClaimOf
<1>8. [j \in Keys |-> StageOf(j)]' = [[j \in Keys |-> StageOf(j)] EXCEPT ![k] = "applied"]
  BY <1>5, <1>6, <1>7, OneStage
<1>9. Branch(k) \in Branches BY <1>2, BranchTypes
<1>10. remote[Branch(k)] \in Keys => remote[Branch(k)] = checkout[k]
  BY <1>1, <1>4, <1>9, PushSeesHead DEF MappingInv
<1>11. Mutations!Apply(k)
  <2>1. Mutations!Advance(k, "started", "applied") BY <1>7, <1>8 DEF Mutations!Advance
  <2> QED BY <1>2, <1>10, <2>1 DEF Mutations!Apply, Effect, BranchOf
<1> QED BY <1>11 DEF Mutations!Next

\* A completion records what was applied, for a repair what its Run recorded.
LEMMA CompleteRecords ==
  ASSUME TypeInv, EffectInv, FreshInv, MappingInv, NEW p \in Procs, Complete(p)
  PROVE  [Mutations!Next]_(Mutations!vars)
<1>1. CASE UNCHANGED <<claims, world>> BY <1>1, SameMutations DEF Complete
<1>2. CASE ~UNCHANGED <<claims, world>>
  <2>1. PICK k \in Keys : k = loc[p].key BY DEF Complete, At, TypeInv, LocalOK
  <2>2. /\ Claimed(k, "unknown") /\ claims' = SetClaims(k, "completed")
        /\ world' = WorldAfter(k) /\ At(p, "applied")
        /\ UNCHANGED <<remote, pushes, checkout>>
    BY <1>2, <2>1 DEF Complete, Recorded
  <2>3. ClaimOf(k) = "unknown" BY <2>2, DomainTypes DEF Claimed, ClaimOf
  <2>4. \A j \in Keys : ClaimOf(j)' = IF j = k THEN "completed" ELSE ClaimOf(j)
    BY <2>2, ClaimOfAfter DEF FreshInv, Status
  <2>5. StageOf(k)' = "recorded"
    BY <2>4 DEF StageOf, ActionOf, StageNames, ClaimOf
  <2>6. [j \in Keys |-> StageOf(j)]' = [[j \in Keys |-> StageOf(j)] EXCEPT ![k] = "recorded"]
    BY <2>2, <2>4, <2>5, OneStage
  <2>7. IF PushedBy(k) = k THEN StageOf(k) = "applied"
        ELSE StageOf(k) = "started" /\ StageOf(PushedBy(k)) = "recorded"
    <3>1. CASE k \notin Repairs
      <4>1. pushes[k] = 1 BY <2>1, <2>2, <3>1 DEF MappingInv, AppliedDone
      <4> QED BY <2>3, <3>1, <4>1, StageNamesOf DEF PushedBy
    <3>2. CASE k \in Repairs
      <4>1. PushedBy(k) = Nested(k) /\ Nested(k) \in Keys \ Repairs
        BY <3>2, BranchTypes DEF PushedBy
      <4>2. pushes[k] = 0 BY <3>2 DEF MappingInv
      <4>3. ClaimOf(Nested(k)) = "completed"
        BY <2>1, <2>2, <3>2 DEF MappingInv, AppliedDone
      <4> QED BY <2>3, <3>2, <4>1, <4>2, <4>3, StageNamesOf
    <3> QED BY <3>1, <3>2
  <2>8. PushedBy(k) \in Keys BY BranchTypes DEF PushedBy, Repairs
  <2>9. [d \in Domains |-> world[d].head]' =
          [d \in Domains |-> IF d \in DomainsOf(k) THEN PushedBy(k) ELSE world[d].head]
    <3>1. ASSUME NEW d \in Domains
          PROVE  world'[d].head = IF d \in DomainsOf(k) THEN PushedBy(k) ELSE world[d].head
      BY <2>2 DEF WorldAfter, Advanced
    <3> QED BY <3>1
  <2>10. Mutations!Record(k)
    <3>1. StageOf(k) = "applied" => Mutations!Advance(k, "applied", "recorded")
      BY <2>5, <2>6 DEF Mutations!Advance
    <3>2. StageOf(k) = "started" => Mutations!Advance(k, "started", "recorded")
      BY <2>5, <2>6 DEF Mutations!Advance
    <3> QED BY <2>2, <2>7, <2>8, <2>9, <3>1, <3>2 DEF Mutations!Record, Effect, Work
  <2> QED BY <2>10 DEF Mutations!Next
<1> QED BY <1>1, <1>2

\* Every step of the gate, its callers and GitHub is a step of GuardedMutations
\* or a stutter.
LEMMA MutationsNext ==
  ASSUME TypeInv, OneClaimPerDomain, EffectInv, FreshInv, RemoteInv, MappingInv, [Next]_vars
  PROVE  [Mutations!Next]_(Mutations!vars)
<1>1. CASE UNCHANGED vars BY <1>1, SameMutations DEF vars
<1>2. ASSUME NEW p \in Procs, NEW k \in Keys, StartStage(p, k)
      PROVE  [Mutations!Next]_(Mutations!vars)
  BY <1>2, SameMutations DEF StartStage
<1>3. ASSUME NEW p \in Procs, Snapshot(p) \/ Abandon(p)
      PROVE  [Mutations!Next]_(Mutations!vars)
  BY <1>3, SameMutations DEF Snapshot, Abandon
<1>4. ASSUME NEW s \in Strangers, NEW b \in Branches, StrangerPushes(s, b)
      PROVE  [Mutations!Next]_(Mutations!vars)
  <2>1. \A k : StageOf(k)' = StageOf(k) BY <1>4 DEF StrangerPushes, StageOf, ActionOf
  <2>2. Mutations!Intrude(s, b) BY <1>4, <2>1 DEF StrangerPushes, Mutations!Intrude
  <2> QED BY <2>2 DEF Mutations!Next
<1> QED
  BY <1>1, <1>2, <1>3, <1>4, CheckOutChooses, StartRepairChooses, RunRepairFlowChooses,
     ProposeClaims, MarkStarts, PushApplies, CompleteRecords DEF Next, Step

\* At first no mutation is claimed, fixed to a head or recorded.
LEMMA MutationsInit == ASSUME Init PROVE Mutations!Init
<1>1. \A k \in Keys : StageOf(k) = "new" BY DomainTypes DEF Init, StageOf, ActionOf, StageNames
<1>2. \A d \in Domains : world[d].head = NoHead BY DEF Init
<1> QED BY <1>1, <1>2 DEF Mutations!Init, Init

\* The claims, their revisions and the calls that die half-way implement guarded
\* mutations: each is fixed to one head, holds its work alone from its claim
\* until it is recorded, is applied at most once, over its base, and a repair is
\* recorded only after the stage of its Run.
THEOREM MutationsRefinedAlways == Spec => MutationsRefined
<1>1. Init => Mutations!Init BY MutationsInit
<1>2. /\ TypeInv /\ OneClaimPerDomain /\ EffectInv /\ FreshInv /\ RemoteInv /\ MappingInv
      /\ [Next]_vars
      => [Mutations!Next]_(Mutations!vars)
  BY MutationsNext
<1> QED
  BY <1>1, <1>2, TypeInvariant, OneClaimPerDomainAlways, EffectInvariant, FreshInvariant,
     RemoteInvariant, MappingInvariant, PTL DEF Spec, MutationsRefined, Mutations!Spec
=============================================================================
