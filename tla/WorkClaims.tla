----------------------------- MODULE WorkClaims -----------------------------
(***************************************************************************)
(* Work coordination: the claims that guard what Nitely does to GitHub     *)
(* (coordination/claims.ts, runGuardedMutation) and its three callers: the *)
(* publish-change and update-change stages of a Run, and a CI repair.      *)
(*                                                                         *)
(* A mutation is named by its idempotency key.  It claims every conflict   *)
(* domain that names its work, marks the claims as started, pushes, and    *)
(* records the head it pushed.  Every SQLite transaction, and every read   *)
(* outside one, is a step; the push is another.  The effect of a repair is *)
(* a whole Run, whose update-change stage is a mutation of its own.        *)
(* A head is named by the mutation, or by the person, that pushed it.      *)
(***************************************************************************)
EXTENDS Naturals

CONSTANTS
  Keys, Procs,     \* idempotency keys; processes that run mutations
  Mutation,        \* Mutation[k]: what the key stands for
  Strangers,       \* heads that others push
  NoName, NoKey, NoHead,
  MaxFaults        \* bound on calls that die or throw half-way

Kinds == {"publish", "update", "repair"}

\* update: the key of the update-change stage in the Run that a repair starts,
\* which names that Run.  A stage always has a branch; a repair names the pull
\* request only.
ASSUME MutationAssumption ==
  \A k \in Keys :
    /\ Mutation[k].kind \in Kinds
    /\ Mutation[k].kind # "repair" => Mutation[k].branch # NoName
    /\ Mutation[k].kind = "repair" =>
         /\ Mutation[k].branch = NoName
         /\ Mutation[k].update \in Keys /\ Mutation[Mutation[k].update].kind = "update"
ASSUME NestedAssumption ==
  \A j, k \in Keys : Mutation[j].kind = "repair" /\ Mutation[k].kind = "repair"
                      /\ Mutation[j].update = Mutation[k].update => j = k
ASSUME NullAssumption ==
  NoKey \notin Keys /\ NoHead \notin Keys \cup Strangers /\ Keys \cap Strangers = {}
ASSUME FaultAssumption == MaxFaults \in Nat

Repairs == {k \in Keys : Mutation[k].kind = "repair"}
Nested(k) == Mutation[k].update
Branch(k) == Mutation[k].branch

\* changeMutationDomains: what the work is called, most specific name first.
Target(m) == IF m.pull # NoName THEN m.pull
             ELSE IF m.issue # NoName THEN m.issue ELSE m.branch
ActionDomain(k) == <<"action", Mutation[k].kind, Target(Mutation[k])>>
Names == {"branch", "worktree", "issue", "pull"}
DomainsOf(k) ==
  {ActionDomain(k)} \cup
  {<<n, Mutation[k][n]>> : n \in {m \in Names : Mutation[k][m] # NoName}}
\* The order in which they are listed, hence read.
Rank == [action |-> 1, branch |-> 2, worktree |-> 3, issue |-> 4, pull |-> 5]
Domains == UNION {DomainsOf(k) : k \in Keys}
Branches == {Branch(k) : k \in Keys} \ {NoName}
Heads == Keys \cup Strangers \cup {NoHead}

VARIABLES
  claims,    \* claims[d][k]: the row of table claims
  world,     \* world[d]: revision and head of the last completed mutation
  holds,     \* table holds
  remote,    \* remote[b]: the head of branch b on GitHub (external)
  pushes,    \* pushes[k]: how often the effect of k was applied
  checkout,  \* checkout[k]: the pull request head an updating Run resolved
  pc, loc,   \* each process
  faults

vars == <<claims, world, holds, remote, pushes, checkout, pc, loc, faults>>

Status == {"none", "claimed", "unknown", "completed"}
Pcs == {"idle", "snapshot", "propose", "mark", "effect", "applied"}

\* outer: the repair whose effect this mutation is part of; seen: the
\* revisions read so far; todo: the domains still to read.
Local == [key : Keys \cup {NoKey}, outer : Keys \cup {NoKey}, obs : Heads,
          seen : [Domains -> Nat], todo : SUBSET Domains]
NoLocal == [key |-> NoKey, outer |-> NoKey, obs |-> NoHead,
            seen |-> [d \in Domains |-> 0], todo |-> {}]

TypeOK ==
  /\ claims \in [Domains -> [Keys -> Status]]
  /\ world \in [Domains -> [rev : Nat, head : Heads]]
  /\ holds \subseteq Domains \X Keys \X (Nat \X Heads)
  /\ remote \in [Branches -> Heads]
  /\ pushes \in [Keys -> Nat]
  /\ checkout \in [Keys -> Heads]
  /\ pc \in [Procs -> Pcs]
  /\ loc \in [Procs -> Local]
  /\ faults \in 0..MaxFaults

Init ==
  /\ claims = [d \in Domains |-> [k \in Keys |-> "none"]]
  /\ world = [d \in Domains |-> [rev |-> 0, head |-> NoHead]]
  /\ holds = {}
  /\ remote = [b \in Branches |-> NoHead]
  /\ pushes = [k \in Keys |-> 0]
  /\ checkout = [k \in Keys |-> NoHead]
  /\ pc = [p \in Procs |-> "idle"]
  /\ loc = [p \in Procs |-> NoLocal]
  /\ faults = 0

-----------------------------------------------------------------------------
At(p, label) == pc[p] = label
Goto(p, label) == pc' = [pc EXCEPT ![p] = label]

\* The call is over, and with it the repair it was part of: the stage, or the
\* repair, reports the error or the replayed result.
Finish(p) == Goto(p, "idle") /\ loc' = [loc EXCEPT ![p] = NoLocal]

Claimed(k, status) == \A d \in DomainsOf(k) : claims[d][k] = status
SetClaims(k, status) ==
  [d \in Domains |-> IF d \in DomainsOf(k)
                     THEN [claims[d] EXCEPT ![k] = status] ELSE claims[d]]

\* The head that completing k records; a repair reports what its Run pushed.
PushedBy(k) == IF k \in Repairs THEN Nested(k) ELSE k

\* runGuardedMutation is called for k, which observed head obs.
Guard(p, k, outer, obs) ==
  /\ Goto(p, "snapshot")
  /\ loc' = [loc EXCEPT ![p] = [NoLocal EXCEPT !.key = k, !.outer = outer,
                                               !.obs = obs, !.todo = DomainsOf(k)]]

Running(k) == \E p \in Procs : k \in {loc[p].key, loc[p].outer}
InRepair(k) == \E r \in Repairs : Nested(r) = k

-----------------------------------------------------------------------------
(* The three callers                                                       *)

\* A Run that updates a pull request resolves it once, when it starts.
CheckOut(k) ==
  /\ Mutation[k].kind = "update" /\ ~InRepair(k)
  /\ checkout[k] = NoHead /\ remote[Branch(k)] # NoHead
  /\ checkout' = [checkout EXCEPT ![k] = remote[Branch(k)]]
  /\ UNCHANGED <<claims, world, holds, remote, pushes, pc, loc, faults>>

\* The stage runs, perhaps once more after a crash or a resume: its key does
\* not depend on the attempt.  A publish observes "none".
StartStage(p, k) ==
  /\ At(p, "idle") /\ ~Running(k) /\ ~InRepair(k)
  /\ \/ Mutation[k].kind = "publish"
     \/ Mutation[k].kind = "update" /\ checkout[k] # NoHead
  /\ Guard(p, k, NoKey, checkout[k])
  /\ UNCHANGED <<claims, world, holds, remote, pushes, checkout, faults>>

\* Slip: a repair that is submitted again takes whatever head there is now.
StartRepair_AnyHead(p, k) ==
  LET head == remote[Branch(Nested(k))] IN
  /\ At(p, "idle") /\ k \in Repairs /\ head # NoHead
  /\ checkout' = [checkout EXCEPT ![k] = head]
  /\ Guard(p, k, NoKey, head)
  /\ UNCHANGED <<claims, world, holds, remote, pushes, faults>>

\* submitCiRepair: the key names the head whose check failed, and the repair is
\* admitted only while that is still the head of the pull request.  A submission
\* with --resume may find the first one still running.
StartRepair(p, k) ==
  LET head == remote[Branch(Nested(k))] IN
  /\ At(p, "idle") /\ k \in Repairs
  /\ head # NoHead /\ checkout[k] \in {NoHead, head}
  /\ checkout' = [checkout EXCEPT ![k] = head]
  /\ Guard(p, k, NoKey, head)
  /\ UNCHANGED <<claims, world, holds, remote, pushes, faults>>

\* The effect of a repair: runFlow resolves the pull request again and its
\* update-change stage calls runGuardedMutation.
RunRepairFlow(p) ==
  LET k == loc[p].key
      u == Nested(k)
  IN
  /\ At(p, "effect") /\ k \in Repairs
  /\ checkout' = [checkout EXCEPT ![u] = remote[Branch(u)]]
  /\ Guard(p, u, k, remote[Branch(u)])
  /\ UNCHANGED <<claims, world, holds, remote, pushes, faults>>

-----------------------------------------------------------------------------
(* runGuardedMutation                                                      *)

\* CoordinationStore.snapshot reads one domain after another, in no
\* transaction.
Snapshot(p) ==
  /\ At(p, "snapshot")
  /\ \E d \in loc[p].todo :
       /\ \A e \in loc[p].todo : Rank[d[1]] <= Rank[e[1]]
       /\ loc' = [loc EXCEPT ![p].seen[d] = world[d].rev, ![p].todo = @ \ {d}]
       /\ IF loc[p].todo = {d} THEN Goto(p, "propose") ELSE UNCHANGED pc
  /\ UNCHANGED <<claims, world, holds, remote, pushes, checkout, faults>>

\* Slip: only the revision is compared, and not the observed head.
Stale_Revision(p, d) == world[d].rev # loc[p].seen[d]
Stale(p, d) ==
  world[d].rev # 0 /\ <<world[d].rev, world[d].head>> # <<loc[p].seen[d], loc[p].obs>>

\* Slip: a conflict is looked for in the action domain only.
Rivals_SameAction(k) ==
  {j \in Keys \ {k} : /\ ActionDomain(k) \in DomainsOf(j)
                      /\ claims[ActionDomain(k)][j] \in {"claimed", "unknown"}}
\* The other keys with an active claim on a domain of k.
Rivals(k) ==
  {j \in Keys \ {k} : \E d \in DomainsOf(k) : claims[d][j] \in {"claimed", "unknown"}}

\* CoordinationStore.propose in its IMMEDIATE transaction.
Propose(p) ==
  LET k == loc[p].key
      a == ActionDomain(k)
      stale == {d \in DomainsOf(k) : Stale(p, d)}
  IN
  /\ At(p, "propose")
  /\ \/ /\ claims[a][k] \in {"completed", "unknown"}   \* replayed, or stopped
        /\ Finish(p) /\ UNCHANGED <<claims, holds>>
     \/ /\ claims[a][k] = "claimed"
        /\ Goto(p, "mark") /\ UNCHANGED <<claims, holds, loc>>
     \/ /\ claims[a][k] = "none" /\ stale # {}
        /\ holds' = holds \cup {<<a, k, <<loc[p].seen[a], loc[p].obs>>>>}
        /\ Finish(p) /\ UNCHANGED claims
     \/ /\ claims[a][k] = "none" /\ stale = {} /\ Rivals(k) # {}
        /\ Finish(p) /\ UNCHANGED <<claims, holds>>
     \/ /\ claims[a][k] = "none" /\ stale = {} /\ Rivals(k) = {}
        /\ claims' = SetClaims(k, "claimed")
        /\ Goto(p, "mark") /\ UNCHANGED <<holds, loc>>
  /\ UNCHANGED <<world, remote, pushes, checkout, faults>>

\* markEffectStarted: throws unless every claim is still only claimed.
MarkStarted(p) ==
  LET k == loc[p].key IN
  /\ At(p, "mark")
  /\ IF Claimed(k, "claimed")
     THEN /\ claims' = SetClaims(k, "unknown")
          /\ Goto(p, "effect") /\ UNCHANGED loc
     ELSE Finish(p) /\ UNCHANGED claims
  /\ UNCHANGED <<world, holds, remote, pushes, checkout, faults>>

\* publishChange or updateChangeRequest pushes; whatever GitHub has is replaced
\* (git's own refusals are not relied on).
Push(p) ==
  LET k == loc[p].key IN
  /\ At(p, "effect") /\ k \notin Repairs
  /\ remote' = [remote EXCEPT ![Branch(k)] = k]
  /\ pushes' = [pushes EXCEPT ![k] = @ + 1]
  /\ Goto(p, "applied")
  /\ UNCHANGED <<claims, world, holds, checkout, loc, faults>>

\* Slip: a completed claim gets a status that the others do not know.
Recorded_Done(k) == SetClaims(k, "done")
Recorded(k) == SetClaims(k, "completed")

Advanced(domains, k) ==
  [d \in Domains |-> IF d \in domains
                     THEN [rev |-> world[d].rev + 1, head |-> PushedBy(k)] ELSE world[d]]
\* Slip: the head is recorded for the action only, not for the branch.
WorldAfter_ActionOnly(k) == Advanced({ActionDomain(k)}, k)
WorldAfter(k) == Advanced(DomainsOf(k), k)

\* CoordinationStore.complete: throws unless every claim is unknown.  The
\* effect of an enclosing repair has then been applied.
Complete(p) ==
  LET k == loc[p].key IN
  /\ At(p, "applied")
  /\ IF Claimed(k, "unknown")
     THEN /\ claims' = Recorded(k)
          /\ world' = WorldAfter(k)
          /\ IF loc[p].outer = NoKey THEN Finish(p)
             ELSE /\ loc' = [loc EXCEPT ![p].key = loc[p].outer, ![p].outer = NoKey]
                  /\ UNCHANGED pc
     ELSE Finish(p) /\ UNCHANGED <<claims, world>>
  /\ UNCHANGED <<holds, remote, pushes, checkout, faults>>

-----------------------------------------------------------------------------
(* Environment                                                             *)

\* Slip: a call that throws removes the claims it holds.
Abandon_Aborts(p) ==
  /\ ~At(p, "idle")
  /\ faults < MaxFaults /\ faults' = faults + 1
  /\ claims' = IF loc[p].key \in Keys THEN SetClaims(loc[p].key, "none") ELSE claims
  /\ Finish(p)
  /\ UNCHANGED <<world, holds, remote, pushes, checkout>>

\* The process dies, or the effect throws, before or after it pushed: the
\* claims stay as they are.
Abandon(p) ==
  /\ ~At(p, "idle")
  /\ faults < MaxFaults /\ faults' = faults + 1
  /\ Finish(p)
  /\ UNCHANGED <<claims, world, holds, remote, pushes, checkout>>

\* A push, perhaps a forced one, that no mutation makes.
StrangerPushes(s, b) ==
  /\ remote[b] # NoHead
  /\ remote' = [remote EXCEPT ![b] = s]
  /\ UNCHANGED <<claims, world, holds, pushes, checkout, pc, loc, faults>>

Step(p) ==
  \/ RunRepairFlow(p) \/ Snapshot(p) \/ Propose(p) \/ MarkStarted(p)
  \/ Push(p) \/ Complete(p)

Next ==
  \/ \E k \in Keys : CheckOut(k)
  \/ \E p \in Procs, k \in Keys : StartStage(p, k) \/ StartRepair(p, k)
  \/ \E p \in Procs : Step(p) \/ Abandon(p)
  \/ \E s \in Strangers, b \in Branches : StrangerPushes(s, b)

Spec == Init /\ [][Next]_vars

\* A mutation that was started goes on.
FairSpec == Spec /\ \A p \in Procs : WF_vars(Step(p))
=============================================================================
