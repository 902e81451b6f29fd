-------------------------- MODULE GuardedMutations --------------------------
(***************************************************************************)
(* What work coordination promises of the mutations it guards, without its *)
(* claims, revisions, processes and crashes: a mutation is fixed to one    *)
(* head, holds all of its work from its claim until it is recorded, and    *)
(* starts and applies its effect once.  A head is compared and swapped     *)
(* twice: when the work is claimed, with the head last recorded there, and *)
(* when a branch is pushed, with the head another mutation pushed.         *)
(***************************************************************************)
CONSTANTS
  Keys, Strangers, NoHead, Domains, Branches,
  Work,      \* Work[k]: the domains that k names
  Effect,    \* Effect[k]: the key whose push is the effect of k, k itself or
             \* a mutation that is part of it
  BranchOf   \* BranchOf[k]: the branch where that effect goes

VARIABLES
  stage,     \* stage[k]: how far mutation k is
  base,      \* base[k]: the head that k is fixed to
  head,      \* head[b]: the head of branch b
  last       \* last[d]: the head last recorded in domain d

vars == <<stage, base, head, last>>

Init ==
  /\ stage = [k \in Keys |-> "new"]
  /\ base = [k \in Keys |-> NoHead]
  /\ head = [b \in Branches |-> NoHead]
  /\ last = [d \in Domains |-> NoHead]

\* The second conjunct follows from the third: it spares TLC comparing the
\* stages of all mutations.
Advance(k, from, to) ==
  stage[k] = from /\ stage'[k] = to /\ stage' = [stage EXCEPT ![k] = to]

Choose(k) ==
  /\ stage[k] = "new" /\ base[k] = NoHead
  /\ base' = [base EXCEPT ![k] = head[BranchOf[k]]]
  /\ UNCHANGED <<stage, head, last>>

Holds(k) == stage[k] \in {"claimed", "started", "applied"}
Claim(k) ==
  /\ Advance(k, "new", "claimed")
  /\ \A j \in Keys \ {k} : Holds(j) => Work[j] \cap Work[k] = {}
  /\ \A d \in Work[k] : last[d] \in {NoHead, base[k]}
  /\ UNCHANGED <<base, head, last>>

Start(k) == Advance(k, "claimed", "started") /\ UNCHANGED <<base, head, last>>

Apply(k) ==
  /\ Effect[k] = k /\ Advance(k, "started", "applied")
  /\ head[BranchOf[k]] \in Keys => head[BranchOf[k]] = base[k]
  /\ head' = [head EXCEPT ![BranchOf[k]] = k]
  /\ UNCHANGED <<base, last>>

\* A mutation whose effect is that of another is recorded after the other.
Record(k) ==
  /\ IF Effect[k] = k THEN Advance(k, "applied", "recorded")
     ELSE Advance(k, "started", "recorded") /\ stage[Effect[k]] = "recorded"
  /\ last' = [d \in Domains |-> IF d \in Work[k] THEN Effect[k] ELSE last[d]]
  /\ UNCHANGED <<base, head>>

\* Someone else pushes.
Intrude(s, b) ==
  head' = [head EXCEPT ![b] = s] /\ UNCHANGED <<stage, base, last>>

Next ==
  \/ \E k \in Keys : Choose(k) \/ Claim(k) \/ Start(k) \/ Apply(k) \/ Record(k)
  \/ \E s \in Strangers, b \in Branches : Intrude(s, b)

Spec == Init /\ [][Next]_vars
=============================================================================
