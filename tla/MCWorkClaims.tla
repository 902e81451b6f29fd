---------------------------- MODULE MCWorkClaims ----------------------------
(* WorkClaims on one GitHub issue: two Runs that each publish a branch for  *)
(* it, a Run that updates the pull request of the first, and a CI repair of *)
(* that pull request.                                                       *)
EXTENDS WorkClaimsProps, TLC

CONSTANTS k1, k2, u1, u2, x1, y1, p1, p2, s1

MCKeys == {k1, u1, u2, x1, y1}
TwoPublishers == {k1, k2}
OnlyRepair == {k1, x1, y1}
MCProcs == {p1, p2}
OneProc == {p1}

\* Every Run works in a worktree of its own, so its domain is left out here: no
\* other mutation names it.
Publish(branch) ==
  [kind |-> "publish", branch |-> branch, worktree |-> NoName,
   issue |-> "issue", pull |-> NoName, update |-> NoKey]
Update ==
  [kind |-> "update", branch |-> "b1", worktree |-> NoName,
   issue |-> NoName, pull |-> "pull1", update |-> NoKey]
Repair(k) ==
  [kind |-> "repair", branch |-> NoName, worktree |-> NoName,
   issue |-> NoName, pull |-> "pull1", update |-> k]
MCMutation ==
  [k \in {k1, k2, u1, u2, x1, y1} |->
     IF k \in {k1, k2} THEN Publish(IF k = k1 THEN "b1" ELSE "b2")
     ELSE IF k = x1 THEN Repair(y1) ELSE Update]

\* The two processes are alike, and so are the two updating Runs.
MCSymmetry == Permutations(MCProcs) \cup Permutations({u1, u2})
=============================================================================
