--------------------------- MODULE MCRunAdmission ---------------------------
(* RunAdmission on one Work item: two calls that may start a Run and one    *)
(* operator that cancels and reconciles.                                    *)
EXTENDS RunAdmissionProps, TLC

CONSTANTS i1, r1, r2, p1, p2, p3

MCItems == {i1}
MCRuns == {r1, r2}
MCProcs == {p1, p2, p3}
MCDeps == [i \in MCItems |-> {}]
MCRoles == (p1 :> {"admit"}) @@ (p2 :> {"admit"}) @@ (p3 :> {"cancel", "reconcile"})
MCOutcomes == {"completed", "failed"}

AllOutcomes == {"completed", "failed", "blocked"}

\* One starter, the operator, and a scheduler that resumes.
CancelRoles == (p1 :> {"admit"}) @@ (p2 :> {"cancel"}) @@ (p3 :> {"resume", "reconcile"})

\* Two processes that start and resume Runs, one of which also edits the record
\* and reconciles, while a store may throw.
FaultProcs == {p1, p2}
FaultRoles == (p1 :> {"admit", "resume"}) @@ (p2 :> {"admit", "resume", "reconcile", "edit"})

\* The two starters have the same roles, and nothing tells the Runs apart.
RunSymmetry == Permutations(MCRuns)
MCSymmetry == Permutations({p1, p2}) \cup RunSymmetry
=============================================================================
