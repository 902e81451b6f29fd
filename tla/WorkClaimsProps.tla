--------------------------- MODULE WorkClaimsProps --------------------------
(* What WorkClaims is checked for.                                          *)
EXTENDS WorkClaims

\* Two mutations never hold a conflict domain together (docs/work-
\* coordination.md: "A claim held by another key conflicts").
OneClaimPerDomain ==
  \A d \in Domains, j, k \in Keys :
    /\ claims[d][j] \in {"claimed", "unknown"}
    /\ claims[d][k] \in {"claimed", "unknown"}
    => j = k

\* The effect of a key is applied at most once, however often its stage is
\* run again and wherever the process died: a key whose effect started is
\* replayed or stopped, never repeated.
EffectOnce == \A k \in Keys : pushes[k] <= 1

\* From the proposal until the push nothing else completes in a domain of the
\* mutation: what it observed is still the recorded head.
FreshEffect ==
  \A p \in Procs : At(p, "effect") =>
    \A d \in DomainsOf(loc[p].key) :
      world[d].rev = 0 \/ world[d].head = loc[p].obs

\* An update replaces a head pushed by another mutation only if the Run had
\* checked that head out: no Run overwrites the work of another unseen.
NoBlindPush ==
  [][\A b \in Branches, k \in Keys :
       remote'[b] = k /\ remote[b] \in Keys \ {k} => checkout[k] = remote[b]]_remote

\* The gate knows the head of a branch that nobody else pushed to, unless some
\* effect there has not been recorded.
RecordedHeadIsLatest ==
  \A b \in Branches :
    /\ remote[b] \in Keys
    /\ \A k \in Keys : <<"branch", b>> \in DomainsOf(k) => claims[<<"branch", b>>][k] # "unknown"
    => world[<<"branch", b>>].head = remote[b]

\* docs/work-coordination.md: "The first publish of a branch proceeds": no hold
\* is recorded for a publish whose branch GitHub does not have.
FirstPublishProceeds ==
  \A h \in holds :
    Mutation[h[2]].kind = "publish" => remote[Branch(h[2])] # NoHead

\* docs/running-flows.md: "The cycle updates the existing pull request only": a
\* repair whose effect was started, and that nothing disturbs, pushes.
RepairUpdatesPull ==
  \A k \in Repairs :
    claims[ActionDomain(k)][k] = "unknown" ~> pushes[Nested(k)] > 0

\* A completed claim was recorded; an effect that started was applied once its
\* push was made.  (Functions of the keys, which TLC computes once.)
StageNames == [none |-> "new", claimed |-> "claimed", completed |-> "recorded"]
ActionOf == [k \in Keys |-> ActionDomain(k)]
StageOf(k) ==
  LET claim == claims[ActionOf[k]][k] IN
  IF claim # "unknown" THEN StageNames[claim]
  ELSE IF pushes[k] = 0 THEN "started" ELSE "applied"
Work == [k \in Keys |-> DomainsOf(k)]
Effect == [k \in Keys |-> PushedBy(k)]
BranchOf == [k \in Keys |-> Branch(PushedBy(k))]
Mutations == INSTANCE GuardedMutations WITH
  stage <- [k \in Keys |-> StageOf(k)], base <- checkout, head <- remote,
  last <- [d \in Domains |-> world[d].head]

\* Whatever the processes do, and wherever they die, the mutations are those of
\* GuardedMutations: each fixed to one head, alone in its work from its claim
\* until it is recorded, and applied at most once.
MutationsRefined == Mutations!Spec
=============================================================================
