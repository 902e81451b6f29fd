---------------------------- MODULE FlowRunProps ----------------------------
(* What a Run of FlowRun is expected to keep. *)
EXTENDS FlowRun

\* Behind run.completed stands every stage of the Flow: no path of reworks,
\* interrupted attempts, approvals and resumes reaches it around a stage.  A
\* resume that starts in an interrupted finalizer passes them all.
Recorded(end) == log' # log /\ log' = Ended(log, end)
FromFinalizer == runner.from \cap Finalizer # {}
CompletedIsComplete ==
  [][Recorded("completed") /\ ~FromFinalizer => Main \subseteq log.done]_vars

\* Every pass over an approval waits for an operator of its own: the answer to
\* an earlier attempt does not count again after a rework.
PassIsApproved ==
  [][\A a \in Approvals : log.st[a] # "completed" /\ log'.st[a] = "completed"
       => log.st[a] = "awaiting" /\ log.verdict[a] = "approved"]_vars

\* A runner that returned has reported an end, or left something to resume:
\* nobody waits for a Run on which nothing works.  Not where a Run went on behind
\* its run.failed, by a run.resumed or into a block: a later runner that is out of
\* attempts finds that old run.failed, and records none.
HasEnd == log.status \in {"completed", "failed", "cancelled"} \/ Resumable(log) # {}
Reopened == log.resumed \/ (log.status = "blocked" /\ "failed" \in log.ended)
ReturnedRunHasEnd == runner.pc = "left" /\ ~Reopened => HasEnd

\* docs/rework-and-recovery.md: after the cap was raised, `nitely resume`
\* continues at the first incomplete stage.
RaisedRunHasEnd == runner.pc = "left" => HasEnd

\* No attempt is begun twice: its directory is immutable, and every runner
\* counts on from the attempts of the runners before it.
AttemptsAreFresh ==
  [][\A s \in Stages : log.st[s] # "started" /\ log'.st[s] = "started"
       => log'.tries[s] > log.tries[s]]_vars

\* Every stage before the one a runner is at has completed in the log.
PassedStagesAreDone ==
  runner.pc \notin Gone /\ runner.err = "none" /\ ~FromFinalizer =>
    \A j \in 1..runner.i - 1 : Order[j] \in log.done

\* Retries and reworks end: a runner comes to its end in every Run.
RunnerReturns == (runner.pc \notin Gone) ~> (runner.pc \in Gone)

\* Whatever the runners and the operators do, and wherever runners crash and are
\* resumed, the log is one of RunStages: its stages are walked in their order,
\* one attempt at a time, and the Run completes when every stage has.
Walk == INSTANCE RunStages WITH
  st <- log.st, tries <- log.tries, done <- log.done, verdict <- log.verdict,
  late <- FromFinalizer, completed <- "completed" \in log.ended
StagesRefined == Walk!Spec
=============================================================================
