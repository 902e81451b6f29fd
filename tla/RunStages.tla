----------------------------- MODULE RunStages ------------------------------
(***************************************************************************)
(* What the event log of a Run promises about its stages to those who read *)
(* it, whichever runners wrote it and however often they were stopped: the *)
(* stages are walked in their order, one attempt at a time, each with a    *)
(* new number; an approval is passed on an answer to this very attempt;    *)
(* and the Run completes when every stage has.  Only a Run that is taken   *)
(* up within a finalizer completes regardless, and it walks no more.       *)
(***************************************************************************)
EXTENDS Naturals, Sequences

CONSTANTS Stages, Order, Finalizer, Approvals

VARIABLES
  st, tries,   \* status and number of the latest attempt of each stage
  done,        \* the stages that have completed
  verdict,     \* of the latest attempt of each approval
  late,        \* was the Run taken up within a finalizer?
  completed    \* has the Run?

vars == <<st, tries, done, verdict, late, completed>>

Init ==
  /\ st = [s \in Stages |-> "pending"]
  /\ tries = [s \in Stages |-> 0]
  /\ done = {}
  /\ verdict = [a \in Approvals |-> "none"]
  /\ late = FALSE /\ completed = FALSE

Open(s) == st[s] \in {"started", "awaiting", "blocked"}
\* It is the turn of the k-th stage: those before it have completed, and no
\* other is open.
Turn(k) ==
  /\ ~late
  /\ \A j \in 1..k - 1 : Order[j] \in done
  /\ \A j \in DOMAIN Order \ {k} : ~Open(Order[j])

Mark(s, status) == st' = [st EXCEPT ![s] = status]
\* A new attempt of s, with a higher number and without a verdict.
NewAttempt(s) ==
  /\ Mark(s, "started")
  /\ tries'[s] > tries[s] /\ tries' = [tries EXCEPT ![s] = tries'[s]]
  /\ verdict' = [a \in Approvals |-> IF a = s THEN "none" ELSE verdict[a]]
  /\ UNCHANGED <<done, late, completed>>

Begin(k) == Turn(k) /\ st[Order[k]] # "started" /\ NewAttempt(Order[k])

Ask(k) ==
  /\ Turn(k) /\ Order[k] \in Approvals
  /\ st[Order[k]] = "started" /\ verdict[Order[k]] = "none"
  /\ Mark(Order[k], "awaiting") /\ verdict' = [verdict EXCEPT ![Order[k]] = "pending"]
  /\ UNCHANGED <<tries, done, late, completed>>

\* An operator answers.
Answer(a) ==
  /\ st[a] = "awaiting" /\ verdict[a] = "pending"
  /\ \E v \in {"approved", "denied"} : verdict' = [verdict EXCEPT ![a] = v]
  /\ UNCHANGED <<st, tries, done, late, completed>>

Pass(k) ==
  /\ Turn(k)
  /\ IF Order[k] \in Approvals
     THEN st[Order[k]] = "awaiting" /\ verdict[Order[k]] = "approved"
     ELSE st[Order[k]] = "started"
  /\ Mark(Order[k], "completed") /\ done' = done \cup {Order[k]}
  /\ UNCHANGED <<tries, verdict, late, completed>>

\* A stage fails, also when it had completed before; a waiting approval, when
\* it was denied.
Fail(k) ==
  /\ Turn(k)
  /\ st[Order[k]] = "awaiting" => verdict[Order[k]] = "denied"
  /\ Mark(Order[k], "failed") /\ done' = done \ {Order[k]}
  /\ UNCHANGED <<tries, verdict, late, completed>>
Block(k) ==
  /\ Turn(k) /\ Order[k] \notin Approvals /\ st[Order[k]] = "started"
  /\ Mark(Order[k], "blocked") /\ done' = done \ {Order[k]}
  /\ UNCHANGED <<tries, verdict, late, completed>>

\* Finalizers run behind the stages, or behind the failure of one.
Finalize(f) ==
  \/ NewAttempt(f)
  \/ /\ \/ Mark(f, "completed") /\ done' = done \cup {f}
        \/ Mark(f, "failed") /\ done' = done \ {f}
     /\ UNCHANGED <<tries, verdict, late, completed>>

TakeUp ==
  /\ late' \in BOOLEAN /\ (late' => \E f \in Finalizer : Open(f))
  /\ UNCHANGED <<st, tries, done, verdict, completed>>

Finish ==
  /\ late \/ \A k \in DOMAIN Order : Order[k] \in done
  /\ completed' = TRUE
  /\ UNCHANGED <<st, tries, done, verdict, late>>

Next ==
  \/ \E k \in DOMAIN Order : Begin(k) \/ Ask(k) \/ Pass(k) \/ Fail(k) \/ Block(k)
  \/ \E a \in Approvals : Answer(a)
  \/ \E f \in Finalizer : Finalize(f)
  \/ TakeUp \/ Finish

Spec == Init /\ [][Next]_vars
=============================================================================
