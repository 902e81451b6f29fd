----------------------------- MODULE MCFlowRun ------------------------------
(* FlowRun on one stage with the default of one attempt. *)
EXTENDS FlowRunProps, TLC

CONSTANT implement

MCOrder == <<implement>>
MCKind == [s \in Main |-> "policy"]
MCTarget == [s \in Main |-> {}]
MCMaxAttempts == [s \in Main |-> 1]
=============================================================================
