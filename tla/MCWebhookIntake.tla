--------------------------- MODULE MCWebhookIntake ---------------------------
(* WebhookIntake on one server and two activations of an issue, d2 the      *)
(* newer.                                                                   *)
EXTENDS WebhookIntakeProps, TLC

CONSTANTS d1, d2, p1

Activations == {d1, d2}
OneServer == {p1}

MCCursor == [d \in Deliveries |-> IF d = d2 THEN 2 ELSE 1]
MCKind == [d \in Deliveries |-> "issue"]
MCDomain == [d \in Deliveries |-> "issue"]
=============================================================================
