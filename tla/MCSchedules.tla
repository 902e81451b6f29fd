---------------------------- MODULE MCSchedules -----------------------------
(* Schedules with one scheduler, a default schedule that repeats, and a     *)
(* scan that is late; two skipped instants may be recorded (25 in the code).*)
EXTENDS SchedulesProps, TLC

CONSTANT p1

MCInstants == 1..4
MCScanners == {p1}
=============================================================================
