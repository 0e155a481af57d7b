---------------------------- MODULE MCScheduler -----------------------------
(* Model checking of the scheduler: the dispatcher thread and a network      *)
(* thread add two events, with ids that wrap after two.                      *)
EXTENDS Scheduler

=============================================================================
