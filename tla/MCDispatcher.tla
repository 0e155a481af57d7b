---------------------------- MODULE MCDispatcher ----------------------------
(* Model checking of the dispatcher: two calling threads and the dispatcher *)
(* itself submit two ordinary tasks, one with an expiration time and two of *)
(* the scheduler's.                                                         *)
EXTENDS Dispatcher

=============================================================================
