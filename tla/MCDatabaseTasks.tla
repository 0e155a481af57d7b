-------------------------- MODULE MCDatabaseTasks ---------------------------
(* Model checking of the database queue: the dispatcher and a network thread *)
(* submit three queries while the game is saved and shut down.               *)
EXTENDS DatabaseTasks

=============================================================================
