----------------------------- MODULE MCDatabase -----------------------------
(* The connection shared by the dispatcher and the network thread, for TLC. *)
EXTENDS Database
=============================================================================
