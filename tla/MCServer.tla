------------------------------ MODULE MCServer ------------------------------
(* Model checking of the threads together, through one orderly shutdown.    *)
EXTENDS Server

=============================================================================
