---------------------------- MODULE MCWaitingList ----------------------------
(***************************************************************************)
(* Four clients and a gamemaster at a server for two players.              *)
(***************************************************************************)
EXTENDS WaitingList

ClientSymmetry == Permutations(Clients \ Privileged)
=============================================================================
