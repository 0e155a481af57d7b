----------------------------- MODULE MCSession ------------------------------
(***************************************************************************)
(* Three connections log in one character.                                 *)
(***************************************************************************)
EXTENDS Session, TLC

SessionSymmetry == Permutations(Connections) \cup Permutations(Objects)
=============================================================================
