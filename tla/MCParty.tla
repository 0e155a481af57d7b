------------------------------ MODULE MCParty -------------------------------
(***************************************************************************)
(* Four players make up to two parties at a time.                          *)
(***************************************************************************)
EXTENDS Party

PartySymmetry == Permutations(Players \ NotGainInFight) \cup Permutations(Parties)
=============================================================================
