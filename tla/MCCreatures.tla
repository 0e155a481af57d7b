---------------------------- MODULE MCCreatures -----------------------------
(***************************************************************************)
(* One player, one spawn and two Monster objects, in two places that are   *)
(* out of each other's sight.                                              *)
(***************************************************************************)
EXTENDS Creatures, TLC

Symmetry == Permutations(Monsters)
=============================================================================
