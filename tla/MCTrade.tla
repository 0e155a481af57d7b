------------------------------ MODULE MCTrade -------------------------------
(***************************************************************************)
(* Four players with two containers and two other items.                    *)
(***************************************************************************)
EXTENDS Trade, TLC

TradeSymmetry == Permutations(Players) \cup Permutations(Bags) \cup Permutations(Items \ Bags)
=============================================================================
