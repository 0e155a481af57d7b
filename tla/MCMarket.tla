------------------------------ MODULE MCMarket ------------------------------
(***************************************************************************)
(* Two players, one with money in the bank, one with money in the pocket.  *)
(***************************************************************************)
EXTENDS Market

CONSTANTS rich, poor

Bank == [p \in Players |-> IF p = rich THEN 4 ELSE 0]
Cash == [p \in Players |-> IF p = rich THEN 0 ELSE 3]
Wares == [p \in Players |-> IF p = rich THEN 0 ELSE 2]
Coins == [p \in Players |-> IF p = rich THEN 1 ELSE 0]
Asked == {<<"ware", 1>>, <<"coin", 3>>}
=============================================================================
