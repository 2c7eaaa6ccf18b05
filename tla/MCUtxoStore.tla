---------------------------- MODULE MCUtxoStore ----------------------------
(* Instances of UtxoStore for TLC. *)
EXTENDS UtxoStore, TLC

CONSTANTS p1, p2, r1, r2, n1, t1, t2

Coin(n, a) == [id |-> n, amount |-> a]

\* Two of one amount, so that a tie is broken, and a larger one.
ThreeCoins == {Coin(1, 1), Coin(2, 1), Coin(3, 2)}
NoCoins == {}
=============================================================================
