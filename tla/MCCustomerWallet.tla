-------------------------- MODULE MCCustomerWallet --------------------------
(* CustomerWallet for TLC.                                                 *)
EXTENDS CustomerWallet, TLC

OnePrice == {1}
TwoPrices == {1, 2}
NegativeToo == {-1, 2}
OneOrTwo == {1, 2}
NoRows == {}
ThreeRows == 1..3

Symmetry == UNION {Permutations(Customers), Permutations(Topups), Permutations(Codes),
                   Permutations(Orders), Permutations(Tasks)}
=============================================================================
