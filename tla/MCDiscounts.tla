---------------------------- MODULE MCDiscounts ----------------------------
(* Discounts on CommissionAccount for TLC.                                 *)
EXTENDS Discounts, TLC

CONSTANTS half, third

\* One code may be used once, the other as often as one likes.
ThePercent == half :> 50 @@ third :> 33
TheLimit == half :> 1 @@ third :> 0
TheTopupAmounts == {-2, 3}
TheAmounts == {p * commission_percent : p \in 0 .. Price}

Symmetry == UNION {Permutations(References), Permutations(Topups), Permutations(Tasks)}
=============================================================================
