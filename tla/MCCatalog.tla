------------------------------ MODULE MCCatalog ------------------------------
(* Catalog for TLC.                                                        *)
EXTENDS Catalog, TLC

\* One operator has a floor; the lower price is under it.
TheNames == {"irancell", "rightel"}
TheFloor == [irancell |-> 2, rightel |-> 0]
ThePrices == {1, 2}

Symmetry == Permutations(Operators) \cup Permutations(Subfolders) \cup Permutations(Packages)
=============================================================================
