--------------------------- MODULE MCBackupRestore ---------------------------
(* BackupRestore for TLC.                                                  *)
EXTENDS BackupRestore, TLC

\* A package, a customer, an order for the package that is paid from the
\* customer's wallet, and a topup of the wallet.
TheListed == <<"packages", "customers", "orders">>
TheUnlisted == {"customer_wallet_topups"}
TheTxns == {"package", "customer", "order", "topup"}
TheTouches == [package |-> {"packages"}, customer |-> {"customers"},
               order |-> {"customers", "orders"},
               topup |-> {"customers", "customer_wallet_topups"}]
TheNeeds == [package |-> {}, customer |-> {}, order |-> {"package", "customer"},
             topup |-> {"customer"}]
TheDeletable == {"package"}

Symmetry == Permutations(Connections) \cup Permutations(Tasks)
=============================================================================
