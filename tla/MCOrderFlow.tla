---------------------------- MODULE MCOrderFlow ----------------------------
(* OrderFlow for TLC.                                                      *)
EXTENDS OrderFlow, TLC

CONSTANTS MaxDeductions, \* bound: deductions of one order
          MaxRefunds,    \* bound: refunds of one order
          MaxTestOrders  \* bound: test orders counted

OnePercent == {1}
TwoPercents == {1, 2}
MixedTopups == {-2, 3}

Bounds ==
    /\ \A o \in Orders : Len(deductions[o]) <= MaxDeductions /\ Len(refunds[o]) <= MaxRefunds
    /\ test_mode_orders_used <= MaxTestOrders

Symmetry == UNION {Permutations(Customers), Permutations(Orders), Permutations(Staff),
                   Permutations(Disputes), Permutations(Topups), Permutations(Tasks)}
============================================================================
