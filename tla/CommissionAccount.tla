-------------------------- MODULE CommissionAccount --------------------------
(***************************************************************************)
(* The commission account a reseller keeps with the platform               *)
(* (services/wallet_service.py): the balance on the resellers row and the  *)
(* rows of wallet_transactions.  Every operation of the service is one     *)
(* transaction that locks the reseller row with SELECT ... FOR UPDATE      *)
(* before it reads the balance, so every operation is one action here.     *)
(*                                                                         *)
(* A row that has the type commission_deduction or refund carries a        *)
(* reference, the code of the order it is for.  The rows are kept per      *)
(* reference, in the order they were inserted.  Deductions, stored with a  *)
(* minus sign in the table, are kept as the amount taken.                  *)
(***************************************************************************)
EXTENDS Integers, Sequences, FiniteSets, Functions

CONSTANTS References,    \* what a row may refer to: order codes
          Topups,        \* ids of the topup rows
          TopupAmounts,  \* amounts a topup may be requested for
          Amounts,       \* amounts the callers take or give back
          CreditLimit    \* resellers.credit_limit_negative

\* What a deduction is asked to take follows from prices and percentages, which
\* are taken not to be negative, like the limit.
ASSUME CreditLimitAssumption == CreditLimit \in Nat
ASSUME AmountsAssumption == Amounts \subseteq Nat
\* The reseller's handler accepts any number as the amount of a topup.
ASSUME TopupAmountsAssumption == TopupAmounts \subseteq Int

\* However long the program has run, the tables hold finitely many rows.
ASSUME RowsAssumption == IsFiniteSet(References) /\ IsFiniteSet(Topups)

VARIABLES wallet_credit_balance, \* resellers.wallet_credit_balance
          deductions,            \* the commission_deduction rows of a reference
          refunds,               \* the refund rows of a reference
          topups                 \* the topup rows

accountVars == <<wallet_credit_balance, deductions, refunds, topups>>

Topup == [status: {"none", "pending", "confirmed"}, amount: Int]
NoTopup == [status |-> "none", amount |-> 0]

TypeOK ==
    /\ wallet_credit_balance \in Int
    /\ deductions \in [References -> Seq(Nat)]
    /\ refunds \in [References -> Seq(Nat)]
    /\ topups \in [Topups -> Topup]

Init ==
    /\ wallet_credit_balance = 0
    /\ deductions = [r \in References |-> <<>>]
    /\ refunds = [r \in References |-> <<>>]
    /\ topups = [w \in Topups |-> NoTopup]

-----------------------------------------------------------------------------
(* deduct_commission_in_tx raises InsufficientCreditError instead of taking *)
(* the amount when the balance would pass the negative limit.               *)

\* Faulty variant: the balance is compared before the amount is taken.
InsufficientCredit_BalanceOnly(amount) == wallet_credit_balance < -CreditLimit

InsufficientCredit(amount) == wallet_credit_balance - amount < -CreditLimit

\* The part of deduct_commission_in_tx that runs when the credit suffices.
DeductCommission(ref, amount) ==
    /\ ~InsufficientCredit(amount)
    /\ wallet_credit_balance' = wallet_credit_balance - amount
    /\ deductions' = [deductions EXCEPT ![ref] = Append(@, amount)]
    /\ UNCHANGED <<refunds, topups>>

\* refund_commission: gives the amount back; it looks at no limit and at no
\* earlier row of the reference.
RefundCommission(ref, amount) ==
    /\ wallet_credit_balance' = wallet_credit_balance + amount
    /\ refunds' = [refunds EXCEPT ![ref] = Append(@, amount)]
    /\ UNCHANGED <<deductions, topups>>

\* request_topup inserts a pending row.
RequestTopup(w, amount) ==
    /\ topups[w].status = "none"
    /\ topups' = [topups EXCEPT ![w] = [status |-> "pending", amount |-> amount]]
    /\ UNCHANGED <<wallet_credit_balance, deductions, refunds>>

\* confirm_topup locks the row, refuses one that is not pending, and credits
\* the reseller in the same transaction.
ConfirmTopup(w) ==
    /\ topups[w].status = "pending"
    /\ topups' = [topups EXCEPT ![w].status = "confirmed"]
    /\ wallet_credit_balance' = wallet_credit_balance + topups[w].amount
    /\ UNCHANGED <<deductions, refunds>>

Next ==
    \/ \E ref \in References, amount \in Amounts :
            DeductCommission(ref, amount) \/ RefundCommission(ref, amount)
    \/ \E w \in Topups :
            \/ \E amount \in TopupAmounts : RequestTopup(w, amount)
            \/ ConfirmTopup(w)

Spec == Init /\ [][Next]_accountVars

-----------------------------------------------------------------------------
(* Commission never takes the account below its negative limit: only the   *)
(* confirmation of a topup with a negative amount, which the code accepts, *)
(* can.  The check and the write are separate statements and only the row  *)
(* lock keeps two orders from both passing the check.                      *)
CreditFloor ==
    \/ wallet_credit_balance >= -CreditLimit
    \/ \E w \in Topups : topups[w].status = "confirmed" /\ topups[w].amount < 0

(* A topup that was credited keeps its row as it is for ever: the admin's  *)
(* button stays in the chat, and a second tap must not credit it again.    *)
CreditedTopupIsFinal ==
    [][\A w \in Topups : topups[w].status = "confirmed" => topups'[w] = topups[w]]_accountVars

(* The books balance: the balance is what was credited by confirmed topups *)
(* and refunds less what was taken by deductions, whatever the order in    *)
(* which the operations ran.                                               *)
RowSum(rows) == SumFunction(rows)

Total(rows) == SumFunction([r \in DOMAIN rows |-> RowSum(rows[r])])

Credited == SumFunction([w \in Topups |->
                IF topups[w].status = "confirmed" THEN topups[w].amount ELSE 0])

BookBalance ==
    wallet_credit_balance = Credited + Total(refunds) - Total(deductions)
=============================================================================
