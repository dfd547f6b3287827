------------------------------ MODULE Discounts ------------------------------
(***************************************************************************)
(* Discount codes (services/discount_service.py) on orders that wait for   *)
(* their receipt (handlers/customer/orders.py), until submit_receipt takes *)
(* the commission on their price from the reseller's account.              *)
(*                                                                         *)
(* Every message is handled by a task of its own, and each of its database *)
(* calls is a transaction.  The cap on pending orders, test mode and the   *)
(* review are in OrderFlow; here a receipt always charges.                 *)
(***************************************************************************)
EXTENDS CommissionAccount, FiniteSets

CONSTANTS Codes,       \* discount_codes of the reseller
          percent,     \* of a code
          usage_limit, \* of a code, 0: none
          Price,       \* package_price of an order when it is made
          commission_percent,
          Tasks,       \* handlers alive at a time
          MaxCharges,  \* bound: receipts that were charged for an order
          MaxUsage,    \* bound: uses of a code
          None

\* The reseller's dialog checks neither: a percentage over 100 would make the
\* price negative.
ASSUME PercentAssumption == percent \in [Codes -> 0 .. 100]
ASSUME LimitAssumption == usage_limit \in [Codes -> Nat]
ASSUME PriceAssumption == Price \in Nat /\ commission_percent \in Nat
ASSUME ChargesAssumption == MaxCharges \in Nat /\ MaxUsage \in Nat
ASSUME NoneAssumption == None \notin Codes \cup References
\* The handlers alive at a time are held in the memory of one process.
ASSUME TasksAssumption == IsFiniteSet(Tasks)
\* The account is asked for the commission on some price of an order.
ASSUME PricesAssumption == \A price \in 0 .. Price : price * commission_percent \in Amounts

VARIABLES
    package_price,   \* of the orders
    usage_count,     \* of the codes
    waiting_receipt, \* orders whose customer's dialog still asks for the receipt
    task,            \* the handlers
    overlapped       \* history: orders for which two discounts were handled at once

orderVars == <<package_price, usage_count, waiting_receipt, overlapped>>
discountVars == <<accountVars, orderVars, task>>

\* What a handler does next, and what it holds: the order as it read it.
Task == [at : {"idle", "validate", "write_price", "count", "submit", "clear"},
         order : References \cup {None}, price : Nat, code : Codes \cup {None}]
Idle == [at |-> "idle", order |-> None, price |-> 0, code |-> None]

Goto(t, step) == task' = [task EXCEPT ![t].at = step]
Finish(t) == task' = [task EXCEPT ![t] = Idle]

DiscountTypeOK ==
    /\ TypeOK
    /\ package_price \in [References -> Nat]
    /\ usage_count \in [Codes -> Nat]
    /\ waiting_receipt \subseteq References /\ overlapped \subseteq References
    /\ task \in [Tasks -> Task]

DiscountInit ==
    /\ Init
    /\ package_price = [o \in References |-> Price]
    /\ usage_count = [d \in Codes |-> 0]
    /\ waiting_receipt = References /\ overlapped = {}
    /\ task = [t \in Tasks |-> Idle]

-----------------------------------------------------------------------------
(* apply_discount_code.                                                    *)

\* The order is read.
StartDiscount(t, o, d) ==
    /\ task[t].at = "idle" /\ o \in waiting_receipt
    /\ task' = [task EXCEPT ![t] =
                    [at |-> "validate", order |-> o, price |-> package_price[o], code |-> d]]
    /\ overlapped' = IF \E u \in Tasks : task[u].order = o /\ task[u].code # None
                     THEN overlapped \cup {o} ELSE overlapped
    /\ UNCHANGED <<accountVars, package_price, usage_count, waiting_receipt>>

UsedUp(d) == usage_limit[d] > 0 /\ usage_count[d] >= usage_limit[d]

\* Faulty variant: the limit may be passed by one.
Validate_OffByOne(t) ==
    /\ task[t].at = "validate"
    /\ IF usage_limit[task[t].code] > 0 /\ usage_count[task[t].code] > usage_limit[task[t].code]
       THEN Finish(t) ELSE Goto(t, "write_price")
    /\ UNCHANGED <<accountVars, orderVars>>

\* validate_discount_code.
Validate(t) ==
    /\ task[t].at = "validate"
    /\ IF UsedUp(task[t].code) THEN Finish(t) ELSE Goto(t, "write_price")
    /\ UNCHANGED <<accountVars, orderVars>>

\* Faulty variants: the percentage is taken as an amount; it is added.
Discounted_Amount(price, d) == price - percent[d]

Discounted_Added(price, d) == (price * (100 + percent[d])) \div 100

\* apply_discount: whole units, a half goes to the even one.
Discounted(price, d) ==
    LET hundredths == price * (100 - percent[d])
        units == hundredths \div 100
        rest == hundredths % 100
    IN  IF rest > 50 \/ (rest = 50 /\ units % 2 = 1) THEN units + 1 ELSE units

\* The price that was read before is replaced by its discount, whatever the
\* order's price and status are by now.
WritePrice(t) ==
    /\ task[t].at = "write_price"
    /\ package_price' = [package_price EXCEPT ![task[t].order] =
                             Discounted(task[t].price, task[t].code)]
    /\ Goto(t, "count")
    /\ UNCHANGED <<accountVars, usage_count, waiting_receipt, overlapped>>

\* increment_usage.
CountUsage(t) ==
    /\ task[t].at = "count" /\ usage_count[task[t].code] < MaxUsage
    /\ usage_count' = [usage_count EXCEPT ![task[t].code] = @ + 1]
    /\ Finish(t)
    /\ UNCHANGED <<accountVars, package_price, waiting_receipt, overlapped>>

-----------------------------------------------------------------------------
(* receive_receipt and submit_receipt.                                     *)

StartReceipt(t, o) ==
    /\ task[t].at = "idle" /\ o \in waiting_receipt
    /\ task' = [task EXCEPT ![t] =
                    [at |-> "submit", order |-> o, price |-> package_price[o], code |-> None]]
    /\ UNCHANGED <<accountVars, orderVars>>

\* Faulty variant: the commission is taken without a look at the credit.
Submit_OnCredit(t) ==
    /\ task[t].at = "submit" /\ Len(deductions[task[t].order]) < MaxCharges
    /\ wallet_credit_balance' = wallet_credit_balance - task[t].price * commission_percent
    /\ UNCHANGED <<deductions, refunds, topups>>
    /\ Goto(t, "clear")
    /\ UNCHANGED orderVars

\* The commission, in hundredths of a unit, is taken in the transaction that
\* changes the order, or the order fails.
Submit(t) ==
    /\ task[t].at = "submit" /\ Len(deductions[task[t].order]) < MaxCharges
    /\ LET amount == task[t].price * commission_percent IN
           \/ DeductCommission(task[t].order, amount)
           \/ InsufficientCredit(amount) /\ UNCHANGED accountVars
    /\ Goto(t, "clear")
    /\ UNCHANGED orderVars

\* Either way the dialog ends.
ClearState(t) ==
    /\ task[t].at = "clear"
    /\ waiting_receipt' = waiting_receipt \ {task[t].order}
    /\ Finish(t)
    /\ UNCHANGED <<accountVars, package_price, usage_count, overlapped>>

\* A handler raises between two calls; its customer may go on.
Fail(t) ==
    /\ task[t].at # "idle"
    /\ Finish(t)
    /\ UNCHANGED <<accountVars, orderVars>>

AccountOperation ==
    /\ \E w \in Topups : ConfirmTopup(w) \/ \E amount \in TopupAmounts : RequestTopup(w, amount)
    /\ UNCHANGED <<orderVars, task>>

DiscountNext ==
    \/ AccountOperation
    \/ \E t \in Tasks :
          \/ \E o \in References : StartReceipt(t, o) \/ \E d \in Codes : StartDiscount(t, o, d)
          \/ Validate(t) \/ WritePrice(t) \/ CountUsage(t) \/ Submit(t) \/ ClearState(t) \/ Fail(t)

DiscountSpec == DiscountInit /\ [][DiscountNext]_discountVars

-----------------------------------------------------------------------------
(* All that discounted orders do to the account are its own operations:    *)
(* no discount, however often it is applied, makes submit_receipt take an  *)
(* amount that is no commission on a price from 0 to the full one.         *)
ImplementsAccount == Spec

(* The limit of a code is read and counted in separate calls: handlers     *)
(* that read it at once pass it, by one less than there are of them.       *)
UsageWithinLimit ==
    \A d \in Codes :
        usage_limit[d] > 0 => usage_count[d] < usage_limit[d] + Cardinality(Tasks)

(* The commission that was taken for an order is at least that on the      *)
(* price which the order has in the end: a discount that is handled beside *)
(* the receipt can only make the price lower.  Two discounts handled at    *)
(* once may make it higher again, since each starts from what it read.     *)
CommissionCoversPrice ==
    \A o \in References \ overlapped :
        \A i \in DOMAIN deductions[o] :
            deductions[o][i] >= package_price[o] * commission_percent
=============================================================================
