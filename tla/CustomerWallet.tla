--------------------------- MODULE CustomerWallet ---------------------------
(***************************************************************************)
(* The wallets customers keep with a reseller and what they pay for: the   *)
(* topups a reseller confirms (services/customer_wallet_service.py), the   *)
(* purchase of a package by wallet (create_order_paid_by_wallet of         *)
(* services/order_service.py) and the stock of charge codes                *)
(* (services/charge_service.py), with the handlers that call them.         *)
(*                                                                         *)
(* There is one reseller, and one product whose price is sale_price.       *)
(* Handlers are tasks that move one database call at a time, as in         *)
(* OrderFlow.  A purchase is one transaction of several calls: its writes  *)
(* are applied when it commits, and until then it holds the row locks of   *)
(* its SELECT ... FOR UPDATE, which the steps of others wait for.          *)
(***************************************************************************)
EXTENDS Integers, Sequences, FiniteSets, Functions

CONSTANTS Customers,    \* customers of this reseller
          Topups,       \* ids of the rows of customer_wallet_topups
          Rows,         \* ids of the rows of charge_codes, in order of insertion
          Codes,        \* the codes a reseller may type
          Orders,       \* ids of the rows of orders
          Tasks,        \* the handler tasks that may be alive at a time
          None,         \* no row, no customer, no code
          Opening,      \* a customer's wallet_balance at the start
          TopupAmounts, \* amounts a customer may ask to add
          Prices,       \* prices of the product
          Quantities,   \* how many codes a customer may buy at once
          Percents,     \* commission percentages the admin may set
          CreditLimit,  \* resellers.credit_limit_negative
          TasksFail     \* TRUE: handlers may raise and the process may restart

ASSUME RowsAssumption == Rows \subseteq Nat
ASSUME OpeningAssumption == Opening \in Nat
\* receive_topup_amount refuses an amount that is not positive.
ASSUME TopupAmountsAssumption == TopupAmounts \subseteq Nat \ {0}
\* The reseller's handler accepts any number as a price.
ASSUME PricesAssumption == Prices \subseteq Int
\* handle_charge_quantity_input and purchase_charge_bulk refuse less than one.
ASSUME QuantitiesAssumption == Quantities \subseteq Nat \ {0}
\* Not checked by the code when a reseller is added: the admin is trusted with
\* a percentage and a limit that are not negative.
ASSUME PercentsAssumption == Percents \subseteq Nat
ASSUME CreditLimitAssumption == CreditLimit \in Nat
ASSUME TasksFailAssumption == TasksFail \in BOOLEAN
ASSUME NoneAssumption == None \notin Customers \cup Topups \cup Orders \cup Codes

\* However long the program has run, the tables hold finitely many rows.
ASSUME TablesAssumption == IsFiniteSet(Topups) /\ IsFiniteSet(Orders)

VARIABLES
    \* the commission account of the reseller (module CommissionAccount)
    wallet_credit_balance, deductions,
    \* customers.wallet_balance and the rows of customer_wallet_topups
    wallet_balance, customer_topups,
    \* not in the code: how many times the amount of a topup was added
    credits,
    \* the rows of charge_codes and of orders
    charge_codes, orders,
    \* what the reseller and the admin set
    sale_price, commission_percent,
    \* what the chats hold: the topup a customer is asked a receipt for, and
    \* the topups whose confirm and reject buttons were sent
    uploading_receipt, offered,
    \* the handler tasks
    task

accountVars == <<wallet_credit_balance, deductions>>
topupVars   == <<customer_topups, credits>>
shopVars    == <<charge_codes, orders>>
settingVars == <<sale_price, commission_percent>>
chatVars    == <<uploading_receipt, offered>>
vars == <<accountVars, wallet_balance, topupVars, shopVars, settingVars, chatVars, task>>

\* In hundredths of the currency unit, as in OrderFlow.
Commission(amount, percent) == amount * percent

\* A deduction for a topup has its id as reference; this component never gives
\* commission back and leaves the reseller's own topups alone.
Account == INSTANCE CommissionAccount WITH
               References <- Topups,
               Topups <- {},
               TopupAmounts <- {},
               Amounts <- {Commission(a, p) : a \in TopupAmounts, p \in Percents},
               refunds <- [w \in Topups |-> <<>>],
               topups <- [w \in {} |-> None]

-----------------------------------------------------------------------------
TopupStatus == {"none", "pending", "confirmed", "confirmed_insufficient_credit", "rejected"}
Topup == [status : TopupStatus, customer : Customers \cup {None}, amount : Nat]
NoTopup == [status |-> "none", customer |-> None, amount |-> 0]

\* sold_to_customer_id and sold_order_id are None until the code is sold.  A
\* deleted row is kept here, since its id is never given again.
ChargeCode == [status   : {"none", "available", "sold", "deleted"},
               code     : Codes \cup {None},
               customer : Customers \cup {None},
               order    : Orders \cup {None}]
NoCode == [status |-> "none", code |-> None, customer |-> None, order |-> None]

\* code is delivered_charge_code.
Order == [order_type : {"none", "package", "charge"},
          customer   : Customers \cup {None},
          price      : Int,
          code       : Codes \cup {None}]
NoOrder == [order_type |-> "none", customer |-> None, price |-> 0, code |-> None]

Step == {"idle", "read_percent", "credit", "pay", "lock_wallet", "lock_codes",
         "deliver", "insert_code"}

\* The step a task is at and what its handler holds in local variables.
Task == [at       : Step,
         customer : Customers \cup {None},
         topup    : Topups \cup {None},
         quantity : Nat,
         price    : Int,            \* unit_price
         amount   : Int,            \* total_price, or commission_amount
         rows     : SUBSET Rows,    \* available_rows
         codes    : SUBSET Codes]   \* lines of the message not yet inserted
Idle == [at |-> "idle", customer |-> None, topup |-> None, quantity |-> 0, price |-> 0,
         amount |-> 0, rows |-> {}, codes |-> {}]

Free(t) == task[t].at = "idle"
Start(t, local) == task' = [task EXCEPT ![t] = local]
Finish(t) == task' = [task EXCEPT ![t] = Idle]
OnlyTask == UNCHANGED <<accountVars, wallet_balance, topupVars, shopVars, settingVars, chatVars>>

TypeOK ==
    /\ Account!TypeOK
    /\ wallet_balance \in [Customers -> Int]
    /\ customer_topups \in [Topups -> Topup]
    /\ credits \in [Topups -> Nat]
    /\ charge_codes \in [Rows -> ChargeCode]
    /\ orders \in [Orders -> Order]
    /\ sale_price \in Prices
    /\ commission_percent \in Percents
    /\ uploading_receipt \in [Customers -> Topups \cup {None}]
    /\ offered \subseteq Topups
    /\ task \in [Tasks -> Task]

Init ==
    /\ Account!Init
    /\ wallet_balance = [c \in Customers |-> Opening]
    /\ customer_topups = [w \in Topups |-> NoTopup]
    /\ credits = [w \in Topups |-> 0]
    /\ charge_codes = [r \in Rows |-> NoCode]
    /\ orders = [o \in Orders |-> NoOrder]
    /\ sale_price \in Prices
    /\ commission_percent \in Percents
    /\ uploading_receipt = [c \in Customers |-> None]
    /\ offered = {}
    /\ task = [t \in Tasks |-> Idle]

-----------------------------------------------------------------------------
(* Row locks held between the calls of a purchase.                         *)

LockHolders == {t \in Tasks : task[t].at \in {"lock_codes", "deliver"}}
WalletLocked(c) == \E t \in LockHolders : task[t].customer = c
LockedRows == UNION {task[t].rows : t \in LockHolders}

AvailableRows == {r \in Rows : charge_codes[r].status = "available"}

\* Bounds: a task starts only when the ids left suffice for all that run, so
\* that no handler is stopped half way by the size of the instance.
FreeOrders == {o \in Orders : orders[o].order_type = "none"}
RoomForOrders(n) ==
    SumFunction([t \in Tasks |-> task[t].quantity]) + n <= Cardinality(FreeOrders)

FreeRows == {r \in Rows : charge_codes[r].status = "none"}
RoomForRows(n) ==
    SumFunction([t \in Tasks |-> Cardinality(task[t].codes)]) + n <= Cardinality(FreeRows)

-----------------------------------------------------------------------------
(* Topups (handlers/customer/wallet.py, handlers/reseller/orders.py).      *)

\* receive_topup_amount inserts a pending row and asks for the receipt.  Two
\* amounts sent at once both insert; the dialog keeps the later one.
RequestTopup(w, c, amount) ==
    /\ customer_topups[w].status = "none"
    /\ customer_topups' = [customer_topups EXCEPT
           ![w] = [status |-> "pending", customer |-> c, amount |-> amount]]
    /\ uploading_receipt' = [uploading_receipt EXCEPT ![c] = w]
    /\ UNCHANGED <<accountVars, wallet_balance, credits, shopVars, settingVars, offered, task>>

\* receive_topup_receipt leaves the dialog and then sends the reseller the
\* buttons; when that raises, nothing else ever offers this topup.
ReceiveTopupReceipt(c) ==
    /\ uploading_receipt[c] # None
    /\ uploading_receipt' = [uploading_receipt EXCEPT ![c] = None]
    /\ \/ offered' = offered \cup {uploading_receipt[c]}
       \/ TasksFail /\ UNCHANGED offered
    /\ UNCHANGED <<accountVars, wallet_balance, topupVars, shopVars, settingVars, task>>

\* confirm_topup reads the row, and refuses one that is not pending, before
\* and outside its transaction.
ConfirmTopup(t, w) ==
    /\ Free(t)
    /\ w \in offered
    /\ customer_topups[w].status = "pending"
    /\ Start(t, [Idle EXCEPT !.at = "read_percent", !.topup = w])
    /\ OnlyTask

ReadPercent(t) ==
    /\ task[t].at = "read_percent"
    /\ task' = [task EXCEPT ![t].at = "credit",
           ![t].amount = Commission(customer_topups[task[t].topup].amount, commission_percent)]
    /\ OnlyTask

\* What the transaction of confirm_topup writes besides the account; its first
\* statement waits for a purchase that holds the customer's row.
CreditCustomer(t, status) ==
    LET w == task[t].topup
        c == customer_topups[w].customer
    IN  /\ task[t].at = "credit"
        /\ ~WalletLocked(c)
        /\ wallet_balance' = [wallet_balance EXCEPT ![c] = @ + customer_topups[w].amount]
        /\ credits' = [credits EXCEPT ![w] = @ + 1]
        /\ customer_topups' = [customer_topups EXCEPT ![w].status = status]
        /\ Finish(t)
        /\ UNCHANGED <<shopVars, settingVars, chatVars>>

CreditWallet(t) ==
    /\ CreditCustomer(t, "confirmed")
    /\ Account!DeductCommission(task[t].topup, task[t].amount)

\* Faulty variants: InsufficientCreditError is swallowed; it is raised after the
\* balance was written.
CreditWalletWithoutCredit_Swallowed(t) ==
    /\ CreditCustomer(t, "confirmed")
    /\ Account!InsufficientCredit(task[t].amount)
    /\ UNCHANGED accountVars

CreditWalletWithoutCredit_NotRolledBack(t) ==
    /\ CreditCustomer(t, "confirmed_insufficient_credit")
    /\ Account!InsufficientCredit(task[t].amount)
    /\ wallet_credit_balance' = wallet_credit_balance - task[t].amount
    /\ UNCHANGED deductions

\* InsufficientCreditError: the customer is credited all the same.
CreditWalletWithoutCredit(t) ==
    /\ CreditCustomer(t, "confirmed_insufficient_credit")
    /\ Account!InsufficientCredit(task[t].amount)
    /\ UNCHANGED accountVars

\* reject_topup needs only the button.
RejectTopup(w) ==
    /\ w \in offered
    /\ customer_topups' = [customer_topups EXCEPT ![w].status = "rejected"]
    /\ UNCHANGED <<accountVars, wallet_balance, credits, shopVars, settingVars, chatVars, task>>

-----------------------------------------------------------------------------
(* A package by wallet (create_order_paid_by_wallet).                      *)

\* The balance is compared with the price first without a lock: when it does
\* not suffice the purchase goes on by receipt, in OrderFlow.
StartPackage(t, c) ==
    /\ Free(t)
    /\ wallet_balance[c] >= sale_price
    /\ RoomForOrders(1)
    /\ Start(t, [Idle EXCEPT !.at = "pay", !.customer = c, !.quantity = 1, !.price = sale_price])
    /\ OnlyTask

\* Faulty variant: the order is written with the price of now.
PayPackage_PriceOfNow(t, o) ==
    LET c == task[t].customer
    IN  /\ task[t].at = "pay"
        /\ ~WalletLocked(c)
        /\ wallet_balance[c] >= task[t].price
        /\ o \in FreeOrders
        /\ wallet_balance' = [wallet_balance EXCEPT ![c] = @ - task[t].price]
        /\ orders' = [orders EXCEPT ![o] = [order_type |-> "package", customer |-> c,
                                            price |-> sale_price, code |-> None]]
        /\ Finish(t)
        /\ UNCHANGED <<accountVars, topupVars, charge_codes, settingVars, chatVars>>

\* The transaction: the balance is read again under the row lock.
PayPackage(t, o) ==
    LET c == task[t].customer
    IN  /\ task[t].at = "pay"
        /\ ~WalletLocked(c)
        /\ wallet_balance[c] >= task[t].price
        /\ o \in FreeOrders
        /\ wallet_balance' = [wallet_balance EXCEPT ![c] = @ - task[t].price]
        /\ orders' = [orders EXCEPT ![o] = [order_type |-> "package", customer |-> c,
                                            price |-> task[t].price, code |-> None]]
        /\ Finish(t)
        /\ UNCHANGED <<accountVars, topupVars, charge_codes, settingVars, chatVars>>

\* WalletInsufficientBalanceError under the lock.
RefusePackage(t) ==
    /\ task[t].at = "pay"
    /\ ~WalletLocked(task[t].customer)
    /\ wallet_balance[task[t].customer] < task[t].price
    /\ Finish(t)
    /\ OnlyTask

-----------------------------------------------------------------------------
(* Charge codes by wallet (purchase_charge_bulk).                          *)

\* The price is read before the transaction.  The blacklist is OrderFlow's.
StartPurchase(t, c, n) ==
    /\ Free(t)
    /\ RoomForOrders(n)
    /\ Start(t, [Idle EXCEPT !.at = "lock_wallet", !.customer = c, !.quantity = n,
                             !.price = sale_price, !.amount = n * sale_price])
    /\ OnlyTask

\* Faulty variant: SELECT wallet_balance without FOR UPDATE.
LockWallet_NoLock(t) ==
    /\ task[t].at = "lock_wallet"
    /\ wallet_balance[task[t].customer] >= task[t].amount
    /\ task' = [task EXCEPT ![t].at = "lock_codes"]
    /\ OnlyTask

LockWallet(t) ==
    /\ task[t].at = "lock_wallet"
    /\ ~WalletLocked(task[t].customer)
    /\ wallet_balance[task[t].customer] >= task[t].amount
    /\ task' = [task EXCEPT ![t].at = "lock_codes"]
    /\ OnlyTask

\* ChargeInsufficientBalanceError: the transaction is rolled back.
RefusePurchase(t) ==
    /\ task[t].at = "lock_wallet"
    /\ ~WalletLocked(task[t].customer)
    /\ wallet_balance[task[t].customer] < task[t].amount
    /\ Finish(t)
    /\ OnlyTask

\* The rows that SELECT ... ORDER BY id LIMIT n reads.
FirstAvailable(n) ==
    {r \in AvailableRows : Cardinality({s \in AvailableRows : s < r}) < n}

\* Faulty variant: the rows are read without FOR UPDATE.
LockCodes_NoLock(t) ==
    LET rows == FirstAvailable(task[t].quantity)
    IN  /\ task[t].at = "lock_codes"
        /\ Cardinality(rows) = task[t].quantity
        /\ task' = [task EXCEPT ![t].at = "deliver", ![t].rows = rows]
        /\ OnlyTask

\* The query waits for a row another purchase has locked, and then reads it again.
LockCodes(t) ==
    LET rows == FirstAvailable(task[t].quantity)
    IN  /\ task[t].at = "lock_codes"
        /\ rows \cap LockedRows = {}
        /\ Cardinality(rows) = task[t].quantity
        /\ task' = [task EXCEPT ![t].at = "deliver", ![t].rows = rows]
        /\ OnlyTask

\* Faulty variant: the error is handled inside the transaction, which is left
\* open with its locks.
OutOfStock_LeftOpen(t) ==
    /\ task[t].at = "lock_codes"
    /\ AvailableRows \cap LockedRows = {}
    /\ Cardinality(FirstAvailable(task[t].quantity)) < task[t].quantity
    /\ UNCHANGED vars

\* ChargeOutOfStockError: the transaction is rolled back.
OutOfStock(t) ==
    /\ task[t].at = "lock_codes"
    /\ AvailableRows \cap LockedRows = {}
    /\ Cardinality(FirstAvailable(task[t].quantity)) < task[t].quantity
    /\ Finish(t)
    /\ OnlyTask

DeliveredRow(id, o) == CHOOSE r \in DOMAIN id : id[r] = o

\* An order for each locked code, whose id the row of the code refers to.
SellRows(t, id) ==
    LET c == task[t].customer
    IN  /\ task[t].at = "deliver"
        /\ id \in Injection(task[t].rows, FreeOrders)
        /\ orders' = [o \in Orders |->
               IF \E r \in DOMAIN id : id[r] = o
               THEN [order_type |-> "charge", customer |-> c, price |-> task[t].price,
                     code |-> charge_codes[DeliveredRow(id, o)].code]
               ELSE orders[o]]
        /\ charge_codes' = [r \in Rows |->
               IF r \in task[t].rows
               THEN [charge_codes[r] EXCEPT !.status = "sold", !.customer = c, !.order = id[r]]
               ELSE charge_codes[r]]
        /\ Finish(t)
        /\ UNCHANGED <<accountVars, topupVars, settingVars, chatVars>>

\* The writes of the transaction and its commit.
Deliver(t, id) ==
    /\ SellRows(t, id)
    /\ wallet_balance' = [wallet_balance EXCEPT ![task[t].customer] = @ - task[t].amount]

-----------------------------------------------------------------------------
(* The stock of codes (handlers/reseller/charge_stock.py).                 *)

\* add_charge_codes drops repetitions within the message; it compares its
\* lines with no row of the table.
AddCodes(t, lines) ==
    /\ Free(t)
    /\ RoomForRows(Cardinality(lines))
    /\ Start(t, [Idle EXCEPT !.at = "insert_code", !.codes = lines])
    /\ OnlyTask

\* One execute for each line: those before a failure stay.
InsertCode(t, r, code) ==
    /\ task[t].at = "insert_code"
    /\ code \in task[t].codes
    /\ r \in FreeRows /\ \A s \in FreeRows : r <= s
    /\ charge_codes' = [charge_codes EXCEPT ![r] = [NoCode EXCEPT !.status = "available", !.code = code]]
    /\ IF task[t].codes = {code}
       THEN Finish(t)
       ELSE task' = [task EXCEPT ![t].codes = @ \ {code}]
    /\ UNCHANGED <<accountVars, wallet_balance, topupVars, orders, settingVars, chatVars>>

\* Faulty variants: the row is marked with a status the column does not have;
\* DELETE without the condition on the status.
DeleteAvailableCode_BadStatus(r) ==
    /\ charge_codes[r].status = "available"
    /\ r \notin LockedRows
    /\ charge_codes' = [charge_codes EXCEPT ![r].status = "removed"]
    /\ UNCHANGED <<accountVars, wallet_balance, topupVars, orders, settingVars, chatVars, task>>

DeleteAvailableCode_AnyStatus(r) ==
    /\ charge_codes[r].status # "none"
    /\ r \notin LockedRows
    /\ charge_codes' = [charge_codes EXCEPT ![r].status = "deleted"]
    /\ UNCHANGED <<accountVars, wallet_balance, topupVars, orders, settingVars, chatVars, task>>

\* A tap in a list of codes, which may be old: a code sold since stays.
DeleteAvailableCode(r) ==
    /\ charge_codes[r].status = "available"
    /\ r \notin LockedRows
    /\ charge_codes' = [charge_codes EXCEPT ![r].status = "deleted"]
    /\ UNCHANGED <<accountVars, wallet_balance, topupVars, orders, settingVars, chatVars, task>>

\* clear_available_codes.  The count it takes before, in a transaction of its
\* own, is for the message only.
ClearCodes ==
    /\ AvailableRows \cap LockedRows = {}
    /\ charge_codes' = [r \in Rows |-> IF r \in AvailableRows
                                       THEN [charge_codes[r] EXCEPT !.status = "deleted"]
                                       ELSE charge_codes[r]]
    /\ UNCHANGED <<accountVars, wallet_balance, topupVars, orders, settingVars, chatVars, task>>

-----------------------------------------------------------------------------
(* Settings, failures.                                                     *)

SetPrice(p) ==
    /\ sale_price' = p
    /\ UNCHANGED <<accountVars, wallet_balance, topupVars, shopVars, commission_percent, chatVars, task>>

SetCommissionPercent(p) ==
    /\ commission_percent' = p
    /\ UNCHANGED <<accountVars, wallet_balance, topupVars, shopVars, sale_price, chatVars, task>>

\* A handler raises, or its database call does (a lock wait that times out, a
\* deadlock): its transaction, if it has one, is rolled back.
Fail(t) ==
    /\ TasksFail
    /\ ~Free(t)
    /\ Finish(t)
    /\ OnlyTask

\* The process stops and starts again: dialogs are in memory, buttons in chats.
Restart ==
    /\ TasksFail
    /\ task' = [t \in Tasks |-> Idle]
    /\ uploading_receipt' = [c \in Customers |-> None]
    /\ UNCHANGED <<accountVars, wallet_balance, topupVars, shopVars, settingVars, offered>>

-----------------------------------------------------------------------------
\* A handler's first database call.
Begin(t) ==
    \/ \E w \in Topups : ConfirmTopup(t, w)
    \/ \E c \in Customers :
            \/ StartPackage(t, c)
            \/ \E n \in Quantities : StartPurchase(t, c, n)
    \/ \E lines \in SUBSET Codes \ {{}} : AddCodes(t, lines)

\* Its later calls.
Continue(t) ==
    \/ ReadPercent(t)
    \/ CreditWallet(t)
    \/ CreditWalletWithoutCredit(t)
    \/ \E o \in Orders : PayPackage(t, o)
    \/ RefusePackage(t)
    \/ LockWallet(t)
    \/ RefusePurchase(t)
    \/ LockCodes(t)
    \/ OutOfStock(t)
    \/ \E id \in Injection(task[t].rows, FreeOrders) : Deliver(t, id)
    \/ \E r \in Rows, code \in task[t].codes : InsertCode(t, r, code)

\* Handlers with one database call that changes anything.
ShortStep ==
    \/ \E w \in Topups :
            \/ \E c \in Customers, amount \in TopupAmounts : RequestTopup(w, c, amount)
            \/ RejectTopup(w)
    \/ \E c \in Customers : ReceiveTopupReceipt(c)
    \/ \E r \in Rows : DeleteAvailableCode(r)
    \/ ClearCodes
    \/ \E p \in Prices : SetPrice(p)
    \/ \E p \in Percents : SetCommissionPercent(p)

Next ==
    \/ \E t \in Tasks : Begin(t) \/ Continue(t) \/ Fail(t)
    \/ ShortStep
    \/ Restart

Spec == Init /\ [][Next]_vars

\* The event loop runs every handler whose database call has returned.  InnoDB
\* grants a lock to those who wait for it in the order they came, so a handler
\* does not wait while others take the lock again and again.
FairSpec == Spec /\ \A t \in Tasks : SF_vars(Continue(t))

-----------------------------------------------------------------------------
(* Properties.                                                             *)

\* No purchase takes more than the wallet holds, whatever runs beside it: the
\* balance is checked under the row lock that is kept until the money is taken.
NeverOverdrawn == \A c \in Customers : wallet_balance[c] >= 0

\* The wallet's books: what a customer has is what topups added less the
\* prices of the customer's orders, whichever price was read when.
Added(c) == SumFunction([w \in Topups |->
    IF customer_topups[w].customer = c THEN credits[w] * customer_topups[w].amount ELSE 0])
Spent(c) == SumFunction([o \in Orders |-> IF orders[o].customer = c THEN orders[o].price ELSE 0])

WalletBooks == \A c \in Customers : wallet_balance[c] = Opening + Added(c) - Spent(c)

\* Codes and orders match one to one: a sold code has an order of its own, with
\* that code, by the customer it was sold to, and every order for a charge has
\* such a code.  Two purchases never get the same row.
Sold(r) == charge_codes[r].status = "sold"

DeliveredOnce ==
    /\ \A r \in Rows : Sold(r) =>
        LET o == charge_codes[r].order
        IN  /\ o \in Orders
            /\ orders[o].order_type = "charge"
            /\ orders[o].customer = charge_codes[r].customer
            /\ orders[o].code = charge_codes[r].code
    /\ \A r, s \in Rows : Sold(r) /\ Sold(s) /\ r # s =>
        charge_codes[r].order # charge_codes[s].order
    /\ \A o \in Orders : orders[o].order_type = "charge" =>
        \E r \in Rows : Sold(r) /\ charge_codes[r].order = o

\* Commission is taken only with a credit to the customer, at most once for
\* each; a topup whose status says confirmed had both, one that is pending
\* neither.
ConfirmedIsCharged ==
    \A w \in Topups :
        /\ Len(deductions[w]) <= credits[w]
        /\ customer_topups[w].status = "pending" => credits[w] = 0
        /\ customer_topups[w].status = "confirmed" => deductions[w] # <<>>
        /\ customer_topups[w].status = "confirmed_insufficient_credit" => credits[w] > 0

\* All that this component does to the reseller's account are the account's
\* own operations.
ImplementsAccount == Account!Spec

\* The amounts that are credited or paid: a topup, a package, some codes.
Totals == {n * p : n \in Quantities, p \in Prices}
ShopAmounts == TopupAmounts \cup Prices \cup Totals

\* It implements the shop: money and codes change hands as PrepaidShop says.
Shop == INSTANCE PrepaidShop WITH
            Items <- Rows,
            Nobody <- None,
            Amounts <- ShopAmounts,
            balance <- wallet_balance,
            stock <- AvailableRows,
            owner <- [r \in Rows |-> IF Sold(r) THEN charge_codes[r].customer ELSE None]

ImplementsShop == Shop!Spec

\* Every handler ends, also when none ever fails: no lock is kept for ever and no
\* two purchases wait for each other.
EveryHandlerEnds == \A t \in Tasks : ~Free(t) ~> Free(t)

-----------------------------------------------------------------------------
(* What a comment says and the code does not keep.                         *)

\* customer_wallet_service.py:75: a request that was processed is refused.
CreditedOnce == \A w \in Topups : credits[w] <= 1
=============================================================================
