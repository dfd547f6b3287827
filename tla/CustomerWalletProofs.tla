------------------------ MODULE CustomerWalletProofs ------------------------
(* Theorems about CustomerWallet, for any number of customers, topups,     *)
(* codes, orders and concurrent handlers, with or without failures.        *)
EXTENDS CustomerWallet, SumTheorems

-----------------------------------------------------------------------------
(* The invariant, one predicate per group of variables.                    *)

CommissionAmounts == {Commission(a, p) : a \in TopupAmounts, p \in Percents}

\* The topup was requested.
Known(w) == w \in Topups /\ customer_topups[w].status # "none"

\* A topup that was requested has a customer, and dialogs and buttons belong to
\* such topups: without it a row credited might have no customer.
TopupsOK ==
    /\ customer_topups \in [Topups -> Topup]
    /\ credits \in [Topups -> Nat]
    /\ uploading_receipt \in [Customers -> Topups \cup {None}]
    /\ \A w \in Topups : Known(w) =>
           /\ customer_topups[w].customer \in Customers
           /\ customer_topups[w].amount \in TopupAmounts
    /\ \A c \in Customers : uploading_receipt[c] # None => Known(uploading_receipt[c])
    /\ \A w \in offered : Known(w)

SettingsOK == sale_price \in Prices /\ commission_percent \in Percents

StockOK ==
    /\ charge_codes \in [Rows -> ChargeCode]
    /\ orders \in [Orders -> Order]
    /\ \A r \in Rows : Sold(r) => charge_codes[r].customer \in Customers
    /\ DeliveredOnce

WalletsOK ==
    /\ wallet_balance \in [Customers -> Int]
    /\ NeverOverdrawn

\* What a task holds: a topup to credit, a customer who pays a price that the
\* product has had, and, once the locks are taken, enough money and free rows.
TaskOK(t) ==
    /\ task[t] \in Task
    /\ task[t].at \in {"read_percent", "credit"} => Known(task[t].topup)
    /\ task[t].at = "credit" => task[t].amount \in CommissionAmounts
    /\ task[t].at \in {"pay", "lock_wallet", "lock_codes", "deliver"} =>
           task[t].customer \in Customers
    /\ task[t].at = "pay" => task[t].price \in Prices
    /\ task[t].at \in {"lock_wallet", "lock_codes", "deliver"} => task[t].amount \in Totals
    /\ task[t].at \in {"lock_codes", "deliver"} =>
           task[t].amount <= wallet_balance[task[t].customer]
    /\ task[t].rows \subseteq AvailableRows
    /\ task[t].at # "deliver" => task[t].rows = {}

\* No two transactions hold the same wallet or the same row of charge_codes.
Exclusive ==
    \A t, u \in Tasks : t # u =>
        /\ t \in LockHolders /\ u \in LockHolders => task[t].customer # task[u].customer
        /\ task[t].rows \cap task[u].rows = {}

TasksOK ==
    /\ task = [t \in Tasks |-> task[t]]
    /\ \A t \in Tasks : TaskOK(t)
    /\ Exclusive

Inv ==
    /\ Account!TypeOK
    /\ TopupsOK
    /\ SettingsOK
    /\ StockOK
    /\ WalletsOK
    /\ TasksOK

LEMMA AmountsAreNumbers ==
    CommissionAmounts \subseteq Nat /\ Totals \subseteq Int /\ Prices \subseteq Int
<1>1. ASSUME NEW a \in Nat, NEW b \in Nat PROVE a * b \in Nat
  OBVIOUS
<1>2. ASSUME NEW a \in Nat, NEW b \in Int PROVE a * b \in Int
  OBVIOUS
<1>3. QED
  BY <1>1, <1>2, TopupAmountsAssumption, PercentsAssumption, QuantitiesAssumption, PricesAssumption
     DEF CommissionAmounts, Totals, Commission

LEMMA IdleIsTask == Idle \in Task /\ Idle.at = "idle" /\ Idle.rows = {}
BY DEF Idle, Task, Step

LEMMA InvInit == Init => Inv
<1> SUFFICES ASSUME Init PROVE Inv
  OBVIOUS
<1> USE DEF Init
<1>1. Account!TypeOK
  BY DEF Account!Init, Account!TypeOK
<1>2. TopupsOK
  BY NoneAssumption DEF TopupsOK, Topup, NoTopup, TopupStatus, Known
<1>3. SettingsOK
  BY DEF SettingsOK
<1>4. StockOK
  BY DEF StockOK, DeliveredOnce, Sold, ChargeCode, NoCode, Order, NoOrder
<1>5. WalletsOK
  BY OpeningAssumption DEF WalletsOK, NeverOverdrawn
<1>6. TasksOK
  BY IdleIsTask DEF TasksOK, TaskOK, Exclusive, LockHolders
<1>7. QED
  BY <1>1, <1>2, <1>3, <1>4, <1>5, <1>6 DEF Inv

LEMMA InvTypeOK == Inv => TypeOK
<1> SUFFICES ASSUME Inv PROVE TypeOK
  OBVIOUS
<1>1. task \in [Tasks -> Task]
  BY DEF Inv, TasksOK, TaskOK
<1>2. offered \subseteq Topups
  BY DEF Inv, TopupsOK, Known
<1>3. QED
  BY <1>1, <1>2 DEF Inv, TypeOK, TopupsOK, SettingsOK, StockOK, WalletsOK

-----------------------------------------------------------------------------
(* What a step of one task may do to what the others hold.                 *)

\* No requested topup vanishes, no wallet that is locked by another task loses
\* money and no row that is locked by another task leaves the stock.
Harmless(others) ==
    /\ \A w \in Topups : Known(w) => customer_topups'[w].status # "none"
    /\ \A u \in others \cap LockHolders :
           wallet_balance'[task[u].customer] >= wallet_balance[task[u].customer]
    /\ \A u \in others : task[u].rows \subseteq AvailableRows'

LEMMA OtherTasks ==
    ASSUME Inv, WalletsOK', NEW others \in SUBSET Tasks, Harmless(others),
           \A u \in others : task'[u] = task[u]
    PROVE  \A u \in others : TaskOK(u)'
<1> SUFFICES ASSUME NEW u \in others PROVE TaskOK(u)'
  OBVIOUS
<1>1. TaskOK(u) /\ u \in Tasks /\ task'[u] = task[u]
  BY DEF Inv, TasksOK
<1>2. task[u].at \in {"read_percent", "credit"} => Known(task[u].topup)'
  BY <1>1 DEF TaskOK, Known, Harmless
<1>3. ASSUME task[u].at \in {"lock_codes", "deliver"}
      PROVE  task[u].amount <= wallet_balance'[task[u].customer]
  <2>1. u \in LockHolders
    BY <1>1, <1>3 DEF LockHolders
  <2>2. wallet_balance'[task[u].customer] >= wallet_balance[task[u].customer]
    BY <2>1 DEF Harmless
  <2>3. task[u].customer \in Customers /\ task[u].amount \in Int
    BY <1>1, <1>3, AmountsAreNumbers DEF TaskOK
  <2>4. QED
    BY <1>1, <1>3, <2>2, <2>3 DEF TaskOK, Inv, WalletsOK
<1>4. task[u].rows \subseteq AvailableRows'
  BY DEF Harmless
<1>5. QED
  BY <1>1, <1>2, <1>3, <1>4 DEF TaskOK

\* A task goes on with another record: it must be fit for the step it is at and
\* lock nothing that is locked.
LEMMA TaskGoesOn ==
    ASSUME Inv, WalletsOK', NEW t \in Tasks, NEW local, Start(t, local),
           Harmless(Tasks \ {t}), TaskOK(t)',
           \A u \in Tasks \ {t} :
               /\ u \in LockHolders /\ local.at \in {"lock_codes", "deliver"} =>
                      task[u].customer # local.customer
               /\ task[u].rows \cap local.rows = {}
    PROVE  TasksOK'
<1>1. task' = [task EXCEPT ![t] = local] /\ task = [u \in Tasks |-> task[u]]
  BY DEF Start, Inv, TasksOK
<1>2. task'[t] = local /\ (\A u \in Tasks \ {t} : task'[u] = task[u])
      /\ task' = [u \in Tasks |-> task'[u]]
  BY <1>1
<1>3. \A u \in Tasks \ {t} : TaskOK(u)'
  BY <1>2, OtherTasks
<1>4. Exclusive'
  BY <1>2 DEF Exclusive, Inv, TasksOK, LockHolders
<1>5. QED
  BY <1>2, <1>3, <1>4 DEF TasksOK

LEMMA TaskFinishes ==
    ASSUME Inv, WalletsOK', NEW t \in Tasks, Finish(t), Harmless(Tasks \ {t})
    PROVE  TasksOK'
<1>1. task'[t] = Idle
  BY DEF Finish, Inv, TasksOK
<1>2. TaskOK(t)'
  BY <1>1, IdleIsTask DEF TaskOK
<1>3. Start(t, Idle)
  BY DEF Start, Finish
<1>4. QED
  BY <1>2, <1>3, TaskGoesOn, IdleIsTask

LEMMA TasksStay ==
    ASSUME Inv, WalletsOK', UNCHANGED task, Harmless(Tasks)
    PROVE  TasksOK'
<1>1. \A u \in Tasks : TaskOK(u)'
  BY OtherTasks
<1>2. Exclusive'
  BY DEF Inv, TasksOK, Exclusive, LockHolders
<1>3. QED
  BY <1>1, <1>2 DEF TasksOK, Inv

Data == Account!TypeOK /\ TopupsOK /\ SettingsOK /\ StockOK /\ WalletsOK

\* Steps that write no table.
LEMMA OnlyTaskKeeps ==
    ASSUME Inv, OnlyTask
    PROVE  Data' /\ Harmless(Tasks)
<1> USE DEF Inv, OnlyTask, accountVars, topupVars, shopVars, settingVars, chatVars
<1>1. Account!TypeOK' /\ SettingsOK'
  BY DEF Account!TypeOK, SettingsOK
<1>2. TopupsOK'
  BY DEF TopupsOK, Known
<1>3. StockOK'
  BY DEF StockOK, DeliveredOnce, Sold
<1>4. WalletsOK'
  BY DEF WalletsOK, NeverOverdrawn
<1>5. AvailableRows' = AvailableRows
  BY DEF AvailableRows
<1>6. Harmless(Tasks)
  BY <1>5 DEF Harmless, Known, TasksOK, TaskOK, LockHolders, WalletsOK
<1>7. QED
  BY <1>1, <1>2, <1>3, <1>4, <1>6 DEF Data

LEMMA HarmlessToOthers ==
    ASSUME Harmless(Tasks), NEW t PROVE Harmless(Tasks \ {t})
BY DEF Harmless

-----------------------------------------------------------------------------
(* Steps that only move a task.                                            *)

\* A handler begins: it holds no lock yet.
LEMMA TaskBegins ==
    ASSUME Inv, OnlyTask, NEW t \in Tasks, NEW local, Start(t, local),
           local.at \notin {"lock_codes", "deliver"}, local.rows = {}, TaskOK(t)'
    PROVE  Inv'
<1>1. Data' /\ Harmless(Tasks \ {t})
  BY OnlyTaskKeeps, HarmlessToOthers
<1>2. TasksOK'
  BY <1>1, TaskGoesOn DEF Data
<1>3. QED
  BY <1>1, <1>2 DEF Data, Inv

LEMMA TaskEnds ==
    ASSUME Inv, OnlyTask, NEW t \in Tasks, Finish(t)
    PROVE  Inv'
<1>1. Data' /\ Harmless(Tasks \ {t})
  BY OnlyTaskKeeps, HarmlessToOthers
<1>2. QED
  BY <1>1, TaskFinishes DEF Data, Inv

LEMMA BeginInv ==
    ASSUME Inv, NEW t \in Tasks, Begin(t)
    PROVE  Inv'
<1> USE AmountsAreNumbers DEF Start
<1>0. task = [u \in Tasks |-> task[u]]
  BY DEF Inv, TasksOK
<1>1. ASSUME NEW w \in Topups, ConfirmTopup(t, w) PROVE Inv'
  <2> DEFINE l == [Idle EXCEPT !.at = "read_percent", !.topup = w]
  <2>1. Start(t, l) /\ OnlyTask /\ customer_topups[w].status = "pending" /\ task'[t] = l
    BY <1>0, <1>1 DEF ConfirmTopup
  <2>2. l \in Task /\ l.at = "read_percent" /\ l.topup = w /\ l.rows = {}
    BY IdleIsTask DEF Task, Step
  <2>3. Known(w)'
    BY <2>1 DEF OnlyTask, topupVars, Known
  <2>4. TaskOK(t)'
    BY <2>1, <2>2, <2>3 DEF TaskOK
  <2>5. QED
    BY <2>1, <2>2, <2>4, TaskBegins
<1>2. ASSUME NEW c \in Customers, StartPackage(t, c) PROVE Inv'
  <2> DEFINE l == [Idle EXCEPT !.at = "pay", !.customer = c, !.quantity = 1, !.price = sale_price]
  <2>1. Start(t, l) /\ OnlyTask /\ task'[t] = l
    BY <1>0, <1>2 DEF StartPackage
  <2>2. sale_price \in Prices /\ sale_price \in Int
    BY DEF Inv, SettingsOK
  <2>3. /\ l \in Task /\ l.at = "pay" /\ l.customer = c /\ l.price = sale_price /\ l.rows = {}
    BY <2>2, IdleIsTask DEF Task, Step
  <2>4. TaskOK(t)'
    BY <2>1, <2>2, <2>3 DEF TaskOK
  <2>5. QED
    BY <2>1, <2>3, <2>4, TaskBegins
<1>3. ASSUME NEW c \in Customers, NEW n \in Quantities, StartPurchase(t, c, n) PROVE Inv'
  <2> DEFINE l == [Idle EXCEPT !.at = "lock_wallet", !.customer = c, !.quantity = n,
                               !.price = sale_price, !.amount = n * sale_price]
  <2>1. Start(t, l) /\ OnlyTask /\ task'[t] = l
    BY <1>0, <1>3 DEF StartPurchase
  <2>2. sale_price \in Prices /\ n * sale_price \in Totals /\ n \in Nat
    BY QuantitiesAssumption DEF Inv, SettingsOK, Totals
  <2>3. /\ l \in Task /\ l.at = "lock_wallet" /\ l.customer = c
        /\ l.amount = n * sale_price /\ l.rows = {}
    BY <2>2, IdleIsTask DEF Task, Step
  <2>4. TaskOK(t)'
    BY <2>1, <2>2, <2>3 DEF TaskOK
  <2>5. QED
    BY <2>1, <2>3, <2>4, TaskBegins
<1>4. ASSUME NEW lines \in SUBSET Codes \ {{}}, AddCodes(t, lines) PROVE Inv'
  <2> DEFINE l == [Idle EXCEPT !.at = "insert_code", !.codes = lines]
  <2>1. Start(t, l) /\ OnlyTask /\ task'[t] = l
    BY <1>0, <1>4 DEF AddCodes
  <2>2. l \in Task /\ l.at = "insert_code" /\ l.rows = {}
    BY IdleIsTask DEF Task, Step
  <2>3. TaskOK(t)'
    BY <2>1, <2>2 DEF TaskOK
  <2>4. QED
    BY <2>1, <2>2, <2>3, TaskBegins
<1>5. QED
  BY <1>1, <1>2, <1>3, <1>4 DEF Begin

-----------------------------------------------------------------------------
(* The later steps of a handler.                                           *)

LEMMA ReadPercentInv ==
    ASSUME Inv, NEW t \in Tasks, ReadPercent(t)
    PROVE  Inv'
<1> DEFINE w == task[t].topup
           commission == Commission(customer_topups[w].amount, commission_percent)
           l == [task[t] EXCEPT !.at = "credit", !.amount = commission]
<1>1. TaskOK(t) /\ task = [u \in Tasks |-> task[u]] /\ task[t].at = "read_percent"
  BY DEF Inv, TasksOK, ReadPercent
<1>2. Known(w) /\ task[t].rows = {} /\ task[t] \in Task
  BY <1>1 DEF TaskOK
<1>3. commission \in CommissionAmounts /\ commission \in Int
  BY <1>2, AmountsAreNumbers DEF Inv, TopupsOK, SettingsOK, CommissionAmounts, Known
<1>4. l \in Task /\ l.at = "credit" /\ l.topup = w /\ l.rows = {} /\ l.amount \in CommissionAmounts
  <2> HIDE DEF commission
  <2>1. QED
    BY <1>2, <1>3 DEF Task, Step
<1>5. Start(t, l) /\ OnlyTask /\ task'[t] = l
  BY <1>1 DEF ReadPercent, Start
<1>6. Known(w)'
  BY <1>2, <1>5 DEF OnlyTask, topupVars, Known
<1>7. TaskOK(t)'
  BY <1>4, <1>5, <1>6 DEF TaskOK
<1>8. QED
  BY <1>4, <1>5, <1>7, TaskBegins

\* The writes of confirm_topup besides the account.
LEMMA CreditCustomerInv ==
    ASSUME Inv, NEW t \in Tasks, NEW st \in TopupStatus \ {"none"},
           CreditCustomer(t, st), Account!TypeOK'
    PROVE  Inv'
<1> DEFINE w == task[t].topup
           c == customer_topups[w].customer
           amount == customer_topups[w].amount
<1>1. /\ task[t].at = "credit"
      /\ wallet_balance' = [wallet_balance EXCEPT ![c] = @ + amount]
      /\ credits' = [credits EXCEPT ![w] = @ + 1]
      /\ customer_topups' = [customer_topups EXCEPT ![w].status = st]
      /\ Finish(t)
      /\ UNCHANGED <<charge_codes, orders, sale_price, commission_percent,
                     uploading_receipt, offered>>
  BY DEF CreditCustomer, shopVars, settingVars, chatVars
<1>2. Known(w) /\ w \in Topups /\ c \in Customers /\ amount \in TopupAmounts /\ amount \in Nat
  BY <1>1, TopupAmountsAssumption DEF Inv, TasksOK, TaskOK, TopupsOK, Known
<1>3. \A v \in Topups : /\ customer_topups'[v].customer = customer_topups[v].customer
                        /\ customer_topups'[v].amount = customer_topups[v].amount
                        /\ Known(v) => customer_topups'[v].status # "none"
                        /\ v # w => customer_topups'[v] = customer_topups[v]
  BY <1>1, <1>2 DEF Inv, TopupsOK, Topup, Known
<1>4. TopupsOK'
  <2>1. customer_topups' \in [Topups -> Topup] /\ credits' \in [Topups -> Nat]
    BY <1>1, <1>2 DEF Inv, TopupsOK, Topup
  <2>2. \A v \in Topups : Known(v)' <=> Known(v)
    BY <1>2, <1>3 DEF Known
  <2>3. QED
    BY <1>1, <1>3, <2>1, <2>2 DEF Inv, TopupsOK, Known
<1>5. SettingsOK' /\ StockOK' /\ AvailableRows' = AvailableRows
  BY <1>1 DEF Inv, SettingsOK, StockOK, DeliveredOnce, Sold, AvailableRows
<1>6. WalletsOK' /\ \A d \in Customers : wallet_balance'[d] >= wallet_balance[d]
  BY <1>1, <1>2 DEF Inv, WalletsOK, NeverOverdrawn
<1>7. Harmless(Tasks \ {t})
  BY <1>3, <1>5, <1>6 DEF Harmless, Inv, TasksOK, TaskOK, LockHolders
<1>8. TasksOK'
  BY <1>1, <1>6, <1>7, TaskFinishes
<1>9. QED
  BY <1>4, <1>5, <1>6, <1>8 DEF Inv

LEMMA CreditInv ==
    ASSUME Inv, NEW t \in Tasks, CreditWallet(t) \/ CreditWalletWithoutCredit(t)
    PROVE  Inv'
<1>1. CASE CreditWallet(t)
  <2>1. CreditCustomer(t, "confirmed") /\ Account!DeductCommission(task[t].topup, task[t].amount)
    BY <1>1 DEF CreditWallet
  <2>2. task[t].topup \in Topups /\ task[t].amount \in Nat
    BY <2>1, AmountsAreNumbers DEF CreditCustomer, Inv, TasksOK, TaskOK, Known
  <2>3. Account!TypeOK'
    BY <2>1, <2>2 DEF Account!DeductCommission, Account!TypeOK, Inv
  <2>4. QED
    BY <2>1, <2>3, CreditCustomerInv DEF TopupStatus
<1>2. CASE CreditWalletWithoutCredit(t)
  <2>1. CreditCustomer(t, "confirmed_insufficient_credit") /\ UNCHANGED accountVars
    BY <1>2 DEF CreditWalletWithoutCredit
  <2>2. Account!TypeOK'
    BY <2>1 DEF accountVars, Account!TypeOK, Inv
  <2>3. QED
    BY <2>1, <2>2, CreditCustomerInv DEF TopupStatus
<1>3. QED
  BY <1>1, <1>2

\* A wallet that no transaction has locked loses no more than it holds.
LEMMA PayPackageInv ==
    ASSUME Inv, NEW t \in Tasks, NEW o \in Orders, PayPackage(t, o)
    PROVE  Inv'
<1> DEFINE c == task[t].customer
           new == [order_type |-> "package", customer |-> c, price |-> task[t].price, code |-> None]
<1>1. /\ task[t].at = "pay" /\ ~WalletLocked(c) /\ wallet_balance[c] >= task[t].price
      /\ orders[o].order_type = "none"
      /\ wallet_balance' = [wallet_balance EXCEPT ![c] = @ - task[t].price]
      /\ orders' = [orders EXCEPT ![o] = new]
      /\ Finish(t)
      /\ UNCHANGED <<wallet_credit_balance, deductions, customer_topups, credits, charge_codes,
                     sale_price, commission_percent, uploading_receipt, offered>>
  BY DEF PayPackage, FreeOrders, accountVars, topupVars, settingVars, chatVars
<1>2. c \in Customers /\ task[t].price \in Int
  BY <1>1, AmountsAreNumbers DEF Inv, TasksOK, TaskOK
<1>3. Account!TypeOK' /\ SettingsOK' /\ TopupsOK' /\ AvailableRows' = AvailableRows
  BY <1>1 DEF Inv, Account!TypeOK, SettingsOK, TopupsOK, Known, AvailableRows
<1>4. WalletsOK'
  BY <1>1, <1>2 DEF Inv, WalletsOK, NeverOverdrawn
<1>5. StockOK'
  <2>1. new \in Order
    BY <1>2 DEF Order
  <2>2. orders' \in [Orders -> Order] /\ orders'[o] = new
        /\ \A p \in Orders \ {o} : orders'[p] = orders[p]
    BY <1>1, <2>1 DEF Inv, StockOK
  <2>3. \A r \in Rows : Sold(r)' <=> Sold(r)
    BY <1>1 DEF Sold
  <2>4. \A r \in Rows : Sold(r) => charge_codes[r].order # o
    BY <1>1 DEF Inv, StockOK, DeliveredOnce
  <2>5. DeliveredOnce'
    BY <1>1, <2>2, <2>3, <2>4 DEF Inv, StockOK, DeliveredOnce
  <2>6. QED
    BY <1>1, <2>2, <2>3, <2>5 DEF Inv, StockOK
<1>6. Harmless(Tasks \ {t})
  <2>1. \A u \in LockHolders : /\ task[u].customer # c
                               /\ task[u].customer \in Customers
    BY <1>1 DEF WalletLocked, LockHolders, Inv, TasksOK, TaskOK
  <2>2. QED
    BY <1>1, <1>3, <2>1 DEF Harmless, Known, Inv, TasksOK, TaskOK, WalletsOK
<1>7. TasksOK'
  BY <1>1, <1>4, <1>6, TaskFinishes
<1>8. QED
  BY <1>3, <1>4, <1>5, <1>7 DEF Inv

\* The wallet is locked only when no other transaction holds it.
LEMMA LockWalletInv ==
    ASSUME Inv, NEW t \in Tasks, LockWallet(t)
    PROVE  Inv'
<1> DEFINE l == [task[t] EXCEPT !.at = "lock_codes"]
<1>1. TaskOK(t) /\ task = [u \in Tasks |-> task[u]] /\ task[t].at = "lock_wallet"
      /\ ~WalletLocked(task[t].customer) /\ wallet_balance[task[t].customer] >= task[t].amount
  BY DEF Inv, TasksOK, LockWallet
<1>2. /\ task[t] \in Task /\ task[t].rows = {} /\ task[t].customer \in Customers
      /\ task[t].amount \in Totals /\ task[t].amount \in Int
  BY <1>1, AmountsAreNumbers DEF TaskOK
<1>3. /\ l \in Task /\ l.at = "lock_codes" /\ l.rows = {}
      /\ l.customer = task[t].customer /\ l.amount = task[t].amount
  BY <1>2 DEF Task, Step
<1>4. Start(t, l) /\ OnlyTask /\ task'[t] = l
  BY <1>1 DEF LockWallet, Start
<1>5. Data' /\ Harmless(Tasks \ {t})
  BY <1>4, OnlyTaskKeeps, HarmlessToOthers
<1>6. TaskOK(t)'
  BY <1>1, <1>2, <1>3, <1>4 DEF TaskOK, OnlyTask, Inv, WalletsOK
<1>7. \A u \in LockHolders : task[u].customer # l.customer
  BY <1>1, <1>3 DEF WalletLocked
<1>8. TasksOK'
  BY <1>3, <1>4, <1>5, <1>6, <1>7, TaskGoesOn DEF Data
<1>9. QED
  BY <1>5, <1>8 DEF Data, Inv

\* The rows are locked only when no other transaction holds one of them.
LEMMA LockCodesInv ==
    ASSUME Inv, NEW t \in Tasks, LockCodes(t)
    PROVE  Inv'
<1> DEFINE rows == FirstAvailable(task[t].quantity)
           l == [task[t] EXCEPT !.at = "deliver", !.rows = rows]
<1>1. TaskOK(t) /\ task = [u \in Tasks |-> task[u]] /\ task[t].at = "lock_codes"
      /\ rows \cap LockedRows = {} /\ t \in LockHolders
  BY DEF Inv, TasksOK, LockCodes, LockHolders
<1>2. /\ task[t] \in Task /\ task[t].rows = {} /\ task[t].customer \in Customers
      /\ task[t].amount \in Totals /\ task[t].amount \in Int
      /\ task[t].amount <= wallet_balance[task[t].customer]
  BY <1>1, AmountsAreNumbers DEF TaskOK
<1>3. rows \subseteq AvailableRows /\ rows \subseteq Rows
  BY DEF FirstAvailable, AvailableRows
<1>4. /\ l \in Task /\ l.at = "deliver" /\ l.rows = rows
      /\ l.customer = task[t].customer /\ l.amount = task[t].amount
  BY <1>2, <1>3 DEF Task, Step
<1>5. Start(t, l) /\ OnlyTask /\ task'[t] = l
  BY <1>1 DEF LockCodes, Start
<1>6. Data' /\ Harmless(Tasks \ {t})
  BY <1>5, OnlyTaskKeeps, HarmlessToOthers
<1>7. AvailableRows' = AvailableRows
  BY <1>5 DEF AvailableRows, OnlyTask, shopVars
<1>8. TaskOK(t)'
  BY <1>2, <1>3, <1>4, <1>5, <1>7 DEF TaskOK, OnlyTask
<1>9. ASSUME NEW u \in Tasks \ {t}
      PROVE  /\ u \in LockHolders => task[u].customer # l.customer
             /\ task[u].rows \cap l.rows = {}
  <2>1. CASE u \in LockHolders
    BY <1>1, <1>4, <2>1 DEF LockedRows, Inv, TasksOK, Exclusive
  <2>2. CASE u \notin LockHolders
    BY <2>2 DEF LockHolders, Inv, TasksOK, TaskOK
  <2>3. QED
    BY <2>1, <2>2
<1>10. TasksOK'
  BY <1>4, <1>5, <1>6, <1>8, <1>9, TaskGoesOn DEF Data
<1>11. QED
  BY <1>6, <1>10 DEF Data, Inv

\* Every id of an order that Deliver uses is new and belongs to one row.
LEMMA DeliverIds ==
    ASSUME Inv, NEW t \in Tasks, NEW id \in Injection(task[t].rows, FreeOrders)
    PROVE  /\ DOMAIN id = task[t].rows /\ id \in [task[t].rows -> FreeOrders]
           /\ \A r, s \in task[t].rows : r # s => id[r] # id[s]
           /\ \A r \in task[t].rows : DeliveredRow(id, id[r]) = r
<1>1. id \in [task[t].rows -> FreeOrders]
      /\ \A r, s \in task[t].rows : id[r] = id[s] => r = s
  BY DEF Injection, IsInjective
<1>2. ASSUME NEW r \in task[t].rows PROVE DeliveredRow(id, id[r]) = r
  BY <1>1 DEF DeliveredRow
<1>3. QED
  BY <1>1, <1>2

LEMMA DeliverStock ==
    ASSUME Inv, NEW t \in Tasks, NEW id \in Injection(task[t].rows, FreeOrders), SellRows(t, id)
    PROVE  StockOK'
<1> DEFINE rows == task[t].rows
           c == task[t].customer
           sale(r) == [order_type |-> "charge", customer |-> c, price |-> task[t].price,
                       code |-> charge_codes[r].code]
<1>1. /\ c \in Customers /\ task[t].price \in Int /\ rows \subseteq AvailableRows
      /\ charge_codes \in [Rows -> ChargeCode] /\ orders \in [Orders -> Order]
  BY DEF SellRows, Inv, TasksOK, TaskOK, Task, StockOK
<1>2. /\ id \in [rows -> FreeOrders] /\ DOMAIN id = rows
      /\ \A r, s \in rows : r # s => id[r] # id[s]
      /\ \A r \in rows : DeliveredRow(id, id[r]) = r
  BY DeliverIds
<1>3. rows \subseteq Rows /\ FreeOrders \subseteq Orders
  BY <1>1 DEF AvailableRows, FreeOrders
<1>4. /\ \A r \in rows : /\ charge_codes'[r].status = "sold"
                         /\ charge_codes'[r].customer = c
                         /\ charge_codes'[r].order = id[r]
                         /\ charge_codes'[r].code = charge_codes[r].code
      /\ \A r \in Rows \ rows : charge_codes'[r] = charge_codes[r]
      /\ charge_codes' \in [Rows -> ChargeCode]
  <2> DEFINE sold(r) == [charge_codes[r] EXCEPT !.status = "sold", !.customer = c, !.order = id[r]]
  <2>1. charge_codes' = [r \in Rows |-> IF r \in rows THEN sold(r) ELSE charge_codes[r]]
    BY DEF SellRows
  <2>2. ASSUME NEW r \in rows
        PROVE  /\ sold(r) \in ChargeCode /\ sold(r).status = "sold" /\ sold(r).customer = c
               /\ sold(r).order = id[r] /\ sold(r).code = charge_codes[r].code
    <3>1. charge_codes[r] \in ChargeCode /\ id[r] \in Orders
      BY <1>1, <1>2, <1>3
    <3>2. QED
      BY <1>1, <3>1 DEF ChargeCode
  <2> HIDE DEF sold
  <2>3. QED
    BY <1>1, <1>3, <2>1, <2>2
<1>5. /\ \A r \in rows : orders'[id[r]] = sale(r)
      /\ \A o \in Orders : (\A r \in rows : id[r] # o) => orders'[o] = orders[o]
  BY <1>2, <1>3 DEF SellRows
<1>6. orders' \in [Orders -> Order]
  <2>1. \A r \in rows : sale(r) \in Order
    BY <1>1, <1>3 DEF Order, ChargeCode
  <2>2. \A o \in Orders : orders'[o] \in Order
    BY <1>1, <1>5, <2>1
  <2>3. orders' = [o \in Orders |-> orders'[o]]
    BY DEF SellRows
  <2>4. QED
    BY <2>2, <2>3
<1>7. \A r \in Rows : Sold(r)' <=> Sold(r) \/ r \in rows
  BY <1>3, <1>4 DEF Sold
<1>8. \A r \in rows : ~Sold(r)
  BY <1>1 DEF AvailableRows, Sold
<1>9. \A r \in Rows : Sold(r) =>
          /\ charge_codes[r].order \in Orders
          /\ \A s \in rows : id[s] # charge_codes[r].order
  BY <1>2 DEF FreeOrders, Inv, StockOK, DeliveredOnce
<1>10. ASSUME NEW r \in Rows, Sold(r)'
       PROVE  LET o == charge_codes'[r].order
              IN  /\ o \in Orders /\ orders'[o].order_type = "charge"
                  /\ orders'[o].customer = charge_codes'[r].customer
                  /\ orders'[o].code = charge_codes'[r].code
                  /\ charge_codes'[r].customer \in Customers
  <2>1. CASE r \in rows
    <3>1. id[r] \in Orders /\ orders'[id[r]] = sale(r)
      BY <1>2, <1>3, <1>5, <2>1
    <3>2. charge_codes'[r].order = id[r] /\ charge_codes'[r].customer = c
          /\ charge_codes'[r].code = charge_codes[r].code
      BY <1>4, <2>1
    <3>3. QED
      BY <1>1, <3>1, <3>2
  <2>2. CASE r \notin rows
    <3>1. Sold(r) /\ charge_codes'[r] = charge_codes[r]
      BY <1>4, <1>7, <1>10, <2>2
    <3>2. orders'[charge_codes[r].order] = orders[charge_codes[r].order]
      BY <1>5, <1>9, <3>1
    <3>3. QED
      BY <3>1, <3>2 DEF Inv, StockOK, DeliveredOnce
  <2>3. QED
    BY <2>1, <2>2
<1>11. ASSUME NEW r \in Rows, NEW s \in Rows, Sold(r)', Sold(s)', r # s
       PROVE  charge_codes'[r].order # charge_codes'[s].order
  <2>1. CASE r \in rows /\ s \in rows
    BY <1>2, <1>4, <1>11, <2>1
  <2>2. CASE r \in rows /\ s \notin rows
    BY <1>4, <1>7, <1>9, <1>11, <2>2
  <2>3. CASE r \notin rows /\ s \in rows
    BY <1>4, <1>7, <1>9, <1>11, <2>3
  <2>4. CASE r \notin rows /\ s \notin rows
    BY <1>4, <1>7, <1>11, <2>4 DEF Inv, StockOK, DeliveredOnce
  <2>5. QED
    BY <2>1, <2>2, <2>3, <2>4
<1>12. ASSUME NEW o \in Orders, orders'[o].order_type = "charge"
       PROVE  \E r \in Rows : Sold(r)' /\ charge_codes'[r].order = o
  <2>1. CASE \E r \in rows : id[r] = o
    BY <1>3, <1>4, <1>7, <2>1
  <2>2. CASE \A r \in rows : id[r] # o
    <3>1. PICK r \in Rows : Sold(r) /\ charge_codes[r].order = o
      BY <1>5, <1>12, <2>2 DEF Inv, StockOK, DeliveredOnce
    <3>2. QED
      BY <1>4, <1>7, <1>8, <3>1
  <2>3. QED
    BY <2>1, <2>2
<1>13. QED
  BY <1>4, <1>6, <1>10, <1>11, <1>12 DEF StockOK, DeliveredOnce

LEMMA DeliverInv ==
    ASSUME Inv, NEW t \in Tasks, NEW id \in Injection(task[t].rows, FreeOrders), Deliver(t, id)
    PROVE  Inv'
<1> DEFINE c == task[t].customer
<1>1. /\ task[t].at = "deliver" /\ t \in LockHolders /\ SellRows(t, id) /\ Finish(t)
      /\ wallet_balance' = [wallet_balance EXCEPT ![c] = @ - task[t].amount]
      /\ UNCHANGED <<wallet_credit_balance, deductions, customer_topups, credits,
                     sale_price, commission_percent, uploading_receipt, offered>>
  BY DEF Deliver, SellRows, LockHolders, accountVars, topupVars, settingVars, chatVars
<1>2. c \in Customers /\ task[t].amount \in Int /\ task[t].amount <= wallet_balance[c]
  BY <1>1, AmountsAreNumbers DEF Inv, TasksOK, TaskOK
<1>3. Account!TypeOK' /\ SettingsOK' /\ TopupsOK'
  BY <1>1 DEF Inv, Account!TypeOK, SettingsOK, TopupsOK, Known
<1>4. WalletsOK'
  BY <1>1, <1>2 DEF Inv, WalletsOK, NeverOverdrawn
<1>5. StockOK'
  BY <1>1, DeliverStock
<1>6. Harmless(Tasks \ {t})
  <2>1. \A u \in LockHolders \ {t} : task[u].customer # c /\ task[u].customer \in Customers
    BY <1>1 DEF LockHolders, Inv, TasksOK, TaskOK, Exclusive
  <2>2. \A u \in LockHolders \ {t} : wallet_balance'[task[u].customer] >= wallet_balance[task[u].customer]
    BY <1>1, <1>2, <2>1 DEF Inv, WalletsOK
  <2>3. \A u \in Tasks \ {t} : task[u].rows \subseteq AvailableRows /\ task[u].rows \cap task[t].rows = {}
    BY DEF Inv, TasksOK, TaskOK, Exclusive
  <2>4. AvailableRows \ task[t].rows \subseteq AvailableRows'
    BY <1>1 DEF SellRows, AvailableRows
  <2>5. QED
    BY <1>1, <2>2, <2>3, <2>4 DEF Harmless, Known
<1>7. TasksOK'
  BY <1>1, <1>4, <1>6, TaskFinishes
<1>8. QED
  BY <1>3, <1>4, <1>5, <1>7 DEF Inv

-----------------------------------------------------------------------------
(* Steps on the stock that sell nothing.                                   *)

\* Codes come and go, but the ones that were sold stay as they are.
StockMoves ==
    /\ charge_codes' \in [Rows -> ChargeCode]
    /\ \A r \in Rows : charge_codes'[r] # charge_codes[r] =>
           ~Sold(r) /\ charge_codes'[r].status # "sold"
    /\ UNCHANGED <<wallet_credit_balance, deductions, wallet_balance, customer_topups, credits,
                   orders, sale_price, commission_percent, uploading_receipt, offered>>

LEMMA StockMovesKeeps ==
    ASSUME Inv, StockMoves
    PROVE  Account!TypeOK' /\ SettingsOK' /\ TopupsOK' /\ WalletsOK' /\ StockOK'
<1>1. Account!TypeOK' /\ SettingsOK' /\ TopupsOK' /\ WalletsOK'
  BY DEF StockMoves, Inv, Account!TypeOK, SettingsOK, TopupsOK, Known, WalletsOK, NeverOverdrawn
<1>2. \A r \in Rows : /\ Sold(r)' <=> Sold(r)
                      /\ Sold(r) => charge_codes'[r] = charge_codes[r]
  BY DEF StockMoves, Sold
<1>3. StockOK'
  BY <1>2 DEF StockMoves, Inv, StockOK, DeliveredOnce
<1>4. QED
  BY <1>1, <1>3

LEMMA InsertCodeInv ==
    ASSUME Inv, NEW t \in Tasks, NEW r \in Rows, NEW code \in task[t].codes, InsertCode(t, r, code)
    PROVE  Inv'
<1> DEFINE new == [NoCode EXCEPT !.status = "available", !.code = code]
           l == [task[t] EXCEPT !.codes = @ \ {code}]
<1>1. /\ task[t].at = "insert_code" /\ charge_codes[r].status = "none"
      /\ charge_codes' = [charge_codes EXCEPT ![r] = new]
      /\ task = [u \in Tasks |-> task[u]] /\ TaskOK(t) /\ charge_codes \in [Rows -> ChargeCode]
  BY DEF InsertCode, FreeRows, Inv, TasksOK, StockOK
<1>2. task[t] \in Task /\ code \in Codes /\ task[t].rows = {}
  BY <1>1 DEF TaskOK, Task
<1>3. new \in ChargeCode /\ new.status = "available"
  BY <1>2 DEF NoCode, ChargeCode
<1>4. StockMoves
  BY <1>1, <1>3 DEF StockMoves, InsertCode, Sold, accountVars, topupVars, settingVars, chatVars
<1>5. WalletsOK'
  BY <1>4, StockMovesKeeps
<1>6. AvailableRows \subseteq AvailableRows'
  BY <1>1, <1>3 DEF AvailableRows
<1>7. Harmless(Tasks \ {t})
  BY <1>4, <1>6 DEF Harmless, StockMoves, Known, Inv, TasksOK, TaskOK, LockHolders, WalletsOK
<1>8. TasksOK'
  <2>1. CASE Finish(t)
    BY <1>5, <1>7, <2>1, TaskFinishes
  <2>2. CASE ~Finish(t)
    <3>1. Start(t, l) /\ task'[t] = l
      BY <1>1, <2>2 DEF InsertCode, Start
    <3>2. l \in Task /\ l.at = "insert_code" /\ l.rows = {}
      BY <1>1, <1>2 DEF Task
    <3>3. TaskOK(t)'
      BY <3>1, <3>2 DEF TaskOK
    <3>4. QED
      BY <1>5, <1>7, <3>1, <3>2, <3>3, TaskGoesOn
  <2>3. QED
    BY <2>1, <2>2
<1>9. QED
  BY <1>4, <1>8, StockMovesKeeps DEF Inv

LEMMA DeleteAvailableCodeInv ==
    ASSUME Inv, NEW r \in Rows, DeleteAvailableCode(r)
    PROVE  Inv'
<1>1. /\ charge_codes[r].status = "available" /\ r \notin LockedRows
      /\ charge_codes' = [charge_codes EXCEPT ![r].status = "deleted"]
      /\ charge_codes \in [Rows -> ChargeCode] /\ UNCHANGED task
  BY DEF DeleteAvailableCode, Inv, StockOK
<1>2. StockMoves
  BY <1>1 DEF StockMoves, DeleteAvailableCode, Sold, ChargeCode,
              accountVars, topupVars, settingVars, chatVars
<1>3. AvailableRows \ {r} \subseteq AvailableRows'
  BY <1>1 DEF AvailableRows
<1>4. \A u \in Tasks : r \notin task[u].rows
  BY <1>1 DEF LockedRows, LockHolders, Inv, TasksOK, TaskOK
<1>5. Harmless(Tasks)
  BY <1>2, <1>3, <1>4 DEF Harmless, StockMoves, Known, Inv, TasksOK, TaskOK, LockHolders, WalletsOK
<1>6. TasksOK'
  BY <1>1, <1>2, <1>5, StockMovesKeeps, TasksStay
<1>7. QED
  BY <1>2, <1>6, StockMovesKeeps DEF Inv

LEMMA ClearCodesInv ==
    ASSUME Inv, ClearCodes
    PROVE  Inv'
<1>1. /\ AvailableRows \cap LockedRows = {} /\ UNCHANGED task
      /\ charge_codes' = [r \in Rows |-> IF r \in AvailableRows
                                         THEN [charge_codes[r] EXCEPT !.status = "deleted"]
                                         ELSE charge_codes[r]]
      /\ charge_codes \in [Rows -> ChargeCode]
  BY DEF ClearCodes, Inv, StockOK
<1>2. StockMoves
  BY <1>1 DEF StockMoves, ClearCodes, Sold, ChargeCode, AvailableRows,
              accountVars, topupVars, settingVars, chatVars
<1>3. ASSUME NEW u \in Tasks PROVE task[u].rows = {}
  <2>1. task[u].rows \subseteq AvailableRows /\ (task[u].at # "deliver" => task[u].rows = {})
    BY DEF Inv, TasksOK, TaskOK
  <2>2. task[u].at = "deliver" => task[u].rows \subseteq LockedRows
    BY DEF LockedRows, LockHolders
  <2>3. QED
    BY <1>1, <2>1, <2>2
<1>4. Harmless(Tasks)
  BY <1>2, <1>3 DEF Harmless, StockMoves, Known, Inv, TasksOK, TaskOK, LockHolders, WalletsOK
<1>5. TasksOK'
  BY <1>1, <1>2, <1>4, StockMovesKeeps, TasksStay
<1>6. QED
  BY <1>2, <1>5, StockMovesKeeps DEF Inv

LEMMA ContinueInv ==
    ASSUME Inv, NEW t \in Tasks, Continue(t)
    PROVE  Inv'
<1>1. CASE ReadPercent(t)
  BY <1>1, ReadPercentInv
<1>2. CASE CreditWallet(t) \/ CreditWalletWithoutCredit(t)
  BY <1>2, CreditInv
<1>3. CASE \E o \in Orders : PayPackage(t, o)
  BY <1>3, PayPackageInv
<1>4. CASE RefusePackage(t) \/ RefusePurchase(t) \/ OutOfStock(t)
  BY <1>4, TaskEnds DEF RefusePackage, RefusePurchase, OutOfStock
<1>5. CASE LockWallet(t)
  BY <1>5, LockWalletInv
<1>6. CASE LockCodes(t)
  BY <1>6, LockCodesInv
<1>7. CASE \E id \in Injection(task[t].rows, FreeOrders) : Deliver(t, id)
  BY <1>7, DeliverInv
<1>8. CASE \E r \in Rows, code \in task[t].codes : InsertCode(t, r, code)
  BY <1>8, InsertCodeInv
<1>9. QED
  BY <1>1, <1>2, <1>3, <1>4, <1>5, <1>6, <1>7, <1>8 DEF Continue

-----------------------------------------------------------------------------
(* Handlers of one call, failures, and the invariant of the specification. *)

\* Steps that change topups or dialogs and neither money nor stock.
LEMMA TopupStepInv ==
    ASSUME Inv, TopupsOK', UNCHANGED <<accountVars, wallet_balance, shopVars, settingVars, task>>,
           \A w \in Topups : Known(w) => customer_topups'[w].status # "none"
    PROVE  Inv'
<1>1. Account!TypeOK' /\ SettingsOK' /\ WalletsOK' /\ StockOK' /\ AvailableRows' = AvailableRows
  BY DEF Inv, accountVars, shopVars, settingVars, Account!TypeOK, SettingsOK, WalletsOK,
         NeverOverdrawn, StockOK, DeliveredOnce, Sold, AvailableRows
<1>2. Harmless(Tasks)
  BY <1>1 DEF Harmless, Inv, TasksOK, TaskOK, LockHolders, WalletsOK
<1>3. QED
  BY <1>1, <1>2, TasksStay DEF Inv

LEMMA ShortStepInv ==
    ASSUME Inv, ShortStep
    PROVE  Inv'
<1>0. TopupsOK /\ offered \subseteq Topups
  BY DEF Inv, TopupsOK, Known
<1>1. ASSUME NEW w \in Topups, NEW c \in Customers, NEW amount \in TopupAmounts,
             RequestTopup(w, c, amount)
      PROVE  Inv'
  <2> DEFINE new == [status |-> "pending", customer |-> c, amount |-> amount]
  <2>1. new \in Topup
    BY TopupAmountsAssumption DEF Topup, TopupStatus
  <2>2. /\ customer_topups' = [customer_topups EXCEPT ![w] = new]
        /\ uploading_receipt' = [uploading_receipt EXCEPT ![c] = w]
        /\ UNCHANGED <<credits, offered>>
    BY <1>1 DEF RequestTopup
  <2>3. \A v \in Topups : /\ v # w => customer_topups'[v] = customer_topups[v]
                          /\ customer_topups'[w] = new
    BY <1>0, <2>2 DEF TopupsOK
  <2>4. \A v \in Topups : Known(v)' <=> Known(v) \/ v = w
    BY <2>3 DEF Known
  <2>5. customer_topups' \in [Topups -> Topup] /\ uploading_receipt' \in [Customers -> Topups \cup {None}]
    BY <1>0, <2>1, <2>2 DEF TopupsOK
  <2>6. ASSUME NEW d \in Customers, uploading_receipt'[d] # None
        PROVE  /\ uploading_receipt'[d] \in Topups
               /\ customer_topups'[uploading_receipt'[d]].status # "none"
    <3>1. CASE d = c
      BY <1>0, <2>2, <2>3, <3>1 DEF TopupsOK
    <3>2. CASE d # c
      <4>1. uploading_receipt'[d] = uploading_receipt[d] /\ Known(uploading_receipt[d])
        BY <1>0, <2>2, <2>6, <3>2 DEF TopupsOK
      <4>2. QED
        BY <2>4, <4>1 DEF Known
    <3>3. QED
      BY <3>1, <3>2
  <2>7. \A v \in offered' : Known(v)'
    BY <1>0, <2>2, <2>4 DEF TopupsOK
  <2>8. \A v \in Topups : Known(v)' => /\ customer_topups'[v].customer \in Customers
                                       /\ customer_topups'[v].amount \in TopupAmounts
    BY <1>0, <2>3, <2>4 DEF TopupsOK
  <2>9. TopupsOK'
    BY <1>0, <2>2, <2>5, <2>6, <2>7, <2>8 DEF TopupsOK, Known
  <2>10. QED
    BY <1>1, <2>4, <2>9, TopupStepInv DEF RequestTopup, Known
<1>2. ASSUME NEW w \in Topups, RejectTopup(w) PROVE Inv'
  <2>1. /\ Known(w)
        /\ customer_topups' = [customer_topups EXCEPT ![w].status = "rejected"]
        /\ UNCHANGED <<credits, uploading_receipt, offered>>
    BY <1>0, <1>2 DEF RejectTopup, TopupsOK, chatVars
  <2>2. /\ customer_topups' \in [Topups -> Topup]
        /\ \A v \in Topups : /\ customer_topups'[v].customer = customer_topups[v].customer
                             /\ customer_topups'[v].amount = customer_topups[v].amount
                             /\ Known(v)' <=> Known(v)
    BY <1>0, <2>1 DEF TopupsOK, Topup, TopupStatus, Known
  <2>3. \A v : Known(v)' <=> Known(v)
    BY <2>2 DEF Known
  <2>4. TopupsOK'
    BY <1>0, <2>1, <2>2, <2>3 DEF TopupsOK
  <2>5. QED
    BY <1>2, <2>2, <2>4, TopupStepInv DEF RejectTopup, Known
<1>3. ASSUME NEW c \in Customers, ReceiveTopupReceipt(c) PROVE Inv'
  <2>1. /\ uploading_receipt[c] # None /\ Known(uploading_receipt[c])
        /\ uploading_receipt' = [uploading_receipt EXCEPT ![c] = None]
        /\ offered' \subseteq offered \cup {uploading_receipt[c]}
        /\ UNCHANGED <<customer_topups, credits>>
    BY <1>0, <1>3 DEF ReceiveTopupReceipt, TopupsOK, topupVars
  <2>2. \A v : Known(v)' <=> Known(v)
    BY <2>1 DEF Known
  <2>3. TopupsOK'
    BY <1>0, <2>1, <2>2 DEF TopupsOK
  <2>4. QED
    BY <1>3, <2>2, <2>3, TopupStepInv DEF ReceiveTopupReceipt, Known
<1>4. ASSUME (\E r \in Rows : DeleteAvailableCode(r)) \/ ClearCodes PROVE Inv'
  BY <1>4, DeleteAvailableCodeInv, ClearCodesInv
<1>5. ASSUME (\E p \in Prices : SetPrice(p)) \/ (\E p \in Percents : SetCommissionPercent(p))
      PROVE  Inv'
  <2>1. /\ SettingsOK'
        /\ UNCHANGED <<wallet_credit_balance, deductions, wallet_balance, customer_topups, credits,
                       charge_codes, orders, uploading_receipt, offered, task>>
    BY <1>5 DEF SetPrice, SetCommissionPercent, Inv, SettingsOK, accountVars, topupVars,
                shopVars, chatVars
  <2>2. /\ Account!TypeOK' /\ TopupsOK' /\ WalletsOK' /\ StockOK'
        /\ AvailableRows' = AvailableRows
    BY <2>1 DEF Inv, Account!TypeOK, TopupsOK, Known, WalletsOK, NeverOverdrawn, StockOK,
                DeliveredOnce, Sold, AvailableRows
  <2>3. Harmless(Tasks)
    BY <2>1, <2>2 DEF Harmless, Known, Inv, TasksOK, TaskOK, LockHolders, WalletsOK
  <2>4. QED
    BY <2>1, <2>2, <2>3, TasksStay DEF Inv
<1>6. QED
  BY <1>1, <1>2, <1>3, <1>4, <1>5 DEF ShortStep

LEMMA RestartInv ==
    ASSUME Inv, Restart
    PROVE  Inv'
<1>1. /\ task' = [t \in Tasks |-> Idle]
      /\ uploading_receipt' = [c \in Customers |-> None]
      /\ UNCHANGED <<wallet_credit_balance, deductions, wallet_balance, customer_topups, credits,
                     charge_codes, orders, sale_price, commission_percent, offered>>
  BY DEF Restart, accountVars, topupVars, shopVars, settingVars
<1>2. Account!TypeOK' /\ SettingsOK' /\ WalletsOK' /\ StockOK'
  BY <1>1 DEF Inv, Account!TypeOK, SettingsOK, WalletsOK, NeverOverdrawn, StockOK,
              DeliveredOnce, Sold
<1>3. TopupsOK'
  BY <1>1 DEF Inv, TopupsOK, Known
<1>4. TasksOK'
  BY <1>1, IdleIsTask DEF TasksOK, TaskOK, Exclusive, LockHolders
<1>5. QED
  BY <1>2, <1>3, <1>4 DEF Inv

LEMMA InvNext == Inv /\ [Next]_vars => Inv'
<1> SUFFICES ASSUME Inv, [Next]_vars PROVE Inv'
  OBVIOUS
<1>1. CASE UNCHANGED vars
  <2>1. OnlyTask /\ UNCHANGED task
    BY <1>1 DEF vars, OnlyTask
  <2>2. QED
    BY <2>1, OnlyTaskKeeps, TasksStay DEF Data, Inv
<1>2. ASSUME NEW t \in Tasks, Begin(t) PROVE Inv'
  BY <1>2, BeginInv
<1>3. ASSUME NEW t \in Tasks, Continue(t) PROVE Inv'
  BY <1>3, ContinueInv
<1>4. ASSUME NEW t \in Tasks, Fail(t) PROVE Inv'
  BY <1>4, TaskEnds DEF Fail
<1>5. CASE ShortStep
  BY <1>5, ShortStepInv
<1>6. CASE Restart
  BY <1>6, RestartInv
<1>7. QED
  BY <1>1, <1>2, <1>3, <1>4, <1>5, <1>6 DEF Next

LEMMA SpecInv == Spec => []Inv
BY InvInit, InvNext, PTL DEF Spec

(* Every handler, interrupted anywhere, leaves rows and tasks well formed. *)
THEOREM CustomerWalletTypeOK == Spec => []TypeOK
BY SpecInv, InvTypeOK, PTL

(* No customer's balance is ever negative: the balance that was checked    *)
(* stays locked until the money is taken.                                  *)
THEOREM CustomerWalletNeverOverdrawn == Spec => []NeverOverdrawn
<1>1. Inv => NeverOverdrawn
  BY DEF Inv, WalletsOK
<1>2. QED
  BY <1>1, SpecInv, PTL

(* Sold codes and orders for charge match one to one.                      *)
THEOREM CustomerWalletDeliveredOnce == Spec => []DeliveredOnce
<1>1. Inv => DeliveredOnce
  BY DEF Inv, StockOK
<1>2. QED
  BY <1>1, SpecInv, PTL

-----------------------------------------------------------------------------
(* Topups and their commission.  The credits of a topup that was never     *)
(* requested are needed too: a request makes it pending.                   *)

Credited ==
    /\ ConfirmedIsCharged
    /\ \A w \in Topups : customer_topups[w].status = "none" => credits[w] = 0

LEMMA CreditedInit == Init => Credited
BY DEF Init, Account!Init, Credited, ConfirmedIsCharged, NoTopup

\* A credit, with or without its commission.
LEMMA CreditCredited ==
    ASSUME Inv, Credited, NEW t \in Tasks, CreditWallet(t) \/ CreditWalletWithoutCredit(t)
    PROVE  Credited'
<1> DEFINE w == task[t].topup
<1>1. w \in Topups /\ task[t].amount \in Nat
  BY AmountsAreNumbers DEF CreditWallet, CreditWalletWithoutCredit, CreditCustomer,
     Inv, TasksOK, TaskOK, Known
<1>2. /\ customer_topups \in [Topups -> Topup] /\ credits \in [Topups -> Nat]
      /\ deductions \in [Topups -> Seq(Nat)]
  BY DEF Inv, TopupsOK, Account!TypeOK
<1>3. credits' = [credits EXCEPT ![w] = @ + 1]
  BY DEF CreditWallet, CreditWalletWithoutCredit, CreditCustomer
<1>4. \A v \in Topups \ {w} : deductions'[v] = deductions[v]
                              /\ customer_topups'[v] = customer_topups[v]
  BY <1>1, <1>2 DEF CreditWallet, CreditWalletWithoutCredit, CreditCustomer, accountVars,
     Account!DeductCommission
<1>5. CASE CreditWallet(t)
  <2>1. deductions'[w] = Append(deductions[w], task[t].amount)
        /\ customer_topups'[w].status = "confirmed"
    BY <1>1, <1>2, <1>5 DEF CreditWallet, CreditCustomer, Account!DeductCommission, Topup
  <2>2. Len(deductions'[w]) = Len(deductions[w]) + 1 /\ deductions'[w] # <<>>
    <3>1. ASSUME NEW rows \in Seq(Nat), NEW a \in Nat
          PROVE  Len(Append(rows, a)) = Len(rows) + 1 /\ Append(rows, a) # <<>>
      OBVIOUS
    <3>2. deductions[w] \in Seq(Nat)
      BY <1>1, <1>2
    <3>3. QED
      BY <1>1, <2>1, <3>1, <3>2
  <2>3. QED
    BY <1>1, <1>2, <1>3, <1>4, <2>1, <2>2 DEF Credited, ConfirmedIsCharged
<1>6. CASE CreditWalletWithoutCredit(t)
  <2>1. deductions' = deductions
        /\ customer_topups'[w].status = "confirmed_insufficient_credit"
    BY <1>1, <1>2, <1>6 DEF CreditWalletWithoutCredit, CreditCustomer, accountVars, Topup
  <2>2. Len(deductions[w]) \in Nat
    BY <1>1, <1>2
  <2>3. QED
    BY <1>1, <1>2, <1>3, <1>4, <2>1, <2>2 DEF Credited, ConfirmedIsCharged
<1>7. QED
  BY <1>5, <1>6

LEMMA CreditedNext == Inv /\ Credited /\ [Next]_vars => Credited'
<1> SUFFICES ASSUME Inv, Credited, [Next]_vars PROVE Credited'
  OBVIOUS
<1>1. ASSUME UNCHANGED <<deductions, customer_topups, credits>> PROVE Credited'
  BY <1>1 DEF Credited, ConfirmedIsCharged
<1>2. CASE UNCHANGED vars
  BY <1>1, <1>2 DEF vars, accountVars, topupVars
<1>3. ASSUME NEW t \in Tasks, Begin(t) \/ Fail(t) PROVE Credited'
  BY <1>1, <1>3 DEF Begin, ConfirmTopup, StartPackage, StartPurchase, AddCodes,
     Fail, OnlyTask, accountVars, topupVars
<1>4. ASSUME NEW t \in Tasks, Continue(t) PROVE Credited'
  <2>1. CASE CreditWallet(t) \/ CreditWalletWithoutCredit(t)
    BY <2>1, CreditCredited
  <2>2. CASE ~(CreditWallet(t) \/ CreditWalletWithoutCredit(t))
    BY <1>1, <1>4, <2>2 DEF Continue, ReadPercent, PayPackage, RefusePackage, LockWallet,
       RefusePurchase, LockCodes, OutOfStock, Deliver, SellRows, InsertCode,
       OnlyTask, accountVars, topupVars
  <2>3. QED
    BY <2>1, <2>2
<1>5. ASSUME NEW w \in Topups, NEW c \in Customers, NEW amount \in TopupAmounts,
             RequestTopup(w, c, amount)
      PROVE  Credited'
  BY <1>5 DEF RequestTopup, Inv, TopupsOK, Credited, ConfirmedIsCharged, accountVars
<1>6. ASSUME NEW w \in Topups, RejectTopup(w) PROVE Credited'
  <2>1. Known(w)
    BY <1>6 DEF RejectTopup, Inv, TopupsOK
  <2>2. QED
    BY <1>6, <2>1 DEF RejectTopup, Known, Inv, TopupsOK, Topup, Credited, ConfirmedIsCharged, accountVars
<1>7. CASE ShortStep
  BY <1>1, <1>5, <1>6, <1>7 DEF ShortStep, ReceiveTopupReceipt, DeleteAvailableCode, ClearCodes, SetPrice,
     SetCommissionPercent, accountVars, topupVars
<1>8. CASE Restart
  BY <1>1, <1>8 DEF Restart, accountVars, topupVars
<1>9. QED
  BY <1>2, <1>3, <1>4, <1>7, <1>8 DEF Next

(* Commission is taken only with a credit, and a topup that says confirmed *)
(* had both, however its buttons are tapped.                               *)
THEOREM CustomerWalletConfirmedIsCharged == Spec => []ConfirmedIsCharged
<1>1. Credited => ConfirmedIsCharged
  BY DEF Credited
<1>2. QED
  BY <1>1, SpecInv, CreditedInit, CreditedNext, PTL DEF Spec

-----------------------------------------------------------------------------
(* The books of the wallets.  An order that was not made yet costs nothing, *)
(* and a purchase takes from the wallet the price of the codes it delivers. *)

OrdersPriced == \A o \in Orders : orders[o].order_type = "none" => orders[o] = NoOrder

CostKnown(t) ==
    /\ task[t].at \in {"lock_wallet", "lock_codes", "deliver"} =>
           task[t].amount = task[t].quantity * task[t].price
    /\ task[t].at = "deliver" => Cardinality(task[t].rows) = task[t].quantity

CostsKnown == \A t \in Tasks : CostKnown(t)

Books == OrdersPriced /\ CostsKnown /\ WalletBooks

LEMMA CostOfOthers ==
    ASSUME Inv, CostsKnown, NEW t \in Tasks, NEW local, Start(t, local), CostKnown(t)'
    PROVE  CostsKnown'
<1>1. \A u \in Tasks \ {t} : task'[u] = task[u]
  BY DEF Start, Inv, TasksOK
<1>2. \A u \in Tasks \ {t} : CostKnown(u) => CostKnown(u)'
  BY <1>1 DEF CostKnown
<1>3. QED
  BY <1>2 DEF CostsKnown

LEMMA StartedIs ==
    ASSUME Inv, NEW t \in Tasks, NEW local, Start(t, local)
    PROVE  task'[t] = local
BY DEF Start, Inv, TasksOK

LEMMA CostOfNothing ==
    ASSUME Inv, CostsKnown, NEW t \in Tasks, NEW local, Start(t, local),
           local.at \notin {"lock_wallet", "lock_codes", "deliver"}
    PROVE  CostsKnown'
<1>1. task'[t] = local
  BY StartedIs
<1>2. CostKnown(t)'
  BY <1>1 DEF CostKnown
<1>3. QED
  BY <1>2, CostOfOthers

LEMMA CostAfterwards ==
    ASSUME Inv, CostsKnown, NEW t \in Tasks, Finish(t)
    PROVE  CostsKnown'
BY CostOfNothing, IdleIsTask DEF Finish, Start

\* What the handlers hold: the cost is the price that was read times the
\* number of codes, and as many rows are locked as will be delivered.
LEMMA CostsNext ==
    ASSUME Inv, CostsKnown, [Next]_vars
    PROVE  CostsKnown'
<1>0. task = [u \in Tasks |-> task[u]]
  BY DEF Inv, TasksOK
<1>1. ASSUME UNCHANGED task PROVE CostsKnown'
  BY <1>1 DEF CostsKnown, CostKnown
<1>2. ASSUME NEW t \in Tasks, Begin(t) PROVE CostsKnown'
  <2>1. ASSUME NEW w \in Topups, ConfirmTopup(t, w) PROVE CostsKnown'
    BY <2>1, CostOfNothing DEF ConfirmTopup, Idle
  <2>2. ASSUME NEW c \in Customers, StartPackage(t, c) PROVE CostsKnown'
    BY <2>2, CostOfNothing DEF StartPackage, Idle
  <2>3. ASSUME NEW c \in Customers, NEW n \in Quantities, StartPurchase(t, c, n)
        PROVE  CostsKnown'
    <3> DEFINE l == [Idle EXCEPT !.at = "lock_wallet", !.customer = c, !.quantity = n,
                                 !.price = sale_price, !.amount = n * sale_price]
    <3>1. Start(t, l)
      BY <2>3 DEF StartPurchase
    <3>2. /\ l.at = "lock_wallet" /\ l.quantity = n /\ l.price = sale_price
          /\ l.amount = n * sale_price
      BY DEF Idle
    <3> HIDE DEF l
    <3>3. task'[t] = l
      BY <3>1, StartedIs
    <3>4. CostKnown(t)'
      BY <3>2, <3>3 DEF CostKnown
    <3>5. QED
      BY <3>1, <3>4, CostOfOthers
  <2>4. ASSUME NEW lines \in SUBSET Codes \ {{}}, AddCodes(t, lines) PROVE CostsKnown'
    BY <2>4, CostOfNothing DEF AddCodes, Idle
  <2>5. QED
    BY <1>2, <2>1, <2>2, <2>3, <2>4 DEF Begin
<1>3. ASSUME NEW t \in Tasks, Continue(t) PROVE CostsKnown'
  <2>1. CASE ReadPercent(t)
    <3> DEFINE l == [task[t] EXCEPT !.at = "credit",
                     !.amount = Commission(customer_topups[task[t].topup].amount,
                                           commission_percent)]
    <3>1. task[t] \in Task
      BY DEF Inv, TasksOK, TaskOK
    <3>2. Start(t, l) /\ l.at = "credit"
      BY <1>0, <2>1, <3>1 DEF ReadPercent, Start, Task
    <3> HIDE DEF l
    <3>3. QED
      BY <3>2, CostOfNothing
  <2>2. CASE CreditWallet(t) \/ CreditWalletWithoutCredit(t)
    BY <2>2, CostAfterwards DEF CreditWallet, CreditWalletWithoutCredit, CreditCustomer
  <2>3. CASE \E o \in Orders : PayPackage(t, o)
    BY <2>3, CostAfterwards DEF PayPackage
  <2>4. CASE RefusePackage(t) \/ RefusePurchase(t) \/ OutOfStock(t)
    BY <2>4, CostAfterwards DEF RefusePackage, RefusePurchase, OutOfStock
  <2>5. CASE LockWallet(t)
    <3> DEFINE l == [task[t] EXCEPT !.at = "lock_codes"]
    <3>1. task[t] \in Task /\ task[t].at = "lock_wallet"
      BY <2>5 DEF Inv, TasksOK, TaskOK, LockWallet
    <3>2. /\ Start(t, l) /\ l.at = "lock_codes" /\ l.amount = task[t].amount
          /\ l.quantity = task[t].quantity /\ l.price = task[t].price
      BY <1>0, <2>5, <3>1 DEF LockWallet, Start, Task
    <3> HIDE DEF l
    <3>3. task'[t] = l
      BY <3>2, StartedIs
    <3>4. CostKnown(t)'
      BY <3>1, <3>2, <3>3 DEF CostsKnown, CostKnown
    <3>5. QED
      BY <3>2, <3>4, CostOfOthers
  <2>6. CASE LockCodes(t)
    <3> DEFINE rows == FirstAvailable(task[t].quantity)
               l == [task[t] EXCEPT !.at = "deliver", !.rows = rows]
    <3>1. /\ task[t] \in Task /\ task[t].at = "lock_codes"
          /\ Cardinality(rows) = task[t].quantity
      BY <2>6 DEF Inv, TasksOK, TaskOK, LockCodes
    <3> HIDE DEF rows
    <3>2. /\ Start(t, l) /\ l.at = "deliver" /\ l.amount = task[t].amount
          /\ l.quantity = task[t].quantity /\ l.price = task[t].price /\ l.rows = rows
      BY <1>0, <2>6, <3>1 DEF LockCodes, Start, Task, rows
    <3> HIDE DEF l
    <3>3. task'[t] = l
      BY <3>2, StartedIs
    <3>4. CostKnown(t)'
      BY <3>1, <3>2, <3>3 DEF CostsKnown, CostKnown
    <3>5. QED
      BY <3>2, <3>4, CostOfOthers
  <2>7. CASE \E id \in Injection(task[t].rows, FreeOrders) : Deliver(t, id)
    BY <2>7, CostAfterwards DEF Deliver, SellRows
  <2>8. ASSUME NEW r \in Rows, NEW code \in task[t].codes, InsertCode(t, r, code)
        PROVE  CostsKnown'
    <3>1. CASE Finish(t)
      BY <3>1, CostAfterwards
    <3>2. CASE task' = [task EXCEPT ![t].codes = @ \ {code}]
      <4> DEFINE l == [task[t] EXCEPT !.codes = @ \ {code}]
      <4>1. task[t] \in Task /\ task[t].at = "insert_code"
        BY <2>8 DEF Inv, TasksOK, TaskOK, InsertCode
      <4>2. Start(t, l) /\ l.at = "insert_code"
        BY <1>0, <3>2, <4>1 DEF Start, Task
      <4> HIDE DEF l
      <4>3. QED
        BY <4>2, CostOfNothing
    <3>3. QED
      BY <2>8, <3>1, <3>2 DEF InsertCode
  <2>9. QED
    BY <1>3, <2>1, <2>2, <2>3, <2>4, <2>5, <2>6, <2>7, <2>8 DEF Continue
<1>4. ASSUME NEW t \in Tasks, Fail(t) PROVE CostsKnown'
  BY <1>4, CostAfterwards DEF Fail
<1>5. CASE ShortStep
  BY <1>1, <1>5 DEF ShortStep, RequestTopup, RejectTopup, ReceiveTopupReceipt,
     DeleteAvailableCode, ClearCodes, SetPrice, SetCommissionPercent
<1>6. CASE Restart
  <2>1. \A t \in Tasks : task'[t].at = "idle"
    BY <1>6, IdleIsTask DEF Restart
  <2>2. QED
    BY <2>1 DEF CostsKnown, CostKnown
<1>7. CASE UNCHANGED vars
  BY <1>1, <1>7 DEF vars
<1>8. QED
  BY <1>2, <1>3, <1>4, <1>5, <1>6, <1>7 DEF Next

-----------------------------------------------------------------------------
(* How the two sums of a wallet change.                                    *)

AddedBy(c) == [w \in Topups |->
    IF customer_topups[w].customer = c THEN credits[w] * customer_topups[w].amount ELSE 0]
SpentBy(c) == [o \in Orders |-> IF orders[o].customer = c THEN orders[o].price ELSE 0]

LEMMA SumsOfWallet ==
    ASSUME Inv, NEW c \in Customers
    PROVE  /\ Added(c) = SumFunction(AddedBy(c)) /\ Spent(c) = SumFunction(SpentBy(c))
           /\ AddedBy(c) \in [Topups -> Int] /\ SpentBy(c) \in [Orders -> Int]
           /\ Added(c) \in Int /\ Spent(c) \in Int /\ wallet_balance[c] \in Int
<1>1. Added(c) = SumFunction(AddedBy(c)) /\ Spent(c) = SumFunction(SpentBy(c))
  BY DEF Added, AddedBy, Spent, SpentBy
<1>2. AddedBy(c) \in [Topups -> Int]
  <2> SUFFICES ASSUME NEW w \in Topups
               PROVE  credits[w] * customer_topups[w].amount \in Int
    BY DEF AddedBy
  <2>1. credits[w] \in Int /\ customer_topups[w].amount \in Int
    BY DEF Inv, TopupsOK, Topup
  <2>2. QED
    BY <2>1
<1>3. SpentBy(c) \in [Orders -> Int]
  BY DEF SpentBy, Inv, StockOK, Order
<1>4. Added(c) \in Int /\ Spent(c) \in Int
  BY <1>1, <1>2, <1>3, TablesAssumption, SumFunctionType
<1>5. QED
  BY <1>1, <1>2, <1>3, <1>4 DEF Inv, WalletsOK

LEMMA BooksOfOthers ==
    ASSUME WalletBooks, NEW Others \in SUBSET Customers,
           \A c \in Others : /\ wallet_balance'[c] = wallet_balance[c]
                             /\ AddedBy(c)' = AddedBy(c) /\ SpentBy(c)' = SpentBy(c)
    PROVE  \A c \in Others : wallet_balance'[c] = Opening + Added(c)' - Spent(c)'
<1>1. \A c \in Others : Added(c)' = Added(c) /\ Spent(c)' = Spent(c)
  BY DEF Added, AddedBy, Spent, SpentBy
<1>2. QED
  BY <1>1 DEF WalletBooks

LEMMA BooksStay ==
    ASSUME WalletBooks, UNCHANGED wallet_balance,
           \A c \in Customers : AddedBy(c)' = AddedBy(c) /\ SpentBy(c)' = SpentBy(c)
    PROVE  WalletBooks'
BY BooksOfOthers DEF WalletBooks

LEMMA BooksUntouched ==
    ASSUME WalletBooks, UNCHANGED <<wallet_balance, customer_topups, credits, orders>>
    PROVE  WalletBooks'
<1>1. \A c \in Customers : AddedBy(c)' = AddedBy(c) /\ SpentBy(c)' = SpentBy(c)
  BY DEF AddedBy, SpentBy
<1>2. QED
  BY <1>1, BooksStay

\* A credit adds the amount of the topup, however often it was added before.
LEMMA CreditBooks ==
    ASSUME Inv, WalletBooks, Inv', NEW t \in Tasks, NEW st, CreditCustomer(t, st)
    PROVE  WalletBooks'
<1> DEFINE amount == customer_topups[task[t].topup].amount
<1>0. PICK w \in Topups, c \in Customers :
          Known(w) /\ w = task[t].topup /\ c = customer_topups[w].customer /\ amount \in Nat
  BY TopupAmountsAssumption DEF CreditCustomer, Inv, TasksOK, TaskOK, TopupsOK, Known
<1>1. /\ wallet_balance' = [wallet_balance EXCEPT ![c] = @ + amount]
      /\ credits' = [credits EXCEPT ![w] = @ + 1]
      /\ customer_topups' = [customer_topups EXCEPT ![w].status = st]
      /\ orders' = orders
  BY <1>0 DEF CreditCustomer, shopVars
<1>2. amount = customer_topups[w].amount /\ amount \in Nat /\ c = customer_topups[w].customer
  BY <1>0
<1>3. \A v \in Topups : /\ customer_topups'[v].customer = customer_topups[v].customer
                        /\ customer_topups'[v].amount = customer_topups[v].amount
                        /\ v # w => credits'[v] = credits[v]
  BY <1>1, <1>2 DEF Inv, TopupsOK, Topup
<1>4. credits[w] \in Nat /\ credits'[w] = credits[w] + 1
  BY <1>1, <1>2 DEF Inv, TopupsOK
<1> HIDE DEF amount
<1>5. \A d \in Customers : SpentBy(d)' = SpentBy(d)
  BY <1>1 DEF SpentBy
<1>6. \A d \in Customers \ {c} : wallet_balance'[d] = wallet_balance[d]
  BY <1>1
<1>7. \A d \in Customers \ {c} : AddedBy(d)' = AddedBy(d)
  <2> SUFFICES ASSUME NEW d \in Customers \ {c}, NEW v \in Topups
               PROVE  (IF customer_topups'[v].customer = d
                       THEN credits'[v] * customer_topups'[v].amount ELSE 0) =
                      (IF customer_topups[v].customer = d
                       THEN credits[v] * customer_topups[v].amount ELSE 0)
    BY DEF AddedBy
  <2>1. CASE v = w
    BY <1>2, <1>3, <2>1
  <2>2. CASE v # w
    BY <1>3, <2>2
  <2>3. QED
    BY <2>1, <2>2
<1>8. \A d \in Customers \ {c} :
          wallet_balance'[d] = Opening + Added(d)' - Spent(d)'
  BY <1>5, <1>6, <1>7, BooksOfOthers
<1>9. Added(c)' = Added(c) + amount
  <2> DEFINE f == AddedBy(c)
             g == AddedBy(c)'
  <2>1. f \in [Topups -> Int] /\ Added(c) = SumFunction(f) /\ Added(c) \in Int
    BY <1>2, SumsOfWallet
  <2>2. Added(c)' = SumFunction(g)
    BY DEF Added, AddedBy
  <2>3. g \in [Topups -> Int]
    <3> SUFFICES ASSUME NEW v \in Topups
                 PROVE  credits'[v] * customer_topups'[v].amount \in Int
      BY DEF AddedBy
    <3>1. credits'[v] \in Int /\ customer_topups'[v].amount \in Int
      BY DEF Inv, TopupsOK, Topup
    <3>2. QED
      BY <3>1
  <2>4. \A v \in Topups \ {w} : g[v] = f[v]
    BY <1>3 DEF AddedBy
  <2>5. f[w] = credits[w] * amount /\ g[w] = (credits[w] + 1) * amount
    BY <1>2, <1>3, <1>4 DEF AddedBy
  <2> HIDE DEF f, g
  <2>6. SumFunction(g) = SumFunction(f) + (g[w] - f[w])
    BY <1>2, <2>1, <2>3, <2>4, TablesAssumption, SumFunctionChange
  <2>7. g[w] - f[w] = amount
    <3>1. \A n, a \in Nat : (n + 1) * a - n * a = a
      OBVIOUS
    <3>2. QED
      BY <1>2, <1>4, <2>5, <3>1
  <2>8. QED
    BY <2>1, <2>2, <2>6, <2>7
<1>10. wallet_balance'[c] = wallet_balance[c] + amount
  BY <1>1, <1>2 DEF Inv, WalletsOK
<1>11. Spent(c)' = Spent(c)
  BY <1>1 DEF Spent
<1>12. wallet_balance'[c] = Opening + Added(c)' - Spent(c)'
  <2>1. Added(c) \in Int /\ Spent(c) \in Int /\ Opening \in Int
    BY <1>2, SumsOfWallet, OpeningAssumption
  <2>2. wallet_balance[c] = Opening + Added(c) - Spent(c)
    BY <1>2 DEF WalletBooks
  <2>3. QED
    BY <1>2, <1>9, <1>10, <1>11, <2>1, <2>2
<1>13. QED
  BY <1>8, <1>12 DEF WalletBooks

\* The order holds the price that is taken.
LEMMA PackageBooks ==
    ASSUME Inv, Books, NEW t \in Tasks, NEW o \in Orders, PayPackage(t, o)
    PROVE  WalletBooks' /\ OrdersPriced'
<1> DEFINE price == task[t].price
<1>0. PICK c \in Customers : c = task[t].customer /\ price \in Int
  BY AmountsAreNumbers DEF PayPackage, Inv, TasksOK, TaskOK
<1> DEFINE new == [order_type |-> "package", customer |-> c, price |-> price, code |-> None]
<1>1. /\ orders[o].order_type = "none"
      /\ wallet_balance' = [wallet_balance EXCEPT ![c] = @ - price]
      /\ orders' = [orders EXCEPT ![o] = new]
      /\ UNCHANGED <<customer_topups, credits>>
  BY <1>0 DEF PayPackage, FreeOrders, topupVars
<1>2. price \in Int
  BY <1>0
<1>3. /\ orders'[o] = new /\ orders[o] = NoOrder
      /\ \A p \in Orders \ {o} : orders'[p] = orders[p]
  BY <1>1 DEF Inv, StockOK, Books, OrdersPriced
<1>4. new.customer = c /\ new.price = price /\ new.order_type = "package"
  OBVIOUS
<1> HIDE DEF new, price
<1>5. NoOrder.customer = None /\ NoOrder.price = 0 /\ \A d \in Customers : d # None
  BY NoneAssumption DEF NoOrder
<1>6. \A d \in Customers : AddedBy(d)' = AddedBy(d)
  BY <1>1 DEF AddedBy
<1>7. \A d \in Customers \ {c} : /\ wallet_balance'[d] = wallet_balance[d]
                                 /\ SpentBy(d)' = SpentBy(d)
  BY <1>1, <1>3, <1>4, <1>5 DEF SpentBy
<1>8. \A d \in Customers \ {c} : wallet_balance'[d] = Opening + Added(d)' - Spent(d)'
  BY <1>6, <1>7, BooksOfOthers DEF Books
<1>9. Spent(c)' = Spent(c) + price
  <2> DEFINE f == SpentBy(c)
             g == SpentBy(c)'
  <2>1. f \in [Orders -> Int] /\ Spent(c) = SumFunction(f)
    BY <1>2, SumsOfWallet
  <2>2. Spent(c)' = SumFunction(g)
    BY DEF Spent, SpentBy
  <2>3. f[o] = 0 /\ g[o] = price /\ \A p \in Orders \ {o} : g[p] = f[p]
    BY <1>2, <1>3, <1>4, <1>5 DEF SpentBy
  <2>4. g \in [Orders -> Int]
    <3>1. g = [p \in Orders |-> g[p]]
      BY DEF SpentBy
    <3>2. \A p \in Orders : g[p] \in Int
      BY <1>2, <2>1, <2>3
    <3> HIDE DEF g
    <3>3. QED
      BY <3>1, <3>2
  <2> HIDE DEF f, g
  <2>5. SumFunction(g) = SumFunction(f) + (g[o] - f[o]) /\ SumFunction(f) \in Int
    BY <2>1, <2>3, <2>4, TablesAssumption, SumFunctionChange, SumFunctionType
  <2>6. QED
    BY <1>2, <2>1, <2>2, <2>3, <2>5
<1>10. wallet_balance'[c] = wallet_balance[c] - price
  BY <1>1, <1>2 DEF Inv, WalletsOK
<1>11. Added(c)' = Added(c)
  BY <1>1 DEF Added
<1>12. wallet_balance'[c] = Opening + Added(c)' - Spent(c)'
  <2>1. Added(c) \in Int /\ Spent(c) \in Int /\ Opening \in Int
    BY <1>2, SumsOfWallet, OpeningAssumption
  <2>2. wallet_balance[c] = Opening + Added(c) - Spent(c)
    BY <1>2 DEF Books, WalletBooks
  <2>3. QED
    BY <1>2, <1>9, <1>10, <1>11, <2>1, <2>2
<1>13. OrdersPriced'
  BY <1>3, <1>4 DEF Books, OrdersPriced
<1>14. QED
  BY <1>8, <1>12, <1>13 DEF WalletBooks

\* As many orders are made as rows were locked.
LEMMA DeliverBooks ==
    ASSUME Inv, Books, NEW t \in Tasks, NEW id \in Injection(task[t].rows, FreeOrders),
           Deliver(t, id)
    PROVE  WalletBooks' /\ OrdersPriced'
<1> DEFINE price == task[t].price
           rows == task[t].rows
           made == {o \in Orders : \E r \in rows : id[r] = o}
<1>0. PICK c \in Customers : c = task[t].customer
  BY DEF Deliver, SellRows, Inv, TasksOK, TaskOK
<1>1. /\ task[t].at = "deliver" /\ DOMAIN id = rows
      /\ wallet_balance' = [wallet_balance EXCEPT ![c] = @ - task[t].amount]
      /\ UNCHANGED <<customer_topups, credits>>
  BY <1>0, DeliverIds DEF Deliver, SellRows, topupVars
<1>2. price \in Int /\ task[t].amount = task[t].quantity * price
      /\ task[t].quantity \in Nat /\ Cardinality(rows) = task[t].quantity
  BY <1>1 DEF Inv, TasksOK, TaskOK, Task, Books, CostsKnown, CostKnown
<1>3. /\ \A o \in made : /\ orders'[o].order_type = "charge"
                         /\ orders'[o].customer = c /\ orders'[o].price = price
      /\ \A o \in Orders \ made : orders'[o] = orders[o]
  BY <1>0, <1>1 DEF Deliver, SellRows
<1>4. made \subseteq FreeOrders /\ \A o \in made : orders[o] = NoOrder
  <2>1. \A r \in rows : id[r] \in FreeOrders
    BY DeliverIds
  <2>2. made \subseteq FreeOrders
    BY <2>1
  <2>3. \A o \in FreeOrders : orders[o] = NoOrder
    BY DEF FreeOrders, Books, OrdersPriced
  <2>4. QED
    BY <2>2, <2>3
<1>5. Cardinality(made) = task[t].quantity
  <2>1. id \in Injection(rows, made) /\ id \in Surjection(rows, made)
    <3>1. id \in [rows -> made]
      <4>1. id \in [rows -> FreeOrders]
        BY DeliverIds
      <4>2. \A r \in rows : id[r] \in made
        BY <4>1 DEF FreeOrders
      <4> HIDE DEF made, rows
      <4>3. QED
        BY <4>1, <4>2
    <3>2. id \in Injection(rows, made)
      BY <3>1 DEF Injection
    <3>3. id \in Surjection(rows, made)
      BY <3>1 DEF Surjection
    <3>4. QED
      BY <3>2, <3>3
  <2>2. IsFiniteSet(made)
    BY TablesAssumption, FS_Subset
  <2> HIDE DEF made
  <2>3. Cardinality(rows) = Cardinality(made)
    BY <2>1, <2>2, FS_Injection
  <2>4. QED
    BY <1>2, <2>3
<1>6. made \subseteq Orders
  OBVIOUS
<1> HIDE DEF made, rows, price
<1>7. NoOrder.customer = None /\ NoOrder.price = 0 /\ \A d \in Customers : d # None
  BY NoneAssumption DEF NoOrder
<1>8. \A d \in Customers : AddedBy(d)' = AddedBy(d)
  BY <1>1 DEF AddedBy
<1>9. \A d \in Customers \ {c} : wallet_balance'[d] = wallet_balance[d]
  BY <1>1
<1>10. \A d \in Customers \ {c} : SpentBy(d)' = SpentBy(d)
  BY <1>3, <1>4, <1>7 DEF SpentBy
<1>11. \A d \in Customers \ {c} : wallet_balance'[d] = Opening + Added(d)' - Spent(d)'
  BY <1>8, <1>9, <1>10, BooksOfOthers DEF Books
<1>12. Spent(c)' = Spent(c) + task[t].amount
  <2> DEFINE f == SpentBy(c)
             g == SpentBy(c)'
  <2>1. f \in [Orders -> Int] /\ Spent(c) = SumFunction(f)
    BY <1>2, SumsOfWallet
  <2>2. Spent(c)' = SumFunction(g)
    BY DEF Spent, SpentBy
  <2>3. \A o \in made : f[o] = 0 /\ g[o] = price
    BY <1>2, <1>3, <1>4, <1>6, <1>7 DEF SpentBy
  <2>4. \A o \in Orders \ made : g[o] = f[o]
    BY <1>3 DEF SpentBy
  <2>5. g \in [Orders -> Int]
    <3>1. g = [p \in Orders |-> g[p]]
      BY DEF SpentBy
    <3>2. \A p \in Orders : g[p] \in Int
      BY <1>2, <2>1, <2>3, <2>4
    <3> HIDE DEF g
    <3>3. QED
      BY <3>1, <3>2
  <2> HIDE DEF f, g
  <2>6. \A o \in made : g[o] = f[o] + price
    BY <1>2, <2>3
  <2>7. SumFunction(g) = SumFunction(f) + Cardinality(made) * price
    BY <1>2, <1>6, <2>1, <2>4, <2>5, <2>6, TablesAssumption, SumFunctionChangeAll
  <2>8. QED
    BY <1>2, <1>5, <2>1, <2>2, <2>7
<1>13. wallet_balance'[c] = wallet_balance[c] - task[t].amount
  BY <1>1, <1>2 DEF Inv, WalletsOK
<1>14. Added(c)' = Added(c)
  BY <1>1 DEF Added
<1>15. wallet_balance'[c] = Opening + Added(c)' - Spent(c)'
  <2>1. Added(c) \in Int /\ Spent(c) \in Int /\ Opening \in Int /\ task[t].amount \in Int
    BY <1>2, SumsOfWallet, OpeningAssumption
  <2>2. wallet_balance[c] = Opening + Added(c) - Spent(c)
    BY <1>2 DEF Books, WalletBooks
  <2>3. QED
    BY <1>12, <1>13, <1>14, <2>1, <2>2
<1>16. OrdersPriced'
  BY <1>3 DEF Books, OrdersPriced
<1>17. QED
  BY <1>11, <1>15, <1>16 DEF WalletBooks

LEMMA BooksInit == Init => Books
<1> SUFFICES ASSUME Init PROVE Books
  OBVIOUS
<1>1. OrdersPriced
  BY DEF Init, OrdersPriced
<1>2. CostsKnown
  BY IdleIsTask DEF Init, CostsKnown, CostKnown
<1>3. ASSUME NEW c \in Customers
      PROVE  wallet_balance[c] = Opening + Added(c) - Spent(c)
  <2>1. c # None
    BY NoneAssumption
  <2>2. AddedBy(c) \in [Topups -> {0}] /\ SpentBy(c) \in [Orders -> {0}]
    BY <2>1 DEF Init, AddedBy, SpentBy, NoTopup, NoOrder
  <2>3. Added(c) = 0 /\ Spent(c) = 0
    BY <2>2, TablesAssumption, SumFunctionZero DEF Added, AddedBy, Spent, SpentBy
  <2>4. QED
    BY <2>3, OpeningAssumption DEF Init
<1>4. QED
  BY <1>1, <1>2, <1>3 DEF Books, WalletBooks

LEMMA BooksNext == Inv /\ Credited /\ Books /\ [Next]_vars => Books'
<1> SUFFICES ASSUME Inv, Credited, Books, [Next]_vars PROVE OrdersPriced' /\ WalletBooks'
  BY CostsNext DEF Books
<1>0. Inv' /\ WalletBooks /\ OrdersPriced
  BY InvNext DEF Books
<1>1. ASSUME UNCHANGED <<wallet_balance, customer_topups, credits, orders>>
      PROVE  OrdersPriced' /\ WalletBooks'
  BY <1>0, <1>1, BooksUntouched DEF OrdersPriced
<1>2. CASE UNCHANGED vars
  BY <1>1, <1>2 DEF vars, topupVars, shopVars
<1>3. ASSUME NEW t \in Tasks, Begin(t) \/ Fail(t) PROVE OrdersPriced' /\ WalletBooks'
  BY <1>1, <1>3 DEF Begin, ConfirmTopup, StartPackage, StartPurchase, AddCodes,
     Fail, OnlyTask, topupVars, shopVars
<1>4. ASSUME NEW t \in Tasks, Continue(t) PROVE OrdersPriced' /\ WalletBooks'
  <2>1. CASE CreditWallet(t) \/ CreditWalletWithoutCredit(t)
    <3>1. PICK st : CreditCustomer(t, st)
      BY <2>1 DEF CreditWallet, CreditWalletWithoutCredit
    <3>2. WalletBooks'
      BY <1>0, <3>1, CreditBooks
    <3>3. OrdersPriced'
      BY <1>0, <3>1 DEF CreditCustomer, shopVars, OrdersPriced
    <3>4. QED
      BY <3>2, <3>3
  <2>2. CASE \E o \in Orders : PayPackage(t, o)
    BY <2>2, PackageBooks
  <2>3. CASE \E id \in Injection(task[t].rows, FreeOrders) : Deliver(t, id)
    BY <2>3, DeliverBooks
  <2>4. CASE \/ ReadPercent(t) \/ RefusePackage(t) \/ LockWallet(t) \/ RefusePurchase(t)
             \/ LockCodes(t) \/ OutOfStock(t)
             \/ \E r \in Rows, code \in task[t].codes : InsertCode(t, r, code)
    BY <1>1, <2>4 DEF ReadPercent, RefusePackage, LockWallet, RefusePurchase, LockCodes,
       OutOfStock, InsertCode, OnlyTask, topupVars, shopVars
  <2>5. QED
    BY <1>4, <2>1, <2>2, <2>3, <2>4 DEF Continue
<1>5. ASSUME NEW w \in Topups, NEW c \in Customers, NEW amount \in TopupAmounts,
             RequestTopup(w, c, amount)
      PROVE  OrdersPriced' /\ WalletBooks'
  <2>1. /\ credits[w] = 0 /\ customer_topups \in [Topups -> Topup]
        /\ UNCHANGED <<wallet_balance, credits, orders>>
        /\ \A v \in Topups \ {w} : customer_topups'[v] = customer_topups[v]
        /\ customer_topups'[w].amount = amount
        /\ amount \in Nat /\ customer_topups[w].amount \in Nat
    BY <1>5, TopupAmountsAssumption
       DEF RequestTopup, Credited, Inv, TopupsOK, Topup, shopVars
  <2>2. \A d \in Customers : SpentBy(d)' = SpentBy(d)
    BY <2>1 DEF SpentBy
  <2>3. credits[w] * amount = 0 /\ credits[w] * customer_topups[w].amount = 0
    BY <2>1
  <2>4. ASSUME NEW d \in Customers PROVE AddedBy(d)' = AddedBy(d)
    <3> SUFFICES ASSUME NEW v \in Topups
                 PROVE  (IF customer_topups'[v].customer = d
                         THEN credits'[v] * customer_topups'[v].amount ELSE 0) =
                        (IF customer_topups[v].customer = d
                         THEN credits[v] * customer_topups[v].amount ELSE 0)
      BY DEF AddedBy
    <3>1. CASE v = w
      BY <2>1, <2>3, <3>1
    <3>2. CASE v # w
      BY <2>1, <3>2
    <3>3. QED
      BY <3>1, <3>2
  <2>5. QED
    BY <1>0, <2>1, <2>2, <2>4, BooksStay DEF OrdersPriced
<1>6. ASSUME NEW w \in Topups, RejectTopup(w) PROVE OrdersPriced' /\ WalletBooks'
  <2>1. /\ UNCHANGED <<wallet_balance, credits, orders>>
        /\ \A v \in Topups : /\ customer_topups'[v].customer = customer_topups[v].customer
                             /\ customer_topups'[v].amount = customer_topups[v].amount
    BY <1>6 DEF RejectTopup, Inv, TopupsOK, Topup, shopVars
  <2>2. \A d \in Customers : AddedBy(d)' = AddedBy(d) /\ SpentBy(d)' = SpentBy(d)
    BY <2>1 DEF AddedBy, SpentBy
  <2>3. QED
    BY <1>0, <2>1, <2>2, BooksStay DEF OrdersPriced
<1>7. CASE ShortStep
  BY <1>1, <1>5, <1>6, <1>7 DEF ShortStep, ReceiveTopupReceipt, DeleteAvailableCode,
     ClearCodes, SetPrice, SetCommissionPercent, topupVars, shopVars
<1>8. CASE Restart
  BY <1>1, <1>8 DEF Restart, topupVars, shopVars
<1>9. QED
  BY <1>2, <1>3, <1>4, <1>7, <1>8 DEF Next

\* What a customer has is what topups added less what the orders cost, however
\* purchases, price changes, taps and failures interleave.
THEOREM CustomerWalletBooks == Spec => []WalletBooks
<1>1. Books => WalletBooks
  BY DEF Books
<1>2. Inv /\ Credited /\ [Next]_vars => Credited'
  BY CreditedNext
<1>3. QED
  BY <1>1, <1>2, SpecInv, CreditedInit, BooksInit, BooksNext, PTL DEF Spec

-----------------------------------------------------------------------------
(* The wallet implements the reseller's account.                           *)

LEMMA WalletAccountNext == Inv /\ [Next]_vars => [Account!Next]_(Account!accountVars)
<1> SUFFICES ASSUME Inv, [Next]_vars PROVE Account!Next \/ UNCHANGED accountVars
  BY DEF accountVars, Account!accountVars
<1>1. CASE UNCHANGED vars
  BY <1>1 DEF vars
<1>2. ASSUME NEW t \in Tasks, Begin(t) \/ Fail(t) PROVE UNCHANGED accountVars
  BY <1>2 DEF Begin, ConfirmTopup, StartPackage, StartPurchase, AddCodes, Fail, OnlyTask
<1>3. ASSUME NEW t \in Tasks, CreditWallet(t) PROVE Account!Next
  <2>1. Account!DeductCommission(task[t].topup, task[t].amount)
    BY <1>3 DEF CreditWallet
  <2>2. task[t].topup \in Topups /\ task[t].amount \in CommissionAmounts
    BY <1>3 DEF CreditWallet, CreditCustomer, Inv, TasksOK, TaskOK, Known
  <2>3. QED
    BY <2>1, <2>2 DEF Account!Next, CommissionAmounts
<1>4. ASSUME NEW t \in Tasks, Continue(t), ~CreditWallet(t) PROVE UNCHANGED accountVars
  BY <1>4 DEF Continue, ReadPercent, CreditWalletWithoutCredit, PayPackage, RefusePackage,
     LockWallet, RefusePurchase, LockCodes, OutOfStock, Deliver, SellRows, InsertCode,
     OnlyTask
<1>5. CASE ShortStep
  BY <1>5 DEF ShortStep, RequestTopup, RejectTopup, ReceiveTopupReceipt, DeleteAvailableCode,
     ClearCodes, SetPrice, SetCommissionPercent
<1>6. CASE Restart
  BY <1>6 DEF Restart
<1>7. QED
  BY <1>1, <1>2, <1>3, <1>4, <1>5, <1>6 DEF Next

(* Whatever the wallet's handlers do to the reseller's account is one of   *)
(* the account's operations, as it is for the order flow: the account's    *)
(* promises hold however the two are interleaved.                          *)
THEOREM CustomerWalletImplementsAccount == Spec => ImplementsAccount
<1>1. Init => Account!Init
  BY DEF Init
<1>2. QED
  BY <1>1, SpecInv, WalletAccountNext, PTL DEF Spec, ImplementsAccount, Account!Spec

-----------------------------------------------------------------------------
(* The wallet and the stock implement the shop.                            *)

Owners == [r \in Rows |-> IF Sold(r) THEN charge_codes[r].customer ELSE None]

\* No step of the shop: money and codes stay where they are.
LEMMA ShopStutters ==
    ASSUME UNCHANGED wallet_balance, UNCHANGED charge_codes
    PROVE  UNCHANGED Shop!shopVars
<1>1. AvailableRows' = AvailableRows /\ Owners' = Owners
  BY DEF AvailableRows, Owners, Sold
<1>2. QED
  BY <1>1 DEF Shop!shopVars, Owners

LEMMA ShopInit == Init => Shop!Init
<1> SUFFICES ASSUME Init PROVE Shop!Init
  OBVIOUS
<1>1. \A r \in Rows : charge_codes[r].status = "none"
  BY DEF Init, NoCode
<1>2. AvailableRows = {} /\ Owners = [r \in Rows |-> None]
  BY <1>1 DEF AvailableRows, Owners, Sold
<1>3. QED
  BY <1>2 DEF Shop!Init, Init, Owners

LEMMA ShopMoney ==
    ASSUME Inv, NEW t \in Tasks,
           \/ CreditWallet(t) \/ CreditWalletWithoutCredit(t)
           \/ \E o \in Orders : PayPackage(t, o)
    PROVE  Shop!Next
<1>1. AvailableRows' = AvailableRows /\ Owners' = Owners
  BY DEF CreditWallet, CreditWalletWithoutCredit, CreditCustomer, PayPackage, shopVars,
     AvailableRows, Owners, Sold
<1>2. CASE CreditWallet(t) \/ CreditWalletWithoutCredit(t)
  <2> DEFINE w == task[t].topup
             c == customer_topups[w].customer
  <2>1. /\ task[t].at = "credit"
        /\ wallet_balance' = [wallet_balance EXCEPT ![c] = @ + customer_topups[w].amount]
    BY <1>2 DEF CreditWallet, CreditWalletWithoutCredit, CreditCustomer
  <2>2. c \in Customers /\ customer_topups[w].amount \in TopupAmounts
    BY <2>1 DEF Inv, TasksOK, TaskOK, TopupsOK, Known
  <2>3. Shop!Credit(c, customer_topups[w].amount)
    BY <1>1, <2>1 DEF Shop!Credit, Owners
  <2>4. QED
    BY <2>2, <2>3 DEF Shop!Next, ShopAmounts
<1>3. CASE \E o \in Orders : PayPackage(t, o)
  <2> DEFINE c == task[t].customer
  <2>1. /\ task[t].at = "pay" /\ wallet_balance[c] >= task[t].price
        /\ wallet_balance' = [wallet_balance EXCEPT ![c] = @ - task[t].price]
    BY <1>3 DEF PayPackage
  <2>2. c \in Customers /\ task[t].price \in Prices /\ task[t].price \in Int /\ wallet_balance[c] \in Int
    BY <2>1, AmountsAreNumbers DEF Inv, TasksOK, TaskOK, WalletsOK
  <2>3. Shop!Spend(c, task[t].price)
    BY <1>1, <2>1, <2>2 DEF Shop!Spend, Shop!Pay, Owners
  <2>4. QED
    BY <2>2, <2>3 DEF Shop!Next, ShopAmounts
<1>4. QED
  BY <1>2, <1>3

LEMMA ShopSale ==
    ASSUME Inv, NEW t \in Tasks, NEW id \in Injection(task[t].rows, FreeOrders), Deliver(t, id)
    PROVE  Shop!Next
<1> DEFINE c == task[t].customer
           rows == task[t].rows
<1>1. /\ task[t].at = "deliver" /\ SellRows(t, id)
      /\ wallet_balance' = [wallet_balance EXCEPT ![c] = @ - task[t].amount]
  BY DEF Deliver, SellRows
<1>2. /\ c \in Customers /\ task[t].amount \in Totals /\ task[t].amount <= wallet_balance[c]
      /\ rows \subseteq AvailableRows /\ rows \subseteq Rows
      /\ charge_codes \in [Rows -> ChargeCode]
  BY <1>1 DEF Inv, TasksOK, TaskOK, StockOK, AvailableRows
<1>3. /\ \A r \in rows : charge_codes'[r].status = "sold" /\ charge_codes'[r].customer = c
      /\ \A r \in Rows \ rows : charge_codes'[r] = charge_codes[r]
  BY <1>1, <1>2 DEF SellRows, ChargeCode
<1>4. AvailableRows' = AvailableRows \ rows
  BY <1>2, <1>3 DEF AvailableRows
<1>5. Owners' = [r \in Rows |-> IF r \in rows THEN c ELSE Owners[r]]
  BY <1>2, <1>3 DEF Owners, Sold
<1>6. PICK b, items, amount : b = c /\ items = rows /\ amount = task[t].amount
  OBVIOUS
<1>7. Shop!Sell(b, items, amount)
  BY <1>1, <1>2, <1>4, <1>5, <1>6 DEF Shop!Sell, Shop!Pay, Owners
<1>8. b \in Customers /\ items \in SUBSET Rows /\ amount \in ShopAmounts
  BY <1>2, <1>6 DEF ShopAmounts
<1>9. QED
  BY <1>7, <1>8 DEF Shop!Next

\* Codes that come and go.
LEMMA ShopStock ==
    ASSUME Inv,
           \/ \E t \in Tasks, r \in Rows : \E code \in task[t].codes : InsertCode(t, r, code)
           \/ \E r \in Rows : DeleteAvailableCode(r)
           \/ ClearCodes
    PROVE  Shop!Next
<1>1. UNCHANGED wallet_balance /\ charge_codes \in [Rows -> ChargeCode]
  BY DEF InsertCode, DeleteAvailableCode, ClearCodes, Inv, StockOK
<1>2. ASSUME NEW t \in Tasks, NEW r \in Rows, NEW code \in task[t].codes, InsertCode(t, r, code)
      PROVE  Shop!Next
  <2>1. /\ charge_codes[r].status = "none" /\ charge_codes'[r].status = "available"
        /\ \A s \in Rows \ {r} : charge_codes'[s] = charge_codes[s]
    BY <1>1, <1>2 DEF InsertCode, FreeRows, NoCode
  <2>2. r \notin AvailableRows /\ Owners[r] = None
    BY <2>1 DEF AvailableRows, Owners, Sold
  <2>3. AvailableRows' = AvailableRows \cup {r}
    BY <2>1 DEF AvailableRows
  <2>4. Owners' = Owners
    BY <2>1 DEF Owners, Sold
  <2>5. Shop!Supply(r)
    BY <1>1, <2>2, <2>3, <2>4 DEF Shop!Supply, Owners
  <2>6. QED
    BY <2>5 DEF Shop!Next
<1>3. ASSUME NEW gone \in SUBSET AvailableRows,
             \A r \in Rows : charge_codes'[r] = IF r \in gone
                                 THEN [charge_codes[r] EXCEPT !.status = "deleted"]
                                 ELSE charge_codes[r]
      PROVE  Shop!Next
  <2>1. gone \subseteq Rows /\ \A r \in gone : charge_codes[r].status = "available"
    BY DEF AvailableRows
  <2>2. \A r \in gone : charge_codes'[r].status = "deleted"
    BY <1>1, <1>3, <2>1 DEF ChargeCode
  <2>3. AvailableRows' = AvailableRows \ gone
    BY <1>3, <2>2 DEF AvailableRows
  <2>4. Owners' = Owners
    BY <1>3, <2>1, <2>2 DEF Owners, Sold
  <2>5. Shop!Withdraw(gone)
    BY <1>1, <2>3, <2>4 DEF Shop!Withdraw, Owners
  <2>6. QED
    BY <2>1, <2>5 DEF Shop!Next
<1>4. ASSUME NEW r \in Rows, DeleteAvailableCode(r) PROVE Shop!Next
  <2>1. {r} \in SUBSET AvailableRows
    BY <1>4 DEF DeleteAvailableCode, AvailableRows
  <2>2. \A s \in Rows : charge_codes'[s] = IF s \in {r}
                            THEN [charge_codes[s] EXCEPT !.status = "deleted"]
                            ELSE charge_codes[s]
    BY <1>1, <1>4 DEF DeleteAvailableCode
  <2>3. QED
    BY <1>3, <2>1, <2>2
<1>5. CASE ClearCodes
  BY <1>3, <1>5 DEF ClearCodes
<1>6. QED
  BY <1>2, <1>4, <1>5

LEMMA ShopNext == Inv /\ [Next]_vars => [Shop!Next]_(Shop!shopVars)
<1> SUFFICES ASSUME Inv, [Next]_vars PROVE Shop!Next \/ UNCHANGED Shop!shopVars
  OBVIOUS
<1>1. CASE UNCHANGED vars
  BY <1>1, ShopStutters DEF vars, shopVars
<1>2. ASSUME NEW t \in Tasks, Begin(t) \/ Fail(t) PROVE UNCHANGED Shop!shopVars
  BY <1>2, ShopStutters DEF Begin, ConfirmTopup, StartPackage, StartPurchase, AddCodes,
     Fail, OnlyTask, shopVars
<1>3. ASSUME NEW t \in Tasks, Continue(t) PROVE Shop!Next \/ UNCHANGED Shop!shopVars
  <2>1. CASE CreditWallet(t) \/ CreditWalletWithoutCredit(t) \/ \E o \in Orders : PayPackage(t, o)
    BY <2>1, ShopMoney
  <2>2. CASE \E id \in Injection(task[t].rows, FreeOrders) : Deliver(t, id)
    BY <2>2, ShopSale
  <2>3. CASE \E r \in Rows, code \in task[t].codes : InsertCode(t, r, code)
    BY <2>3, ShopStock
  <2>4. CASE ReadPercent(t) \/ RefusePackage(t) \/ LockWallet(t) \/ RefusePurchase(t)
             \/ LockCodes(t) \/ OutOfStock(t)
    BY <2>4, ShopStutters DEF ReadPercent, RefusePackage, LockWallet, RefusePurchase,
       LockCodes, OutOfStock, OnlyTask, shopVars
  <2>5. QED
    BY <1>3, <2>1, <2>2, <2>3, <2>4 DEF Continue
<1>4. CASE ShortStep
  <2>1. CASE (\E r \in Rows : DeleteAvailableCode(r)) \/ ClearCodes
    BY <2>1, ShopStock
  <2>2. CASE ~((\E r \in Rows : DeleteAvailableCode(r)) \/ ClearCodes)
    BY <1>4, <2>2, ShopStutters DEF ShortStep, RequestTopup, RejectTopup, ReceiveTopupReceipt,
       SetPrice, SetCommissionPercent, shopVars
  <2>3. QED
    BY <2>1, <2>2
<1>5. CASE Restart
  BY <1>5, ShopStutters DEF Restart, shopVars
<1>6. QED
  BY <1>1, <1>2, <1>3, <1>4, <1>5 DEF Next

(* Customers spend only what was credited, and a code is handed to one     *)
(* customer, once, in the step that takes the money.                       *)
THEOREM CustomerWalletImplementsShop == Spec => ImplementsShop
BY SpecInv, ShopInit, ShopNext, PTL DEF Spec, ImplementsShop, Shop!Spec
=============================================================================
