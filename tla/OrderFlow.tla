------------------------------ MODULE OrderFlow ------------------------------
(***************************************************************************)
(* The life of an order paid by receipt, at one reseller: purchase,        *)
(* receipt, review, activation, dispute (services/order_service.py,        *)
(* services/dispute_service.py, services/blacklist_service.py and the      *)
(* handlers that call them), on the reseller's commission account.         *)
(*                                                                         *)
(* Every update that reaches a bot is handled by a task of its own on one  *)
(* event loop, so two handlers interleave at every database call.  A call  *)
(* of fetch_one or execute is a transaction by itself; a block under       *)
(* transaction() is one transaction that holds the row locks.  A task is   *)
(* therefore a program counter that moves one database call at a time,     *)
(* with what it read kept in its record.                                   *)
(*                                                                         *)
(* Buttons stay in a Telegram chat: a tap on one may come at any time      *)
(* after the message with it was sent, and any number of times.            *)
(***************************************************************************)
EXTENDS Integers, Sequences, FiniteSets

CONSTANTS Customers,     \* customers of this reseller
          Staff,         \* the reseller and the operators: who may tap its buttons
          Orders,        \* ids of the rows of orders
          Disputes,      \* ids of the rows of disputes
          Topups,        \* ids of the reseller's topup rows
          Tasks,         \* the handler tasks that may be alive at a time
          None,          \* no row, no person
          Price,         \* package_price of an order, without discounts
          Percents,      \* commission percentages the admin may set
          TopupAmounts,  \* amounts a topup may be requested for
          CreditLimit,   \* resellers.credit_limit_negative
          MaxPending,    \* Config.MAX_PENDING_ORDERS_PER_CUSTOMER
          TestLimit,     \* resellers.test_mode_order_limit; 0: never in test mode
          FakeThreshold, \* AUTO_BLACKLIST_THRESHOLD
          TasksFail      \* TRUE: handlers may raise and the process may restart

\* Taken on trust from the reseller and the admin: the handlers check neither the
\* sign of a price nor that of the percentage and limit of a new reseller.
ASSUME PriceAssumption == Price \in Nat
ASSUME PercentsAssumption == Percents \subseteq Nat
ASSUME CreditLimitAssumption == CreditLimit \in Nat
ASSUME TopupAmountsAssumption == TopupAmounts \subseteq Int
ASSUME MaxPendingAssumption == MaxPending \in Nat
ASSUME TestLimitAssumption == TestLimit \in Nat
ASSUME FakeThresholdAssumption == FakeThreshold \in Nat \ {0}
\* The handlers alive at a time are held in the memory of one process.
ASSUME TasksAssumption == IsFiniteSet(Tasks)
ASSUME TasksFailAssumption == TasksFail \in BOOLEAN
ASSUME NoneAssumption ==
    None \notin Customers \cup Staff \cup Orders \cup Disputes

VARIABLES
    \* the account of the reseller (module CommissionAccount)
    wallet_credit_balance, deductions, refunds, topups,
    \* the columns of orders
    status, customer_id, commission_amount, is_test_order, paid_from_wallet,
    \* the resellers row
    commission_percent, test_mode_enabled, test_mode_orders_used,
    \* the disputes rows and the customers on the shared blacklist
    disputes, blacklist,
    \* what the chats hold: the order a customer is asked a receipt for, the
    \* order a member of staff is asked a dispute's reason for, the buttons
    \* that were sent for an order
    waiting_receipt, entering_reason, buttons,
    \* the handler tasks
    task

accountVars  == <<wallet_credit_balance, deductions, refunds, topups>>
orderVars    == <<status, customer_id, commission_amount, is_test_order, paid_from_wallet>>
resellerVars == <<commission_percent, test_mode_enabled, test_mode_orders_used>>
disputeVars  == <<disputes, blacklist>>
chatVars     == <<waiting_receipt, entering_reason, buttons>>
vars == <<accountVars, orderVars, resellerVars, disputeVars, chatVars, task>>

\* The commission of an order, in hundredths of the currency unit: a price is a
\* whole number of units here and a percentage a whole number.
Commission(percent) == Price * percent

Account == INSTANCE CommissionAccount WITH
               References <- Orders,
               Amounts <- {0} \cup {Commission(p) : p \in Percents}

-----------------------------------------------------------------------------
Status == {"none", "awaiting_payment", "awaiting_receipt_review", "confirmed",
           "activated", "rejected", "refund_pending", "refunded",
           "failed_insufficient_credit"}

Button == {"review", "activate", "dispute"}

Dispute == [order : Orders \cup {None},
            review_status : {"none", "pending", "approved", "rejected"}]
NoDispute == [order |-> None, review_status |-> "none"]

\* The database call a task makes next.
Step == {"idle",
         "insert_order", "remember_order",
         "count_pending", "read_reseller", "submit", "clear_receipt",
         "read_test_flag", "bump_test_counter",
         "insert_dispute",
         "refund", "mark_approved", "mark_refunded",
         "count_fakes", "check_blacklist", "add_to_blacklist"}

\* The step a task is at and what its handler holds in local variables.
Task == [at      : Step,
         person  : Customers \cup Staff \cup {None},
         order   : Orders \cup {None},
         dispute : Disputes \cup {None},
         amount  : Nat,
         test    : BOOLEAN]
Idle == [at |-> "idle", person |-> None, order |-> None, dispute |-> None,
         amount |-> 0, test |-> FALSE]

Free(t) == task[t].at = "idle"
Start(t, local) == task' = [task EXCEPT ![t] = local]
Goto(t, step) == task' = [task EXCEPT ![t].at = step]
Finish(t) == task' = [task EXCEPT ![t] = Idle]

TypeOK ==
    /\ Account!TypeOK
    /\ status \in [Orders -> Status]
    /\ customer_id \in [Orders -> Customers \cup {None}]
    /\ commission_amount \in [Orders -> Nat]
    /\ is_test_order \in [Orders -> BOOLEAN]
    /\ paid_from_wallet \in [Orders -> BOOLEAN]
    /\ commission_percent \in Percents
    /\ test_mode_enabled \in BOOLEAN
    /\ test_mode_orders_used \in Nat
    /\ disputes \in [Disputes -> Dispute]
    /\ blacklist \subseteq Customers
    /\ waiting_receipt \in [Customers -> Orders \cup {None}]
    /\ entering_reason \in [Staff -> Orders \cup {None}]
    /\ buttons \in [Orders -> SUBSET Button]
    /\ task \in [Tasks -> Task]

\* A new reseller: nothing on the account (the default of the column) and,
\* when TestLimit is not 0, test mode switched on in the database by hand.
Init ==
    /\ Account!Init
    /\ status = [o \in Orders |-> "none"]
    /\ customer_id = [o \in Orders |-> None]
    /\ commission_amount = [o \in Orders |-> 0]
    /\ is_test_order = [o \in Orders |-> FALSE]
    /\ paid_from_wallet = [o \in Orders |-> FALSE]
    /\ commission_percent \in Percents
    /\ test_mode_enabled = (TestLimit > 0)
    /\ test_mode_orders_used = 0
    /\ disputes = [d \in Disputes |-> NoDispute]
    /\ blacklist = {}
    /\ waiting_receipt = [c \in Customers |-> None]
    /\ entering_reason = [s \in Staff |-> None]
    /\ buttons = [o \in Orders |-> {}]
    /\ task = [t \in Tasks |-> Idle]

-----------------------------------------------------------------------------
(* Purchase (handlers/customer/orders.py, create_order).                   *)

\* The customer sends the phone number and is_blacklisted lets the purchase
\* through.  The dialog has left the state in which a receipt is awaited.
StartPurchase(t, c) ==
    /\ Free(t)
    /\ c \notin blacklist
    /\ Start(t, [Idle EXCEPT !.at = "insert_order", !.person = c])
    /\ waiting_receipt' = [waiting_receipt EXCEPT ![c] = None]
    /\ UNCHANGED <<accountVars, orderVars, resellerVars, disputeVars,
                   entering_reason, buttons>>

\* CustomerBlacklistedError: nothing is inserted, the dialog is cleared.
RefusePurchase(c) ==
    /\ c \in blacklist
    /\ waiting_receipt' = [waiting_receipt EXCEPT ![c] = None]
    /\ UNCHANGED <<accountVars, orderVars, resellerVars, disputeVars,
                   entering_reason, buttons, task>>

\* The row of a new order.
NewOrder(o, c, st, paid) ==
    /\ status[o] = "none"
    /\ status' = [status EXCEPT ![o] = st]
    /\ customer_id' = [customer_id EXCEPT ![o] = c]
    /\ paid_from_wallet' = [paid_from_wallet EXCEPT ![o] = paid]
    /\ UNCHANGED <<commission_amount, is_test_order>>

\* create_order inserts the order as awaiting_payment.
InsertOrder(t, o) ==
    /\ task[t].at = "insert_order"
    /\ NewOrder(o, task[t].person, "awaiting_payment", FALSE)
    /\ task' = [task EXCEPT ![t].at = "remember_order", ![t].order = o]
    /\ UNCHANGED <<accountVars, resellerVars, disputeVars, chatVars>>

\* The handler stores the order's id in the dialog and awaits a receipt.
RememberOrder(t) ==
    /\ task[t].at = "remember_order"
    /\ waiting_receipt' = [waiting_receipt EXCEPT ![task[t].person] = task[t].order]
    /\ Finish(t)
    /\ UNCHANGED <<accountVars, orderVars, resellerVars, disputeVars,
                   entering_reason, buttons>>

\* create_order_paid_by_wallet succeeded instead: the order is confirmed at
\* once and the reseller is sent its activation button.  Whether the wallet
\* holds enough is left open here (the balance belongs to the wallet).
InsertOrderPaidByWallet(t, o) ==
    /\ task[t].at = "insert_order"
    /\ NewOrder(o, task[t].person, "confirmed", TRUE)
    /\ waiting_receipt' = [waiting_receipt EXCEPT ![task[t].person] = None]
    /\ buttons' = [buttons EXCEPT ![o] = @ \cup {"activate"}]
    /\ Finish(t)
    /\ UNCHANGED <<accountVars, resellerVars, disputeVars, entering_reason>>

-----------------------------------------------------------------------------
(* Receipt (receive_receipt, submit_receipt).                              *)

\* A photo arrives while a receipt is awaited.  submit_receipt reads the order
\* and does not look at its status.  (The price it reads changes only when a
\* discount code is applied, which is no part of this module.)
ReceiveReceipt(t, c) ==
    /\ Free(t)
    /\ waiting_receipt[c] # None
    /\ Start(t, [Idle EXCEPT !.at = "count_pending", !.person = c,
                             !.order = waiting_receipt[c]])
    /\ UNCHANGED <<accountVars, orderVars, resellerVars, disputeVars, chatVars>>

Pending(c) == {o \in Orders : customer_id[o] = c /\ status[o] = "awaiting_receipt_review"}

\* Faulty variant: the limit is compared with > instead of >=.
CountPending_OffByOne(t) ==
    /\ task[t].at = "count_pending"
    /\ IF Cardinality(Pending(customer_id[task[t].order])) > MaxPending
         THEN Finish(t)
         ELSE Goto(t, "read_reseller")
    /\ UNCHANGED <<accountVars, orderVars, resellerVars, disputeVars, chatVars>>

\* count_pending_orders; PendingOrderLimitExceeded ends the handler and the
\* dialog keeps waiting.
CountPending(t) ==
    /\ task[t].at = "count_pending"
    /\ IF Cardinality(Pending(customer_id[task[t].order])) >= MaxPending
         THEN Finish(t)
         ELSE Goto(t, "read_reseller")
    /\ UNCHANGED <<accountVars, orderVars, resellerVars, disputeVars, chatVars>>

\* The reseller's test mode and percentage are read before the transaction.
ReadReseller(t) ==
    /\ task[t].at = "read_reseller"
    /\ LET test == test_mode_enabled /\ test_mode_orders_used < TestLimit
       IN  task' = [task EXCEPT ![t].at = "submit",
                                ![t].test = test,
                                ![t].amount = IF test THEN 0
                                              ELSE Commission(commission_percent)]
    /\ UNCHANGED <<accountVars, orderVars, resellerVars, disputeVars, chatVars>>

\* The UPDATE of the order in submit_receipt's transaction.
WriteReceipt(t, st) ==
    LET o == task[t].order IN
    /\ status' = [status EXCEPT ![o] = st]
    /\ commission_amount' = [commission_amount EXCEPT ![o] = task[t].amount]
    /\ is_test_order' = [is_test_order EXCEPT ![o] = task[t].test]
    /\ UNCHANGED <<customer_id, paid_from_wallet>>

\* The transaction: a test order costs nothing, ...
SubmitTestReceipt(t) ==
    /\ task[t].at = "submit"
    /\ task[t].test
    /\ WriteReceipt(t, "awaiting_receipt_review")
    /\ Goto(t, "clear_receipt")
    /\ UNCHANGED <<accountVars, resellerVars, disputeVars, chatVars>>

\* Faulty variant: the commission is taken in a transaction of its own, ahead
\* of the UPDATE of the order.
SubmitReceipt_ChargeOnly(t) ==
    /\ task[t].at = "submit"
    /\ ~task[t].test
    /\ Account!DeductCommission(task[t].order, task[t].amount)
    /\ Goto(t, "clear_receipt")
    /\ UNCHANGED <<orderVars, resellerVars, disputeVars, chatVars>>

\* ... any other order is charged and goes to review, ...
SubmitReceipt(t) ==
    /\ task[t].at = "submit"
    /\ ~task[t].test
    /\ Account!DeductCommission(task[t].order, task[t].amount)
    /\ WriteReceipt(t, "awaiting_receipt_review")
    /\ Goto(t, "clear_receipt")
    /\ UNCHANGED <<resellerVars, disputeVars, chatVars>>

\* Faulty variants: the error is swallowed and the order goes to review; the
\* status is not one of the enum; the deduction is kept although it failed.
SubmitReceiptWithoutCredit_Swallowed(t) ==
    /\ task[t].at = "submit"
    /\ ~task[t].test
    /\ Account!InsufficientCredit(task[t].amount)
    /\ WriteReceipt(t, "awaiting_receipt_review")
    /\ Goto(t, "clear_receipt")
    /\ UNCHANGED <<accountVars, resellerVars, disputeVars, chatVars>>

SubmitReceiptWithoutCredit_BadStatus(t) ==
    /\ task[t].at = "submit"
    /\ ~task[t].test
    /\ Account!InsufficientCredit(task[t].amount)
    /\ WriteReceipt(t, "insufficient_credit")
    /\ Goto(t, "clear_receipt")
    /\ UNCHANGED <<accountVars, resellerVars, disputeVars, chatVars>>

SubmitReceiptWithoutCredit_NotRolledBack(t) ==
    /\ task[t].at = "submit"
    /\ ~task[t].test
    /\ Account!InsufficientCredit(task[t].amount)
    /\ WriteReceipt(t, "failed_insufficient_credit")
    /\ wallet_credit_balance' = wallet_credit_balance - task[t].amount
    /\ Goto(t, "clear_receipt")
    /\ UNCHANGED <<deductions, refunds, topups, resellerVars, disputeVars, chatVars>>

\* ... or is marked failed, with the amount that was not taken.
SubmitReceiptWithoutCredit(t) ==
    /\ task[t].at = "submit"
    /\ ~task[t].test
    /\ Account!InsufficientCredit(task[t].amount)
    /\ WriteReceipt(t, "failed_insufficient_credit")
    /\ Goto(t, "clear_receipt")
    /\ UNCHANGED <<accountVars, resellerVars, disputeVars, chatVars>>

\* state.clear(), whatever the dialog is waiting for by now.
ClearReceipt(t) ==
    /\ task[t].at = "clear_receipt"
    /\ waiting_receipt' = [waiting_receipt EXCEPT ![task[t].person] = None]
    /\ Finish(t)
    /\ UNCHANGED <<accountVars, orderVars, resellerVars, disputeVars,
                   entering_reason, buttons>>

-----------------------------------------------------------------------------
(* Review and activation (handlers/reseller/orders.py and operator/orders.py). *)

\* Faulty variant: the list takes in orders whose receipt never came.
ListPendingOrders_Unpaid ==
    /\ buttons' = [o \in Orders |->
            CASE status[o] \in {"awaiting_payment", "awaiting_receipt_review"} ->
                     buttons[o] \cup {"review"}
              [] status[o] = "confirmed" -> buttons[o] \cup {"activate"}
              [] OTHER -> buttons[o]]
    /\ UNCHANGED <<accountVars, orderVars, resellerVars, disputeVars,
                   waiting_receipt, entering_reason, task>>

\* The list of open orders is sent with the buttons that fit each status.
\* (An order with activated_at set has had its activation button already.)
ListPendingOrders ==
    /\ buttons' = [o \in Orders |->
            CASE status[o] = "awaiting_receipt_review" -> buttons[o] \cup {"review"}
              [] status[o] = "confirmed" -> buttons[o] \cup {"activate"}
              [] OTHER -> buttons[o]]
    /\ UNCHANGED <<accountVars, orderVars, resellerVars, disputeVars,
                   waiting_receipt, entering_reason, task>>

\* An UPDATE of the status alone, by the id of the order.
SetStatus(o, st) ==
    /\ status' = [status EXCEPT ![o] = st]
    /\ UNCHANGED <<customer_id, commission_amount, is_test_order, paid_from_wallet>>

\* confirm_order, and the message with the activation button.
ApproveReceipt(o) ==
    /\ "review" \in buttons[o]
    /\ SetStatus(o, "confirmed")
    /\ buttons' = [buttons EXCEPT ![o] = @ \cup {"activate"}]
    /\ UNCHANGED <<accountVars, resellerVars, disputeVars,
                   waiting_receipt, entering_reason, task>>

\* reject_order, and the message with the dispute button.
RejectReceipt(o) ==
    /\ "review" \in buttons[o]
    /\ SetStatus(o, "rejected")
    /\ buttons' = [buttons EXCEPT ![o] = @ \cup {"dispute"}]
    /\ UNCHANGED <<accountVars, resellerVars, disputeVars,
                   waiting_receipt, entering_reason, task>>

\* activate_order: the status first, ...
ActivateOrder(t, o) ==
    /\ Free(t)
    /\ "activate" \in buttons[o]
    /\ SetStatus(o, "activated")
    /\ Start(t, [Idle EXCEPT !.at = "read_test_flag", !.order = o])
    /\ UNCHANGED <<accountVars, resellerVars, disputeVars, chatVars>>

\* ... then _increment_test_counter_if_needed reads whether it was a test ...
ReadTestFlag(t) ==
    /\ task[t].at = "read_test_flag"
    /\ IF is_test_order[task[t].order] THEN Goto(t, "bump_test_counter") ELSE Finish(t)
    /\ UNCHANGED <<accountVars, orderVars, resellerVars, disputeVars, chatVars>>

\* ... and counts it.  One UPDATE assigns the counter and then the flag; the
\* database assigns from left to right, so the CASE adds 1 to the new counter.
BumpTestCounter(t) ==
    /\ task[t].at = "bump_test_counter"
    /\ test_mode_orders_used' = test_mode_orders_used + 1
    /\ test_mode_enabled' = (test_mode_enabled /\ test_mode_orders_used' + 1 < TestLimit)
    /\ Finish(t)
    /\ UNCHANGED <<accountVars, orderVars, commission_percent, disputeVars, chatVars>>

-----------------------------------------------------------------------------
(* Disputes (services/dispute_service.py, services/blacklist_service.py).  *)

\* A tap on the dispute button: the dialog asks for the reason.
OpenDispute(s, o) ==
    /\ "dispute" \in buttons[o]
    /\ entering_reason' = [entering_reason EXCEPT ![s] = o]
    /\ UNCHANGED <<accountVars, orderVars, resellerVars, disputeVars,
                   waiting_receipt, buttons, task>>

\* The reason arrives.  create_dispute marks the order ...
SubmitDisputeReason(t, s) ==
    /\ Free(t)
    /\ entering_reason[s] # None
    /\ SetStatus(entering_reason[s], "refund_pending")
    /\ Start(t, [Idle EXCEPT !.at = "insert_dispute", !.person = s,
                             !.order = entering_reason[s]])
    /\ UNCHANGED <<accountVars, resellerVars, disputeVars, chatVars>>

\* ... and inserts the dispute, in a transaction of its own.
InsertDispute(t, d) ==
    /\ task[t].at = "insert_dispute"
    /\ disputes[d].review_status = "none"
    /\ disputes' = [disputes EXCEPT ![d] = [order |-> task[t].order,
                                            review_status |-> "pending"]]
    /\ entering_reason' = [entering_reason EXCEPT ![task[t].person] = None]
    /\ Finish(t)
    /\ UNCHANGED <<accountVars, orderVars, resellerVars, blacklist,
                   waiting_receipt, buttons>>

Review(d, st) == disputes' = [disputes EXCEPT ![d].review_status = st]

\* Faulty variant: the dispute is marked before the money is given back.
ApproveDispute_MarkFirst(t, d) ==
    /\ Free(t)
    /\ disputes[d].review_status # "none"
    /\ LET o == disputes[d].order IN
       Start(t, [Idle EXCEPT !.at = "mark_approved", !.dispute = d, !.order = o,
                             !.amount = commission_amount[o]])
    /\ UNCHANGED <<accountVars, orderVars, resellerVars, disputeVars, chatVars>>

\* The admin approves.  approve_dispute reads the dispute and its order, and
\* neither's status; every dispute that exists was listed with its buttons.
ApproveDispute(t, d) ==
    /\ Free(t)
    /\ disputes[d].review_status # "none"
    /\ LET o == disputes[d].order IN
       Start(t, [Idle EXCEPT !.at = "refund", !.dispute = d, !.order = o,
                             !.amount = commission_amount[o]])
    /\ UNCHANGED <<accountVars, orderVars, resellerVars, disputeVars, chatVars>>

Refund(t) ==
    /\ task[t].at = "refund"
    /\ Account!RefundCommission(task[t].order, task[t].amount)
    /\ Goto(t, "mark_approved")
    /\ UNCHANGED <<orderVars, resellerVars, disputeVars, chatVars>>

MarkApproved(t) ==
    /\ task[t].at = "mark_approved"
    /\ Review(task[t].dispute, "approved")
    /\ Goto(t, "mark_refunded")
    /\ UNCHANGED <<accountVars, orderVars, resellerVars, blacklist, chatVars>>

MarkRefunded(t) ==
    /\ task[t].at = "mark_refunded"
    /\ SetStatus(task[t].order, "refunded")
    /\ Goto(t, "count_fakes")
    /\ UNCHANGED <<accountVars, resellerVars, disputeVars, chatVars>>

\* The approved disputes of a customer's orders.
ConfirmedFakes(c) ==
    {d \in Disputes : /\ disputes[d].review_status = "approved"
                      /\ customer_id[disputes[d].order] = c}

\* Faulty variant: the threshold is compared with > instead of >=.
CountFakes_OffByOne(t) ==
    /\ task[t].at = "count_fakes"
    /\ IF Cardinality(ConfirmedFakes(customer_id[task[t].order])) > FakeThreshold
         THEN Goto(t, "check_blacklist")
         ELSE Finish(t)
    /\ UNCHANGED <<accountVars, orderVars, resellerVars, disputeVars, chatVars>>

\* maybe_auto_blacklist: the count, ...
CountFakes(t) ==
    /\ task[t].at = "count_fakes"
    /\ IF Cardinality(ConfirmedFakes(customer_id[task[t].order])) >= FakeThreshold
         THEN Goto(t, "check_blacklist")
         ELSE Finish(t)
    /\ UNCHANGED <<accountVars, orderVars, resellerVars, disputeVars, chatVars>>

\* ... whether the customer is on the list already, ...
CheckBlacklist(t) ==
    /\ task[t].at = "check_blacklist"
    /\ IF customer_id[task[t].order] \in blacklist
         THEN Finish(t)
         ELSE Goto(t, "add_to_blacklist")
    /\ UNCHANGED <<accountVars, orderVars, resellerVars, disputeVars, chatVars>>

\* ... and the row (two rows for one customer are one block).
AddToBlacklist(t) ==
    /\ task[t].at = "add_to_blacklist"
    /\ blacklist' = blacklist \cup {customer_id[task[t].order]}
    /\ Finish(t)
    /\ UNCHANGED <<accountVars, orderVars, resellerVars, disputes, chatVars>>

\* reject_dispute touches the dispute alone.
RejectDispute(d) ==
    /\ disputes[d].review_status # "none"
    /\ Review(d, "rejected")
    /\ UNCHANGED <<accountVars, orderVars, resellerVars, blacklist, chatVars, task>>

-----------------------------------------------------------------------------
(* The account and the settings, and what ends a task early.               *)

\* The reseller asks for a topup of its account.
RequestTopup(w, amount) ==
    /\ Account!RequestTopup(w, amount)
    /\ UNCHANGED <<orderVars, resellerVars, disputeVars, chatVars, task>>

\* The admin taps a topup's button (a topup that is not pending is refused).
ConfirmTopup(w) ==
    /\ Account!ConfirmTopup(w)
    /\ UNCHANGED <<orderVars, resellerVars, disputeVars, chatVars, task>>

\* The admin edits the reseller's percentage.
SetCommissionPercent(p) ==
    /\ commission_percent' = p
    /\ UNCHANGED <<accountVars, orderVars, disputeVars, chatVars, task,
                   test_mode_enabled, test_mode_orders_used>>

\* The admin blocks a customer by hand.
BlockCustomer(c) ==
    /\ blacklist' = blacklist \cup {c}
    /\ UNCHANGED <<accountVars, orderVars, resellerVars, disputes, chatVars, task>>

\* A database or Telegram call raises: the handler ends where it is, and what
\* it committed stays.
Fail(t) ==
    /\ TasksFail
    /\ ~Free(t)
    /\ Finish(t)
    /\ UNCHANGED <<accountVars, orderVars, resellerVars, disputeVars, chatVars>>

\* The process ends and starts again: the tasks are gone, and with them the
\* dialogs, which MemoryStorage keeps in memory.  Sent buttons remain.
Restart ==
    /\ TasksFail
    /\ task' = [t \in Tasks |-> Idle]
    /\ waiting_receipt' = [c \in Customers |-> None]
    /\ entering_reason' = [s \in Staff |-> None]
    /\ UNCHANGED <<accountVars, orderVars, resellerVars, disputeVars, buttons>>

-----------------------------------------------------------------------------
CustomerStep(t) ==
    \/ \E c \in Customers : StartPurchase(t, c) \/ ReceiveReceipt(t, c)
    \/ \E o \in Orders : InsertOrder(t, o) \/ InsertOrderPaidByWallet(t, o)
    \/ RememberOrder(t)
    \/ CountPending(t)
    \/ ReadReseller(t)
    \/ SubmitTestReceipt(t)
    \/ SubmitReceipt(t)
    \/ SubmitReceiptWithoutCredit(t)
    \/ ClearReceipt(t)

StaffStep(t) ==
    \/ \E o \in Orders : ActivateOrder(t, o)
    \/ ReadTestFlag(t)
    \/ BumpTestCounter(t)
    \/ \E s \in Staff : SubmitDisputeReason(t, s)
    \/ \E d \in Disputes : InsertDispute(t, d)

AdminStep(t) ==
    \/ \E d \in Disputes : ApproveDispute(t, d)
    \/ Refund(t)
    \/ MarkApproved(t)
    \/ MarkRefunded(t)
    \/ CountFakes(t)
    \/ CheckBlacklist(t)
    \/ AddToBlacklist(t)

\* Handlers with one database call that changes anything.
ShortStep ==
    \/ \E c \in Customers : RefusePurchase(c) \/ BlockCustomer(c)
    \/ ListPendingOrders
    \/ \E o \in Orders :
            \/ ApproveReceipt(o)
            \/ RejectReceipt(o)
            \/ \E s \in Staff : OpenDispute(s, o)
    \/ \E d \in Disputes : RejectDispute(d)
    \/ \E w \in Topups :
            \/ \E amount \in TopupAmounts : RequestTopup(w, amount)
            \/ ConfirmTopup(w)
    \/ \E p \in Percents : SetCommissionPercent(p)

Next ==
    \/ \E t \in Tasks : CustomerStep(t) \/ StaffStep(t) \/ AdminStep(t) \/ Fail(t)
    \/ ShortStep
    \/ Restart

Spec == Init /\ [][Next]_vars

-----------------------------------------------------------------------------
(* Properties.                                                             *)

\* The account's own promises, kept by everything the handlers do with it.
CreditFloor == Account!CreditFloor
BookBalance == Account!BookBalance

\* All that the handlers do to the account are its own operations: no other
\* write reaches the balance or its rows, at any interleaving of tasks.
ImplementsAccount == Account!Spec

Last(rows) == rows[Len(rows)]

\* An order is under review only with its commission taken, and the amount on
\* its row, which a dispute would give back, is the amount of the last
\* deduction (submit_receipt writes the order and the deduction in one
\* transaction, but with amounts it read before; a second receipt of the same
\* order may overtake the first).
ReviewedIsCharged ==
    \A o \in Orders :
        status[o] = "awaiting_receipt_review" /\ ~is_test_order[o] =>
            deductions[o] # <<>> /\ commission_amount[o] = Last(deductions[o])

\* Without test mode nothing is served for free: whatever buttons are tapped,
\* however late, an order that was confirmed or activated had its commission
\* taken or was paid from the customer's wallet.
NoFreeService ==
    TestLimit = 0 =>
        \A o \in Orders :
            status[o] \in {"confirmed", "activated"} =>
                paid_from_wallet[o] \/ deductions[o] # <<>>

\* Commission is given back only for an order it was taken for.
RefundAfterCharge ==
    TestLimit = 0 => \A o \in Orders : refunds[o] # <<>> => deductions[o] # <<>>

Approved(o) == {d \in Disputes : disputes[d].order = o /\ disputes[d].review_status = "approved"}

\* approve_dispute is three transactions; wherever it stops, and however many
\* times it runs at once, no dispute counts as approved and no order as
\* refunded before the money was given back for it.
ApprovedIsRefunded ==
    \A o \in Orders :
        /\ Cardinality(Approved(o)) <= Len(refunds[o])
        /\ status[o] = "refunded" => refunds[o] # <<>>

\* The cap on pending orders is checked before the transaction, so receipts
\* handled at once exceed it; but by no more than the tasks that run besides
\* the one that was let through last.
PendingOvershoot ==
    \A c \in Customers :
        Pending(c) # {} => Cardinality(Pending(c)) < MaxPending + Cardinality(Tasks)

\* When no handler fails, a customer with enough approved disputes is on the
\* blacklist, or an approval is still on its way to putting it there: the last
\* of several approvals that run at once sees them all.
FakesAreBlocked ==
    ~TasksFail =>
        \A c \in Customers :
            Cardinality(ConfirmedFakes(c)) >= FakeThreshold =>
                \/ c \in blacklist
                \/ \E t \in Tasks :
                    /\ task[t].at \in {"mark_refunded", "count_fakes",
                                       "check_blacklist", "add_to_blacklist"}
                    /\ customer_id[task[t].order] = c

\* A deduction and the review it pays for are one step, for every receipt.
ChargeWithReview ==
    [][\A o \in Orders :
        /\ deductions'[o] # deductions[o] =>
               /\ status'[o] = "awaiting_receipt_review"
               /\ ~is_test_order'[o]
               /\ commission_amount'[o] = Last(deductions'[o])
        /\ refunds'[o] # refunds[o] =>
               \E d \in Disputes : disputes[d].order = o]_vars

-----------------------------------------------------------------------------
(* What the documents say and the code does not keep.                      *)

\* README.md:31, order_service.py:6: at most three orders of a customer wait
\* for review at a time.
PendingCap == \A c \in Customers : Cardinality(Pending(c)) <= MaxPending

\* README.md:32: test mode lasts for N successful orders.
TestModeLasts ==
    TestLimit > 0 /\ ~test_mode_enabled => test_mode_orders_used >= TestLimit

\* schema.sql:113: failed_insufficient_credit says that the deduction of the
\* commission did not succeed.
FailedIsNotCharged ==
    \A o \in Orders : status[o] = "failed_insufficient_credit" => deductions[o] = <<>>

\* dispute_service.py:26: on approval the commission goes back, and not more.
ReturnedAtMostTaken ==
    \A o \in Orders : Account!RowSum(refunds[o]) <= Account!RowSum(deductions[o])
=============================================================================
