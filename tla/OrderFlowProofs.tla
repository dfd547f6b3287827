-------------------------- MODULE OrderFlowProofs --------------------------
(* Theorems about OrderFlow, for any number of customers, orders, disputes *)
(* and concurrent handler tasks, with or without failures.                 *)
EXTENDS OrderFlow, FiniteSetTheorems, TLAPS

-----------------------------------------------------------------------------
(* Type correctness.  The ids that tasks, dialogs, buttons and disputes    *)
(* hold are ids of orders that were inserted, and an inserted order has a  *)
(* customer: without it the types of customer_id and blacklist are not     *)
(* inductive.  One predicate per group of variables.                       *)

Inserted(o) == o \in Orders /\ status[o] # "none"

Filed(d) == d \in Disputes /\ disputes[d].review_status # "none"

OrdersOK ==
    /\ status \in [Orders -> Status]
    /\ customer_id \in [Orders -> Customers \cup {None}]
    /\ commission_amount \in [Orders -> Nat]
    /\ is_test_order \in [Orders -> BOOLEAN]
    /\ paid_from_wallet \in [Orders -> BOOLEAN]
    /\ \A o \in Orders : status[o] # "none" => customer_id[o] \in Customers

ResellerOK ==
    /\ commission_percent \in Percents
    /\ test_mode_enabled \in BOOLEAN
    /\ test_mode_orders_used \in Nat

DisputesOK ==
    /\ disputes \in [Disputes -> Dispute]
    /\ blacklist \subseteq Customers
    /\ \A d \in Disputes : disputes[d].review_status # "none" => Inserted(disputes[d].order)

ChatsOK ==
    /\ waiting_receipt \in [Customers -> Orders \cup {None}]
    /\ entering_reason \in [Staff -> Orders \cup {None}]
    /\ buttons \in [Orders -> SUBSET Button]
    /\ \A c \in Customers : waiting_receipt[c] # None => Inserted(waiting_receipt[c])
    /\ \A s \in Staff : entering_reason[s] # None => Inserted(entering_reason[s])
    /\ \A o \in Orders : buttons[o] # {} => status[o] # "none"

\* The steps of handlers that serve a customer.
CustomerSteps == {"insert_order", "remember_order",
                  "count_pending", "read_reseller", "submit", "clear_receipt"}

\* A local record of a task names a customer, or an order that exists.
TaskRow(local) ==
    /\ local.at \in CustomerSteps => local.person \in Customers
    /\ local.at \notin {"idle", "insert_order"} => Inserted(local.order)
    /\ local.at \in {"refund", "mark_approved"} => Filed(local.dispute)

TasksOK ==
    /\ task \in [Tasks -> Task]
    /\ \A t \in Tasks : TaskRow(task[t])

Typed ==
    /\ Account!TypeOK
    /\ OrdersOK
    /\ ResellerOK
    /\ DisputesOK
    /\ ChatsOK
    /\ TasksOK

LEMMA TypedIsTypeOK == Typed => TypeOK
BY DEF Typed, TypeOK, OrdersOK, ResellerOK, DisputesOK, ChatsOK, TasksOK

LEMMA CommissionIsNat == ASSUME NEW p \in Percents PROVE Commission(p) \in Nat
BY PriceAssumption, PercentsAssumption DEF Commission

LEMMA IdleIsTask == Idle \in Task /\ Idle.at = "idle"
BY DEF Idle, Task, Step

LEMMA TaskFields ==
    ASSUME NEW r \in Task
    PROVE  /\ r.at \in Step
           /\ r.person \in Customers \cup Staff \cup {None}
           /\ r.order \in Orders \cup {None}
           /\ r.dispute \in Disputes \cup {None}
           /\ r.amount \in Nat
           /\ r.test \in BOOLEAN
BY DEF Task

\* Orders are never deleted.
Grow == \A o \in Orders : status[o] # "none" => status'[o] # "none"

\* Neither are disputes.
DisputesGrow == \A d \in Disputes : Filed(d) => Filed(d)'

LEMMA InsertedGrows ==
    ASSUME Grow, NEW o, Inserted(o) PROVE Inserted(o)'
BY DEF Grow, Inserted

-----------------------------------------------------------------------------
(* Lemmas about the helpers that actions are built from.                   *)

(* A group of variables that a step leaves alone stays well formed.        *)
LEMMA Frame ==
    ASSUME Typed, Grow, DisputesGrow
    PROVE  /\ UNCHANGED accountVars => Account!TypeOK'
           /\ UNCHANGED resellerVars => ResellerOK'
           /\ UNCHANGED disputeVars => DisputesOK'
           /\ UNCHANGED chatVars => ChatsOK'
           /\ UNCHANGED task => TasksOK'
<1>1. UNCHANGED accountVars => Account!TypeOK'
  BY DEF Typed, accountVars, Account!TypeOK
<1>2. UNCHANGED resellerVars => ResellerOK'
  BY DEF Typed, resellerVars, ResellerOK
<1>3. UNCHANGED disputeVars => DisputesOK'
  BY InsertedGrows DEF Typed, disputeVars, DisputesOK
<1>4. UNCHANGED chatVars => ChatsOK'
  BY InsertedGrows DEF Typed, chatVars, ChatsOK, Grow
<1>5. UNCHANGED task => TasksOK'
  BY InsertedGrows DEF Typed, TasksOK, TaskRow, CustomerSteps, DisputesGrow, Filed
<1>6. QED
  BY <1>1, <1>2, <1>3, <1>4, <1>5

LEMMA OrdersFrame ==
    ASSUME Typed, UNCHANGED orderVars PROVE OrdersOK' /\ Grow
BY DEF Typed, orderVars, OrdersOK, Grow

(* The three ways a task's record changes.                                 *)
LEMMA StartTyped ==
    ASSUME Typed, Grow, DisputesGrow, NEW t \in Tasks, \E local \in Task : TaskRow(local) /\ Start(t, local)
    PROVE  TasksOK'
<1> PICK local \in Task : TaskRow(local) /\ Start(t, local)
  OBVIOUS
<1>1. /\ task' \in [Tasks -> Task]
      /\ task'[t] = local
      /\ \A u \in Tasks \ {t} : task'[u] = task[u]
  BY DEF Typed, TasksOK, Start
<1>2. \A u \in Tasks : TaskRow(task[u])'
  BY <1>1, InsertedGrows DEF Typed, TasksOK, TaskRow, CustomerSteps, DisputesGrow, Filed
<1>3. QED
  BY <1>1, <1>2 DEF TasksOK

LEMMA GotoTyped ==
    ASSUME Typed, Grow, DisputesGrow, NEW t \in Tasks, NEW s \in Step, Goto(t, s),
           s \notin {"idle", "insert_order"},
           task[t].at \notin {"idle", "insert_order"},
           s \in CustomerSteps => task[t].at \in CustomerSteps,
           s \in {"refund", "mark_approved"} => task[t].at \in {"refund", "mark_approved"}
    PROVE  TasksOK'
<1>1. /\ task' \in [Tasks -> Task]
      /\ task'[t].at = s
      /\ task'[t].order = task[t].order
      /\ task'[t].person = task[t].person
      /\ task'[t].dispute = task[t].dispute
      /\ \A u \in Tasks \ {t} : task'[u] = task[u]
  BY DEF Typed, TasksOK, Goto, Task
<1>2. \A u \in Tasks \ {t} : TaskRow(task[u])'
  BY <1>1, InsertedGrows DEF Typed, TasksOK, TaskRow, CustomerSteps, DisputesGrow, Filed
<1>3. TaskRow(task[t])'
  BY <1>1, InsertedGrows DEF Typed, TasksOK, TaskRow, CustomerSteps, DisputesGrow, Filed
<1>4. QED
  BY <1>1, <1>2, <1>3 DEF TasksOK

LEMMA FinishTyped ==
    ASSUME Typed, Grow, DisputesGrow, NEW t \in Tasks, Finish(t)
    PROVE  TasksOK'
<1>1. /\ task' \in [Tasks -> Task]
      /\ task'[t].at = "idle"
      /\ \A u \in Tasks \ {t} : task'[u] = task[u]
  BY IdleIsTask DEF Typed, TasksOK, Finish
<1>2. \A u \in Tasks \ {t} : TaskRow(task[u])'
  BY <1>1, InsertedGrows DEF Typed, TasksOK, TaskRow, CustomerSteps, DisputesGrow, Filed
<1>3. TaskRow(task[t])'
  BY <1>1 DEF TaskRow, CustomerSteps, DisputesGrow, Filed
<1>4. QED
  BY <1>1, <1>2, <1>3 DEF TasksOK

(* The writes to orders.                                                   *)
LEMMA NewOrderTyped ==
    ASSUME Typed, NEW o \in Orders, NEW c \in Customers, NEW st \in Status \ {"none"},
           NEW paid \in BOOLEAN, NewOrder(o, c, st, paid)
    PROVE  OrdersOK' /\ Grow /\ Inserted(o)'
BY DEF Typed, OrdersOK, NewOrder, Grow, Inserted

LEMMA SetStatusTyped ==
    ASSUME Typed, NEW o \in Orders, NEW st \in Status \ {"none"}, SetStatus(o, st),
           Inserted(o)
    PROVE  OrdersOK' /\ Grow
BY DEF Typed, OrdersOK, SetStatus, Grow, Inserted

LEMMA WriteReceiptTyped ==
    ASSUME Typed, NEW t \in Tasks, NEW st \in Status \ {"none"},
           Inserted(task[t].order), WriteReceipt(t, st)
    PROVE  OrdersOK' /\ Grow
<1>1. task[t].amount \in Nat /\ task[t].test \in BOOLEAN
  BY TaskFields DEF Typed, TasksOK
<1>2. QED
  BY <1>1 DEF Typed, OrdersOK, WriteReceipt, Grow, Inserted

(* The account's operations, on an order.                                  *)
LEMMA AccountTyped ==
    ASSUME Typed, NEW o \in Orders, NEW a \in Nat,
           Account!DeductCommission(o, a) \/ Account!RefundCommission(o, a)
    PROVE  Account!TypeOK'
<1>1. CASE Account!DeductCommission(o, a)
  BY <1>1 DEF Typed, Account!TypeOK, Account!DeductCommission
<1>2. CASE Account!RefundCommission(o, a)
  BY <1>2 DEF Typed, Account!TypeOK, Account!RefundCommission
<1>3. QED
  BY <1>1, <1>2

LEMMA TopupTyped ==
    ASSUME Typed, NEW w \in Topups,
           \/ \E a \in TopupAmounts : Account!RequestTopup(w, a)
           \/ Account!ConfirmTopup(w)
    PROVE  Account!TypeOK'
<1>1. ASSUME NEW a \in TopupAmounts, Account!RequestTopup(w, a) PROVE Account!TypeOK'
  BY <1>1, TopupAmountsAssumption DEF Typed, Account!TypeOK, Account!RequestTopup, Account!Topup
<1>2. ASSUME Account!ConfirmTopup(w) PROVE Account!TypeOK'
  BY <1>2 DEF Typed, Account!TypeOK, Account!ConfirmTopup, Account!Topup
<1>3. QED
  BY <1>1, <1>2

(* The locals of a task that is about to write are those of an order.      *)
LEMMA AtOrder ==
    ASSUME Typed, NEW t \in Tasks, task[t].at \notin {"idle", "insert_order"}
    PROVE  /\ task[t].order \in Orders
           /\ Inserted(task[t].order)
           /\ task[t].amount \in Nat
           /\ customer_id[task[t].order] \in Customers
BY TaskFields DEF Typed, TasksOK, TaskRow, CustomerSteps, DisputesGrow, Filed, Inserted, OrdersOK

LEMMA InitTyped == Init => Typed
BY IdleIsTask, NoneAssumption
   DEF Init, Typed, OrdersOK, ResellerOK, DisputesOK, ChatsOK, TasksOK, TaskRow, CustomerSteps, DisputesGrow, Filed, Inserted,
       Status, Dispute, NoDispute, Button,
       Account!Init, Account!TypeOK, Account!NoTopup, Account!Topup

LEMMA CustomerStepTyped ==
    ASSUME Typed, DisputesGrow, NEW t \in Tasks, CustomerStep(t) PROVE Typed'
<1>1. ASSUME NEW c \in Customers, StartPurchase(t, c) PROVE Typed'
  <2> DEFINE local == [Idle EXCEPT !.at = "insert_order", !.person = c]
  <2>1. OrdersOK' /\ Grow
    BY <1>1, OrdersFrame DEF StartPurchase
  <2>2. local \in Task /\ TaskRow(local)
    BY DEF Task, Step, Idle, TaskRow, CustomerSteps, DisputesGrow, Filed
  <2>3. Start(t, local)
    BY <1>1 DEF StartPurchase
  <2>4. TasksOK'
    <3> HIDE DEF local
    <3> QED BY <2>1, <2>2, <2>3, StartTyped
  <2>5. ChatsOK'
    BY <1>1, <2>1, InsertedGrows DEF StartPurchase, Typed, ChatsOK, Grow
  <2>6. QED
    BY <1>1, <2>1, <2>4, <2>5, Frame DEF StartPurchase, Typed
<1>2. ASSUME NEW c \in Customers, ReceiveReceipt(t, c) PROVE Typed'
  <2> DEFINE local == [Idle EXCEPT !.at = "count_pending", !.person = c,
                                   !.order = waiting_receipt[c]]
  <2>1. OrdersOK' /\ Grow
    BY <1>2, OrdersFrame DEF ReceiveReceipt
  <2>2. Inserted(waiting_receipt[c])
    BY <1>2 DEF ReceiveReceipt, Typed, ChatsOK
  <2>3. local \in Task /\ TaskRow(local)
    BY <2>2 DEF Task, Step, Idle, Inserted, TaskRow, CustomerSteps, DisputesGrow, Filed
  <2>4. Start(t, local)
    BY <1>2 DEF ReceiveReceipt
  <2>5. TasksOK'
    <3> HIDE DEF local
    <3> QED BY <2>1, <2>3, <2>4, StartTyped
  <2>6. QED
    BY <1>2, <2>1, <2>5, Frame DEF ReceiveReceipt, Typed
<1>3. ASSUME NEW o \in Orders, InsertOrder(t, o) PROVE Typed'
  <2>1. task[t].person \in Customers
    BY <1>3 DEF InsertOrder, Typed, TasksOK, TaskRow, CustomerSteps, DisputesGrow, Filed
  <2>2. OrdersOK' /\ Grow /\ Inserted(o)'
    BY <1>3, <2>1, NewOrderTyped DEF InsertOrder, Status
  <2>3. /\ task' \in [Tasks -> Task]
        /\ task'[t].at = "remember_order"
        /\ task'[t].person = task[t].person
        /\ task'[t].order = o
        /\ \A u \in Tasks \ {t} : task'[u] = task[u]
    BY <1>3 DEF InsertOrder, Typed, TasksOK, Task, Step
  <2>4. \A u \in Tasks \ {t} : TaskRow(task[u])'
    BY <2>2, <2>3, InsertedGrows DEF Typed, TasksOK, TaskRow, CustomerSteps, DisputesGrow, Filed
  <2>5. TaskRow(task[t])'
    BY <2>1, <2>2, <2>3 DEF TaskRow, CustomerSteps, DisputesGrow, Filed
  <2>6. TasksOK'
    BY <2>3, <2>4, <2>5 DEF TasksOK
  <2>7. QED
    BY <1>3, <2>2, <2>6, Frame DEF InsertOrder, Typed
<1>4. ASSUME NEW o \in Orders, InsertOrderPaidByWallet(t, o) PROVE Typed'
  <2>1. task[t].person \in Customers
    BY <1>4 DEF InsertOrderPaidByWallet, Typed, TasksOK, TaskRow, CustomerSteps, DisputesGrow, Filed
  <2>2. OrdersOK' /\ Grow /\ Inserted(o)'
    BY <1>4, <2>1, NewOrderTyped DEF InsertOrderPaidByWallet, Status
  <2>3. TasksOK'
    BY <1>4, <2>2, FinishTyped DEF InsertOrderPaidByWallet
  <2>4. ChatsOK'
    BY <1>4, <2>1, <2>2, InsertedGrows
       DEF InsertOrderPaidByWallet, Typed, ChatsOK, Grow, Button, Inserted
  <2>5. QED
    BY <1>4, <2>2, <2>3, <2>4, Frame DEF InsertOrderPaidByWallet, Typed
<1>5. CASE RememberOrder(t)
  <2>1. OrdersOK' /\ Grow
    BY <1>5, OrdersFrame DEF RememberOrder
  <2>2. TasksOK'
    BY <1>5, <2>1, FinishTyped DEF RememberOrder
  <2>3. ChatsOK'
    BY <1>5, <2>1, AtOrder, InsertedGrows DEF RememberOrder, Typed, ChatsOK, Grow
  <2>4. QED
    BY <1>5, <2>1, <2>2, <2>3, Frame DEF RememberOrder, Typed
<1>6. CASE CountPending(t)
  <2>1. OrdersOK' /\ Grow
    BY <1>6, OrdersFrame DEF CountPending
  <2>2. TasksOK'
    BY <1>6, <2>1, GotoTyped, FinishTyped DEF CountPending, Step, CustomerSteps
  <2>3. QED
    BY <1>6, <2>1, <2>2, Frame DEF CountPending, Typed
<1>7. CASE ReadReseller(t)
  <2> DEFINE test == test_mode_enabled /\ test_mode_orders_used < TestLimit
  <2> DEFINE amount == IF test THEN 0 ELSE Commission(commission_percent)
  <2>1. OrdersOK' /\ Grow
    BY <1>7, OrdersFrame DEF ReadReseller
  <2>2. test \in BOOLEAN /\ amount \in Nat
    BY CommissionIsNat DEF Typed, ResellerOK
  <2>3. task' = [task EXCEPT ![t] = [@ EXCEPT !.at = "submit", !.test = test, !.amount = amount]]
    BY <1>7 DEF ReadReseller
  <2> HIDE DEF test, amount
  <2>4. /\ task' \in [Tasks -> Task]
        /\ task'[t].at = "submit"
        /\ task'[t].order = task[t].order
        /\ \A u \in Tasks \ {t} : task'[u] = task[u]
    BY <2>2, <2>3 DEF Typed, TasksOK, Task, Step
  <2>5. \A u \in Tasks : TaskRow(task[u])'
    BY <1>7, <2>1, <2>4, AtOrder, InsertedGrows DEF ReadReseller, Typed, TasksOK, TaskRow, CustomerSteps, DisputesGrow, Filed
  <2>6. TasksOK'
    BY <2>4, <2>5 DEF TasksOK
  <2>7. QED
    BY <1>7, <2>1, <2>6, Frame DEF ReadReseller, Typed
<1>8. CASE SubmitTestReceipt(t) \/ SubmitReceipt(t) \/ SubmitReceiptWithoutCredit(t)
  <2>1. task[t].at = "submit" /\ Goto(t, "clear_receipt")
    BY <1>8 DEF SubmitTestReceipt, SubmitReceipt, SubmitReceiptWithoutCredit
  <2>2. \E st \in Status \ {"none"} : WriteReceipt(t, st)
    BY <1>8 DEF SubmitTestReceipt, SubmitReceipt, SubmitReceiptWithoutCredit, Status
  <2>3. OrdersOK' /\ Grow
    BY <2>1, <2>2, AtOrder, WriteReceiptTyped
  <2>5. TasksOK'
    BY <2>1, <2>3, GotoTyped DEF Step, CustomerSteps
  <2>6. Account!TypeOK'
    BY <1>8, <2>1, <2>3, AtOrder, AccountTyped, Frame
       DEF SubmitTestReceipt, SubmitReceipt, SubmitReceiptWithoutCredit
  <2>7. QED
    BY <1>8, <2>3, <2>5, <2>6, Frame
       DEF SubmitTestReceipt, SubmitReceipt, SubmitReceiptWithoutCredit, Typed
<1>9. CASE ClearReceipt(t)
  <2>1. OrdersOK' /\ Grow
    BY <1>9, OrdersFrame DEF ClearReceipt
  <2>2. TasksOK'
    BY <1>9, <2>1, FinishTyped DEF ClearReceipt
  <2>3. ChatsOK'
    BY <1>9, <2>1, InsertedGrows DEF ClearReceipt, Typed, ChatsOK, Grow
  <2>4. QED
    BY <1>9, <2>1, <2>2, <2>3, Frame DEF ClearReceipt, Typed
<1>10. QED
  BY <1>1, <1>2, <1>3, <1>4, <1>5, <1>6, <1>7, <1>8, <1>9 DEF CustomerStep

LEMMA StaffStepTyped ==
    ASSUME Typed, DisputesGrow, NEW t \in Tasks, StaffStep(t) PROVE Typed'
<1>1. ASSUME NEW o \in Orders, ActivateOrder(t, o) PROVE Typed'
  <2> DEFINE local == [Idle EXCEPT !.at = "read_test_flag", !.order = o]
  <2>1. Inserted(o)
    BY <1>1 DEF ActivateOrder, Typed, ChatsOK, Inserted
  <2>2. OrdersOK' /\ Grow
    BY <1>1, <2>1, SetStatusTyped DEF ActivateOrder, Status
  <2>3. local \in Task /\ TaskRow(local)
    BY <2>1 DEF Task, Step, Idle, TaskRow, CustomerSteps, DisputesGrow, Filed
  <2>4. Start(t, local)
    BY <1>1 DEF ActivateOrder
  <2>5. TasksOK'
    <3> HIDE DEF local
    <3> QED BY <2>2, <2>3, <2>4, StartTyped
  <2>6. QED
    BY <1>1, <2>2, <2>5, Frame DEF ActivateOrder, Typed
<1>2. CASE ReadTestFlag(t)
  <2>1. OrdersOK' /\ Grow
    BY <1>2, OrdersFrame DEF ReadTestFlag
  <2>2. TasksOK'
    BY <1>2, <2>1, GotoTyped, FinishTyped DEF ReadTestFlag, Step, CustomerSteps
  <2>3. QED
    BY <1>2, <2>1, <2>2, Frame DEF ReadTestFlag, Typed
<1>3. CASE BumpTestCounter(t)
  <2>1. OrdersOK' /\ Grow
    BY <1>3, OrdersFrame DEF BumpTestCounter
  <2>2. TasksOK'
    BY <1>3, <2>1, FinishTyped DEF BumpTestCounter
  <2>3. ResellerOK'
    BY <1>3 DEF BumpTestCounter, Typed, ResellerOK
  <2>4. QED
    BY <1>3, <2>1, <2>2, <2>3, Frame DEF BumpTestCounter, Typed
<1>4. ASSUME NEW s \in Staff, SubmitDisputeReason(t, s) PROVE Typed'
  <2> DEFINE local == [Idle EXCEPT !.at = "insert_dispute", !.person = s,
                                   !.order = entering_reason[s]]
  <2>1. Inserted(entering_reason[s])
    BY <1>4 DEF SubmitDisputeReason, Typed, ChatsOK
  <2>2. OrdersOK' /\ Grow
    BY <1>4, <2>1, SetStatusTyped DEF SubmitDisputeReason, Status, Inserted
  <2>3. local \in Task /\ TaskRow(local)
    BY <2>1 DEF Task, Step, Idle, TaskRow, CustomerSteps, DisputesGrow, Filed, Inserted
  <2>4. Start(t, local)
    BY <1>4 DEF SubmitDisputeReason
  <2>5. TasksOK'
    <3> HIDE DEF local
    <3> QED BY <2>2, <2>3, <2>4, StartTyped
  <2>6. QED
    BY <1>4, <2>2, <2>5, Frame DEF SubmitDisputeReason, Typed
<1>5. ASSUME NEW d \in Disputes, InsertDispute(t, d) PROVE Typed'
  <2>1. OrdersOK' /\ Grow
    BY <1>5, OrdersFrame DEF InsertDispute
  <2>2. TasksOK'
    BY <1>5, <2>1, FinishTyped DEF InsertDispute
  <2>3. Inserted(task[t].order)
    BY <1>5, AtOrder DEF InsertDispute
  <2>4. DisputesOK'
    <3>1. /\ disputes' \in [Disputes -> Dispute]
          /\ disputes'[d].order = task[t].order
          /\ \A e \in Disputes \ {d} : disputes'[e] = disputes[e]
      BY <1>5, <2>3 DEF InsertDispute, Typed, DisputesOK, Dispute, Inserted
    <3>2. status' = status /\ blacklist' = blacklist
      BY <1>5 DEF InsertDispute, orderVars
    <3>3. QED
      BY <2>3, <3>1, <3>2 DEF Typed, DisputesOK, Inserted
  <2>5. ChatsOK'
    BY <1>5, <2>1, InsertedGrows DEF InsertDispute, Typed, ChatsOK, Grow
  <2>6. QED
    BY <1>5, <2>1, <2>2, <2>4, <2>5, Frame DEF InsertDispute, Typed
<1>6. QED
  BY <1>1, <1>2, <1>3, <1>4, <1>5 DEF StaffStep

\* Reviewing a dispute that exists keeps its order.
LEMMA ReviewTyped ==
    ASSUME Typed, Grow, NEW d \in Disputes, NEW st \in {"approved", "rejected"},
           Review(d, st), disputes[d].review_status # "none", UNCHANGED blacklist
    PROVE  DisputesOK'
<1>1. /\ disputes' \in [Disputes -> Dispute]
      /\ disputes'[d].order = disputes[d].order
      /\ \A e \in Disputes \ {d} : disputes'[e] = disputes[e]
  BY DEF Typed, DisputesOK, Review, Dispute
<1>2. QED
  BY <1>1, InsertedGrows DEF Typed, DisputesOK

LEMMA AdminStepTyped ==
    ASSUME Typed, DisputesGrow, NEW t \in Tasks, AdminStep(t) PROVE Typed'
<1>1. ASSUME NEW d \in Disputes, ApproveDispute(t, d) PROVE Typed'
  <2> DEFINE local == [Idle EXCEPT !.at = "refund", !.dispute = d, !.order = disputes[d].order,
                                   !.amount = commission_amount[disputes[d].order]]
  <2>1. /\ Filed(d)
        /\ Inserted(disputes[d].order)
        /\ commission_amount[disputes[d].order] \in Nat
    BY <1>1 DEF ApproveDispute, Typed, DisputesOK, OrdersOK, Inserted, Filed
  <2>2. OrdersOK' /\ Grow
    BY <1>1, <2>1, OrdersFrame DEF ApproveDispute
  <2>3. local \in Task /\ TaskRow(local)
    BY <2>1 DEF Task, Step, Idle, TaskRow, CustomerSteps, Filed, Inserted
  <2>4. Start(t, local)
    BY <1>1 DEF ApproveDispute
  <2>5. TasksOK'
    <3> HIDE DEF local
    <3> QED BY <2>2, <2>3, <2>4, StartTyped
  <2>6. QED
    BY <1>1, <2>2, <2>5, Frame DEF ApproveDispute, Typed
<1>2. CASE Refund(t)
  <2>1. OrdersOK' /\ Grow
    BY <1>2, OrdersFrame DEF Refund
  <2>2. TasksOK'
    BY <1>2, <2>1, GotoTyped DEF Refund, Step, CustomerSteps
  <2>3. Account!TypeOK'
    BY <1>2, AtOrder, AccountTyped DEF Refund
  <2>4. QED
    BY <1>2, <2>1, <2>2, <2>3, Frame DEF Refund, Typed
<1>3. CASE MarkApproved(t)
  <2>1. OrdersOK' /\ Grow
    BY <1>3, OrdersFrame DEF MarkApproved
  <2>2. TasksOK'
    BY <1>3, <2>1, GotoTyped DEF MarkApproved, Step, CustomerSteps
  <2>3. task[t].dispute \in Disputes /\ disputes[task[t].dispute].review_status # "none"
    BY <1>3 DEF MarkApproved, Typed, TasksOK, TaskRow, Filed
  <2>4. DisputesOK'
    BY <1>3, <2>1, <2>3, ReviewTyped DEF MarkApproved
  <2>5. QED
    BY <1>3, <2>1, <2>2, <2>4, Frame DEF MarkApproved, Typed
<1>4. CASE MarkRefunded(t)
  <2>1. OrdersOK' /\ Grow
    BY <1>4, AtOrder, SetStatusTyped DEF MarkRefunded, Status
  <2>2. TasksOK'
    BY <1>4, <2>1, GotoTyped DEF MarkRefunded, Step, CustomerSteps
  <2>3. QED
    BY <1>4, <2>1, <2>2, Frame DEF MarkRefunded, Typed
<1>5. CASE CountFakes(t)
  <2>1. OrdersOK' /\ Grow
    BY <1>5, OrdersFrame DEF CountFakes
  <2>2. TasksOK'
    BY <1>5, <2>1, GotoTyped, FinishTyped DEF CountFakes, Step, CustomerSteps
  <2>3. QED
    BY <1>5, <2>1, <2>2, Frame DEF CountFakes, Typed
<1>6. CASE CheckBlacklist(t)
  <2>1. OrdersOK' /\ Grow
    BY <1>6, OrdersFrame DEF CheckBlacklist
  <2>2. TasksOK'
    BY <1>6, <2>1, GotoTyped, FinishTyped DEF CheckBlacklist, Step, CustomerSteps
  <2>3. QED
    BY <1>6, <2>1, <2>2, Frame DEF CheckBlacklist, Typed
<1>7. CASE AddToBlacklist(t)
  <2>1. OrdersOK' /\ Grow
    BY <1>7, OrdersFrame DEF AddToBlacklist
  <2>2. TasksOK'
    BY <1>7, <2>1, FinishTyped DEF AddToBlacklist
  <2>3. DisputesOK'
    BY <1>7, <2>1, AtOrder, InsertedGrows DEF AddToBlacklist, Typed, DisputesOK
  <2>4. QED
    BY <1>7, <2>1, <2>2, <2>3, Frame DEF AddToBlacklist, Typed
<1>8. QED
  BY <1>1, <1>2, <1>3, <1>4, <1>5, <1>6, <1>7 DEF AdminStep

LEMMA ShortStepTyped ==
    ASSUME Typed, DisputesGrow, ShortStep PROVE Typed'
<1>1. ASSUME NEW c \in Customers, RefusePurchase(c) PROVE Typed'
  <2>1. OrdersOK' /\ Grow
    BY <1>1, OrdersFrame DEF RefusePurchase
  <2>2. ChatsOK'
    BY <1>1, <2>1, InsertedGrows DEF RefusePurchase, Typed, ChatsOK, Grow
  <2>3. QED
    BY <1>1, <2>1, <2>2, Frame DEF RefusePurchase, Typed
<1>2. ASSUME NEW c \in Customers, BlockCustomer(c) PROVE Typed'
  <2>1. OrdersOK' /\ Grow
    BY <1>2, OrdersFrame DEF BlockCustomer
  <2>2. DisputesOK'
    BY <1>2, <2>1, InsertedGrows DEF BlockCustomer, Typed, DisputesOK
  <2>3. QED
    BY <1>2, <2>1, <2>2, Frame DEF BlockCustomer, Typed
<1>3. CASE ListPendingOrders
  <2>1. OrdersOK' /\ Grow
    BY <1>3, OrdersFrame DEF ListPendingOrders
  <2>2. ChatsOK'
    <3>1. \A o \in Orders : /\ buttons'[o] \in SUBSET Button
                            /\ buttons'[o] # {} => status[o] # "none"
      BY <1>3 DEF ListPendingOrders, Typed, ChatsOK, Button
    <3>2. /\ buttons' \in [Orders -> SUBSET Button]
          /\ UNCHANGED <<status, waiting_receipt, entering_reason>>
      BY <1>3, <3>1 DEF ListPendingOrders, orderVars
    <3>3. QED
      BY <3>1, <3>2 DEF Typed, ChatsOK, Inserted
  <2>3. QED
    BY <1>3, <2>1, <2>2, Frame DEF ListPendingOrders, Typed
<1>4. ASSUME NEW o \in Orders, ApproveReceipt(o) \/ RejectReceipt(o) PROVE Typed'
  <2>1. Inserted(o)
    BY <1>4 DEF ApproveReceipt, RejectReceipt, Typed, ChatsOK, Inserted
  <2>2. OrdersOK' /\ Grow
    BY <1>4, <2>1, SetStatusTyped DEF ApproveReceipt, RejectReceipt, Status
  <2>3. ChatsOK'
    BY <1>4, <2>1, <2>2, InsertedGrows
       DEF ApproveReceipt, RejectReceipt, Typed, ChatsOK, Grow, Button, Inserted
  <2>4. QED
    BY <1>4, <2>2, <2>3, Frame DEF ApproveReceipt, RejectReceipt, Typed
<1>5. ASSUME NEW o \in Orders, NEW s \in Staff, OpenDispute(s, o) PROVE Typed'
  <2>1. Inserted(o)
    BY <1>5 DEF OpenDispute, Typed, ChatsOK, Inserted
  <2>2. OrdersOK' /\ Grow
    BY <1>5, OrdersFrame DEF OpenDispute
  <2>3. ChatsOK'
    BY <1>5, <2>1, <2>2, InsertedGrows DEF OpenDispute, Typed, ChatsOK, Grow
  <2>4. QED
    BY <1>5, <2>2, <2>3, Frame DEF OpenDispute, Typed
<1>6. ASSUME NEW d \in Disputes, RejectDispute(d) PROVE Typed'
  <2>1. OrdersOK' /\ Grow
    BY <1>6, OrdersFrame DEF RejectDispute
  <2>2. DisputesOK'
    BY <1>6, <2>1, ReviewTyped DEF RejectDispute
  <2>3. QED
    BY <1>6, <2>1, <2>2, Frame DEF RejectDispute, Typed
<1>7. ASSUME NEW w \in Topups,
             (\E amount \in TopupAmounts : RequestTopup(w, amount)) \/ ConfirmTopup(w)
      PROVE  Typed'
  <2>1. OrdersOK' /\ Grow
    BY <1>7, OrdersFrame DEF RequestTopup, ConfirmTopup
  <2>2. Account!TypeOK'
    BY <1>7, TopupTyped DEF RequestTopup, ConfirmTopup
  <2>3. QED
    BY <1>7, <2>1, <2>2, Frame DEF RequestTopup, ConfirmTopup, Typed
<1>8. ASSUME NEW p \in Percents, SetCommissionPercent(p) PROVE Typed'
  <2>1. OrdersOK' /\ Grow
    BY <1>8, OrdersFrame DEF SetCommissionPercent
  <2>2. ResellerOK'
    BY <1>8 DEF SetCommissionPercent, Typed, ResellerOK
  <2>3. QED
    BY <1>8, <2>1, <2>2, Frame DEF SetCommissionPercent, Typed
<1>9. QED
  BY <1>1, <1>2, <1>3, <1>4, <1>5, <1>6, <1>7, <1>8 DEF ShortStep

LEMMA FailureTyped ==
    ASSUME Typed, DisputesGrow, (\E t \in Tasks : Fail(t)) \/ Restart PROVE Typed'
<1>1. OrdersOK' /\ Grow
  BY OrdersFrame DEF Fail, Restart
<1>2. TasksOK'
  <2>1. CASE \E t \in Tasks : Fail(t)
    BY <1>1, <2>1, FinishTyped DEF Fail
  <2>2. CASE Restart
    BY <2>2, IdleIsTask DEF Restart, TasksOK, TaskRow, CustomerSteps, DisputesGrow, Filed
  <2>3. QED
    BY <2>1, <2>2
<1>3. ChatsOK'
  BY <1>1, Frame DEF Fail, Restart, Typed, ChatsOK, chatVars, Grow
<1>4. QED
  BY <1>1, <1>2, <1>3, Frame DEF Fail, Restart, Typed

LEMMA DisputesAreKept == Typed /\ Next => DisputesGrow
<1> SUFFICES ASSUME Typed, Next PROVE DisputesGrow
  OBVIOUS
<1>1. ASSUME NEW d, NEW st \in {"approved", "rejected"}, Review(d, st) PROVE DisputesGrow
  BY <1>1 DEF Typed, DisputesOK, Dispute, Review, DisputesGrow, Filed
<1>2. ASSUME NEW d \in Disputes, NEW t \in Tasks, InsertDispute(t, d) PROVE DisputesGrow
  BY <1>2 DEF InsertDispute, Typed, DisputesOK, Dispute, DisputesGrow, Filed
<1>3. UNCHANGED disputes => DisputesGrow
  BY DEF DisputesGrow, Filed
<1>4. ASSUME NEW t \in Tasks, CustomerStep(t) PROVE UNCHANGED disputes
  BY <1>4 DEF CustomerStep, disputeVars, StartPurchase, ReceiveReceipt, InsertOrder,
     InsertOrderPaidByWallet, RememberOrder, CountPending, ReadReseller,
     SubmitTestReceipt, SubmitReceipt, SubmitReceiptWithoutCredit, ClearReceipt
<1>5. ASSUME NEW t \in Tasks, StaffStep(t) PROVE DisputesGrow
  BY <1>2, <1>3, <1>5 DEF StaffStep, disputeVars, ActivateOrder, ReadTestFlag,
     BumpTestCounter, SubmitDisputeReason
<1>6. ASSUME NEW t \in Tasks, AdminStep(t) PROVE DisputesGrow
  BY <1>1, <1>3, <1>6 DEF AdminStep, disputeVars, ApproveDispute, Refund, MarkApproved,
     MarkRefunded, CountFakes, CheckBlacklist, AddToBlacklist
<1>7. ASSUME ShortStep PROVE DisputesGrow
  BY <1>1, <1>3, <1>7 DEF ShortStep, disputeVars, RefusePurchase, BlockCustomer,
     ListPendingOrders, ApproveReceipt, RejectReceipt, OpenDispute, RejectDispute,
     RequestTopup, ConfirmTopup, SetCommissionPercent
<1>8. ASSUME (\E t \in Tasks : Fail(t)) \/ Restart PROVE UNCHANGED disputes
  BY <1>8 DEF Fail, Restart, disputeVars
<1>9. QED
  BY <1>3, <1>4, <1>5, <1>6, <1>7, <1>8 DEF Next

LEMMA NextTyped == Typed /\ [Next]_vars => Typed'
<1> SUFFICES ASSUME Typed, [Next]_vars PROVE Typed'
  OBVIOUS
<1>1. CASE UNCHANGED vars
  <2>1. DisputesGrow
    BY <1>1 DEF vars, disputeVars, DisputesGrow, Filed
  <2>2. QED
    BY <1>1, <2>1, OrdersFrame, Frame DEF vars, Typed
<1>2. CASE Next
  BY <1>2, DisputesAreKept, CustomerStepTyped, StaffStepTyped, AdminStepTyped, ShortStepTyped, FailureTyped
     DEF Next
<1>3. QED
  BY <1>1, <1>2

LEMMA SpecTyped == Spec => []Typed
BY InitTyped, NextTyped, PTL DEF Spec

(* Every handler, wherever it is interrupted, leaves rows of their types.  *)
THEOREM OrderFlowTypeOK == Spec => []TypeOK
BY SpecTyped, TypedIsTypeOK, PTL

-----------------------------------------------------------------------------
(* The books.  An order can be reviewed, activated, disputed or refunded   *)
(* only through a button, a dialog, a dispute or a task that was handed    *)
(* out earlier, and none of these is ever taken back.  So the invariant    *)
(* ties each of them, not only the status of the order, to the deduction:  *)
(* who holds a way to serve or refund an order holds it for a charged one. *)

AmountSet == {0} \cup {Commission(p) : p \in Percents}

Charged(o) == deductions[o] # <<>>

OrderBooks ==
    \A o \in Orders :
        /\ commission_amount[o] \in AmountSet
        /\ status[o] = "awaiting_receipt_review" /\ ~is_test_order[o] =>
               Charged(o) /\ commission_amount[o] = Last(deductions[o])
        /\ TestLimit = 0 =>
               /\ ~is_test_order[o]
               /\ status[o] \in {"confirmed", "activated"} =>
                      paid_from_wallet[o] \/ Charged(o)
               /\ refunds[o] # <<>> => Charged(o)

ButtonBooks ==
    TestLimit = 0 =>
        \A o \in Orders :
            /\ "review" \in buttons[o] \/ "dispute" \in buttons[o] => Charged(o)
            /\ "activate" \in buttons[o] =>
                   Charged(o) \/ (paid_from_wallet[o] /\ status[o] # "none")

DialogBooks ==
    TestLimit = 0 =>
        \A s \in Staff : entering_reason[s] # None => Charged(entering_reason[s])

DisputeBooks ==
    TestLimit = 0 =>
        \A d \in Disputes : disputes[d].review_status # "none" => Charged(disputes[d].order)

TaskBook(local) ==
    /\ local.amount \in AmountSet
    /\ TestLimit = 0 =>
           /\ ~local.test
           /\ local.at \in {"insert_dispute", "refund"} => Charged(local.order)

TaskBooks == \A t \in Tasks : TaskBook(task[t])

Books == OrderBooks /\ ButtonBooks /\ DialogBooks /\ DisputeBooks /\ TaskBooks

\* Ledger rows are only added, and a wallet order stays one.
ChargedGrows ==
    \A o \in Orders :
        /\ Charged(o) => Charged(o)'
        /\ paid_from_wallet[o] /\ status[o] # "none" =>
               paid_from_wallet'[o] /\ status'[o] # "none"

LEMMA BooksFrame ==
    ASSUME Typed, Books, ChargedGrows
    PROVE  /\ UNCHANGED buttons => ButtonBooks'
           /\ UNCHANGED entering_reason => DialogBooks'
           /\ UNCHANGED disputes => DisputeBooks'
           /\ UNCHANGED task => TaskBooks'
<1>1. UNCHANGED buttons => ButtonBooks'
  BY DEF Books, ButtonBooks, ChargedGrows
<1>2. UNCHANGED entering_reason => DialogBooks'
  BY DEF Typed, ChatsOK, Inserted, Books, DialogBooks, ChargedGrows
<1>3. UNCHANGED disputes => DisputeBooks'
  BY DEF Typed, DisputesOK, Inserted, Books, DisputeBooks, ChargedGrows
<1>4. UNCHANGED task => TaskBooks'
  BY DEF Typed, TasksOK, TaskRow, Inserted, Books, TaskBooks, TaskBook, ChargedGrows
<1>5. QED
  BY <1>1, <1>2, <1>3, <1>4

LEMMA OrderBooksFrame ==
    ASSUME Typed, Books, UNCHANGED <<accountVars, orderVars>>
    PROVE  OrderBooks' /\ ChargedGrows
BY DEF Books, OrderBooks, ChargedGrows, Charged, Last, accountVars, orderVars

\* A step that leaves account and orders alone and only moves tasks.
LEMMA StartBooks ==
    ASSUME Typed, Books, ChargedGrows, NEW t \in Tasks,
           \E local \in Task : TaskRow(local) /\ TaskBook(local) /\ Start(t, local)
    PROVE  TaskBooks'
<1> PICK local \in Task : TaskRow(local) /\ TaskBook(local) /\ Start(t, local)
  OBVIOUS
<1>1. task'[t] = local /\ \A u \in Tasks \ {t} : task'[u] = task[u]
  BY DEF Typed, TasksOK, Start
<1>2. QED
  BY <1>1 DEF Typed, TasksOK, TaskRow, Inserted, Books, TaskBooks, TaskBook, ChargedGrows

LEMMA GotoBooks ==
    ASSUME Typed, Books, ChargedGrows, NEW t \in Tasks, NEW st \in Step, Goto(t, st),
           task[t].at \notin {"idle", "insert_order"},
           st \notin {"insert_dispute", "refund"}
    PROVE  TaskBooks'
<1>1. /\ task'[t].at = st
      /\ task'[t].order = task[t].order
      /\ task'[t].amount = task[t].amount
      /\ task'[t].test = task[t].test
      /\ \A u \in Tasks \ {t} : task'[u] = task[u]
  BY DEF Typed, TasksOK, Goto, Task
<1>2. TaskBook(task[t])'
  BY <1>1 DEF Books, TaskBooks, TaskBook
<1>3. \A u \in Tasks \ {t} : TaskBook(task[u])'
  BY <1>1 DEF Typed, TasksOK, TaskRow, Inserted, Books, TaskBooks, TaskBook, ChargedGrows
<1>4. QED
  BY <1>2, <1>3 DEF TaskBooks

LEMMA IdleBook == TaskBook(Idle)
BY DEF TaskBook, Idle, AmountSet

LEMMA FinishBooks ==
    ASSUME Typed, Books, ChargedGrows, NEW t \in Tasks, Finish(t)
    PROVE  TaskBooks'
<1>1. task'[t] = Idle /\ \A u \in Tasks \ {t} : task'[u] = task[u]
  BY DEF Typed, TasksOK, Finish
<1>2. QED
  BY <1>1, IdleBook
     DEF Typed, TasksOK, TaskRow, Inserted, Books, TaskBooks, TaskBook, Idle, ChargedGrows

\* An UPDATE of a status alone.
LEMMA SetStatusBooks ==
    ASSUME Typed, Books, NEW o \in Orders, NEW st \in Status, SetStatus(o, st),
           UNCHANGED accountVars, st \notin {"none", "awaiting_receipt_review"},
           TestLimit = 0 /\ st \in {"confirmed", "activated"} =>
               paid_from_wallet[o] \/ Charged(o)
    PROVE  OrderBooks' /\ ChargedGrows
BY DEF Typed, OrdersOK, Books, OrderBooks, SetStatus, ChargedGrows, Charged, Last, accountVars

LEMMA NewOrderBooks ==
    ASSUME Typed, Books, NEW o \in Orders, NEW c \in Customers, NEW paid \in BOOLEAN,
           NEW st \in {"awaiting_payment", "confirmed"}, NewOrder(o, c, st, paid),
           UNCHANGED accountVars, st = "confirmed" => paid
    PROVE  OrderBooks' /\ ChargedGrows
BY DEF Typed, OrdersOK, Books, OrderBooks, NewOrder, ChargedGrows, Charged, Last, accountVars

LEMMA LastOfAppend ==
    ASSUME NEW s \in Seq(Nat), NEW n \in Nat
    PROVE  /\ Append(s, n) \in Seq(Nat)
           /\ Append(s, n) # <<>>
           /\ Last(Append(s, n)) = n
<1>1. /\ Append(s, n) \in Seq(Nat)
      /\ Len(Append(s, n)) = Len(s) + 1
      /\ Append(s, n)[Len(s) + 1] = n
  OBVIOUS
<1>2. Len(s) \in Nat
  OBVIOUS
<1>3. QED
  BY <1>1, <1>2 DEF Last

\* submit_receipt's transaction, in its three outcomes.
LEMMA SubmitBooks ==
    ASSUME Typed, Books, NEW t \in Tasks, SubmitTestReceipt(t) \/ SubmitReceipt(t)
                                          \/ SubmitReceiptWithoutCredit(t)
    PROVE  OrderBooks' /\ ChargedGrows
<1> DEFINE o == task[t].order
<1>1. /\ task[t].amount \in AmountSet
      /\ task[t].test \in BOOLEAN
      /\ TestLimit = 0 => ~task[t].test
  BY TaskFields DEF Typed, TasksOK, Books, TaskBooks, TaskBook
<1>2. Inserted(o)
  BY AtOrder DEF SubmitTestReceipt, SubmitReceipt, SubmitReceiptWithoutCredit
<1>3. CASE SubmitTestReceipt(t)
  BY <1>1, <1>2, <1>3
     DEF Typed, OrdersOK, Books, OrderBooks, SubmitTestReceipt, WriteReceipt, ChargedGrows,
         Charged, Last, Inserted, accountVars
<1>4. CASE SubmitReceiptWithoutCredit(t)
  BY <1>1, <1>2, <1>4
     DEF Typed, OrdersOK, Books, OrderBooks, SubmitReceiptWithoutCredit, WriteReceipt,
         ChargedGrows, Charged, Last, Inserted, accountVars
<1>5. CASE SubmitReceipt(t)
  <2>1. /\ status' = [status EXCEPT ![o] = "awaiting_receipt_review"]
        /\ commission_amount' = [commission_amount EXCEPT ![o] = task[t].amount]
        /\ is_test_order' = [is_test_order EXCEPT ![o] = task[t].test]
        /\ UNCHANGED <<paid_from_wallet, refunds>>
        /\ deductions' = [deductions EXCEPT ![o] = Append(@, task[t].amount)]
    BY <1>5 DEF SubmitReceipt, WriteReceipt, Account!DeductCommission
  <2>2. /\ o \in Orders
        /\ deductions \in [Orders -> Seq(Nat)]
        /\ task[t].amount \in Nat
    BY <1>2, TaskFields DEF Inserted, Typed, TasksOK, Account!TypeOK
  <2>3. /\ deductions'[o] = Append(deductions[o], task[t].amount)
        /\ deductions[o] \in Seq(Nat)
        /\ \A p \in Orders \ {o} : deductions'[p] = deductions[p]
    BY <2>1, <2>2
  <2>9. /\ deductions'[o] # <<>>
        /\ Last(deductions'[o]) = task[t].amount
    BY <2>2, <2>3, LastOfAppend
  <2>4. ChargedGrows
    BY <2>1, <2>2, <2>3, <2>9 DEF ChargedGrows, Charged, Typed, OrdersOK
  <2>5. /\ status'[o] = "awaiting_receipt_review"
        /\ commission_amount'[o] = task[t].amount
        /\ is_test_order'[o] = task[t].test
        /\ refunds' = refunds
    BY <2>1, <2>2 DEF Typed, OrdersOK
  <2>6. \A p \in Orders \ {o} :
            /\ status'[p] = status[p]
            /\ commission_amount'[p] = commission_amount[p]
            /\ is_test_order'[p] = is_test_order[p]
            /\ paid_from_wallet'[p] = paid_from_wallet[p]
            /\ deductions'[p] = deductions[p]
    BY <2>1, <2>3 DEF Typed, OrdersOK
  <2> HIDE DEF o
  <2>7. OrderBooks'
    BY <1>1, <2>5, <2>6, <2>9 DEF Books, OrderBooks, Charged, Last
  <2>8. QED
    BY <2>4, <2>7
<1>6. QED
  BY <1>3, <1>4, <1>5

LEMMA BooksInit == Init => Books
BY IdleBook
   DEF Init, Account!Init, Books, OrderBooks, ButtonBooks, DialogBooks, DisputeBooks,
       TaskBooks, NoDispute, AmountSet

LEMMA CommissionInSet ==
    ASSUME NEW p \in Percents PROVE Commission(p) \in AmountSet
BY DEF AmountSet

LEMMA CustomerStepBooks ==
    ASSUME Typed, Books, NEW t \in Tasks, CustomerStep(t) PROVE Books'
<1>1. ASSUME NEW c \in Customers, StartPurchase(t, c) PROVE Books'
  <2> DEFINE local == [Idle EXCEPT !.at = "insert_order", !.person = c]
  <2>1. OrderBooks' /\ ChargedGrows
    BY <1>1, OrderBooksFrame DEF StartPurchase
  <2>2. local \in Task /\ TaskRow(local) /\ TaskBook(local)
    BY DEF Task, Step, Idle, TaskRow, TaskBook, CustomerSteps, AmountSet
  <2>3. Start(t, local)
    BY <1>1 DEF StartPurchase
  <2>4. TaskBooks'
    <3> HIDE DEF local
    <3> QED BY <2>1, <2>2, <2>3, StartBooks
  <2>5. QED
    BY <1>1, <2>1, <2>4, BooksFrame DEF StartPurchase, disputeVars, Books
<1>2. ASSUME NEW c \in Customers, ReceiveReceipt(t, c) PROVE Books'
  <2> DEFINE local == [Idle EXCEPT !.at = "count_pending", !.person = c,
                                   !.order = waiting_receipt[c]]
  <2>1. OrderBooks' /\ ChargedGrows
    BY <1>2, OrderBooksFrame DEF ReceiveReceipt
  <2>2. Inserted(waiting_receipt[c])
    BY <1>2 DEF ReceiveReceipt, Typed, ChatsOK
  <2>3. local \in Task /\ TaskRow(local) /\ TaskBook(local)
    BY <2>2 DEF Task, Step, Idle, Inserted, TaskRow, TaskBook, CustomerSteps, AmountSet
  <2>4. Start(t, local)
    BY <1>2 DEF ReceiveReceipt
  <2>5. TaskBooks'
    <3> HIDE DEF local
    <3> QED BY <2>1, <2>3, <2>4, StartBooks
  <2>6. QED
    BY <1>2, <2>1, <2>5, BooksFrame DEF ReceiveReceipt, chatVars, disputeVars, Books
<1>3. ASSUME NEW o \in Orders, InsertOrder(t, o) PROVE Books'
  <2>1. task[t].person \in Customers
    BY <1>3 DEF InsertOrder, Typed, TasksOK, TaskRow, CustomerSteps
  <2>2. OrderBooks' /\ ChargedGrows
    BY <1>3, <2>1, NewOrderBooks DEF InsertOrder
  <2>3. /\ task'[t].at = "remember_order"
        /\ task'[t].amount = task[t].amount
        /\ task'[t].test = task[t].test
        /\ \A u \in Tasks \ {t} : task'[u] = task[u]
    BY <1>3 DEF InsertOrder, Typed, TasksOK, Task
  <2>4. TaskBook(task[t])'
    BY <2>3 DEF Books, TaskBooks, TaskBook
  <2>5. TaskBooks'
    BY <2>2, <2>3, <2>4
       DEF Typed, TasksOK, TaskRow, Inserted, Books, TaskBooks, TaskBook, ChargedGrows
  <2>6. QED
    BY <1>3, <2>2, <2>5, BooksFrame DEF InsertOrder, chatVars, disputeVars, Books
<1>4. ASSUME NEW o \in Orders, InsertOrderPaidByWallet(t, o) PROVE Books'
  <2>1. task[t].person \in Customers
    BY <1>4 DEF InsertOrderPaidByWallet, Typed, TasksOK, TaskRow, CustomerSteps
  <2>2. OrderBooks' /\ ChargedGrows
    BY <1>4, <2>1, NewOrderBooks DEF InsertOrderPaidByWallet
  <2>3. TaskBooks'
    BY <1>4, <2>2, FinishBooks DEF InsertOrderPaidByWallet
  <2>4. /\ \A p \in Orders \ {o} : buttons'[p] = buttons[p]
        /\ buttons'[o] = buttons[o] \cup {"activate"}
        /\ paid_from_wallet'[o] /\ status'[o] = "confirmed"
    BY <1>4 DEF InsertOrderPaidByWallet, NewOrder, Typed, ChatsOK, OrdersOK
  <2>5. ButtonBooks'
    BY <2>2, <2>4 DEF Books, ButtonBooks, ChargedGrows
  <2>6. QED
    BY <1>4, <2>2, <2>3, <2>5, BooksFrame DEF InsertOrderPaidByWallet, disputeVars, Books
<1>5. CASE RememberOrder(t) \/ ClearReceipt(t)
  <2>1. OrderBooks' /\ ChargedGrows
    BY <1>5, OrderBooksFrame DEF RememberOrder, ClearReceipt
  <2>2. TaskBooks'
    BY <1>5, <2>1, FinishBooks DEF RememberOrder, ClearReceipt
  <2>3. QED
    BY <1>5, <2>1, <2>2, BooksFrame DEF RememberOrder, ClearReceipt, disputeVars, Books
<1>6. CASE CountPending(t)
  <2>1. OrderBooks' /\ ChargedGrows
    BY <1>6, OrderBooksFrame DEF CountPending
  <2>2. TaskBooks'
    BY <1>6, <2>1, GotoBooks, FinishBooks DEF CountPending, Step
  <2>3. QED
    BY <1>6, <2>1, <2>2, BooksFrame DEF CountPending, chatVars, disputeVars, Books
<1>7. CASE ReadReseller(t)
  <2> DEFINE test == test_mode_enabled /\ test_mode_orders_used < TestLimit
  <2> DEFINE amount == IF test THEN 0 ELSE Commission(commission_percent)
  <2>1. OrderBooks' /\ ChargedGrows
    BY <1>7, OrderBooksFrame DEF ReadReseller
  <2>2. amount \in AmountSet /\ (TestLimit = 0 => ~test)
    BY CommissionInSet DEF Typed, ResellerOK, AmountSet
  <2>3. task' = [task EXCEPT ![t] = [@ EXCEPT !.at = "submit", !.test = test, !.amount = amount]]
    BY <1>7 DEF ReadReseller
  <2> HIDE DEF test, amount
  <2>4. /\ task'[t].at = "submit"
        /\ task'[t].amount = amount
        /\ task'[t].test = test
        /\ \A u \in Tasks \ {t} : task'[u] = task[u]
    BY <2>3 DEF Typed, TasksOK, Task
  <2>5. TaskBook(task[t])'
    BY <2>2, <2>4 DEF TaskBook, AmountSet
  <2>6. TaskBooks'
    BY <2>1, <2>4, <2>5
       DEF Typed, TasksOK, TaskRow, Inserted, Books, TaskBooks, TaskBook, ChargedGrows
  <2>7. QED
    BY <1>7, <2>1, <2>6, BooksFrame DEF ReadReseller, chatVars, disputeVars, Books
<1>8. CASE SubmitTestReceipt(t) \/ SubmitReceipt(t) \/ SubmitReceiptWithoutCredit(t)
  <2>1. OrderBooks' /\ ChargedGrows
    BY <1>8, SubmitBooks
  <2>2. task[t].at = "submit" /\ Goto(t, "clear_receipt")
    BY <1>8 DEF SubmitTestReceipt, SubmitReceipt, SubmitReceiptWithoutCredit
  <2>3. TaskBooks'
    BY <2>1, <2>2, GotoBooks DEF Step
  <2>4. QED
    BY <1>8, <2>1, <2>3, BooksFrame
       DEF SubmitTestReceipt, SubmitReceipt, SubmitReceiptWithoutCredit, chatVars,
           disputeVars, Books
<1>9. QED
  BY <1>1, <1>2, <1>3, <1>4, <1>5, <1>6, <1>7, <1>8 DEF CustomerStep

LEMMA StaffStepBooks ==
    ASSUME Typed, Books, NEW t \in Tasks, StaffStep(t) PROVE Books'
<1>1. ASSUME NEW o \in Orders, ActivateOrder(t, o) PROVE Books'
  <2> DEFINE local == [Idle EXCEPT !.at = "read_test_flag", !.order = o]
  <2>1. Inserted(o)
    BY <1>1 DEF ActivateOrder, Typed, ChatsOK, Inserted
  <2>2. OrderBooks' /\ ChargedGrows
    BY <1>1, SetStatusBooks DEF ActivateOrder, Status, Books, ButtonBooks
  <2>3. local \in Task /\ TaskRow(local) /\ TaskBook(local)
    BY <2>1 DEF Task, Step, Idle, TaskRow, TaskBook, CustomerSteps, AmountSet
  <2>4. Start(t, local)
    BY <1>1 DEF ActivateOrder
  <2>5. TaskBooks'
    <3> HIDE DEF local
    <3> QED BY <2>2, <2>3, <2>4, StartBooks
  <2>6. QED
    BY <1>1, <2>2, <2>5, BooksFrame DEF ActivateOrder, chatVars, disputeVars, Books
<1>2. CASE ReadTestFlag(t) \/ BumpTestCounter(t)
  <2>1. OrderBooks' /\ ChargedGrows
    BY <1>2, OrderBooksFrame DEF ReadTestFlag, BumpTestCounter
  <2>2. TaskBooks'
    BY <1>2, <2>1, GotoBooks, FinishBooks DEF ReadTestFlag, BumpTestCounter, Step
  <2>3. QED
    BY <1>2, <2>1, <2>2, BooksFrame
       DEF ReadTestFlag, BumpTestCounter, chatVars, disputeVars, Books
<1>3. ASSUME NEW s \in Staff, SubmitDisputeReason(t, s) PROVE Books'
  <2> DEFINE local == [Idle EXCEPT !.at = "insert_dispute", !.person = s,
                                   !.order = entering_reason[s]]
  <2>1. /\ Inserted(entering_reason[s])
        /\ TestLimit = 0 => Charged(entering_reason[s])
    BY <1>3 DEF SubmitDisputeReason, Typed, ChatsOK, Books, DialogBooks
  <2>2. OrderBooks' /\ ChargedGrows
    BY <1>3, <2>1, SetStatusBooks DEF SubmitDisputeReason, Status, Inserted
  <2>3. local \in Task /\ TaskRow(local) /\ TaskBook(local)
    BY <2>1 DEF Task, Step, Idle, TaskRow, TaskBook, CustomerSteps, Inserted, AmountSet
  <2>4. Start(t, local)
    BY <1>3 DEF SubmitDisputeReason
  <2>5. TaskBooks'
    <3> HIDE DEF local
    <3> QED BY <2>2, <2>3, <2>4, StartBooks
  <2>6. QED
    BY <1>3, <2>2, <2>5, BooksFrame DEF SubmitDisputeReason, chatVars, disputeVars, Books
<1>4. ASSUME NEW d \in Disputes, InsertDispute(t, d) PROVE Books'
  <2>1. OrderBooks' /\ ChargedGrows
    BY <1>4, OrderBooksFrame DEF InsertDispute
  <2>2. TaskBooks'
    BY <1>4, <2>1, FinishBooks DEF InsertDispute
  <2>3. /\ TestLimit = 0 => Charged(task[t].order)
        /\ task[t].order \in Orders
    BY <1>4, AtOrder DEF InsertDispute, Books, TaskBooks, TaskBook
  <2>4. /\ disputes'[d].order = task[t].order
        /\ \A e \in Disputes \ {d} : disputes'[e] = disputes[e]
    BY <1>4 DEF InsertDispute, Typed, DisputesOK, Dispute
  <2>5. DisputeBooks'
    BY <2>1, <2>3, <2>4 DEF Typed, DisputesOK, Inserted, Books, DisputeBooks, ChargedGrows
  <2>6. DialogBooks'
    BY <1>4, <2>1, NoneAssumption
       DEF InsertDispute, Typed, ChatsOK, Inserted, Books, DialogBooks, ChargedGrows
  <2>7. QED
    BY <1>4, <2>1, <2>2, <2>5, <2>6, BooksFrame DEF InsertDispute, Books
<1>5. QED
  BY <1>1, <1>2, <1>3, <1>4 DEF StaffStep

\* A review of a dispute keeps its order.
LEMMA ReviewBooks ==
    ASSUME Typed, Books, ChargedGrows, NEW d \in Disputes, NEW st \in {"approved", "rejected"},
           Review(d, st), disputes[d].review_status # "none"
    PROVE  DisputeBooks'
<1>1. /\ disputes'[d].order = disputes[d].order
      /\ \A e \in Disputes \ {d} : disputes'[e] = disputes[e]
  BY DEF Typed, DisputesOK, Review, Dispute
<1>2. QED
  BY <1>1 DEF Typed, DisputesOK, Inserted, Books, DisputeBooks, ChargedGrows

LEMMA AdminStepBooks ==
    ASSUME Typed, Books, NEW t \in Tasks, AdminStep(t) PROVE Books'
<1>1. ASSUME NEW d \in Disputes, ApproveDispute(t, d) PROVE Books'
  <2> DEFINE local == [Idle EXCEPT !.at = "refund", !.dispute = d, !.order = disputes[d].order,
                                   !.amount = commission_amount[disputes[d].order]]
  <2>1. /\ Filed(d)
        /\ Inserted(disputes[d].order)
        /\ commission_amount[disputes[d].order] \in Nat
        /\ commission_amount[disputes[d].order] \in AmountSet
        /\ TestLimit = 0 => Charged(disputes[d].order)
    BY <1>1 DEF ApproveDispute, Typed, DisputesOK, OrdersOK, Inserted, Filed,
                Books, OrderBooks, DisputeBooks
  <2>2. OrderBooks' /\ ChargedGrows
    BY <1>1, OrderBooksFrame DEF ApproveDispute
  <2>3. local \in Task /\ TaskRow(local) /\ TaskBook(local)
    BY <2>1 DEF Task, Step, Idle, TaskRow, TaskBook, CustomerSteps, Filed, Inserted
  <2>4. Start(t, local)
    BY <1>1 DEF ApproveDispute
  <2>5. TaskBooks'
    <3> HIDE DEF local
    <3> QED BY <2>2, <2>3, <2>4, StartBooks
  <2>6. QED
    BY <1>1, <2>2, <2>5, BooksFrame DEF ApproveDispute, chatVars, disputeVars, Books
<1>2. CASE Refund(t)
  <2>1. /\ task[t].order \in Orders
        /\ TestLimit = 0 => Charged(task[t].order)
    BY <1>2, AtOrder DEF Refund, Books, TaskBooks, TaskBook
  <2>2. /\ \A o \in Orders \ {task[t].order} : refunds'[o] = refunds[o]
        /\ UNCHANGED deductions
    BY <1>2 DEF Refund, Account!RefundCommission, Typed, Account!TypeOK
  <2>3. OrderBooks' /\ ChargedGrows
    BY <1>2, <2>1, <2>2 DEF Refund, Books, OrderBooks, ChargedGrows, Charged, Last, orderVars
  <2>4. TaskBooks'
    BY <1>2, <2>3, GotoBooks DEF Refund, Step
  <2>5. QED
    BY <1>2, <2>3, <2>4, BooksFrame DEF Refund, chatVars, disputeVars, Books
<1>3. CASE MarkApproved(t)
  <2>1. OrderBooks' /\ ChargedGrows
    BY <1>3, OrderBooksFrame DEF MarkApproved
  <2>2. TaskBooks'
    BY <1>3, <2>1, GotoBooks DEF MarkApproved, Step
  <2>3. task[t].dispute \in Disputes /\ disputes[task[t].dispute].review_status # "none"
    BY <1>3 DEF MarkApproved, Typed, TasksOK, TaskRow, Filed
  <2>4. DisputeBooks'
    BY <1>3, <2>1, <2>3, ReviewBooks DEF MarkApproved
  <2>5. QED
    BY <1>3, <2>1, <2>2, <2>4, BooksFrame DEF MarkApproved, chatVars, Books
<1>4. CASE MarkRefunded(t)
  <2>1. OrderBooks' /\ ChargedGrows
    BY <1>4, AtOrder, SetStatusBooks DEF MarkRefunded, Status
  <2>2. TaskBooks'
    BY <1>4, <2>1, GotoBooks DEF MarkRefunded, Step
  <2>3. QED
    BY <1>4, <2>1, <2>2, BooksFrame DEF MarkRefunded, chatVars, disputeVars, Books
<1>5. CASE CountFakes(t) \/ CheckBlacklist(t) \/ AddToBlacklist(t)
  <2>1. OrderBooks' /\ ChargedGrows
    BY <1>5, OrderBooksFrame DEF CountFakes, CheckBlacklist, AddToBlacklist
  <2>2. TaskBooks'
    BY <1>5, <2>1, GotoBooks, FinishBooks DEF CountFakes, CheckBlacklist, AddToBlacklist, Step
  <2>3. QED
    BY <1>5, <2>1, <2>2, BooksFrame
       DEF CountFakes, CheckBlacklist, AddToBlacklist, chatVars, disputeVars, Books
<1>6. QED
  BY <1>1, <1>2, <1>3, <1>4, <1>5 DEF AdminStep

LEMMA ShortStepBooks ==
    ASSUME Typed, Books, ShortStep PROVE Books'
<1>1. ASSUME NEW c \in Customers, RefusePurchase(c) \/ BlockCustomer(c) PROVE Books'
  <2>1. OrderBooks' /\ ChargedGrows
    BY <1>1, OrderBooksFrame DEF RefusePurchase, BlockCustomer
  <2>2. QED
    BY <1>1, <2>1, BooksFrame DEF RefusePurchase, BlockCustomer, chatVars, disputeVars, Books
<1>2. CASE ListPendingOrders
  <2>1. OrderBooks' /\ ChargedGrows
    BY <1>2, OrderBooksFrame DEF ListPendingOrders
  <2>2. \A o \in Orders :
            /\ "dispute" \in buttons'[o] => "dispute" \in buttons[o]
            /\ "review" \in buttons'[o] =>
                   "review" \in buttons[o] \/ status[o] = "awaiting_receipt_review"
            /\ "activate" \in buttons'[o] =>
                   "activate" \in buttons[o] \/ status[o] = "confirmed"
    BY <1>2 DEF ListPendingOrders
  <2>3. status' = status
    BY <1>2 DEF ListPendingOrders, orderVars
  <2>4. ButtonBooks'
    BY <2>1, <2>2, <2>3 DEF Books, OrderBooks, ButtonBooks, ChargedGrows
  <2>5. QED
    BY <1>2, <2>1, <2>4, BooksFrame DEF ListPendingOrders, disputeVars, Books
<1>3. ASSUME NEW o \in Orders, ApproveReceipt(o) \/ RejectReceipt(o) PROVE Books'
  <2>1. TestLimit = 0 => Charged(o)
    BY <1>3 DEF ApproveReceipt, RejectReceipt, Books, ButtonBooks
  <2>2. OrderBooks' /\ ChargedGrows
    BY <1>3, <2>1, SetStatusBooks DEF ApproveReceipt, RejectReceipt, Status
  <2>3. ButtonBooks'
    BY <1>3, <2>1, <2>2 DEF ApproveReceipt, RejectReceipt, Typed, ChatsOK,
                            Books, ButtonBooks, ChargedGrows
  <2>4. QED
    BY <1>3, <2>2, <2>3, BooksFrame DEF ApproveReceipt, RejectReceipt, disputeVars, Books
<1>4. ASSUME NEW o \in Orders, NEW s \in Staff, OpenDispute(s, o) PROVE Books'
  <2>1. TestLimit = 0 => Charged(o)
    BY <1>4 DEF OpenDispute, Books, ButtonBooks
  <2>2. OrderBooks' /\ ChargedGrows
    BY <1>4, OrderBooksFrame DEF OpenDispute
  <2>3. DialogBooks'
    BY <1>4, <2>1, <2>2 DEF OpenDispute, Typed, ChatsOK, Inserted, Books, DialogBooks, ChargedGrows
  <2>4. QED
    BY <1>4, <2>2, <2>3, BooksFrame DEF OpenDispute, disputeVars, Books
<1>5. ASSUME NEW d \in Disputes, RejectDispute(d) PROVE Books'
  <2>1. OrderBooks' /\ ChargedGrows
    BY <1>5, OrderBooksFrame DEF RejectDispute
  <2>2. DisputeBooks'
    BY <1>5, <2>1, ReviewBooks DEF RejectDispute
  <2>3. QED
    BY <1>5, <2>1, <2>2, BooksFrame DEF RejectDispute, chatVars, Books
<1>6. ASSUME NEW w \in Topups,
             (\E amount \in TopupAmounts : RequestTopup(w, amount)) \/ ConfirmTopup(w)
      PROVE  Books'
  <2>1. UNCHANGED <<deductions, refunds, orderVars, disputeVars, chatVars, task>>
    BY <1>6 DEF RequestTopup, ConfirmTopup, Account!RequestTopup, Account!ConfirmTopup
  <2>2. OrderBooks' /\ ChargedGrows
    BY <2>1 DEF Books, OrderBooks, ChargedGrows, Charged, Last, orderVars
  <2>3. QED
    BY <2>1, <2>2, BooksFrame DEF chatVars, disputeVars, Books
<1>7. ASSUME NEW p \in Percents, SetCommissionPercent(p) PROVE Books'
  <2>1. OrderBooks' /\ ChargedGrows
    BY <1>7, OrderBooksFrame DEF SetCommissionPercent
  <2>2. QED
    BY <1>7, <2>1, BooksFrame DEF SetCommissionPercent, chatVars, disputeVars, Books
<1>8. QED
  BY <1>1, <1>2, <1>3, <1>4, <1>5, <1>6, <1>7 DEF ShortStep

LEMMA FailureBooks ==
    ASSUME Typed, Books, (\E t \in Tasks : Fail(t)) \/ Restart PROVE Books'
<1>1. OrderBooks' /\ ChargedGrows
  BY OrderBooksFrame DEF Fail, Restart
<1>2. TaskBooks'
  <2>1. CASE \E t \in Tasks : Fail(t)
    BY <1>1, <2>1, FinishBooks DEF Fail
  <2>2. CASE Restart
    BY <2>2, IdleBook DEF Restart, TaskBooks, TaskBook, Idle
  <2>3. QED
    BY <2>1, <2>2
<1>3. DialogBooks'
  BY <1>1, BooksFrame DEF Fail, Restart, chatVars, DialogBooks
<1>4. QED
  BY <1>1, <1>2, <1>3, BooksFrame DEF Fail, Restart, chatVars, disputeVars, Books

LEMMA NextBooks == Typed /\ Books /\ [Next]_vars => Books'
<1> SUFFICES ASSUME Typed, Books, [Next]_vars PROVE Books'
  OBVIOUS
<1>1. CASE UNCHANGED vars
  BY <1>1, OrderBooksFrame, BooksFrame DEF vars, chatVars, disputeVars, Books
<1>2. CASE Next
  BY <1>2, CustomerStepBooks, StaffStepBooks, AdminStepBooks, ShortStepBooks, FailureBooks
     DEF Next
<1>3. QED
  BY <1>1, <1>2

LEMMA SpecBooks == Spec => []Books
<1>1. Spec => []Typed
  BY SpecTyped
<1>2. QED
  BY <1>1, BooksInit, NextBooks, PTL DEF Spec

(* However receipts, reviews, disputes and restarts interleave, an order   *)
(* under review has its commission taken, in the amount that its row says. *)
THEOREM OrderFlowReviewedIsCharged == Spec => []ReviewedIsCharged
<1>1. Books => ReviewedIsCharged
  BY DEF Books, OrderBooks, ReviewedIsCharged, Charged
<1>2. QED
  BY <1>1, SpecBooks, PTL

(* However late a button is tapped, no order is confirmed or activated     *)
(* for which no commission was taken.                                      *)
THEOREM OrderFlowNoFreeService == Spec => []NoFreeService
<1>1. Books => NoFreeService
  BY DEF Books, OrderBooks, NoFreeService, Charged
<1>2. QED
  BY <1>1, SpecBooks, PTL

(* Whatever disputes are approved, and how often, commission goes back     *)
(* only for an order it was taken for.                                     *)
THEOREM OrderFlowRefundAfterCharge == Spec => []RefundAfterCharge
<1>1. Books => RefundAfterCharge
  BY DEF Books, OrderBooks, RefundAfterCharge, Charged
<1>2. QED
  BY <1>1, SpecBooks, PTL

-----------------------------------------------------------------------------
(* The handlers implement the account.  Every step of a task is one        *)
(* operation of CommissionAccount or leaves the account alone: the order   *)
(* a task holds exists (Typed), and the amount it holds was computed from  *)
(* a percentage of the reseller or read back from such an order (Books).   *)

LEMMA AccountInit == Init => Account!Init
BY DEF Init

LEMMA AccountNext ==
    Typed /\ Books /\ [Next]_vars => [Account!Next]_(Account!accountVars)
<1> SUFFICES ASSUME Typed, Books, [Next]_vars
             PROVE  Account!Next \/ UNCHANGED accountVars
  BY DEF accountVars, Account!accountVars
<1>1. CASE UNCHANGED vars
  BY <1>1 DEF vars
<1>2. ASSUME NEW t \in Tasks, CustomerStep(t) PROVE Account!Next \/ UNCHANGED accountVars
  <2>1. CASE SubmitReceipt(t)
    <3>1. task[t].order \in Orders
      BY <2>1, AtOrder DEF SubmitReceipt
    <3>2. task[t].amount \in {0} \cup {Commission(p) : p \in Percents}
      BY DEF Books, TaskBooks, TaskBook, AmountSet
    <3>3. Account!DeductCommission(task[t].order, task[t].amount)
      BY <2>1 DEF SubmitReceipt
    <3>4. QED
      BY <3>1, <3>2, <3>3 DEF Account!Next
  <2>2. CASE ~SubmitReceipt(t)
    BY <1>2, <2>2 DEF CustomerStep, StartPurchase, ReceiveReceipt, InsertOrder,
       InsertOrderPaidByWallet, RememberOrder, CountPending, ReadReseller,
       SubmitTestReceipt, SubmitReceiptWithoutCredit, ClearReceipt
  <2>3. QED
    BY <2>1, <2>2
<1>3. ASSUME NEW t \in Tasks, StaffStep(t) PROVE UNCHANGED accountVars
  BY <1>3 DEF StaffStep, ActivateOrder, ReadTestFlag, BumpTestCounter,
     SubmitDisputeReason, InsertDispute
<1>4. ASSUME NEW t \in Tasks, AdminStep(t) PROVE Account!Next \/ UNCHANGED accountVars
  <2>1. CASE Refund(t)
    <3>1. task[t].order \in Orders
      BY <2>1, AtOrder DEF Refund
    <3>2. task[t].amount \in {0} \cup {Commission(p) : p \in Percents}
      BY DEF Books, TaskBooks, TaskBook, AmountSet
    <3>3. Account!RefundCommission(task[t].order, task[t].amount)
      BY <2>1 DEF Refund
    <3>4. QED
      BY <3>1, <3>2, <3>3 DEF Account!Next
  <2>2. CASE ~Refund(t)
    BY <1>4, <2>2 DEF AdminStep, ApproveDispute, MarkApproved, MarkRefunded,
       CountFakes, CheckBlacklist, AddToBlacklist
  <2>3. QED
    BY <2>1, <2>2
<1>5. ASSUME ShortStep PROVE Account!Next \/ UNCHANGED accountVars
  <2>1. ASSUME NEW w \in Topups,
               (\E amount \in TopupAmounts : RequestTopup(w, amount)) \/ ConfirmTopup(w)
        PROVE  Account!Next
    BY <2>1 DEF RequestTopup, ConfirmTopup, Account!Next
  <2>2. QED
    BY <1>5, <2>1 DEF ShortStep, RefusePurchase, BlockCustomer, ListPendingOrders,
       ApproveReceipt, RejectReceipt, OpenDispute, RejectDispute, SetCommissionPercent
<1>6. ASSUME (\E t \in Tasks : Fail(t)) \/ Restart PROVE UNCHANGED accountVars
  BY <1>6 DEF Fail, Restart
<1>7. QED
  BY <1>1, <1>2, <1>3, <1>4, <1>5, <1>6 DEF Next

(* The order flow, with all its tasks, failures and restarts, implements   *)
(* the commission account, so what the account promises holds in it.       *)
THEOREM OrderFlowImplementsAccount == Spec => ImplementsAccount
<1>1. Spec => []Typed
  BY SpecTyped
<1>2. Spec => []Books
  BY SpecBooks
<1>3. QED
  BY <1>1, <1>2, AccountInit, AccountNext, PTL DEF Spec, ImplementsAccount, Account!Spec

(* Every operation of the account keeps the balance above its floor.       *)
LEMMA FloorNext ==
    Account!TypeOK /\ Account!CreditFloor /\ [Account!Next]_(Account!accountVars)
        => Account!CreditFloor'
<1> SUFFICES ASSUME Account!TypeOK, Account!CreditFloor,
                    [Account!Next]_(Account!accountVars)
             PROVE  Account!CreditFloor'
  OBVIOUS
<1> USE CreditLimitAssumption
<1>1. CASE UNCHANGED Account!accountVars
  BY <1>1 DEF Account!CreditFloor, Account!accountVars
<1>2. ASSUME NEW o \in Orders, NEW a \in Nat, Account!DeductCommission(o, a)
      PROVE  Account!CreditFloor'
  BY <1>2 DEF Account!DeductCommission, Account!InsufficientCredit, Account!CreditFloor,
              Account!TypeOK
<1>3. ASSUME NEW o \in Orders, NEW a \in Nat, Account!RefundCommission(o, a)
      PROVE  Account!CreditFloor'
  BY <1>3 DEF Account!RefundCommission, Account!CreditFloor, Account!TypeOK
<1>4. ASSUME NEW w \in Topups, NEW a \in TopupAmounts, Account!RequestTopup(w, a)
      PROVE  Account!CreditFloor'
  <2>1. \A v \in Topups : topups[v].status = "confirmed" => topups'[v] = topups[v]
    BY <1>4 DEF Account!RequestTopup, Account!TypeOK, Account!Topup
  <2>2. QED
    BY <1>4, <2>1 DEF Account!RequestTopup, Account!CreditFloor
<1>5. ASSUME NEW w \in Topups, Account!ConfirmTopup(w) PROVE Account!CreditFloor'
  <2>1. /\ topups[w].amount \in Int
        /\ topups'[w].status = "confirmed" /\ topups'[w].amount = topups[w].amount
        /\ \A v \in Topups \ {w} : topups'[v] = topups[v]
        /\ topups[w].status = "pending"
    BY <1>5 DEF Account!ConfirmTopup, Account!TypeOK, Account!Topup
  <2>2. QED
    BY <1>5, <2>1 DEF Account!ConfirmTopup, Account!CreditFloor, Account!TypeOK
<1>6. {0} \cup {Commission(p) : p \in Percents} \subseteq Nat
  BY CommissionIsNat
<1>7. QED
  BY <1>1, <1>2, <1>3, <1>4, <1>5, <1>6 DEF Account!Next

(* Commission never takes the reseller below the negative limit, however   *)
(* many receipts are handled at once.                                      *)
THEOREM OrderFlowCreditFloor == Spec => []CreditFloor
<1>1. Account!Init => Account!CreditFloor
  BY CreditLimitAssumption DEF Account!Init, Account!CreditFloor
<1>2. Spec => []Typed
  BY SpecTyped
<1>3. Typed => Account!TypeOK
  BY DEF Typed
<1>4. Spec => Account!Init /\ [][Account!Next]_(Account!accountVars)
  BY OrderFlowImplementsAccount DEF ImplementsAccount, Account!Spec
<1>5. QED
  BY <1>1, <1>2, <1>3, <1>4, FloorNext, PTL DEF CreditFloor

-----------------------------------------------------------------------------
(* Approvals.  An approval is on its way while its task is at one of these *)
(* steps; nobody else touches disputes, refunds or refunded orders.        *)

ApprovalSteps == {"refund", "mark_approved", "mark_refunded",
                  "count_fakes", "check_blacklist", "add_to_blacklist"}

\* What every step does that is no part of a dispute: of the tasks, it changes
\* only such as are no approval and do not become one.
Aside ==
    /\ UNCHANGED <<disputes, refunds>>
    /\ \A u \in Tasks : \/ task'[u] = task[u]
                        \/ task[u].at \notin ApprovalSteps /\ task'[u].at \notin ApprovalSteps
    /\ \A o \in Orders : /\ status'[o] = "refunded" => status[o] = "refunded"
                         /\ status[o] # "none" => customer_id'[o] = customer_id[o]
    /\ blacklist \subseteq blacklist'

LEMMA TaskMoves ==
    ASSUME Typed, NEW t \in Tasks
    PROVE  /\ \A st \in Step : Goto(t, st) =>
                 /\ task'[t].at = st /\ task'[t].order = task[t].order
                 /\ task'[t].dispute = task[t].dispute /\ task'[t].amount = task[t].amount
                 /\ task'[t].test = task[t].test
                 /\ \A u \in Tasks \ {t} : task'[u] = task[u]
           /\ Finish(t) => /\ task'[t] = Idle
                           /\ \A u \in Tasks \ {t} : task'[u] = task[u]
           /\ \A local \in Task : Start(t, local) =>
                 /\ task'[t] = local
                 /\ \A u \in Tasks \ {t} : task'[u] = task[u]
<1>1. task \in [Tasks -> Task]
  BY DEF Typed, TasksOK
<1>2. ASSUME NEW st \in Step, Goto(t, st)
      PROVE  /\ task'[t].at = st /\ task'[t].order = task[t].order
             /\ task'[t].dispute = task[t].dispute /\ task'[t].amount = task[t].amount
             /\ task'[t].test = task[t].test
             /\ \A u \in Tasks \ {t} : task'[u] = task[u]
  BY <1>1, <1>2 DEF Goto, Task
<1>3. QED
  BY <1>1, <1>2 DEF Finish, Start

LEMMA CustomerStepAside ==
    ASSUME Typed, NEW t \in Tasks, CustomerStep(t) PROVE Aside
<1>1. ASSUME NEW c \in Customers, StartPurchase(t, c) \/ ReceiveReceipt(t, c) PROVE Aside
  <2>1. task[t].at = "idle" /\ \A u \in Tasks \ {t} : task'[u] = task[u]
    BY <1>1 DEF StartPurchase, ReceiveReceipt, Free, Start, Typed, TasksOK
  <2>2. task'[t].at \in {"insert_order", "count_pending"}
    BY <1>1 DEF StartPurchase, ReceiveReceipt, Start, Typed, TasksOK, Idle
  <2>3. QED
    BY <1>1, <2>1, <2>2 DEF StartPurchase, ReceiveReceipt, Aside, ApprovalSteps,
       accountVars, orderVars, disputeVars
<1>2. ASSUME NEW o \in Orders, InsertOrder(t, o) \/ InsertOrderPaidByWallet(t, o) PROVE Aside
  <2>1. /\ task[t].at = "insert_order" /\ \A u \in Tasks \ {t} : task'[u] = task[u]
        /\ task'[t].at \in {"remember_order", "idle"}
    <3>1. CASE InsertOrder(t, o)
      BY <3>1 DEF InsertOrder, Typed, TasksOK, Task
    <3>2. CASE InsertOrderPaidByWallet(t, o)
      BY <3>2, TaskMoves, IdleIsTask DEF InsertOrderPaidByWallet
    <3>3. QED
      BY <1>2, <3>1, <3>2
  <2>2. \A p \in Orders : /\ status'[p] = "refunded" => status[p] = "refunded"
                          /\ status[p] # "none" => customer_id'[p] = customer_id[p]
    BY <1>2 DEF InsertOrder, InsertOrderPaidByWallet, NewOrder, Typed, OrdersOK
  <2>3. UNCHANGED <<refunds, disputes, blacklist>>
    BY <1>2 DEF InsertOrder, InsertOrderPaidByWallet, accountVars, disputeVars
  <2>4. QED
    BY <2>1, <2>2, <2>3 DEF Aside, ApprovalSteps
<1>3. CASE RememberOrder(t) \/ CountPending(t) \/ ClearReceipt(t)
  <2>1. task[t].at \in {"remember_order", "count_pending", "clear_receipt"}
    BY <1>3 DEF RememberOrder, CountPending, ClearReceipt
  <2>2. task'[t].at \in {"idle", "read_reseller"} /\ \A u \in Tasks \ {t} : task'[u] = task[u]
    BY <1>3, TaskMoves DEF RememberOrder, CountPending, ClearReceipt, Idle, Step
  <2>3. QED
    BY <1>3, <2>1, <2>2 DEF RememberOrder, CountPending, ClearReceipt, Aside, ApprovalSteps,
       accountVars, orderVars, disputeVars
<1>4. CASE ReadReseller(t)
  <2>1. /\ task[t].at = "read_reseller" /\ task'[t].at = "submit"
        /\ \A u \in Tasks \ {t} : task'[u] = task[u]
    BY <1>4 DEF ReadReseller, Typed, TasksOK, Task
  <2>2. QED
    BY <1>4, <2>1 DEF ReadReseller, Aside, ApprovalSteps, accountVars, orderVars, disputeVars
<1>5. CASE SubmitTestReceipt(t) \/ SubmitReceipt(t) \/ SubmitReceiptWithoutCredit(t)
  <2>1. /\ task[t].at = "submit" /\ task'[t].at = "clear_receipt"
        /\ \A u \in Tasks \ {t} : task'[u] = task[u]
    BY <1>5, TaskMoves DEF SubmitTestReceipt, SubmitReceipt, SubmitReceiptWithoutCredit, Step
  <2>2. \A p \in Orders : /\ status'[p] = "refunded" => status[p] = "refunded"
                          /\ status[p] # "none" => customer_id'[p] = customer_id[p]
    BY <1>5 DEF SubmitTestReceipt, SubmitReceipt, SubmitReceiptWithoutCredit, WriteReceipt,
       Typed, OrdersOK
  <2>3. UNCHANGED <<refunds, disputes, blacklist>>
    BY <1>5 DEF SubmitTestReceipt, SubmitReceipt, SubmitReceiptWithoutCredit,
       Account!DeductCommission, accountVars, disputeVars
  <2>4. QED
    BY <2>1, <2>2, <2>3 DEF Aside, ApprovalSteps
<1>6. QED
  BY <1>1, <1>2, <1>3, <1>4, <1>5 DEF CustomerStep

LEMMA StaffStepAside ==
    ASSUME Typed, NEW t \in Tasks, StaffStep(t),
           \A d \in Disputes : ~InsertDispute(t, d)
    PROVE  Aside
<1>1. ASSUME NEW o \in Orders, ActivateOrder(t, o) PROVE Aside
  <2>1. /\ task[t].at = "idle" /\ task'[t].at = "read_test_flag"
        /\ \A u \in Tasks \ {t} : task'[u] = task[u]
    BY <1>1 DEF ActivateOrder, Free, Start, Idle, Typed, TasksOK
  <2>2. QED
    BY <1>1, <2>1 DEF ActivateOrder, SetStatus, Aside, ApprovalSteps, Typed, OrdersOK,
       accountVars, disputeVars
<1>2. CASE ReadTestFlag(t) \/ BumpTestCounter(t)
  <2>1. /\ task[t].at \in {"read_test_flag", "bump_test_counter"}
        /\ task'[t].at \in {"idle", "bump_test_counter"}
        /\ \A u \in Tasks \ {t} : task'[u] = task[u]
    BY <1>2, TaskMoves, IdleIsTask DEF ReadTestFlag, BumpTestCounter, Step
  <2>2. QED
    BY <1>2, <2>1 DEF ReadTestFlag, BumpTestCounter, Aside, ApprovalSteps,
       accountVars, orderVars, disputeVars
<1>3. ASSUME NEW s \in Staff, SubmitDisputeReason(t, s) PROVE Aside
  <2>1. /\ task[t].at = "idle" /\ task'[t].at = "insert_dispute"
        /\ \A u \in Tasks \ {t} : task'[u] = task[u]
    BY <1>3 DEF SubmitDisputeReason, Free, Start, Idle, Typed, TasksOK
  <2>2. QED
    BY <1>3, <2>1 DEF SubmitDisputeReason, SetStatus, Aside, ApprovalSteps, Typed, OrdersOK,
       accountVars, disputeVars
<1>4. QED
  BY <1>1, <1>2, <1>3 DEF StaffStep

LEMMA ShortStepAside ==
    ASSUME Typed, ShortStep, \A d \in Disputes : ~RejectDispute(d) PROVE Aside
<1>1. ASSUME NEW c \in Customers, RefusePurchase(c) \/ BlockCustomer(c) PROVE Aside
  BY <1>1 DEF RefusePurchase, BlockCustomer, Aside, accountVars, orderVars, disputeVars
<1>2. CASE ListPendingOrders
  BY <1>2 DEF ListPendingOrders, Aside, accountVars, orderVars, disputeVars
<1>3. ASSUME NEW o \in Orders, ApproveReceipt(o) \/ RejectReceipt(o) PROVE Aside
  BY <1>3 DEF ApproveReceipt, RejectReceipt, SetStatus, Aside, Typed, OrdersOK,
     accountVars, disputeVars
<1>4. ASSUME NEW o \in Orders, NEW s \in Staff, OpenDispute(s, o) PROVE Aside
  BY <1>4 DEF OpenDispute, Aside, accountVars, orderVars, disputeVars
<1>5. ASSUME NEW w \in Topups,
             (\E amount \in TopupAmounts : RequestTopup(w, amount)) \/ ConfirmTopup(w)
      PROVE  Aside
  BY <1>5 DEF RequestTopup, ConfirmTopup, Account!RequestTopup, Account!ConfirmTopup,
     Aside, orderVars, disputeVars
<1>6. ASSUME NEW p \in Percents, SetCommissionPercent(p) PROVE Aside
  BY <1>6 DEF SetCommissionPercent, Aside, accountVars, orderVars, disputeVars
<1>7. QED
  BY <1>1, <1>2, <1>3, <1>4, <1>5, <1>6 DEF ShortStep

\* Every other step is one of these.
LEMMA StepKinds ==
    ASSUME Typed, [Next]_vars
    PROVE  \/ Aside
           \/ \E t \in Tasks, d \in Disputes : InsertDispute(t, d)
           \/ \E t \in Tasks : AdminStep(t)
           \/ \E d \in Disputes : RejectDispute(d)
           \/ (\E t \in Tasks : Fail(t)) \/ Restart
<1>1. CASE UNCHANGED vars
  BY <1>1 DEF vars, Aside, accountVars, orderVars, disputeVars
<1>2. CASE Next
  BY <1>2, CustomerStepAside, StaffStepAside, ShortStepAside DEF Next
<1>3. QED
  BY <1>1, <1>2

\* The disputes of an order that are approved, or whose refund was made and
\* that are about to be marked so.
ApprovedDisputes == {d \in Disputes : disputes[d].review_status = "approved"}
OnTheWay == {task[t].dispute : t \in {u \in Tasks : task[u].at = "mark_approved"}}
Settled == ApprovedDisputes \cup OnTheWay
Paid(o) == {d \in Settled : disputes[d].order = o}

\* The strengthening: each of those disputes has a refund of its order.
ApprovalBooks ==
    /\ \A t \in Tasks : task[t].at \in {"refund", "mark_approved"} =>
            disputes[task[t].dispute].order = task[t].order
    /\ \A t \in Tasks : task[t].at \in {"mark_approved", "mark_refunded"} =>
            refunds[task[t].order] # <<>>
    /\ \A o \in Orders : status[o] = "refunded" => refunds[o] # <<>>
    /\ IsFiniteSet(Settled)
    /\ \A o \in Orders : Cardinality(Paid(o)) <= Len(refunds[o])

LEMMA ApprovalBooksInit == Init => ApprovalBooks
<1> SUFFICES ASSUME Init PROVE ApprovalBooks
  OBVIOUS
<1>1. Settled = {}
  BY DEF Init, Settled, ApprovedDisputes, OnTheWay, NoDispute, Idle
<1>2. \A o \in Orders : Paid(o) = {} /\ Len(refunds[o]) = 0
  BY <1>1 DEF Paid, Init, Account!Init
<1>3. IsFiniteSet({}) /\ Cardinality({}) = 0
  BY FS_EmptySet
<1>4. IsFiniteSet(Settled) /\ \A o \in Orders : Cardinality(Paid(o)) <= Len(refunds[o])
  <2>1. IsFiniteSet(Settled)
    BY <1>1, <1>3, Zenon
  <2>2. ASSUME NEW o \in Orders PROVE Cardinality(Paid(o)) <= Len(refunds[o])
    <3>1. Cardinality(Paid(o)) = 0
      BY <1>2, <1>3, Zenon
    <3>2. QED
      BY <1>2, <3>1
  <2>3. QED
    BY <2>1, <2>2
<1>5. /\ \A t \in Tasks : task[t].at = "idle"
      /\ \A o \in Orders : status[o] = "none"
  BY DEF Init, Idle
<1>6. QED
  BY <1>4, <1>5 DEF ApprovalBooks

LEMMA RefundsAreSequences ==
    ASSUME Typed, NEW o \in Orders
    PROVE  Len(refunds[o]) \in Nat /\ (refunds[o] # <<>> <=> Len(refunds[o]) > 0)
BY DEF Typed, Account!TypeOK

LEMMA PaidIsFinite ==
    ASSUME ApprovalBooks, NEW o
    PROVE  IsFiniteSet(Paid(o)) /\ Cardinality(Paid(o)) \in Nat
BY FS_Subset, FS_CardinalityType DEF ApprovalBooks, Paid

\* Nothing is lost when fewer disputes count as settled and no refund goes.
LEMMA SettledShrinks ==
    ASSUME Typed, ApprovalBooks, UNCHANGED refunds, Settled' \subseteq Settled,
           \A d \in Settled' : disputes'[d].order = disputes[d].order
    PROVE  /\ IsFiniteSet(Settled')
           /\ \A o \in Orders : Cardinality(Paid(o)') <= Len(refunds'[o])
<1>1. IsFiniteSet(Settled')
  BY FS_Subset DEF ApprovalBooks
<1>2. ASSUME NEW o \in Orders PROVE Cardinality(Paid(o)') <= Len(refunds'[o])
  <2>1. Paid(o)' \subseteq Paid(o)
    BY DEF Paid
  <2>2. Cardinality(Paid(o)') <= Cardinality(Paid(o)) /\ Cardinality(Paid(o)') \in Nat
    BY <2>1, PaidIsFinite, FS_Subset, FS_CardinalityType
  <2>3. QED
    BY <2>2, PaidIsFinite, RefundsAreSequences DEF ApprovalBooks
<1>3. QED
  BY <1>1, <1>2

\* A task on its way to marking a dispute holds a dispute that exists.
LEMMA OnTheWayIsFiled ==
    ASSUME Typed, NEW d \in Settled PROVE Filed(d)
BY DEF Typed, TasksOK, TaskRow, Settled, ApprovedDisputes, OnTheWay, Filed

LEMMA AsideApproval ==
    ASSUME Typed, ApprovalBooks, Aside PROVE ApprovalBooks'
<1>1. OnTheWay' = OnTheWay
  BY DEF OnTheWay, Aside, ApprovalSteps
<1>2. Settled' \subseteq Settled /\ disputes' = disputes
  BY <1>1 DEF Settled, ApprovedDisputes, Aside
<1>3. QED
  BY <1>2, SettledShrinks DEF ApprovalBooks, Aside, ApprovalSteps

LEMMA InsertDisputeApproval ==
    ASSUME Typed, ApprovalBooks, NEW t \in Tasks, NEW d \in Disputes, InsertDispute(t, d)
    PROVE  ApprovalBooks'
<1>1. /\ task[t].at = "insert_dispute" /\ task'[t].at = "idle"
      /\ \A u \in Tasks \ {t} : task'[u] = task[u]
  BY TaskMoves, IdleIsTask DEF InsertDispute
<1>2. /\ ~Filed(d) /\ disputes'[d].review_status = "pending"
      /\ \A e \in Disputes \ {d} : disputes'[e] = disputes[e]
  BY DEF InsertDispute, Filed, Typed, DisputesOK, Dispute
<1>3. \A u \in Tasks : task[u].at \in {"refund", "mark_approved"} => Filed(task[u].dispute)
  BY DEF Typed, TasksOK, TaskRow
<1>4. OnTheWay' \subseteq OnTheWay
  BY <1>1 DEF OnTheWay
<1>5. Settled' \subseteq Settled
  BY <1>2, <1>4 DEF Settled, ApprovedDisputes
<1>6. \A e \in Settled : e # d /\ e \in Disputes
  BY <1>2, OnTheWayIsFiled DEF Filed
<1>7. refunds' = refunds /\ status' = status
  BY DEF InsertDispute, accountVars, orderVars
<1>8. /\ IsFiniteSet(Settled')
      /\ \A o \in Orders : Cardinality(Paid(o)') <= Len(refunds'[o])
  BY <1>2, <1>5, <1>6, <1>7, SettledShrinks
<1>9. \A u \in Tasks : task'[u].at \in {"refund", "mark_approved"} =>
          disputes'[task'[u].dispute].order = task'[u].order
  BY <1>1, <1>2, <1>3 DEF ApprovalBooks, Filed
<1>10. QED
  BY <1>1, <1>7, <1>8, <1>9 DEF ApprovalBooks

\* A review keeps the order of a dispute.
LEMMA ReviewKeepsOrder ==
    ASSUME Typed, NEW d \in Disputes, NEW st, Review(d, st)
    PROVE  /\ \A e \in Disputes : disputes'[e].order = disputes[e].order
           /\ disputes'[d].review_status = st
           /\ \A e \in Disputes \ {d} : disputes'[e] = disputes[e]
BY DEF Typed, DisputesOK, Review, Dispute

LEMMA RefundApproval ==
    ASSUME Typed, ApprovalBooks, NEW t \in Tasks, Refund(t) PROVE ApprovalBooks'
<1> DEFINE o == task[t].order
           d == task[t].dispute
<1>1. /\ task[t].at = "refund" /\ task'[t].at = "mark_approved"
      /\ task'[t].order = o /\ task'[t].dispute = d
      /\ \A u \in Tasks \ {t} : task'[u] = task[u]
  BY TaskMoves DEF Refund, Step
<1>2. o \in Orders /\ d \in Disputes /\ disputes[d].order = o
  BY <1>1, AtOrder DEF ApprovalBooks, Typed, TasksOK, TaskRow, Filed
<1>3. UNCHANGED <<status, disputes>>
  BY DEF Refund, orderVars, disputeVars
<1> HIDE DEF o, d
<1>4. /\ Len(refunds'[o]) = Len(refunds[o]) + 1 /\ refunds'[o] # <<>>
      /\ \A q \in Orders \ {o} : refunds'[q] = refunds[q]
  <2>1. refunds' = [refunds EXCEPT ![o] = Append(@, task[t].amount)]
    BY DEF Refund, Account!RefundCommission, o
  <2>2. task[t].amount \in Nat /\ refunds \in [Orders -> Seq(Nat)]
    BY <1>1, AtOrder DEF Typed, Account!TypeOK
  <2>3. refunds'[o] = Append(refunds[o], task[t].amount)
    BY <1>2, <2>1, <2>2
  <2>4. QED
    BY <1>2, <2>1, <2>2, <2>3
<1>5. Settled' \subseteq Settled \cup {d}
  BY <1>1, <1>3 DEF Settled, ApprovedDisputes, OnTheWay
<1>6. IsFiniteSet(Settled')
  <2>1. IsFiniteSet(Settled \cup {d})
    BY FS_AddElement DEF ApprovalBooks
  <2>2. QED
    BY <1>5, <2>1, FS_Subset
<1>7. ASSUME NEW q \in Orders PROVE Cardinality(Paid(q)') <= Len(refunds'[q])
  <2>1. CASE q = o
    <3>1. Paid(q)' \subseteq Paid(q) \cup {d}
      BY <1>3, <1>5 DEF Paid
    <3>2. /\ IsFiniteSet(Paid(q) \cup {d})
          /\ Cardinality(Paid(q) \cup {d}) <= Cardinality(Paid(q)) + 1
      BY PaidIsFinite, FS_AddElement
    <3>3. /\ Cardinality(Paid(q)') <= Cardinality(Paid(q) \cup {d})
          /\ Cardinality(Paid(q)') \in Nat /\ Cardinality(Paid(q) \cup {d}) \in Nat
      BY <3>1, <3>2, FS_Subset, FS_CardinalityType
    <3>4. Cardinality(Paid(q)) <= Len(refunds[q])
      BY DEF ApprovalBooks
    <3>5. QED
      BY <1>4, <2>1, <3>2, <3>3, <3>4, PaidIsFinite, RefundsAreSequences
  <2>2. CASE q # o
    <3>1. Paid(q)' \subseteq Paid(q)
      BY <1>2, <1>3, <1>5, <2>2 DEF Paid
    <3>2. Cardinality(Paid(q)') <= Cardinality(Paid(q)) /\ Cardinality(Paid(q)') \in Nat
      BY <3>1, PaidIsFinite, FS_Subset, FS_CardinalityType
    <3>3. QED
      BY <1>4, <2>2, <3>2, PaidIsFinite, RefundsAreSequences DEF ApprovalBooks
  <2>3. QED
    BY <2>1, <2>2
<1>8. \A u \in Tasks : task'[u].at \in {"refund", "mark_approved"} =>
          disputes'[task'[u].dispute].order = task'[u].order
  BY <1>1, <1>2, <1>3 DEF ApprovalBooks
<1>9. \A u \in Tasks : task'[u].at \in {"mark_approved", "mark_refunded"} =>
          refunds'[task'[u].order] # <<>>
  <2>1. \A u \in Tasks \ {t} : task[u].at \in {"mark_approved", "mark_refunded"} =>
            task[u].order \in Orders /\ refunds[task[u].order] # <<>>
    BY AtOrder DEF ApprovalBooks
  <2>2. QED
    BY <1>1, <1>4, <2>1
<1>10. \A q \in Orders : status'[q] = "refunded" => refunds'[q] # <<>>
  BY <1>3, <1>4 DEF ApprovalBooks
<1>11. QED
  BY <1>6, <1>7, <1>8, <1>9, <1>10 DEF ApprovalBooks

LEMMA AdminStepApproval ==
    ASSUME Typed, ApprovalBooks, NEW t \in Tasks, AdminStep(t) PROVE ApprovalBooks'
<1>1. ASSUME NEW d \in Disputes, ApproveDispute(t, d) PROVE ApprovalBooks'
  <2>1. /\ task[t].at = "idle" /\ task'[t].at = "refund"
        /\ task'[t].dispute = d /\ task'[t].order = disputes[d].order
        /\ \A u \in Tasks \ {t} : task'[u] = task[u]
    BY <1>1 DEF ApproveDispute, Free, Start, Idle, Typed, TasksOK
  <2>2. UNCHANGED <<refunds, disputes, status>>
    BY <1>1 DEF ApproveDispute, accountVars, disputeVars, orderVars
  <2>3. Settled' \subseteq Settled
    BY <2>1, <2>2 DEF Settled, ApprovedDisputes, OnTheWay
  <2>4. QED
    BY <2>1, <2>2, <2>3, SettledShrinks DEF ApprovalBooks
<1>2. CASE Refund(t)
  BY <1>2, RefundApproval
<1>3. CASE MarkApproved(t)
  <2>1. /\ task[t].at = "mark_approved" /\ task'[t].at = "mark_refunded"
        /\ task'[t].order = task[t].order
        /\ \A u \in Tasks \ {t} : task'[u] = task[u]
    BY <1>3, TaskMoves DEF MarkApproved, Step
  <2>2. task[t].dispute \in Disputes
    BY <2>1 DEF Typed, TasksOK, TaskRow, Filed
  <2>3. /\ \A e \in Disputes : disputes'[e].order = disputes[e].order
        /\ \A e \in Disputes \ {task[t].dispute} : disputes'[e] = disputes[e]
    BY <1>3, <2>2, ReviewKeepsOrder DEF MarkApproved
  <2>4. UNCHANGED <<refunds, status>>
    BY <1>3 DEF MarkApproved, accountVars, orderVars
  <2>5. task[t].dispute \in OnTheWay
    BY <2>1 DEF OnTheWay
  <2>6. Settled' \subseteq Settled
    BY <2>1, <2>3, <2>5 DEF Settled, ApprovedDisputes, OnTheWay
  <2>7. Settled \subseteq Disputes
    BY OnTheWayIsFiled DEF Filed
  <2>8. /\ IsFiniteSet(Settled')
        /\ \A o \in Orders : Cardinality(Paid(o)') <= Len(refunds'[o])
    BY <2>3, <2>4, <2>6, <2>7, SettledShrinks
  <2>9. \A u \in Tasks : task'[u].at \in {"refund", "mark_approved"} =>
            disputes'[task'[u].dispute].order = task'[u].order
    BY <2>1, <2>3 DEF ApprovalBooks, Typed, TasksOK, TaskRow, Filed
  <2>10. QED
    BY <2>1, <2>4, <2>8, <2>9 DEF ApprovalBooks
<1>4. CASE MarkRefunded(t)
  <2>1. /\ task[t].at = "mark_refunded" /\ task'[t].at = "count_fakes"
        /\ \A u \in Tasks \ {t} : task'[u] = task[u]
    BY <1>4, TaskMoves DEF MarkRefunded, Step
  <2>2. /\ UNCHANGED <<refunds, disputes>>
        /\ \A o \in Orders : status'[o] = "refunded" =>
                status[o] = "refunded" \/ o = task[t].order
    BY <1>4 DEF MarkRefunded, SetStatus, accountVars, disputeVars, Typed, OrdersOK
  <2>3. Settled' \subseteq Settled
    BY <2>1, <2>2 DEF Settled, ApprovedDisputes, OnTheWay
  <2>4. QED
    BY <2>1, <2>2, <2>3, SettledShrinks DEF ApprovalBooks
<1>5. CASE CountFakes(t) \/ CheckBlacklist(t) \/ AddToBlacklist(t)
  <2>1. /\ task'[t].at \notin {"refund", "mark_approved", "mark_refunded"}
        /\ \A u \in Tasks \ {t} : task'[u] = task[u]
    BY <1>5, TaskMoves, IdleIsTask DEF CountFakes, CheckBlacklist, AddToBlacklist, Step
  <2>2. UNCHANGED <<refunds, disputes, status>>
    BY <1>5 DEF CountFakes, CheckBlacklist, AddToBlacklist, accountVars, disputeVars, orderVars
  <2>3. Settled' \subseteq Settled
    BY <2>1, <2>2 DEF Settled, ApprovedDisputes, OnTheWay
  <2>4. QED
    BY <2>1, <2>2, <2>3, SettledShrinks DEF ApprovalBooks
<1>6. QED
  BY <1>1, <1>2, <1>3, <1>4, <1>5 DEF AdminStep

LEMMA RejectDisputeApproval ==
    ASSUME Typed, ApprovalBooks, NEW d \in Disputes, RejectDispute(d) PROVE ApprovalBooks'
<1>1. /\ \A e \in Disputes : disputes'[e].order = disputes[e].order
      /\ disputes'[d].review_status = "rejected"
      /\ \A e \in Disputes \ {d} : disputes'[e] = disputes[e]
  BY ReviewKeepsOrder DEF RejectDispute
<1>2. UNCHANGED <<refunds, status, task>>
  BY DEF RejectDispute, accountVars, orderVars
<1>3. Settled' \subseteq Settled
  BY <1>1, <1>2 DEF Settled, ApprovedDisputes, OnTheWay
<1>4. Settled \subseteq Disputes
  BY OnTheWayIsFiled DEF Filed
<1>5. /\ IsFiniteSet(Settled')
      /\ \A o \in Orders : Cardinality(Paid(o)') <= Len(refunds'[o])
  BY <1>1, <1>2, <1>3, <1>4, SettledShrinks
<1>6. \A u \in Tasks : task'[u].at \in {"refund", "mark_approved"} =>
          disputes'[task'[u].dispute].order = task'[u].order
  BY <1>1, <1>2 DEF ApprovalBooks, Typed, TasksOK, TaskRow, Filed
<1>7. QED
  BY <1>2, <1>5, <1>6 DEF ApprovalBooks

LEMMA FailureApproval ==
    ASSUME Typed, ApprovalBooks, (\E t \in Tasks : Fail(t)) \/ Restart PROVE ApprovalBooks'
<1>1. \A u \in Tasks : task'[u] = task[u] \/ task'[u].at = "idle"
  BY TaskMoves, IdleIsTask DEF Fail, Restart
<1>2. UNCHANGED <<refunds, disputes, status>>
  BY DEF Fail, Restart, accountVars, disputeVars, orderVars
<1>3. Settled' \subseteq Settled
  BY <1>1, <1>2 DEF Settled, ApprovedDisputes, OnTheWay
<1>4. QED
  BY <1>1, <1>2, <1>3, SettledShrinks DEF ApprovalBooks

LEMMA NextApproval == Typed /\ ApprovalBooks /\ [Next]_vars => ApprovalBooks'
BY StepKinds, AsideApproval, InsertDisputeApproval, AdminStepApproval, RejectDisputeApproval,
   FailureApproval

LEMMA SpecApproval == Spec => []ApprovalBooks
<1>1. Spec => []Typed
  BY SpecTyped
<1>2. QED
  BY <1>1, ApprovalBooksInit, NextApproval, PTL DEF Spec

(* However the transactions of approvals, rejections and crashes           *)
(* interleave, no dispute counts as approved and no order as refunded      *)
(* before the money was given back for it.                                 *)
THEOREM OrderFlowApprovedIsRefunded == Spec => []ApprovedIsRefunded
<1>1. Typed /\ ApprovalBooks => ApprovedIsRefunded
  <2> SUFFICES ASSUME Typed, ApprovalBooks, NEW o \in Orders
               PROVE  Cardinality(Approved(o)) <= Len(refunds[o])
    BY DEF ApprovalBooks, ApprovedIsRefunded
  <2>1. Approved(o) \subseteq Paid(o)
    BY DEF Approved, Paid, Settled, ApprovedDisputes
  <2>2. /\ Cardinality(Approved(o)) <= Cardinality(Paid(o))
        /\ Cardinality(Approved(o)) \in Nat
    BY <2>1, PaidIsFinite, FS_Subset, FS_CardinalityType
  <2>3. QED
    BY <2>2, PaidIsFinite, RefundsAreSequences DEF ApprovalBooks
<1>2. QED
  BY <1>1, SpecTyped, SpecApproval, PTL

-----------------------------------------------------------------------------
(* The automatic blacklist.  When no handler fails, FakesAreBlocked is     *)
(* inductive by itself: the approval that completes a customer's count is  *)
(* past mark_approved, and none of its later steps can lose it.            *)

\* The steps of an approval between the mark and the end.
BlockingSteps == {"mark_refunded", "count_fakes", "check_blacklist", "add_to_blacklist"}

Blocking(c) == \E t \in Tasks : /\ task[t].at \in BlockingSteps
                                /\ customer_id[task[t].order] = c

LEMMA FakesAre ==
    ASSUME Typed, ApprovalBooks, NEW c
    PROVE  /\ IsFiniteSet(ConfirmedFakes(c))
           /\ Cardinality(ConfirmedFakes(c)) \in Nat
           /\ \A d \in ConfirmedFakes(c) : Filed(d) /\ Inserted(disputes[d].order)
<1>1. ConfirmedFakes(c) \subseteq Settled
  BY DEF ConfirmedFakes, Settled, ApprovedDisputes
<1>2. IsFiniteSet(ConfirmedFakes(c)) /\ Cardinality(ConfirmedFakes(c)) \in Nat
  BY <1>1, FS_Subset, FS_CardinalityType DEF ApprovalBooks
<1>3. \A d \in ConfirmedFakes(c) : Filed(d) /\ Inserted(disputes[d].order)
  BY DEF ConfirmedFakes, Filed, Typed, DisputesOK
<1>4. QED
  BY <1>2, <1>3

\* One customer's share of the property.
FakesOf(c) == Cardinality(ConfirmedFakes(c)) >= FakeThreshold => c \in blacklist \/ Blocking(c)

\* A customer's count does not grow, and whoever is blocking goes on.
LEMMA FakesStay ==
    ASSUME Typed, ApprovalBooks, NEW c \in Customers, FakesOf(c),
           ConfirmedFakes(c)' \subseteq ConfirmedFakes(c),
           blacklist \subseteq blacklist',
           \A t \in Tasks : task[t].at \in BlockingSteps /\ customer_id[task[t].order] = c =>
               \/ task'[t].at \in BlockingSteps /\ customer_id'[task'[t].order] = c
               \/ c \in blacklist'
               \/ ~(Cardinality(ConfirmedFakes(c)) >= FakeThreshold)
    PROVE  FakesOf(c)'
<1>1. /\ Cardinality(ConfirmedFakes(c)') <= Cardinality(ConfirmedFakes(c))
      /\ Cardinality(ConfirmedFakes(c)') \in Nat
  BY FakesAre, FS_Subset, FS_CardinalityType
<1>2. Cardinality(ConfirmedFakes(c)') >= FakeThreshold
          => Cardinality(ConfirmedFakes(c)) >= FakeThreshold
  BY <1>1, FakesAre, FakeThresholdAssumption
<1>3. QED
  BY <1>2 DEF FakesOf, Blocking

\* The customers of the orders that disputes and approvals are about.
LEMMA CustomersStay ==
    ASSUME Typed, ApprovalBooks, NEW c,
           \A o \in Orders : status[o] # "none" => customer_id'[o] = customer_id[o]
    PROVE  /\ \A d \in Disputes : Filed(d) =>
                  customer_id'[disputes[d].order] = customer_id[disputes[d].order]
           /\ \A t \in Tasks : task[t].at \in BlockingSteps =>
                  customer_id'[task[t].order] = customer_id[task[t].order]
<1>1. \A d \in Disputes : Filed(d) => Inserted(disputes[d].order)
  BY DEF Filed, Typed, DisputesOK
<1>2. \A t \in Tasks : task[t].at \in BlockingSteps => Inserted(task[t].order)
  BY AtOrder DEF BlockingSteps
<1>3. QED
  BY <1>1, <1>2 DEF Inserted

LEMMA AsideFakes ==
    ASSUME Typed, ApprovalBooks, NEW c \in Customers, FakesOf(c), Aside PROVE FakesOf(c)'
<1>1. disputes' = disputes
  BY DEF Aside
<1>2. ConfirmedFakes(c)' \subseteq ConfirmedFakes(c)
  BY <1>1, CustomersStay DEF Aside, ConfirmedFakes, Filed
<1>3. \A t \in Tasks : task[t].at \in BlockingSteps => task'[t] = task[t]
  BY DEF Aside, ApprovalSteps, BlockingSteps
<1>4. QED
  BY <1>2, <1>3, CustomersStay, FakesStay DEF Aside

LEMMA AdminStepFakes ==
    ASSUME Typed, ApprovalBooks, NEW c \in Customers, FakesOf(c),
           NEW t \in Tasks, AdminStep(t)
    PROVE  FakesOf(c)'
<1>1. ASSUME NEW d \in Disputes, ApproveDispute(t, d) PROVE FakesOf(c)'
  <2>1. /\ task[t].at = "idle"
        /\ \A u \in Tasks \ {t} : task'[u] = task[u]
    BY <1>1 DEF ApproveDispute, Free, Start, Typed, TasksOK
  <2>2. UNCHANGED <<disputes, customer_id, blacklist>>
    BY <1>1 DEF ApproveDispute, disputeVars, orderVars
  <2>3. QED
    BY <2>1, <2>2, FakesStay DEF ConfirmedFakes, BlockingSteps
<1>2. CASE Refund(t)
  <2>1. /\ task[t].at = "refund"
        /\ \A u \in Tasks \ {t} : task'[u] = task[u]
    BY <1>2, TaskMoves DEF Refund, Step
  <2>2. UNCHANGED <<disputes, customer_id, blacklist>>
    BY <1>2 DEF Refund, disputeVars, orderVars
  <2>3. QED
    BY <2>1, <2>2, FakesStay DEF ConfirmedFakes, BlockingSteps
<1>3. CASE MarkApproved(t)
  <2>1. /\ task[t].at = "mark_approved" /\ task'[t].at = "mark_refunded"
        /\ task'[t].order = task[t].order
        /\ \A u \in Tasks \ {t} : task'[u] = task[u]
    BY <1>3, TaskMoves DEF MarkApproved, Step
  <2>2. UNCHANGED <<customer_id, blacklist>>
    BY <1>3 DEF MarkApproved, orderVars
  <2>3. CASE customer_id[task[t].order] = c
    BY <2>1, <2>2, <2>3 DEF FakesOf, Blocking, BlockingSteps
  <2>4. CASE customer_id[task[t].order] # c
    <3> DEFINE d == task[t].dispute
    <3>1. d \in Disputes /\ disputes[d].order = task[t].order
      BY <2>1 DEF Typed, TasksOK, TaskRow, Filed, ApprovalBooks
    <3>2. /\ \A e \in Disputes : disputes'[e].order = disputes[e].order
          /\ \A e \in Disputes \ {d} : disputes'[e] = disputes[e]
      BY <1>3, <3>1, ReviewKeepsOrder DEF MarkApproved
    <3>3. ConfirmedFakes(c)' \subseteq ConfirmedFakes(c)
      BY <2>2, <2>4, <3>1, <3>2 DEF ConfirmedFakes
    <3>4. QED
      BY <2>1, <2>2, <2>4, <3>3, FakesStay DEF BlockingSteps
  <2>5. QED
    BY <2>3, <2>4
<1>4. CASE MarkRefunded(t)
  <2>1. /\ task'[t].at = "count_fakes" /\ task'[t].order = task[t].order
        /\ \A u \in Tasks \ {t} : task'[u] = task[u]
    BY <1>4, TaskMoves DEF MarkRefunded, Step
  <2>2. UNCHANGED <<disputes, customer_id, blacklist>>
    BY <1>4 DEF MarkRefunded, SetStatus, disputeVars
  <2>3. QED
    BY <2>1, <2>2, FakesStay DEF ConfirmedFakes, BlockingSteps
<1>5. CASE CountFakes(t) /\ Cardinality(ConfirmedFakes(customer_id[task[t].order])) >= FakeThreshold
  <2>1. /\ task'[t].at = "check_blacklist" /\ task'[t].order = task[t].order
        /\ \A u \in Tasks \ {t} : task'[u] = task[u]
    BY <1>5, TaskMoves DEF CountFakes, Step
  <2>2. UNCHANGED <<disputes, customer_id, blacklist>>
    BY <1>5 DEF CountFakes, disputeVars, orderVars
  <2>3. QED
    BY <2>1, <2>2, FakesStay DEF ConfirmedFakes, BlockingSteps
<1>6. CASE CountFakes(t) /\ ~(Cardinality(ConfirmedFakes(customer_id[task[t].order])) >= FakeThreshold)
  <2>1. \A u \in Tasks \ {t} : task'[u] = task[u]
    BY <1>6, TaskMoves DEF CountFakes
  <2>2. UNCHANGED <<disputes, customer_id, blacklist>>
    BY <1>6 DEF CountFakes, disputeVars, orderVars
  <2>3. QED
    BY <1>6, <2>1, <2>2, FakesStay DEF ConfirmedFakes
<1>7. CASE CheckBlacklist(t)
  <2>1. /\ \/ task'[t].at = "add_to_blacklist" /\ task'[t].order = task[t].order
           \/ customer_id[task[t].order] \in blacklist
        /\ \A u \in Tasks \ {t} : task'[u] = task[u]
    BY <1>7, TaskMoves DEF CheckBlacklist, Step
  <2>2. UNCHANGED <<disputes, customer_id, blacklist>>
    BY <1>7 DEF CheckBlacklist, disputeVars, orderVars
  <2>3. QED
    BY <2>1, <2>2, FakesStay DEF ConfirmedFakes, BlockingSteps
<1>8. CASE AddToBlacklist(t)
  <2>1. /\ customer_id[task[t].order] \in blacklist'
        /\ blacklist \subseteq blacklist'
        /\ \A u \in Tasks \ {t} : task'[u] = task[u]
    BY <1>8, TaskMoves DEF AddToBlacklist
  <2>2. UNCHANGED <<disputes, customer_id>>
    BY <1>8 DEF AddToBlacklist, orderVars
  <2>3. QED
    BY <2>1, <2>2, FakesStay DEF ConfirmedFakes
<1>9. QED
  BY <1>1, <1>2, <1>3, <1>4, <1>5, <1>6, <1>7, <1>8 DEF AdminStep

LEMMA NextFakes ==
    ASSUME Typed, ApprovalBooks, [Next]_vars, ~TasksFail, NEW c \in Customers, FakesOf(c)
    PROVE  FakesOf(c)'
<1>1. CASE Aside
  BY <1>1, AsideFakes
<1>2. ASSUME NEW t \in Tasks, NEW d \in Disputes, InsertDispute(t, d) PROVE FakesOf(c)'
  <2>1. /\ task[t].at = "insert_dispute"
        /\ \A u \in Tasks \ {t} : task'[u] = task[u]
    BY <1>2, TaskMoves DEF InsertDispute
  <2>2. /\ disputes'[d].review_status = "pending"
        /\ \A e \in Disputes \ {d} : disputes'[e] = disputes[e]
    BY <1>2 DEF InsertDispute, Typed, DisputesOK
  <2>3. UNCHANGED <<customer_id, blacklist>>
    BY <1>2 DEF InsertDispute, orderVars
  <2>4. ConfirmedFakes(c)' \subseteq ConfirmedFakes(c)
    BY <2>2, <2>3 DEF ConfirmedFakes
  <2>5. QED
    BY <2>1, <2>3, <2>4, FakesStay DEF BlockingSteps
<1>3. ASSUME NEW t \in Tasks, AdminStep(t) PROVE FakesOf(c)'
  BY <1>3, AdminStepFakes
<1>4. ASSUME NEW d \in Disputes, RejectDispute(d) PROVE FakesOf(c)'
  <2>1. /\ disputes'[d].review_status = "rejected"
        /\ \A e \in Disputes \ {d} : disputes'[e] = disputes[e]
    BY <1>4, ReviewKeepsOrder DEF RejectDispute
  <2>2. UNCHANGED <<customer_id, blacklist, task>>
    BY <1>4 DEF RejectDispute, orderVars
  <2>3. ConfirmedFakes(c)' \subseteq ConfirmedFakes(c)
    BY <2>1, <2>2 DEF ConfirmedFakes
  <2>4. QED
    BY <2>2, <2>3, FakesStay
<1>5. ~(\E t \in Tasks : Fail(t)) /\ ~Restart
  BY DEF Fail, Restart
<1>6. QED
  BY <1>1, <1>2, <1>3, <1>4, <1>5, StepKinds

LEMMA FakesOfAll == FakesAreBlocked <=> (~TasksFail => \A c \in Customers : FakesOf(c))
BY DEF FakesAreBlocked, FakesOf, Blocking, BlockingSteps

(* When no handler fails, no customer with enough approved disputes stays  *)
(* off the blacklist: the last of several approvals that run at once, for  *)
(* whatever number of them, sees them all.                                 *)
THEOREM OrderFlowFakesAreBlocked == Spec => []FakesAreBlocked
<1>1. Init => FakesAreBlocked
  <2> SUFFICES ASSUME Init, NEW c \in Customers
               PROVE  ~(Cardinality(ConfirmedFakes(c)) >= FakeThreshold)
    BY DEF FakesAreBlocked
  <2>1. ConfirmedFakes(c) = {}
    BY DEF Init, ConfirmedFakes, NoDispute
  <2>2. Cardinality({}) = 0
    BY FS_EmptySet
  <2>3. Cardinality(ConfirmedFakes(c)) = 0
    BY <2>1, <2>2, Zenon
  <2>4. QED
    BY <2>3, FakeThresholdAssumption
<1>2. Typed /\ ApprovalBooks /\ FakesAreBlocked /\ [Next]_vars => FakesAreBlocked'
  <2> SUFFICES ASSUME Typed, ApprovalBooks, FakesAreBlocked, [Next]_vars
               PROVE  FakesAreBlocked'
    OBVIOUS
  <2>1. ~TasksFail => \A c \in Customers : FakesOf(c)'
    BY NextFakes, FakesOfAll
  <2>2. QED
    BY <2>1 DEF FakesAreBlocked, FakesOf, Blocking, BlockingSteps
<1>3. QED
  BY <1>1, <1>2, SpecTyped, SpecApproval, PTL DEF Spec

-----------------------------------------------------------------------------
(* Charges.  Only submit_receipt appends to the deductions of an order, in *)
(* the step that sends it to review, and only refund_commission, called by *)
(* approve_dispute for the order of a dispute, appends to its refunds.     *)

LEMMA OtherStepsCharge ==
    ASSUME [Next]_vars, \A t \in Tasks : ~SubmitReceipt(t) /\ ~Refund(t)
    PROVE  UNCHANGED <<deductions, refunds>>
<1>1. CASE UNCHANGED vars
  BY <1>1 DEF vars, accountVars
<1>2. ASSUME NEW t \in Tasks, CustomerStep(t) PROVE UNCHANGED <<deductions, refunds>>
  BY <1>2 DEF CustomerStep, StartPurchase, ReceiveReceipt, InsertOrder,
     InsertOrderPaidByWallet, RememberOrder, CountPending, ReadReseller,
     SubmitTestReceipt, SubmitReceiptWithoutCredit, ClearReceipt, accountVars
<1>3. ASSUME NEW t \in Tasks, StaffStep(t) PROVE UNCHANGED <<deductions, refunds>>
  BY <1>3 DEF StaffStep, ActivateOrder, ReadTestFlag, BumpTestCounter,
     SubmitDisputeReason, InsertDispute, accountVars
<1>4. ASSUME NEW t \in Tasks, AdminStep(t) PROVE UNCHANGED <<deductions, refunds>>
  BY <1>4 DEF AdminStep, ApproveDispute, MarkApproved, MarkRefunded,
     CountFakes, CheckBlacklist, AddToBlacklist, accountVars
<1>5. CASE ShortStep
  <2>1. ASSUME NEW w \in Topups,
               (\E amount \in TopupAmounts : RequestTopup(w, amount)) \/ ConfirmTopup(w)
        PROVE  UNCHANGED <<deductions, refunds>>
    BY <2>1 DEF RequestTopup, ConfirmTopup, Account!RequestTopup, Account!ConfirmTopup
  <2>2. QED
    BY <1>5, <2>1 DEF ShortStep, RefusePurchase, BlockCustomer, ListPendingOrders,
       ApproveReceipt, RejectReceipt, OpenDispute, RejectDispute, SetCommissionPercent,
       accountVars
<1>6. CASE (\E t \in Tasks : Fail(t)) \/ Restart
  BY <1>6 DEF Fail, Restart, accountVars
<1>7. QED
  BY <1>1, <1>2, <1>3, <1>4, <1>5, <1>6 DEF Next

\* What ChargeWithReview says of a step.
ChargeStep ==
    \A o \in Orders :
        /\ deductions'[o] # deductions[o] =>
               /\ status'[o] = "awaiting_receipt_review"
               /\ ~is_test_order'[o]
               /\ commission_amount'[o] = Last(deductions'[o])
        /\ refunds'[o] # refunds[o] => \E d \in Disputes : disputes[d].order = o

LEMMA NextCharge == Typed /\ ApprovalBooks /\ [Next]_vars => ChargeStep
<1> SUFFICES ASSUME Typed, ApprovalBooks, [Next]_vars PROVE ChargeStep
  OBVIOUS
<1>1. ASSUME NEW t \in Tasks, SubmitReceipt(t) PROVE ChargeStep
  <2> DEFINE o == task[t].order
             n == task[t].amount
  <2>1. o \in Orders /\ n \in Nat
    BY <1>1, AtOrder DEF SubmitReceipt
  <2>2. /\ deductions' = [deductions EXCEPT ![o] = Append(@, n)]
        /\ status' = [status EXCEPT ![o] = "awaiting_receipt_review"]
        /\ commission_amount' = [commission_amount EXCEPT ![o] = n]
        /\ is_test_order' = [is_test_order EXCEPT ![o] = task[t].test]
        /\ ~task[t].test
        /\ refunds' = refunds
    BY <1>1 DEF SubmitReceipt, WriteReceipt, Account!DeductCommission
  <2> HIDE DEF o, n
  <2>3. /\ deductions[o] \in Seq(Nat)
        /\ deductions'[o] = Append(deductions[o], n)
        /\ \A q \in Orders \ {o} : deductions'[q] = deductions[q]
    BY <2>1, <2>2 DEF Typed, Account!TypeOK
  <2>4. Last(deductions'[o]) = n
    BY <2>1, <2>3, LastOfAppend
  <2>5. status'[o] = "awaiting_receipt_review" /\ commission_amount'[o] = n /\ ~is_test_order'[o]
    BY <2>1, <2>2 DEF Typed, OrdersOK
  <2>6. QED
    BY <2>2, <2>3, <2>4, <2>5 DEF ChargeStep
<1>2. ASSUME NEW t \in Tasks, Refund(t) PROVE ChargeStep
  <2>1. task[t].dispute \in Disputes /\ disputes[task[t].dispute].order = task[t].order
    BY <1>2 DEF Refund, ApprovalBooks, Typed, TasksOK, TaskRow, Filed
  <2>2. \A q \in Orders \ {task[t].order} : refunds'[q] = refunds[q]
    BY <1>2 DEF Refund, Account!RefundCommission, Typed, Account!TypeOK
  <2>3. deductions' = deductions
    BY <1>2 DEF Refund, Account!RefundCommission
  <2>4. QED
    BY <2>1, <2>2, <2>3 DEF ChargeStep
<1>3. QED
  BY <1>1, <1>2, OtherStepsCharge DEF ChargeStep

(* For every receipt, at every interleaving: a deduction and the review it *)
(* pays for are one step, with the amount that the order's row keeps, and  *)
(* money goes back only for the order of a dispute.                        *)
THEOREM OrderFlowChargeWithReview == Spec => ChargeWithReview
<1>1. Typed /\ ApprovalBooks /\ [Next]_vars => [ChargeStep]_vars
  BY NextCharge
<1>2. Spec => [][ChargeStep]_vars
  BY <1>1, SpecTyped, SpecApproval, PTL DEF Spec
<1>3. QED
  BY <1>2 DEF ChargeWithReview, ChargeStep

-----------------------------------------------------------------------------
(* The cap on pending orders.  A receipt passes the cap while fewer than   *)
(* MaxPending orders of its customer are pending, and at that time no more *)
(* than the tasks there are have passed it and not written their order     *)
(* yet; what is pending and what has passed are bounded together.          *)

PassedSteps == {"read_reseller", "submit"}

Passed(c) == {t \in Tasks : task[t].at \in PassedSteps /\ customer_id[task[t].order] = c}

RoomFor(c) ==
    /\ IsFiniteSet(Pending(c))
    /\ \/ Pending(c) = {} /\ Passed(c) = {}
       \/ Cardinality(Pending(c)) + Cardinality(Passed(c)) < MaxPending + Cardinality(Tasks)

Room == \A c \in Customers : RoomFor(c)

\* A step that sends nothing to review and lets no receipt pass.
Quiet ==
    /\ \A o \in Orders :
            /\ status'[o] = "awaiting_receipt_review" => status[o] = "awaiting_receipt_review"
            /\ status[o] # "none" => customer_id'[o] = customer_id[o]
    /\ \A u \in Tasks : task'[u].at \in PassedSteps =>
            task[u].at \in PassedSteps /\ task'[u].order = task[u].order

LEMMA PassedIsFinite ==
    ASSUME NEW c
    PROVE  /\ IsFiniteSet(Passed(c)) /\ Cardinality(Passed(c)) \in Nat
           /\ Cardinality(Passed(c)) <= Cardinality(Tasks)
           /\ Cardinality(Tasks) \in Nat
BY TasksAssumption, FS_Subset, FS_CardinalityType DEF Passed

LEMMA RoomShrinks ==
    ASSUME NEW c \in Customers, RoomFor(c),
           Pending(c)' \subseteq Pending(c), Passed(c)' \subseteq Passed(c)
    PROVE  RoomFor(c)'
<1>1. /\ IsFiniteSet(Pending(c)') /\ Cardinality(Pending(c)') \in Nat
      /\ Cardinality(Pending(c)') <= Cardinality(Pending(c))
      /\ Cardinality(Pending(c)) \in Nat
  BY FS_Subset, FS_CardinalityType DEF RoomFor
<1>2. /\ Cardinality(Passed(c)') \in Nat
      /\ Cardinality(Passed(c)') <= Cardinality(Passed(c))
      /\ Cardinality(Passed(c)) \in Nat
  BY PassedIsFinite, FS_Subset, FS_CardinalityType
<1>3. Cardinality(Tasks) \in Nat
  BY PassedIsFinite
<1>4. QED
  BY <1>1, <1>2, <1>3, MaxPendingAssumption DEF RoomFor

LEMMA QuietRoom ==
    ASSUME Typed, NEW c \in Customers, RoomFor(c), Quiet PROVE RoomFor(c)'
<1>1. \A u \in Tasks : task[u].at \in PassedSteps => Inserted(task[u].order)
  BY AtOrder DEF PassedSteps
<1>2. Passed(c)' \subseteq Passed(c)
  BY <1>1 DEF Passed, Quiet, Inserted
<1>3. Pending(c)' \subseteq Pending(c)
  BY DEF Pending, Quiet
<1>4. QED
  BY <1>2, <1>3, RoomShrinks

LEMMA CustomerStepQuiet ==
    ASSUME Typed, NEW t \in Tasks, CustomerStep(t), ~CountPending(t), ~SubmitTestReceipt(t),
           ~SubmitReceipt(t)
    PROVE  Quiet
<1>1. ASSUME NEW c \in Customers, StartPurchase(t, c) \/ ReceiveReceipt(t, c) PROVE Quiet
  <2>1. /\ task'[t].at \in {"insert_order", "count_pending"}
        /\ \A u \in Tasks \ {t} : task'[u] = task[u]
    BY <1>1 DEF StartPurchase, ReceiveReceipt, Start, Typed, TasksOK, Idle
  <2>2. UNCHANGED <<status, customer_id>>
    BY <1>1 DEF StartPurchase, ReceiveReceipt, orderVars
  <2>3. QED
    BY <2>1, <2>2 DEF Quiet, PassedSteps
<1>2. ASSUME NEW o \in Orders, InsertOrder(t, o) \/ InsertOrderPaidByWallet(t, o) PROVE Quiet
  <2>1. task'[t].at \in {"remember_order", "idle"} /\ \A u \in Tasks \ {t} : task'[u] = task[u]
    <3>1. CASE InsertOrder(t, o)
      BY <3>1 DEF InsertOrder, Typed, TasksOK, Task
    <3>2. CASE InsertOrderPaidByWallet(t, o)
      BY <3>2, TaskMoves, IdleIsTask DEF InsertOrderPaidByWallet
    <3>3. QED
      BY <1>2, <3>1, <3>2
  <2>2. \A p \in Orders :
            /\ status'[p] = "awaiting_receipt_review" => status[p] = "awaiting_receipt_review"
            /\ status[p] # "none" => customer_id'[p] = customer_id[p]
    BY <1>2 DEF InsertOrder, InsertOrderPaidByWallet, NewOrder, Typed, OrdersOK
  <2>3. QED
    BY <2>1, <2>2 DEF Quiet, PassedSteps
<1>3. CASE RememberOrder(t) \/ ClearReceipt(t)
  <2>1. task'[t].at = "idle" /\ \A u \in Tasks \ {t} : task'[u] = task[u]
    BY <1>3, TaskMoves, IdleIsTask DEF RememberOrder, ClearReceipt
  <2>2. UNCHANGED <<status, customer_id>>
    BY <1>3 DEF RememberOrder, ClearReceipt, orderVars
  <2>3. QED
    BY <2>1, <2>2 DEF Quiet, PassedSteps
<1>4. CASE ReadReseller(t)
  <2>1. /\ task[t].at = "read_reseller" /\ task'[t].order = task[t].order
        /\ \A u \in Tasks \ {t} : task'[u] = task[u]
    BY <1>4 DEF ReadReseller, Typed, TasksOK, Task
  <2>2. UNCHANGED <<status, customer_id>>
    BY <1>4 DEF ReadReseller, orderVars
  <2>3. QED
    BY <2>1, <2>2 DEF Quiet, PassedSteps
<1>5. CASE SubmitReceiptWithoutCredit(t)
  <2>1. task'[t].at = "clear_receipt" /\ \A u \in Tasks \ {t} : task'[u] = task[u]
    BY <1>5, TaskMoves DEF SubmitReceiptWithoutCredit, Step
  <2>2. \A p \in Orders :
            /\ status'[p] = "awaiting_receipt_review" => status[p] = "awaiting_receipt_review"
            /\ customer_id'[p] = customer_id[p]
    BY <1>5 DEF SubmitReceiptWithoutCredit, WriteReceipt, Typed, OrdersOK
  <2>3. QED
    BY <2>1, <2>2 DEF Quiet, PassedSteps
<1>6. QED
  BY <1>1, <1>2, <1>3, <1>4, <1>5 DEF CustomerStep

LEMMA StaffStepQuiet ==
    ASSUME Typed, NEW t \in Tasks, StaffStep(t) PROVE Quiet
<1>1. /\ task'[t].at \in {"read_test_flag", "bump_test_counter", "insert_dispute", "idle"}
      /\ \A u \in Tasks \ {t} : task'[u] = task[u]
  <2>1. CASE (\E o \in Orders : ActivateOrder(t, o)) \/ (\E s \in Staff : SubmitDisputeReason(t, s))
    BY <2>1 DEF ActivateOrder, SubmitDisputeReason, Start, Idle, Typed, TasksOK
  <2>2. CASE ReadTestFlag(t) \/ BumpTestCounter(t) \/ (\E d \in Disputes : InsertDispute(t, d))
    BY <2>2, TaskMoves, IdleIsTask DEF ReadTestFlag, BumpTestCounter, InsertDispute, Step
  <2>3. QED
    BY <2>1, <2>2 DEF StaffStep
<1>2. /\ customer_id' = customer_id
      /\ \A p \in Orders :
             status'[p] = "awaiting_receipt_review" => status[p] = "awaiting_receipt_review"
  BY DEF StaffStep, ActivateOrder, ReadTestFlag, BumpTestCounter, SubmitDisputeReason,
     InsertDispute, SetStatus, orderVars, Typed, OrdersOK
<1>3. QED
  BY <1>1, <1>2 DEF Quiet, PassedSteps

LEMMA AdminStepQuiet ==
    ASSUME Typed, NEW t \in Tasks, AdminStep(t) PROVE Quiet
<1>1. /\ task'[t].at \in ApprovalSteps \cup {"idle"}
      /\ \A u \in Tasks \ {t} : task'[u] = task[u]
  <2>1. CASE \E d \in Disputes : ApproveDispute(t, d)
    BY <2>1 DEF ApproveDispute, Start, Idle, Typed, TasksOK, ApprovalSteps
  <2>2. CASE Refund(t) \/ MarkApproved(t) \/ MarkRefunded(t)
    BY <2>2, TaskMoves DEF Refund, MarkApproved, MarkRefunded, Step, ApprovalSteps
  <2>3. CASE CountFakes(t) \/ CheckBlacklist(t) \/ AddToBlacklist(t)
    BY <2>3, TaskMoves, IdleIsTask DEF CountFakes, CheckBlacklist, AddToBlacklist, Step,
       ApprovalSteps
  <2>4. QED
    BY <2>1, <2>2, <2>3 DEF AdminStep
<1>2. /\ customer_id' = customer_id
      /\ \A p \in Orders :
             status'[p] = "awaiting_receipt_review" => status[p] = "awaiting_receipt_review"
  BY DEF AdminStep, ApproveDispute, Refund, MarkApproved, MarkRefunded, CountFakes,
     CheckBlacklist, AddToBlacklist, SetStatus, orderVars, Typed, OrdersOK
<1>3. QED
  BY <1>1, <1>2 DEF Quiet, PassedSteps, ApprovalSteps

LEMMA OtherStepQuiet ==
    ASSUME Typed, \/ ShortStep
                  \/ \E t \in Tasks : Fail(t)
                  \/ Restart
                  \/ UNCHANGED vars
    PROVE  Quiet
<1>1. \A u \in Tasks : task'[u] = task[u] \/ task'[u].at = "idle"
  <2>1. CASE ShortStep
    BY <2>1 DEF ShortStep, RefusePurchase, BlockCustomer, ListPendingOrders, ApproveReceipt,
       RejectReceipt, OpenDispute, RejectDispute, RequestTopup, ConfirmTopup,
       SetCommissionPercent
  <2>2. CASE (\E t \in Tasks : Fail(t)) \/ Restart
    BY <2>2, TaskMoves, IdleIsTask DEF Fail, Restart
  <2>3. QED
    BY <2>1, <2>2 DEF vars
<1>2. /\ customer_id' = customer_id
      /\ \A p \in Orders :
             status'[p] = "awaiting_receipt_review" => status[p] = "awaiting_receipt_review"
  BY DEF ShortStep, RefusePurchase, BlockCustomer, ListPendingOrders, ApproveReceipt,
     RejectReceipt, OpenDispute, RejectDispute, RequestTopup, ConfirmTopup,
     SetCommissionPercent, SetStatus, Fail, Restart, vars, orderVars, Typed, OrdersOK
<1>3. QED
  BY <1>1, <1>2 DEF Quiet, PassedSteps

\* A receipt passes the cap only while there is room below it.
LEMMA CountPendingRoom ==
    ASSUME Typed, NEW c \in Customers, RoomFor(c), NEW t \in Tasks, CountPending(t)
    PROVE  RoomFor(c)'
<1>1. /\ UNCHANGED <<status, customer_id>>
      /\ \A u \in Tasks \ {t} : task'[u] = task[u]
      /\ task'[t].at \in {"idle", "read_reseller"}
      /\ task'[t].at = "read_reseller" =>
             /\ task'[t].order = task[t].order
             /\ ~(Cardinality(Pending(customer_id[task[t].order])) >= MaxPending)
  BY TaskMoves, IdleIsTask DEF CountPending, Step, orderVars
<1>2. Pending(c)' = Pending(c)
  BY <1>1 DEF Pending
<1>3. CASE task'[t].at = "read_reseller" /\ customer_id[task[t].order] = c
  <2>1. /\ Cardinality(Pending(c)) < MaxPending
        /\ Cardinality(Pending(c)) \in Nat
    BY <1>1, <1>3, FS_CardinalityType, MaxPendingAssumption DEF RoomFor
  <2>2. /\ Cardinality(Passed(c)') \in Nat /\ Cardinality(Tasks) \in Nat
        /\ Cardinality(Passed(c)') <= Cardinality(Tasks)
    BY TasksAssumption, FS_Subset, FS_CardinalityType DEF Passed
  <2>3. Cardinality(Pending(c)') + Cardinality(Passed(c)') < MaxPending + Cardinality(Tasks)
    BY <1>2, <2>1, <2>2, MaxPendingAssumption
  <2>4. QED
    BY <1>2, <2>3 DEF RoomFor
<1>4. CASE ~(task'[t].at = "read_reseller" /\ customer_id[task[t].order] = c)
  <2>1. Passed(c)' \subseteq Passed(c)
    BY <1>1, <1>4 DEF Passed, PassedSteps
  <2>2. QED
    BY <1>2, <2>1, RoomShrinks
<1>5. QED
  BY <1>3, <1>4

\* Writing an order turns a receipt that has passed into one that is pending.
LEMMA SubmitRoom ==
    ASSUME Typed, NEW c \in Customers, RoomFor(c), NEW t \in Tasks,
           SubmitTestReceipt(t) \/ SubmitReceipt(t)
    PROVE  RoomFor(c)'
<1> DEFINE o == task[t].order
<1>1. /\ task[t].at = "submit" /\ task'[t].at = "clear_receipt"
      /\ \A u \in Tasks \ {t} : task'[u] = task[u]
  BY TaskMoves DEF SubmitTestReceipt, SubmitReceipt, Step
<1>2. /\ o \in Orders /\ customer_id' = customer_id
      /\ \A q \in Orders \ {o} : status'[q] = status[q]
  BY AtOrder DEF SubmitTestReceipt, SubmitReceipt, WriteReceipt, Typed, OrdersOK
<1> HIDE DEF o
<1>3. Passed(c)' \subseteq Passed(c)
  BY <1>1, <1>2 DEF Passed, PassedSteps
<1>4. CASE customer_id[o] = c
  <2>1. t \in Passed(c) /\ Passed(c)' \subseteq Passed(c) \ {t}
    BY <1>1, <1>2, <1>4 DEF Passed, PassedSteps, o
  <2>2. /\ Cardinality(Passed(c)') <= Cardinality(Passed(c)) - 1
        /\ Cardinality(Passed(c)') \in Nat
    <3>1. /\ IsFiniteSet(Passed(c) \ {t})
          /\ Cardinality(Passed(c) \ {t}) = Cardinality(Passed(c)) - 1
      BY <2>1, PassedIsFinite, FS_RemoveElement
    <3>2. QED
      BY <2>1, <3>1, FS_Subset, FS_CardinalityType
  <2>3. Pending(c)' \subseteq Pending(c) \cup {o}
    BY <1>2 DEF Pending
  <2>4. /\ IsFiniteSet(Pending(c)') /\ Cardinality(Pending(c)') \in Nat
        /\ Cardinality(Pending(c)') <= Cardinality(Pending(c)) + 1
        /\ Cardinality(Pending(c)) \in Nat
    <3>0. IsFiniteSet(Pending(c)) /\ Cardinality(Pending(c)) \in Nat
      BY FS_CardinalityType DEF RoomFor
    <3>1. /\ IsFiniteSet(Pending(c) \cup {o})
          /\ Cardinality(Pending(c) \cup {o}) <= Cardinality(Pending(c)) + 1
      <4>1. Cardinality(Pending(c) \cup {o}) =
                IF o \in Pending(c) THEN Cardinality(Pending(c)) ELSE Cardinality(Pending(c)) + 1
        BY <3>0, FS_AddElement, Zenon
      <4>2. QED
        BY <3>0, <4>1, FS_AddElement
    <3>2. /\ IsFiniteSet(Pending(c)')
          /\ Cardinality(Pending(c)') <= Cardinality(Pending(c) \cup {o})
      BY <2>3, <3>1, FS_Subset
    <3>3. /\ Cardinality(Pending(c)') \in Nat /\ Cardinality(Pending(c) \cup {o}) \in Nat
          /\ Cardinality(Pending(c)) \in Nat
      BY <3>1, <3>2, FS_CardinalityType DEF RoomFor
    <3>4. QED
      BY <3>1, <3>2, <3>3
  <2>5. Cardinality(Pending(c)) + Cardinality(Passed(c)) < MaxPending + Cardinality(Tasks)
    BY <2>1 DEF RoomFor
  <2>6. Cardinality(Pending(c)') + Cardinality(Passed(c)') < MaxPending + Cardinality(Tasks)
    BY <2>2, <2>4, <2>5, PassedIsFinite, MaxPendingAssumption
  <2>7. QED
    BY <2>4, <2>6 DEF RoomFor
<1>5. CASE customer_id[o] # c
  <2>1. Pending(c)' \subseteq Pending(c)
    BY <1>2, <1>5 DEF Pending
  <2>2. QED
    BY <1>3, <2>1, RoomShrinks
<1>6. QED
  BY <1>4, <1>5

LEMMA NextRoom == Typed /\ Room /\ [Next]_vars => Room'
<1> SUFFICES ASSUME Typed, Room, [Next]_vars, NEW c \in Customers PROVE RoomFor(c)'
  BY DEF Room
<1>1. RoomFor(c)
  BY DEF Room
<1>2. CASE Quiet
  BY <1>1, <1>2, QuietRoom
<1>3. ASSUME NEW t \in Tasks, CountPending(t) PROVE RoomFor(c)'
  BY <1>1, <1>3, CountPendingRoom
<1>4. ASSUME NEW t \in Tasks, SubmitTestReceipt(t) \/ SubmitReceipt(t) PROVE RoomFor(c)'
  BY <1>1, <1>4, SubmitRoom
<1>5. QED
  BY <1>2, <1>3, <1>4, CustomerStepQuiet, StaffStepQuiet, AdminStepQuiet, OtherStepQuiet
     DEF Next

LEMMA InitRoom == Init => Room
<1> SUFFICES ASSUME Init, NEW c \in Customers PROVE RoomFor(c)
  BY DEF Room
<1>1. Pending(c) = {} /\ Passed(c) = {}
  BY DEF Init, Pending, Passed, PassedSteps, Idle
<1>2. IsFiniteSet({})
  BY FS_EmptySet
<1>3. QED
  BY <1>1, <1>2 DEF RoomFor

(* Receipts handled at once exceed the cap on a customer's pending orders  *)
(* by fewer than the tasks that are alive, whatever their number.          *)
THEOREM OrderFlowPendingOvershoot == Spec => []PendingOvershoot
<1>1. Room => PendingOvershoot
  <2> SUFFICES ASSUME NEW c \in Customers, RoomFor(c), Pending(c) # {}
               PROVE  Cardinality(Pending(c)) < MaxPending + Cardinality(Tasks)
    BY DEF Room, PendingOvershoot
  <2>1. Cardinality(Pending(c)) + Cardinality(Passed(c)) < MaxPending + Cardinality(Tasks)
    BY DEF RoomFor
  <2>2. Cardinality(Pending(c)) \in Nat
    BY FS_CardinalityType DEF RoomFor
  <2>3. QED
    BY <2>1, <2>2, PassedIsFinite, MaxPendingAssumption
<1>2. QED
  BY <1>1, SpecTyped, InitRoom, NextRoom, PTL DEF Spec

=============================================================================
