# Baste in TLA+

Baste sells mobile data packages through Telegram. One process runs an admin bot
and one bot per reseller; customers buy from a reseller's bot, pay the reseller
by card and send a photo of the receipt; the platform takes a commission from an
account the reseller keeps with it. This directory models the parts of the
program in which money, orders and goods change hands, and those that keep the
process, its schema and its data up; it checks them with TLC and proves the main
invariants with TLAPS.

All paths below are relative to the repository (`src/` here).

## 1. The system

| part | state | operations | interacts with |
|---|---|---|---|
| commission account (`services/wallet_service.py`) | `resellers.wallet_credit_balance`, rows of `wallet_transactions` | deduct, refund, request and confirm a topup | called by order flow, disputes, customer topups, the admin's buttons |
| order flow (`services/order_service.py`, `handlers/customer/orders.py`, `handlers/reseller/orders.py`, `handlers/operator/orders.py`) | rows of `orders`, the test-mode columns of `resellers`, the dialog of each customer and member of staff (in memory), buttons in the chats | purchase, receipt, list, confirm, reject, activate | account, customer wallet, blacklist |
| disputes and blacklist (`services/dispute_service.py`, `services/blacklist_service.py`, `handlers/admin/wallet_and_disputes.py`) | rows of `disputes` and `blacklist` | create, approve, reject; count fakes, block | account, orders |
| customer wallet (`services/customer_wallet_service.py`) | `customers.wallet_balance`, rows of `customer_wallet_topups` | request, attach receipt, confirm, reject | account, order flow, charge codes |
| charge codes (`services/charge_service.py`) | rows of `charge_codes` | add, sell (one or many), delete, clear | customer wallet |
| discount codes (`services/discount_service.py`) | `discount_codes`, `orders.package_price` | validate, apply, count usage | order flow, account |
| bot manager (`core/bot_manager.py`, `main.py`) | running bots and their poller tasks | start, stop, sync every 30 s, shut down | migrator, `resellers.status`, Telegram |
| database layer (`database/db.py`) | the pool | `fetch_*`, `execute`, `transaction()` | everything |
| migrator (`database/migrator.py`) | `schema_migrations` | run pending files | the schema |
| backup (`services/backup_service.py`, `handlers/admin/backup.py`) | files, every table | save, validate, restore with a safety copy | everything |
| catalog (`handlers/reseller/catalog.py`, `services/sanity_check.py`) | categories, packages, dialogs, tokens of price warnings | add, edit, price check, delete trees | orders |
| error handler (`core/error_handler.py`) | none | log, answer the user | every handler |

How they run. There is one asyncio event loop. Every update of Telegram is
handled by a task of its own (aiogram handles updates of one bot concurrently),
so two handlers interleave at every `await`. A call of `fetch_one`, `fetch_all`
or `execute` commits by itself; a block under `transaction()` commits as one and
holds the row locks it took with `SELECT ... FOR UPDATE`. Dialog states are kept
in memory (`MemoryStorage`) and lost in a restart. Inline buttons stay in the
chat: unless a handler edits its message, a button can be tapped any number of
times and at any later time.

What is hard, then, is what happens between two database calls of one handler:
other handlers run, the process stops, a call raises; and what happens when a
button is older than the state it acts on. Section 4 of this file and the
hazards in `PROJECT.json` name the places.

## 2. What makes each part correct

- Account: the balance is the sum of its rows; commission never takes it below
  the negative limit; a topup is credited once.
- Order flow: an order is under review exactly when its commission was taken,
  in the amount its row says; nothing is served for free; the cap on pending
  orders and the limit of test orders are kept.
- Disputes: money goes back only for orders it was taken for, and once; the mark
  on a dispute or an order never comes before the money; a customer with enough
  fake receipts ends up blocked.
- Customer wallet and charge codes: never negative, a topup credited once, a code
  delivered once.
- Discount codes: the limit on uses; the commission that was taken covers the
  price the order has in the end.
- Bot manager: bots run only on a migrated schema; the bot of an active reseller
  is started and that of a suspended one stopped.
- Migrator: a file that is recorded was run, in order, whatever crashed; the
  process gets up again.
- Backup: a restore yields the saved state or changes nothing, and what it takes
  away is in the safety copy.
- Catalog: a tree stays a tree, a sold package stays, a suspicious price is saved
  only when it was confirmed.

## 3. Modules

| module | models |
|---|---|
| `CommissionAccount` | `wallet_service.py`: one action per operation |
| `CommissionAccountProofs` | theorems about it |
| `SumTheorems` | lemmas about sums over finite functions and sequences, for the books of the account and the wallets |
| `OrderFlow` | orders, receipts, review, activation, test mode, disputes, blacklist, on an instance of `CommissionAccount` |
| `OrderFlowProofs` | theorems about it |
| `PrepaidShop` | what wallets and stock promise, without transactions, locks or handlers |
| `CustomerWallet` | customers' wallets and topups, packages bought by wallet, the stock of charge codes, on an instance of `CommissionAccount` |
| `CustomerWalletProofs` | theorems about it, the refinement of `PrepaidShop` among them |
| `Discounts` | discount codes beside receipts; extends `CommissionAccount` |
| `DiscountsProofs` | theorems about it, those of the account among them |
| `Migrator` | `run_migrations`, statement by statement |
| `BotManager` | `main()` and the loop that starts and stops bots; extends `Migrator` |
| `BotManagerProofs` | theorems about `Migrator`, and about the two together |
| `BackupRestore` | backup, safety copy and restore beside other transactions |
| `BackupRestoreProofs` | theorems about it |
| `Catalog` | operators, subfolders, packages, their dialogs and price warnings |
| `CatalogProofs` | theorems about it |
| `MCOrderFlow`, `MCCustomerWallet`, `MCDiscounts`, `MCBotManager`, `MCBackupRestore`, `MCCatalog` | the instances for TLC |

### CommissionAccount

Each operation of the service is one transaction that locks the reseller row
before reading it, and so one action. `deductions[r]` and `refunds[r]` are the
amounts of the rows that refer to order `r`, in order of insertion; `topups[w]`
is a topup row. `InsufficientCredit` is the check that raises
`InsufficientCreditError`. The topup handler accepts any number, negative ones
too, so topup amounts are integers. It is the abstract specification of the
account: `OrderFlow`, `CustomerWallet` and `Discounts`, which extends it, are
proved to implement it (the first two are checked, too). Of its properties, `CreditFloor` is asked of
`OrderFlow`'s account, `BookBalance` of the account that `Discounts` charges, and
`CreditedTopupIsFinal` is proved.

### OrderFlow

One reseller. A handler is a record in `task`: the database call it makes next
(`at`) and what it holds in local variables (`person`, `order`, `dispute`,
`amount`, `test`). Each action is one database call, with the return to
Telegram that follows it when nothing can change in between that matters:

| handler | actions |
|---|---|
| `_process_purchase` | `StartPurchase` (blacklist check), `InsertOrderPaidByWallet`, or `InsertOrder` and `RememberOrder`; `RefusePurchase` |
| `receive_receipt` → `submit_receipt` | `ReceiveReceipt` (read the order), `CountPending`, `ReadReseller`, then one transaction: `SubmitTestReceipt`, `SubmitReceipt` or `SubmitReceiptWithoutCredit`; `ClearReceipt` |
| `list_pending_orders_cb` | `ListPendingOrders`: sends buttons |
| `approve_receipt`, `reject_receipt` | `ApproveReceipt`, `RejectReceipt`: need only the button |
| `activate` → `activate_order` | `ActivateOrder`, `ReadTestFlag`, `BumpTestCounter` |
| `open_dispute`, `submit_dispute_reason` | `OpenDispute`, `SubmitDisputeReason`, `InsertDispute` |
| `approve_dispute_cb` → `approve_dispute` | `ApproveDispute`, `Refund`, `MarkApproved`, `MarkRefunded`, `CountFakes`, `CheckBlacklist`, `AddToBlacklist` |
| `reject_dispute_cb` | `RejectDispute` |
| topups, settings, manual block | `RequestTopup`, `ConfirmTopup`, `SetCommissionPercent`, `BlockCustomer` |
| an exception, a restart | `Fail` (a handler ends where it is), `Restart` (tasks and dialogs are gone, rows and buttons stay) |

`waiting_receipt[c]` and `entering_reason[s]` are the FSM states that matter
with the order they carry; `buttons[o]` are the buttons that were ever sent for
an order. Staff means whoever passes the permissions middleware.

`BumpTestCounter` is one `UPDATE` with two assignments; MySQL and MariaDB assign
from left to right, so the second sees the counter already increased.

Left out of `OrderFlow`: the balance of the customer's wallet (whether a purchase
by wallet succeeds is a free choice), discount codes (so `package_price` is the
constant `Price`), the rounding of fractional percentages, the reminder of
unactivated orders (it only reads), other resellers (they share no row but the
blacklist, which `BlockCustomer` changes as freely as they would).

### CustomerWallet and PrepaidShop

One reseller with one product. As in `OrderFlow` a handler is a record in
`task`, and most actions are one database call:

| handler | actions |
|---|---|
| `receive_topup_amount`, `receive_topup_receipt` | `RequestTopup`, `ReceiveTopupReceipt` (the buttons may fail to be sent) |
| `confirm_wallet_topup` → `confirm_topup` | `ConfirmTopup` (the status check), `ReadPercent`, then the transaction: `CreditWallet`, or `CreditWalletWithoutCredit` when the reseller's credit does not suffice |
| `reject_wallet_topup` | `RejectTopup`: needs only the button |
| `_process_purchase` → `create_order_paid_by_wallet` | `StartPackage`, `PayPackage` or `RefusePackage` |
| `handle_charge_quantity_input` → `purchase_charge_bulk` | `StartPurchase`, `LockWallet` or `RefusePurchase`, `LockCodes` or `OutOfStock`, `Deliver` |
| `receive_charge_codes` → `add_charge_codes` | `AddCodes`, then one `InsertCode` for each line |
| `delete_single_code`, `clear_all_codes` | `DeleteAvailableCode`, `ClearCodes` |
| prices, percentages | `SetPrice`, `SetCommissionPercent` |
| an exception, a lost connection, a restart | `Fail`, `Restart` |

The purchase of codes waits for other transactions in more than one place, so it
is not one action. Its locks are not variables: a task that is at `lock_codes` or
`deliver` holds its customer's row, one at `deliver` also the rows of
`charge_codes` it chose (`LockHolders`, `WalletLocked`, `LockedRows`), and the
steps that would need such a row wait. Its writes are applied when it commits,
which loses nothing: nobody else may read a locked row for update, and a plain
read sees the row as it was. A statement takes the locks of all its rows at once;
gap locks and the shared locks of foreign keys are left out, since they only
delay steps.

`wallet_balance` starts at `Opening`: what a customer has from earlier topups.
`credits[w]`, the only variable that is not in the code, counts how often the
amount of topup `w` was added. A deleted row of `charge_codes` keeps its place
with the status `deleted`, because its id is never given again. `RoomForOrders`
and `RoomForRows` are bounds: a handler starts only when enough ids are left for
it, so that none is stopped half way by the size of the instance.

`purchase_charge`, the purchase of a single code, is not modelled: nothing calls
it. The blacklist is `OrderFlow`'s. The number that `clear_available_codes`
returns is left out: it is only shown, and it is counted in a transaction of its
own, so it may differ from the number deleted.

Two refinements: `ImplementsAccount` (everything done to the reseller's account
is an operation of `CommissionAccount`) and `ImplementsShop`. `PrepaidShop` has a
balance for each customer, a set of items for sale and the owner of each item;
a sale takes the money, removes the items and names their owner in one step. The
mapping takes the available rows as the stock and the customer of a sold row as
its owner; a purchase is one sale, when it commits, and all its earlier steps
stutter.

### Discounts

Orders that still wait for their receipt. A handler is a record in `task` with
the price it read:

| handler | actions |
|---|---|
| `apply_discount_code` | `StartDiscount` (read the order), `Validate`, `WritePrice`, `CountUsage` |
| `receive_receipt` → `submit_receipt` | `StartReceipt` (read the order), `Submit` (deduct, or fail for lack of credit), `ClearState` |
| topups, an exception | `AccountOperation`, `Fail` |

`Discounted` is `round()` of Python: to whole units, a half to the even one.
Commissions are in hundredths of a unit, so that nothing else is rounded.
`overlapped` is history: the orders for which two codes were handled at once, the
only case in which a price goes up again. Making a code, its expiry and its
deactivation are left out (a code exists from the start), and so are the pending
cap and test mode, which are `OrderFlow`'s.

### Migrator and BotManager

`Migrator` is the start of the process up to the bots; `BotManager` extends it by
`main()`'s loop, so that one behaviour goes through pushes, crashes, migrations
and bots.

| code | actions |
|---|---|
| `run_migrations` | `Boot` (count the rows of `schema_migrations`), `Baseline` (all files recorded unrun), `ReadApplied` |
| a file | `ChangeSchema`, `ChangeSchemaFails`, `CopyRows`, `CopyFails`, `Record` |
| the platform | `Push` (a file is added), `Die` |
| `sync_once` | `Fetch`; `BuildDispatcher`, `SetMyCommands`, `SetMyCommandsFails` (`start_bot` before and after its await); `AllStarted`; `StopBot`; `Sleep` |
| handlers of the admin | `AddReseller`, `Toggle` |
| Telegram | `RevokeToken`, `PollingEnds`, and the failures above |

A statement of a file is `ddl`, `copy` (an `INSERT ... SELECT` from columns that
the file drops later) or `drop`, which is all that the files in
`database/migrations/` have. MySQL commits at every statement that changes the
schema, whatever transaction the code has opened, so the transaction that is open
(`open`) is committed by it and a rollback takes back only what came later.
`columns` starts either way for a file that drops them: the database was made by
hand from some version of `schema.sql`.

The routers of the handlers are module objects that every dispatcher includes.
What aiogram does with a router that already has a dispatcher is outside the
repository, so `routers_exclusive` is chosen at the start, and the properties are
checked for both answers. `"ended"` in `running` is a bot whose task is over
while `_running` still has it.

### BackupRestore

The database is abstracted to the business transactions whose rows are in it:
`db[tab]` is the set of those whose row is in table `tab`. A transaction writes
all its tables at once (`Commit`); `DeleteRow` is a delete of some handler, which
a foreign key may refuse.

| code | actions |
|---|---|
| `take_backup_cb` → `create_backup_dict` | `TakeBackup`, one `ReadTable` for each table, `SendBackup` |
| `start_restore_cb`, `receive_restore_file` | `StartRestore`, `ReceiveFile` |
| `confirm_restore_cb`, "cancel" | `ConfirmRestore` (the safety copy begins), `ReadTable`, `SaveSafety`; `EndDialog` |
| `restore_from_dict` | `Restore`, `RestoreFails` |
| the process | `Restart` |

A restore holds the locks of its deletes until it commits and is one action. The
foreign key checks that it switches off are a setting of the session, which a
rollback does not take back: `unchecked` are the pooled connections that are left
like that. `Unlisted` are the tables that `TABLES_IN_DEPENDENCY_ORDER` does not
name: their rows stay when a restore takes away what they refer to, which
`TornIsOverlapped` and `NoDanglingRow` except. `overlapped` (the transactions that
were committed or deleted while a handler was at work on a file) and `failed` are
history.

### Catalog

A handler is one action, but for the deletion of an operator, which reads the
subfolders first (`ReadSubfolders`, `DeleteTree`, `DeleteTreeRefused`). There is
one dialog, a state (`dialog`) and the data in it (`data`), which buttons that
stayed in the chat change at any time.

| handlers | actions |
|---|---|
| operators, subfolders | `StartAddOperator`, `AddOperator`, `PickOperatorForSub`, `AddSubfolder`, `StartEditOperatorName`, `SaveOperatorName` |
| a new package | `PickCategory`, `ReceivePrice`, `ConfirmNew`, `EditNew`, `AddPackage` |
| an existing one | `StartEditPrice`, `ReceivePriceEdit`, `ConfirmEdit`, `EditAgain`; `StartEditOther`, `SaveOther` |
| deletion | `DeletePackage`, `DeleteSubfolder`, and the three above |
| others | `Cancel`, `Sell` (an order refers to a package), `Restart` |

`pending_new` and `pending_edit` are the tokens of price warnings, `warned` says
which kinds of warnings were ever sent. `RemoveRows` includes what the
foreign keys do: packages that are left in a folder go with it, subfolders that
are left in one lose their parent. The texts, purchase prices, the switch of a package's `is_active`, titles
of subfolders and the counts shown before a deletion are left out. The dialog for
a package's name is skipped: the model may insert a package where the code, for
lack of a name, raises.

### Faulty variants

Operators named `<Action>_<Fault>` are faulty variants of the action that
follows them: what the code would be with a bug a programmer could make there.
No behaviour of the specification uses them; replacing the action by its variant
must break the property listed with it in `PROJECT.json`, which shows that the
property depends on that code.

## 4. Runs

`tlc -config X.cfg M`; every run finishes within a few minutes. All the runs of
`MCOrderFlow` use `Bounds`: a state in which an order has more than
`MaxDeductions` deductions or `MaxRefunds` refunds, or more than `MaxTestOrders`
test orders were counted, is checked but not continued from. The tasks, orders,
customers, disputes, topups and staff are symmetric.

| run | asks | instance |
|---|---|---|
| `receipts` | is an order under review exactly when charged; can anything be served free; do the handlers do to the account only what it allows? | two orders, one customer, two handlers at once, two percentages, failures and restarts, room for two deductions per order |
| `disputes` | is money returned only for charged orders and before anything is marked; does the credit floor survive topups, negative ones included? | one order, two disputes, one topup, two handlers, failures between the transactions of an approval |
| `blacklist` | when two approvals together reach the threshold, does one of them block? | two orders, two disputes, threshold 2, no failures |
| `test_mode` | by how much can receipts handled at once exceed the cap? | three orders, cap 1, test limit 1, two handlers |
| `charge_codes` | does anybody spend what is not there, is a code delivered twice or without its order; does it all implement `PrepaidShop`; does every handler end? | two customers, three rows of codes, two orders, quantities 1 and 2, prices -1 and 2 (no handler checks the sign of a price), two handlers, failures and restarts |
| `customer_topups` | does a topup that says confirmed have both its credit and its commission, whatever is tapped when; do wallets keep their books when the price changes? | two topups of one customer, two amounts, two percentages, a credit limit that some topups exceed, two orders |
| `discounts` | by how much is a code's limit exceeded; is the commission enough for the final price; are the account's books right? | one order of price 3, a code of 50 % that may be used once and one of 33 % without a limit, two handlers, a topup, failures |
| `bots` | is the schema what `schema_migrations` says, in order and on time, through crashes; do bots run only on it, how many; does the process get up, do bots start and stop? | three files (the last has the statements of 0004), two resellers, one crash, one failed request |
| `backups` | which transactions can a backup or a restore tear apart, lose or leave dangling? | a package, a customer, an order for the package paid by wallet, a wallet topup (whose table no backup holds); three listed tables, two connections, one handler, two files |
| `catalog` | do trees stay trees, packages in their folders, sold packages where they are; is a low price always confirmed? | one operator, one subfolder, two packages, two names of which one has a floor, two prices |
| `test_mode_lasts`, `credited_once` | see below: both end in a violation | two orders, limit 2; one topup, two handlers |

Why these bounds are enough for the questions: every hazard named here needs two
handlers at once, or one handler and one old button, or one failure; the second
order (or dispute, deduction, row of codes) is what lets one handler's write meet
another's read. `test_mode` needs three orders because the bound it checks, cap
plus handlers minus one, is two. `charge_codes` has two rows to lock and a third
for a code that comes or goes while a purchase waits; all its codes have the same
text, which the properties do not tell apart. `discounts` needs one order, since
orders share only the account; price 3 at 50 % meets the tie of the rounding.
`bots` has two files after the baseline, so that two may be pending at once and
one crash can fall anywhere between them, and two resellers, so that one can
hinder the other. `backups` has one handler at a time (two make the state space
too large for a few minutes), so two taps on the confirmation that are handled at
once are in the model but not in this run; what they disturb is in `overlapped`,
which the properties leave out. `catalog` has one tree; the second package is what
a stale button or token can be about.

The bounds in the guards: `MaxMishaps` (crashes), `MaxGlitches` (failed requests
and pollers), `MaxFiles` (files kept), `MaxCharges` and `MaxUsage` (charges of an
order, uses of a code). `discounts` may stop: when the bounds are reached nothing
is left to do, so it does not check for deadlock.

Fairness is assumed in two runs. In `bots`: `WF` on the start of the process (a
start goes on, and the platform runs an ended process again) and `WF` on the
steps of the loop, which `run_forever` takes every 30 seconds whatever a round
raised. Crashes, pushes, revoked tokens and taps are not fair, and crashes and
failed requests are bounded: `GetsUp`, `SuspendedStops` and `ActiveStarts` are
about what happens after the last of them. `SuspendedStops` and `ActiveStarts`
name their condition, `Hinders`: without it both are false, since one bot that
cannot be started ends every round. `ActiveStarts` says "in `_running`", not
"polls": a poller that has ended is never started again.

In `charge_codes`: `SF_vars(Continue(t))` for each task. The event loop runs every handler whose database call has returned,
and InnoDB grants a lock in the order it was asked for, so a handler that waits
for a row that is freed again and again gets it some time; weak fairness would
not say so. Failures may happen in this run but are not fair, so
`EveryHandlerEnds` does not rest on them. Neither run declares a symmetry, which
would not be sound for liveness. All other properties are safety, and a handler
may die at any step.

### What the runs found

Two statements of the repository that the code does not keep, each with a
violation run:

1. `test_mode_lasts`: README.md:32 promises N free orders; the `CASE` in the
   `UPDATE` of order_service.py:260-266 adds one to the counter the same
   statement has already increased, and the mode ends after N - 1 (for N ≥ 2).
2. `credited_once`: customer_wallet_service.py:75 refuses a topup that was
   processed, but looks at it before the transaction (line 74) and not in it; two
   taps handled at once credit the customer, and charge the reseller, twice.

Others have no run of their own. The first three are definitions of `OrderFlow`;
TLC refutes each when it is named as the only `INVARIANT` of the configuration
given:

- `PendingCap` (`TestMode.cfg`): README.md:31 and order_service.py:6 promise at
  most three pending orders; the count is taken before the transaction and never
  again (order_service.py:195), so receipts sent together pass together.
  `PendingOvershoot`, checked by `test_mode`, gives the true bound: cap plus
  concurrent handlers minus one. `UsageWithinLimit` is the same for the limit of a
  discount code.
- `FailedIsNotCharged` (`Receipts.cfg`): schema.sql:113 says of
  `failed_insufficient_credit` that the commission was not taken; `submit_receipt`
  does not look at the status, so a second photo of an order, sent before the
  dialog is cleared, is charged again or, without credit, overwrites the status of
  an order that was charged.
- `ReturnedAtMostTaken` (`Disputes.cfg`): dispute_service.py:26 says approval
  returns the commission; nothing checks that the dispute is still pending, so a
  second tap (from a second copy of the list, or before the first tap's edit
  removes the buttons) returns it again.
- migrator.py:21-22 tells authors that a file need not be repeatable since it is
  run only once. A file is repeated from its first statement after a failure, and
  0004 then cannot be: `CopiedOncePerFailure` bounds how often its rows are
  copied, and `Stuck` is the state in which no start succeeds any more.
- Where aiogram keeps a router to one dispatcher, one process serves one reseller
  (`OneBotPerProcess`), and the second one hinders every later round. README.md:28
  and core/bot_manager.py:4-8 promise a bot for each.
- README.md:52 speaks of a backup of all tables; `TABLES_IN_DEPENDENCY_ORDER`
  lacks, among others, `customer_wallet_topups`: after a restore a topup may say
  confirmed whose credit is gone (the exception that `TornIsOverlapped` makes).
- Two restores within a second have one name for the safety copy
  (backup_service.py:140), and the second replaces the first. The model keeps both.
- `EditAgain` goes on with the package in the dialog's data, not with that of the
  warning: a price typed after it may go to another package. `LowPriceWasConfirmed`
  holds all the same, because the floor is looked up for the package that is
  changed.

## 5. Proofs

`tlapm <M>Proofs.tla` for `CommissionAccount`, `OrderFlow`, `CustomerWallet`,
`Discounts`, `BotManager` (with `Migrator`), `BackupRestore` and `Catalog`, and
`tlapm SumTheorems.tla`. Every invariant and action property that a passing run
checks is a theorem, and so are the refinements. They hold for any sets of
customers, staff, orders, disputes, topups, tasks, resellers, files, folders and
packages, any prices, percentages, limits and thresholds, any number of failures,
any tables and transactions. The assumptions are the ones named in the modules:
percentages and limits are naturals, the reseller's topup amounts integers, the
customers' positive, `None` is no id, resellers are naturals. Finite are the
resellers, the handlers alive at once (`TasksAssumption`: they are in the memory of
one process) and, where rows are added up, the rows that a table can hold
(`RowsAssumption`, `TablesAssumption`). Backups assume that a transaction writes some
table (`TouchesAssumption`), and `Discounts` that the account accepts the commission
on every price there can be (`PricesAssumption`). Prices are integers in
`CustomerWallet` and naturals in `OrderFlow`, `Discounts` and `Catalog`. The code
does not check that a price, or the percentage and limit of a new reseller, is
not negative, so these are assumptions about what people type.

Account: `AccountTypeOK`; `AccountCreditFloor`; `AccountCreditedTopupIsFinal`;
`AccountBookBalance`. `CreditFloor` and `BookBalance` are inductive with `TypeOK`.

Sums. The folds of the community modules choose the elements of a set in some
order and are defined by recursion over it, which cannot be unfolded for a set
of unknown size. `SumTheorems` proves first that the recursive function exists and
is unique, by looking at a smallest set for which it fails (the strict subsets of
a finite set are well-founded), and from that what the books need: a sum changes
by what one entry changes (`SumFunctionChange`) or by what several change
(`SumFunctionChangeAll`, `SumFunctionZero`), and an appended amount is added
(`SumFunctionAppend`).

Order flow, in five invariants:

- `Typed` is the type invariant made inductive. Types alone are not: a handler
  that holds the id of an order writes rows of that order's customer, so `Typed`
  adds that every id in a dialog, a button, a dispute or a task is the id of an
  inserted order, that inserted orders have a customer, and that orders and
  disputes are never deleted (`Grow`, `DisputesGrow`). Gives `OrderFlowTypeOK`.
- `Books` ties every way to serve or refund an order to its deduction. That the
  *status* of an order implies a deduction is not inductive, since buttons,
  dialogs and tasks act later whatever the status is by then. So `Books` says it
  of each: a review, activation or dispute button, a dialog that asks for a
  dispute's reason, a dispute, a task about to refund, all belong to a charged
  order (or, for activation, a wallet order). Deductions are never removed
  (`ChargedGrows`), so whatever was handed out stays justified. Gives
  `OrderFlowReviewedIsCharged`, `OrderFlowNoFreeService`,
  `OrderFlowRefundAfterCharge`.
- `ApprovalBooks`, for the disputes. `approve_dispute` refunds first and marks
  later, and the order's status last, so the number of approved disputes is
  compared with the refunds through what the tasks are about to mark: the disputes
  that are approved or on the way (`Settled`) are at most as many as the refunds of
  their order, and an order is marked only after a refund. Gives
  `OrderFlowApprovedIsRefunded`, and `OrderFlowChargeWithReview`, an action property
  whose proof goes through the steps that write deductions or refunds and leaves the
  others to one lemma.
- `FakesAreBlocked` is inductive with `Typed` and `ApprovalBooks`, because it names
  the tasks that will still count (`Blocking`): an approval that reaches the threshold is itself
  such a task, and counts after its own mark. Gives `OrderFlowFakesAreBlocked`, for
  any threshold and any number of approvals at once.
- `Room` counts, besides the pending orders of a customer, the tasks that passed
  the cap and have not written yet (`Passed`); both together stay below the cap plus
  the number of tasks, since a task passes only while the pending orders alone are
  below the cap. Gives `OrderFlowPendingOvershoot`.

With `Typed` and `Books`, every step of the order flow is an operation of the
account with one of its amounts, or leaves it alone: `OrderFlowImplementsAccount` (the refinement
mapping is the instance itself), and from it `OrderFlowCreditFloor`.

Customer wallet, with the invariant `Inv`. `NeverOverdrawn` and `DeliveredOnce`
are not inductive, since a purchase takes money and rows on the strength of what
it saw earlier. `TaskOK` says of a task in the middle of a purchase that its
customer still has the amount and that its rows are still available; `Exclusive`
says that no two tasks hold one wallet or one row. `Harmless` is what a step may
do to what others hold (a locked wallet loses nothing, a locked row stays
available, a requested topup stays), and the lemma `OtherTasks` carries the
others' `TaskOK` over any such step. The argument rests on the locks alone, and
each action shows that it respects them. From `Inv`: `CustomerWalletTypeOK`,
`CustomerWalletNeverOverdrawn`, `CustomerWalletDeliveredOnce`, and, step by step,
`CustomerWalletImplementsShop` and `CustomerWalletImplementsAccount`.
`CustomerWalletConfirmedIsCharged` strengthens its property (`Credited`) by what
holds of a topup that was never requested. `CustomerWalletBooks` adds up credits and
prices of a customer; its invariant `Books` says besides what the purchase still in
a task will cost (`CostsKnown`: the price it read times the rows it chose, although
the price may have changed since) and that an order that was not made costs
nothing (`OrdersPriced`).

Discounts. `Typed` bounds every price that a task or an order holds. Every step of
a receipt is an operation of the account with such a price
(`DiscountsImplementAccount`), so `DiscountsBookBalance` follows from
`AccountBookBalance`. `LimitBooks` (the uses that are counted and those that were
validated and are not counted yet, together, stay below the limit plus the number of
tasks) gives `DiscountsUsageWithinLimit`. `PriceBooks` says, of an order whose
discounts never overlapped, that at most one handler discounts it and holds its price as it is, that
a receipt about to be charged holds a price that is no lower (it can only have been
lowered since it was read), and that every deduction covers the price.
Gives `DiscountsCommissionCoversPrice`.

Migrator and bot manager. `RecordedWasRun` and `InOrder` are about rows that a
crash can leave at any point, so `MigratorInv` adds what the process knows:
`Progress` (in the phase `run`, `pending` is exactly what has no row), `OpenRuns`
(only the file that runs has uncommitted statements, and a copy among them still
has its columns) and `RunSoFar` (the statements before `next` were executed).
`CopiesBound` strengthens `CopiedOncePerFailure`: a copy that can still come in
this run was committed at most once per failure so far; the others are
`Committed`, by the file's row, by the columns that are gone, or by this run.
`MigratorSafe` collects these; `MigratorStuckForGood` is the action property that
a stuck file stays stuck. `BotInv` adds that bots and the loop exist only while
the phase is `up` (`UpWhenServing`) and that a bot has a dispatcher
(`Attached`), which for exclusive routers excludes a second one. Gives
`BotManagerServedOnMigrated`, `BotManagerOneBotPerProcess` and the migrator's
properties again, for the composition.

Backups, with `BackupBooks`. What a restore writes comes from a file that was read
table by table long ago, so the properties of the database are asked of every file
too, the one waiting for its confirmation and the one a task is about to restore
among them (`FilesSound`);
a file that is being read agrees with the database on the tables that were read,
for every transaction that did not overlap (`CopiesFaithful`); a task about to
restore has in some safety copy all that it will take away (`CopiesSaved`); and
connections have their foreign key checks on until a restore fails (`ChecksOn`).
Gives `BackupRestoreTypeOK`, `BackupRestoreTornIsOverlapped`,
`BackupRestoreLostIsSaved` and `BackupRestoreNoDanglingRow`.

Catalog, with `CatalogInv`. `NoFloatingPackage` needs the foreign keys alone.
`OrphanOnlyByRace` needs `Tree`: while nothing raced, operators are at the root
and subfolders in operators, and the subfolders of the operator that is being
deleted are those that were read. `LowPriceWasConfirmed` needs `PriceChecked`
(the price in the dialog's data was confirmed or passed the floor of its name)
and `Named`; `SoldStays` needs `SoldIsThere`.

Each invariant has one lemma per group of actions and per kind of write (start,
continue or finish a task; set a status; insert an order), so that an action's
case is a few lines of what it disturbs.

Only model-checked are the liveness properties `EveryHandlerEnds`, `GetsUp`,
`SuspendedStops` and `ActiveStarts`: they rest on fairness, and reasoning about it
needs `ENABLED`, which the prover does not have. The two statements that end in a
violation are refuted by TLC's behaviours.

## 6. Not modelled, and the plan

Planned, in this order:

1. The pool and the lock order of `database/db.py`: handlers that hold a connection
   while they wait for another one or for a row.
2. Rounding: `price * percent / 100` is kept with all its digits and rounded by the
   database in three places.
3. Making and expiring discount codes; the switch of a package; the purchase
   dialogs before an order.

Not planned: gateways (`zarinpal_service.py`, `crypto_service.py`),
notifications, forced join, encryption, the activity log, the layout of keyboards,
reports and statistics keep no state of their own or only read; referrals and
payment methods are writes of single rows. The error handler logs and answers: what
it means for the state, that a handler ends where it raised, is a step of every
module. Hazards that no property covers have a note in `PROJECT.json`.
