-------------------------- MODULE DiscountsProofs --------------------------
(* Theorems about Discounts, for any codes, prices, orders and concurrent  *)
(* handlers, with or without failures.                                     *)
EXTENDS Discounts, CommissionAccountProofs

-----------------------------------------------------------------------------
(* The arithmetic of apply_discount.                                       *)

LEMMA ProductGrows ==
    ASSUME NEW a \in Nat, NEW b \in Nat, NEW n \in Nat, a <= b
    PROVE  a * n <= b * n /\ a * n \in Nat /\ b * n \in Nat
<1>1. \E k \in Nat : b = a + k
  <2>1. b - a \in Nat /\ b = a + (b - a)
    OBVIOUS
  <2>2. QED
    BY <2>1
<1>2. PICK k \in Nat : b = a + k
  BY <1>1
<1>3. (a + k) * n = a * n + k * n /\ k * n \in Nat /\ a * n \in Nat
  OBVIOUS
<1>4. QED
  BY <1>2, <1>3

\* Rounding half to even stays between nothing and the price itself.
LEMMA DiscountedLowers ==
    ASSUME NEW price \in Nat, NEW d \in Codes
    PROVE  Discounted(price, d) \in 0 .. price
<1> DEFINE hundredths == price * (100 - percent[d])
           units == hundredths \div 100
           rest == hundredths % 100
<1>1. hundredths \in Nat /\ hundredths <= price * 100
  <2>1. 100 - percent[d] \in Nat /\ 100 - percent[d] <= 100
    BY PercentAssumption
  <2>2. /\ (100 - percent[d]) * price <= 100 * price
        /\ (100 - percent[d]) * price \in Nat
    BY <2>1, ProductGrows
  <2>3. (100 - percent[d]) * price = hundredths /\ 100 * price = price * 100
    BY <2>1
  <2>4. QED
    BY <2>2, <2>3
<1> HIDE DEF hundredths
<1>2. /\ units \in Nat /\ rest \in 0 .. 99
      /\ hundredths = 100 * units + rest
  BY <1>1
<1> HIDE DEF units, rest
<1>3. /\ units <= price
      /\ rest >= 50 => units + 1 <= price
  BY <1>1, <1>2
<1>4. Discounted(price, d) =
          IF rest > 50 \/ (rest = 50 /\ units % 2 = 1) THEN units + 1 ELSE units
  BY DEF Discounted, hundredths, units, rest
<1>5. QED
  BY <1>2, <1>3, <1>4

-----------------------------------------------------------------------------
(* Type correctness, and the prices there can be.                          *)

DiscountSteps == {"validate", "write_price", "count"}

TaskRow(r) ==
    /\ r.price <= Price
    /\ r.at = "idle" => r.order = None /\ r.code = None
    /\ r.at # "idle" => r.order \in References
    /\ r.at \in DiscountSteps => r.code \in Codes
    /\ r.at \in {"submit", "clear"} => r.code = None

Typed ==
    /\ DiscountTypeOK
    /\ \A o \in References : package_price[o] <= Price
    /\ \A t \in Tasks : TaskRow(task[t])

LEMMA TaskFields ==
    ASSUME Typed, NEW t \in Tasks
    PROVE  /\ task[t] \in Task /\ TaskRow(task[t])
           /\ task[t].at \in {"idle", "validate", "write_price", "count", "submit", "clear"}
           /\ task[t].order \in References \cup {None}
           /\ task[t].price \in Nat
           /\ task[t].code \in Codes \cup {None}
BY DEF Typed, DiscountTypeOK, Task

\* The three ways a task's record changes.
LEMMA TaskMoves ==
    ASSUME Typed, NEW t \in Tasks
    PROVE  /\ \A st \in {"write_price", "count", "clear"} : Goto(t, st) =>
                 /\ task' \in [Tasks -> Task]
                 /\ task'[t].at = st /\ task'[t].order = task[t].order
                 /\ task'[t].price = task[t].price /\ task'[t].code = task[t].code
                 /\ \A u \in Tasks \ {t} : task'[u] = task[u]
           /\ Finish(t) => /\ task' \in [Tasks -> Task] /\ task'[t] = Idle
                           /\ \A u \in Tasks \ {t} : task'[u] = task[u]
           /\ \A r \in Task : task' = [task EXCEPT ![t] = r] =>
                 /\ task' \in [Tasks -> Task] /\ task'[t] = r
                 /\ \A u \in Tasks \ {t} : task'[u] = task[u]
<1>1. task \in [Tasks -> Task] /\ Idle \in Task
  BY DEF Typed, DiscountTypeOK, Task, Idle
<1>2. ASSUME NEW st \in {"write_price", "count", "clear"}, Goto(t, st)
      PROVE  /\ task' \in [Tasks -> Task]
             /\ task'[t].at = st /\ task'[t].order = task[t].order
             /\ task'[t].price = task[t].price /\ task'[t].code = task[t].code
             /\ \A u \in Tasks \ {t} : task'[u] = task[u]
  BY <1>1, <1>2 DEF Goto, Task
<1>3. QED
  BY <1>1, <1>2 DEF Finish

LEMMA IdleRow == TaskRow(Idle)
BY PriceAssumption DEF TaskRow, Idle, DiscountSteps

LEMMA InitTyped == DiscountInit => Typed
<1> SUFFICES ASSUME DiscountInit PROVE Typed
  OBVIOUS
<1>1. TypeOK
  BY DEF DiscountInit, Init, TypeOK, NoTopup, Topup
<1>2. Idle \in Task
  BY DEF Idle, Task
<1>3. QED
  BY <1>1, <1>2, IdleRow, PriceAssumption DEF DiscountInit, DiscountTypeOK, Typed

\* The account's rows stay well formed.
LEMMA AccountTyped ==
    ASSUME TypeOK,
           \/ UNCHANGED accountVars
           \/ \E o \in References, n \in Nat : DeductCommission(o, n)
           \/ \E w \in Topups : ConfirmTopup(w) \/ \E n \in TopupAmounts : RequestTopup(w, n)
    PROVE  TypeOK'
<1>1. CASE UNCHANGED accountVars
  BY <1>1 DEF TypeOK, accountVars
<1>2. ASSUME NEW o \in References, NEW n \in Nat, DeductCommission(o, n) PROVE TypeOK'
  BY <1>2 DEF TypeOK, DeductCommission
<1>3. ASSUME NEW w \in Topups, ConfirmTopup(w) PROVE TypeOK'
  BY <1>3 DEF TypeOK, ConfirmTopup, Topup
<1>4. ASSUME NEW w \in Topups, NEW n \in TopupAmounts, RequestTopup(w, n) PROVE TypeOK'
  BY <1>4, TopupAmountsAssumption DEF TypeOK, RequestTopup, Topup
<1>5. QED
  BY <1>1, <1>2, <1>3, <1>4

\* A step of one task.
LEMMA TaskStepTyped ==
    ASSUME Typed, NEW t \in Tasks, TypeOK', task' \in [Tasks -> Task], TaskRow(task'[t]),
           \A u \in Tasks \ {t} : task'[u] = task[u],
           package_price' \in [References -> Nat],
           \A o \in References : package_price'[o] <= Price,
           usage_count' \in [Codes -> Nat],
           waiting_receipt' \subseteq References, overlapped' \subseteq References
    PROVE  Typed'
BY DEF Typed, DiscountTypeOK, TaskRow

LEMMA NextTyped == Typed /\ [DiscountNext]_discountVars => Typed'
<1> SUFFICES ASSUME Typed, [DiscountNext]_discountVars PROVE Typed'
  OBVIOUS
<1>1. ASSUME UNCHANGED <<orderVars, task>>, TypeOK' PROVE Typed'
  BY <1>1 DEF Typed, DiscountTypeOK, orderVars, TaskRow
<1>2. CASE UNCHANGED discountVars
  BY <1>1, <1>2, AccountTyped DEF discountVars, Typed, DiscountTypeOK
<1>3. CASE AccountOperation
  BY <1>1, <1>3, AccountTyped DEF AccountOperation, Typed, DiscountTypeOK
<1>4. ASSUME NEW t \in Tasks, NEW o \in References, StartReceipt(t, o) PROVE Typed'
  <2> DEFINE r == [at |-> "submit", order |-> o, price |-> package_price[o], code |-> None]
  <2>1. r \in Task /\ TaskRow(r)
    BY DEF Typed, DiscountTypeOK, Task, TaskRow, DiscountSteps
  <2>2. task' = [task EXCEPT ![t] = r] /\ UNCHANGED <<accountVars, orderVars>>
    BY <1>4 DEF StartReceipt
  <2> HIDE DEF r
  <2>3. /\ task' \in [Tasks -> Task] /\ TaskRow(task'[t])
        /\ \A u \in Tasks \ {t} : task'[u] = task[u]
    BY <2>1, <2>2, TaskMoves
  <2>4. QED
    BY <2>2, <2>3, AccountTyped, TaskStepTyped DEF orderVars, Typed, DiscountTypeOK
<1>5. ASSUME NEW t \in Tasks, NEW o \in References, NEW d \in Codes, StartDiscount(t, o, d)
      PROVE  Typed'
  <2> DEFINE r == [at |-> "validate", order |-> o, price |-> package_price[o], code |-> d]
  <2>1. r \in Task /\ TaskRow(r)
    BY DEF Typed, DiscountTypeOK, Task, TaskRow, DiscountSteps
  <2>2. /\ task' = [task EXCEPT ![t] = r]
        /\ UNCHANGED <<accountVars, package_price, usage_count, waiting_receipt>>
        /\ overlapped' \in {overlapped, overlapped \cup {o}}
    BY <1>5 DEF StartDiscount
  <2> HIDE DEF r
  <2>3. /\ task' \in [Tasks -> Task] /\ TaskRow(task'[t])
        /\ \A u \in Tasks \ {t} : task'[u] = task[u]
    BY <2>1, <2>2, TaskMoves
  <2>4. QED
    BY <2>2, <2>3, AccountTyped, TaskStepTyped DEF Typed, DiscountTypeOK
<1>6. ASSUME NEW t \in Tasks, Validate(t) PROVE Typed'
  <2>1. /\ task' \in [Tasks -> Task] /\ TaskRow(task'[t])
        /\ \A u \in Tasks \ {t} : task'[u] = task[u]
    BY <1>6, TaskMoves, TaskFields, IdleRow DEF Validate, TaskRow, DiscountSteps
  <2>2. QED
    BY <1>6, <2>1, AccountTyped, TaskStepTyped DEF Validate, orderVars, Typed, DiscountTypeOK
<1>7. ASSUME NEW t \in Tasks, WritePrice(t) PROVE Typed'
  <2>1. /\ task' \in [Tasks -> Task] /\ TaskRow(task'[t])
        /\ \A u \in Tasks \ {t} : task'[u] = task[u]
    BY <1>7, TaskMoves, TaskFields DEF WritePrice, TaskRow, DiscountSteps
  <2>2. /\ task[t].order \in References
        /\ Discounted(task[t].price, task[t].code) \in 0 .. task[t].price
        /\ task[t].price \in Nat /\ task[t].price <= Price
    BY <1>7, TaskFields, DiscountedLowers DEF WritePrice, TaskRow, DiscountSteps
  <2>3. /\ package_price' \in [References -> Nat]
        /\ \A o \in References : package_price'[o] <= Price
    BY <1>7, <2>2, PriceAssumption DEF WritePrice, Typed, DiscountTypeOK
  <2>4. QED
    BY <1>7, <2>1, <2>3, AccountTyped, TaskStepTyped DEF WritePrice, Typed, DiscountTypeOK
<1>8. ASSUME NEW t \in Tasks, CountUsage(t) PROVE Typed'
  <2>1. /\ task' \in [Tasks -> Task] /\ TaskRow(task'[t])
        /\ \A u \in Tasks \ {t} : task'[u] = task[u]
    BY <1>8, TaskMoves, IdleRow DEF CountUsage
  <2>2. usage_count' \in [Codes -> Nat]
    <3>1. task[t].code \in Codes /\ usage_count \in [Codes -> Nat]
      BY <1>8, TaskFields DEF CountUsage, TaskRow, DiscountSteps, Typed, DiscountTypeOK
    <3>2. QED
      BY <1>8, <3>1 DEF CountUsage
  <2>3. QED
    BY <1>8, <2>1, <2>2, AccountTyped, TaskStepTyped DEF CountUsage, Typed, DiscountTypeOK
<1>9. ASSUME NEW t \in Tasks, Submit(t) PROVE Typed'
  <2>1. /\ task' \in [Tasks -> Task] /\ TaskRow(task'[t])
        /\ \A u \in Tasks \ {t} : task'[u] = task[u]
    BY <1>9, TaskMoves, TaskFields DEF Submit, TaskRow, DiscountSteps
  <2>2. task[t].order \in References /\ task[t].price * commission_percent \in Nat
    BY <1>9, TaskFields, PriceAssumption DEF Submit, TaskRow
  <2>3. TypeOK'
    BY <1>9, <2>2, AccountTyped DEF Submit, Typed, DiscountTypeOK
  <2>4. QED
    BY <1>9, <2>1, <2>3, TaskStepTyped DEF Submit, orderVars, Typed, DiscountTypeOK
<1>10. ASSUME NEW t \in Tasks, ClearState(t) PROVE Typed'
  <2>1. /\ task' \in [Tasks -> Task] /\ TaskRow(task'[t])
        /\ \A u \in Tasks \ {t} : task'[u] = task[u]
    BY <1>10, TaskMoves, IdleRow DEF ClearState
  <2>2. QED
    BY <1>10, <2>1, AccountTyped, TaskStepTyped DEF ClearState, Typed, DiscountTypeOK
<1>11. ASSUME NEW t \in Tasks, Fail(t) PROVE Typed'
  <2>1. /\ task' \in [Tasks -> Task] /\ TaskRow(task'[t])
        /\ \A u \in Tasks \ {t} : task'[u] = task[u]
    BY <1>11, TaskMoves, IdleRow DEF Fail
  <2>2. QED
    BY <1>11, <2>1, AccountTyped, TaskStepTyped DEF Fail, orderVars, Typed, DiscountTypeOK
<1>12. QED
  BY <1>2, <1>3, <1>4, <1>5, <1>6, <1>7, <1>8, <1>9, <1>10, <1>11 DEF DiscountNext

LEMMA SpecTyped == DiscountSpec => []Typed
BY InitTyped, NextTyped, PTL DEF DiscountSpec

(* Discounts and receipts, however they interleave, leave well-formed      *)
(* rows; above all, no price becomes negative.                             *)
THEOREM DiscountsTypeOK == DiscountSpec => []DiscountTypeOK
<1>1. Typed => DiscountTypeOK
  BY DEF Typed
<1>2. QED
  BY <1>1, SpecTyped, PTL

(* No discount makes submit_receipt ask the account for anything but the   *)
(* commission on a price between 0 and the full one.                       *)
THEOREM DiscountsImplementAccount == DiscountSpec => ImplementsAccount
<1>1. Typed /\ [DiscountNext]_discountVars => [Next]_accountVars
  <2> SUFFICES ASSUME Typed, DiscountNext PROVE Next \/ UNCHANGED accountVars
    BY DEF discountVars
  <2>1. ASSUME NEW t \in Tasks, Submit(t) PROVE Next \/ UNCHANGED accountVars
    <3>1. task[t].order \in References /\ task[t].price * commission_percent \in Amounts
      BY <2>1, TaskFields, PricesAssumption, PriceAssumption DEF Submit, TaskRow
    <3>2. QED
      BY <2>1, <3>1 DEF Submit, Next
  <2>2. CASE AccountOperation
    BY <2>2 DEF AccountOperation, Next
  <2>3. QED
    BY <2>1, <2>2 DEF DiscountNext, StartReceipt, StartDiscount, Validate, WritePrice,
       CountUsage, ClearState, Fail
<1>2. DiscountInit => Init
  BY DEF DiscountInit
<1>3. QED
  BY <1>1, <1>2, SpecTyped, PTL DEF DiscountSpec, Spec, ImplementsAccount

-----------------------------------------------------------------------------
(* Usage limits.  A handler passes the limit of a code while fewer uses    *)
(* than the limit are counted, and at that time no more handlers than      *)
(* there are have passed it without counting yet.                          *)

Counting(d) == {t \in Tasks : task[t].at \in {"write_price", "count"} /\ task[t].code = d}

LimitBook(d) == usage_count[d] + Cardinality(Counting(d)) < usage_limit[d] + Cardinality(Tasks)

LimitBooks == \A d \in Codes : usage_limit[d] > 0 => LimitBook(d)

LEMMA CountingIsFinite ==
    ASSUME NEW d
    PROVE  /\ IsFiniteSet(Counting(d)) /\ Cardinality(Counting(d)) \in Nat
           /\ Cardinality(Counting(d)) <= Cardinality(Tasks)
           /\ Cardinality(Tasks) \in Nat
BY TasksAssumption, FS_Subset, FS_CardinalityType DEF Counting

LEMMA LimitKept ==
    ASSUME Typed, NEW d \in Codes, LimitBook(d), Counting(d)' \subseteq Counting(d),
           usage_count'[d] = usage_count[d]
    PROVE  LimitBook(d)'
<1>1. /\ Cardinality(Counting(d)') <= Cardinality(Counting(d))
      /\ Cardinality(Counting(d)') \in Nat
  BY CountingIsFinite, FS_Subset, FS_CardinalityType
<1>2. usage_count[d] \in Nat /\ usage_limit[d] \in Nat
  BY LimitAssumption DEF Typed, DiscountTypeOK
<1>3. QED
  BY <1>1, <1>2, CountingIsFinite DEF LimitBook

LEMMA NextLimits == Typed /\ LimitBooks /\ [DiscountNext]_discountVars => LimitBooks'
<1> SUFFICES ASSUME Typed, [DiscountNext]_discountVars, NEW d \in Codes, usage_limit[d] > 0,
                    LimitBook(d)
             PROVE  LimitBook(d)'
  BY DEF LimitBooks
<1>1. usage_count[d] \in Nat /\ usage_limit[d] \in Nat
  BY LimitAssumption DEF Typed, DiscountTypeOK
<1>2. ASSUME NEW t \in Tasks, usage_count' = usage_count,
             task'[t].at \notin {"write_price", "count"},
             \A u \in Tasks \ {t} : task'[u] = task[u]
      PROVE  LimitBook(d)'
  <2>1. Counting(d)' \subseteq Counting(d)
    BY <1>2 DEF Counting
  <2>2. QED
    BY <1>2, <2>1, LimitKept
<1>3. CASE UNCHANGED discountVars \/ AccountOperation
  <2>1. Counting(d)' \subseteq Counting(d) /\ usage_count' = usage_count
    BY <1>3 DEF Counting, discountVars, AccountOperation, orderVars
  <2>2. QED
    BY <2>1, LimitKept
<1>4. ASSUME NEW t \in Tasks, NEW o \in References,
             StartReceipt(t, o) \/ \E c \in Codes : StartDiscount(t, o, c)
      PROVE  LimitBook(d)'
  <2>1. /\ usage_count' = usage_count
        /\ task'[t].at \notin {"write_price", "count"}
        /\ \A u \in Tasks \ {t} : task'[u] = task[u]
    BY <1>4 DEF StartReceipt, StartDiscount, orderVars, Typed, DiscountTypeOK
  <2>2. QED
    BY <1>2, <2>1
<1>5. ASSUME NEW t \in Tasks, Validate(t) PROVE LimitBook(d)'
  <2>1. usage_count' = usage_count /\ \A u \in Tasks \ {t} : task'[u] = task[u]
    BY <1>5, TaskMoves DEF Validate, orderVars
  <2>2. CASE task[t].code = d /\ ~UsedUp(d)
    <3>1. usage_count'[d] < usage_limit[d]
      BY <1>1, <2>1, <2>2 DEF UsedUp
    <3>2. /\ Cardinality(Counting(d)') \in Nat /\ Cardinality(Tasks) \in Nat
          /\ Cardinality(Counting(d)') <= Cardinality(Tasks)
      BY TasksAssumption, FS_Subset, FS_CardinalityType DEF Counting
    <3>3. usage_count'[d] \in Nat
      BY <1>1, <2>1
    <3>4. QED
      BY <1>1, <3>1, <3>2, <3>3 DEF LimitBook
  <2>3. CASE task[t].code # d
    <3>1. Counting(d)' \subseteq Counting(d)
      <4>1. task'[t].code # d \/ task'[t].at = "idle"
        BY <1>5, <2>3, TaskMoves DEF Validate, Idle
      <4>2. QED
        BY <2>1, <4>1 DEF Counting
    <3>2. QED
      BY <2>1, <3>1, LimitKept
  <2>4. CASE task[t].code = d /\ UsedUp(d)
    <3>1. task'[t].at = "idle"
      BY <1>5, <2>4, TaskMoves DEF Validate, Idle
    <3>2. QED
      BY <1>2, <2>1, <3>1
  <2>5. QED
    BY <2>2, <2>3, <2>4
<1>6. ASSUME NEW t \in Tasks, WritePrice(t) PROVE LimitBook(d)'
  <2>1. /\ task[t].at = "write_price" /\ task'[t].code = task[t].code
        /\ \A u \in Tasks \ {t} : task'[u] = task[u]
    BY <1>6, TaskMoves DEF WritePrice
  <2>2. Counting(d)' \subseteq Counting(d)
    BY <2>1 DEF Counting
  <2>3. QED
    BY <1>6, <2>2, LimitKept DEF WritePrice
<1>7. ASSUME NEW t \in Tasks, CountUsage(t) PROVE LimitBook(d)'
  <2>1. /\ task[t].at = "count" /\ task'[t].at = "idle"
        /\ \A u \in Tasks \ {t} : task'[u] = task[u]
    BY <1>7, TaskMoves DEF CountUsage, Idle
  <2>2. CASE task[t].code = d
    <3>1. t \in Counting(d) /\ Counting(d)' \subseteq Counting(d) \ {t}
      BY <2>1, <2>2 DEF Counting
    <3>2. /\ IsFiniteSet(Counting(d) \ {t})
          /\ Cardinality(Counting(d) \ {t}) = Cardinality(Counting(d)) - 1
      BY <3>1, CountingIsFinite, FS_RemoveElement
    <3>3. /\ Cardinality(Counting(d)') <= Cardinality(Counting(d)) - 1
          /\ Cardinality(Counting(d)') \in Nat
      BY <3>1, <3>2, FS_Subset, FS_CardinalityType
    <3>4. usage_count'[d] = usage_count[d] + 1
      BY <1>7, <2>2 DEF CountUsage, Typed, DiscountTypeOK
    <3>5. QED
      BY <1>1, <3>3, <3>4, CountingIsFinite DEF LimitBook
  <2>3. CASE task[t].code # d
    <3>1. usage_count'[d] = usage_count[d]
      BY <1>7, <2>3 DEF CountUsage, Typed, DiscountTypeOK
    <3>2. Counting(d)' \subseteq Counting(d)
      BY <2>1 DEF Counting
    <3>3. QED
      BY <3>1, <3>2, LimitKept
  <2>4. QED
    BY <2>2, <2>3
<1>8. ASSUME NEW t \in Tasks, Submit(t) \/ ClearState(t) \/ Fail(t) PROVE LimitBook(d)'
  <2>1. /\ task'[t].at \in {"clear", "idle"}
        /\ \A u \in Tasks \ {t} : task'[u] = task[u]
    BY <1>8, TaskMoves DEF Submit, ClearState, Fail, Idle
  <2>2. usage_count' = usage_count
    BY <1>8 DEF Submit, ClearState, Fail, orderVars
  <2>3. QED
    BY <1>2, <2>1, <2>2
<1>9. QED
  BY <1>3, <1>4, <1>5, <1>6, <1>7, <1>8 DEF DiscountNext

(* The limit of a code is passed by fewer uses than there are handlers,    *)
(* whatever number of them reads the count before any of them writes it.   *)
THEOREM DiscountsUsageWithinLimit == DiscountSpec => []UsageWithinLimit
<1>1. DiscountInit => LimitBooks
  <2> SUFFICES ASSUME DiscountInit, NEW d \in Codes, usage_limit[d] > 0 PROVE LimitBook(d)
    BY DEF LimitBooks
  <2>1. usage_count[d] = 0 /\ Counting(d) = {}
    BY DEF DiscountInit, Counting, Idle
  <2>2. Cardinality({}) = 0
    BY FS_EmptySet
  <2>3. Cardinality(Counting(d)) = 0
    BY <2>1, <2>2, Zenon
  <2>4. QED
    BY <2>1, <2>3, CountingIsFinite, LimitAssumption DEF LimitBook
<1>2. Typed /\ LimitBooks => UsageWithinLimit
  <2> SUFFICES ASSUME Typed, NEW d \in Codes, LimitBook(d)
               PROVE  usage_count[d] < usage_limit[d] + Cardinality(Tasks)
    BY DEF LimitBooks, UsageWithinLimit
  <2>1. usage_count[d] \in Nat /\ usage_limit[d] \in Nat
    BY LimitAssumption DEF Typed, DiscountTypeOK
  <2>2. QED
    BY <2>1, CountingIsFinite DEF LimitBook
<1>3. QED
  BY <1>1, <1>2, SpecTyped, NextLimits, PTL DEF DiscountSpec

-----------------------------------------------------------------------------
(* Prices.  While no two discounts of an order are handled at once, the    *)
(* one that is holds the order's price as it is; a receipt that is about   *)
(* to be charged holds a price that is no lower, since it can only have    *)
(* been lowered meanwhile.                                                 *)

\* Handlers that discount an order.
Discounting(t, o) == task[t].order = o /\ task[t].code # None

PriceBook(o) ==
    /\ \A t, u \in Tasks : Discounting(t, o) /\ Discounting(u, o) => t = u
    /\ \A t \in Tasks : task[t].order = o =>
           /\ task[t].at \in {"validate", "write_price"} => task[t].price = package_price[o]
           /\ task[t].at = "submit" => task[t].price >= package_price[o]
    /\ \A i \in DOMAIN deductions[o] :
           deductions[o][i] >= package_price[o] * commission_percent

PriceBooks == \A o \in References \ overlapped : PriceBook(o)

\* A handler stays, ends, or goes to a step that promises no more about prices
\* than the one before.
MovesOn(t) ==
    \/ task'[t] = task[t]
    \/ task'[t] = Idle
    \/ /\ task'[t].order = task[t].order
       /\ task'[t].price = task[t].price
       /\ task'[t].code = task[t].code
       /\ \/ task'[t].at \in {"count", "clear"}
          \/ task'[t].at = "write_price" /\ task[t].at = "validate"

LEMMA PriceKept ==
    ASSUME Typed, NEW o \in References, PriceBook(o),
           package_price'[o] = package_price[o], deductions'[o] = deductions[o],
           \A t \in Tasks : MovesOn(t)
    PROVE  PriceBook(o)'
<1>1. Idle.order # o /\ Idle.at = "idle"
  BY NoneAssumption DEF Idle
<1>2. \A t \in Tasks : Discounting(t, o)' => Discounting(t, o)
  BY <1>1 DEF Discounting, MovesOn
<1>3. \A t \in Tasks : task'[t].order = o =>
          /\ task'[t].at \in {"validate", "write_price"} => task'[t].price = package_price'[o]
          /\ task'[t].at = "submit" => task'[t].price >= package_price'[o]
  BY <1>1 DEF PriceBook, MovesOn
<1>4. QED
  BY <1>2, <1>3 DEF PriceBook

LEMMA WritePriceBook ==
    ASSUME Typed, NEW o \in References, PriceBook(o), NEW t \in Tasks, WritePrice(t)
    PROVE  PriceBook(o)'
<1>1. /\ task[t].at = "write_price" /\ task'[t].at = "count"
      /\ task'[t].order = task[t].order /\ task'[t].code = task[t].code
      /\ task'[t].price = task[t].price
      /\ \A u \in Tasks \ {t} : task'[u] = task[u]
  BY TaskMoves DEF WritePrice
<1>2. task[t].order \in References /\ task[t].code \in Codes /\ task[t].code # None
  BY <1>1, TaskFields, NoneAssumption DEF TaskRow, DiscountSteps
<1>3. deductions' = deductions
  BY DEF WritePrice, accountVars
<1>4. CASE task[t].order # o
  <2>1. package_price'[o] = package_price[o]
    BY <1>4 DEF WritePrice, Typed, DiscountTypeOK
  <2>2. \A u \in Tasks : MovesOn(u)
    BY <1>1 DEF MovesOn
  <2>3. QED
    BY <1>3, <2>1, <2>2, PriceKept
<1>5. CASE task[t].order = o
  <2>1. package_price[o] \in Nat /\ task[t].price = package_price[o]
    BY <1>1, <1>5 DEF PriceBook, Typed, DiscountTypeOK
  <2>2. package_price'[o] = Discounted(task[t].price, task[t].code)
    BY <1>5 DEF WritePrice, Typed, DiscountTypeOK
  <2>3. package_price'[o] \in Nat /\ package_price'[o] <= package_price[o]
    BY <1>2, <2>1, <2>2, DiscountedLowers
  <2>4. \A u \in Tasks : Discounting(u, o) => u = t
    BY <1>2, <1>5 DEF PriceBook, Discounting
  <2>5. \A u, v \in Tasks : Discounting(u, o)' /\ Discounting(v, o)' => u = v
    BY <1>1, <2>4 DEF Discounting
  <2>6. ASSUME NEW u \in Tasks, task'[u].order = o
        PROVE  /\ task'[u].at \notin {"validate", "write_price"}
               /\ task'[u].at = "submit" => task'[u].price >= package_price'[o]
    <3>1. CASE u = t
      BY <1>1, <3>1
    <3>2. CASE u # t
      <4>1. task'[u] = task[u] /\ ~Discounting(u, o)
        BY <1>1, <2>4, <3>2
      <4>2. task[u].at \notin {"validate", "write_price"}
        BY <2>6, <4>1, TaskFields, NoneAssumption DEF Discounting, TaskRow, DiscountSteps
      <4>3. task[u].at = "submit" => task[u].price >= package_price[o] /\ task[u].price \in Nat
        BY <2>6, <4>1, TaskFields DEF PriceBook
      <4>4. QED
        BY <2>1, <2>3, <4>1, <4>2, <4>3
    <3>3. QED
      BY <3>1, <3>2
  <2>7. ASSUME NEW i \in DOMAIN deductions[o]
        PROVE  deductions[o][i] >= package_price'[o] * commission_percent
    <3>1. /\ package_price'[o] * commission_percent <= package_price[o] * commission_percent
          /\ package_price'[o] * commission_percent \in Nat
          /\ package_price[o] * commission_percent \in Nat
      BY <2>1, <2>3, ProductGrows, PriceAssumption
    <3>2. deductions[o][i] >= package_price[o] * commission_percent /\ deductions[o][i] \in Nat
      BY DEF PriceBook, Typed, DiscountTypeOK, TypeOK
    <3>3. QED
      BY <3>1, <3>2
  <2>8. QED
    BY <1>3, <2>5, <2>6, <2>7 DEF PriceBook
<1>6. QED
  BY <1>4, <1>5

LEMMA SubmitBook ==
    ASSUME Typed, NEW o \in References, PriceBook(o), NEW t \in Tasks, Submit(t)
    PROVE  PriceBook(o)'
<1> DEFINE amount == task[t].price * commission_percent
<1>1. /\ task[t].at = "submit" /\ task'[t].at = "clear"
      /\ task'[t].order = task[t].order /\ task'[t].code = task[t].code
      /\ task'[t].price = task[t].price
      /\ \A u \in Tasks \ {t} : task'[u] = task[u]
  BY TaskMoves DEF Submit
<1>2. package_price' = package_price
  BY DEF Submit, orderVars
<1>3. CASE deductions'[o] = deductions[o]
  <2>1. \A u \in Tasks : MovesOn(u)
    BY <1>1 DEF MovesOn
  <2>2. QED
    BY <1>2, <1>3, <2>1, PriceKept
<1>4. CASE deductions'[o] # deductions[o]
  <2>1. deductions' = [deductions EXCEPT ![task[t].order] = Append(@, amount)]
    BY <1>4 DEF Submit, DeductCommission, accountVars
  <2>2. task[t].order = o /\ amount \in Nat /\ task[t].price \in Nat
    BY <1>1, <1>4, <2>1, TaskFields, PriceAssumption DEF TaskRow, Typed, DiscountTypeOK, TypeOK
  <2>3. /\ amount >= package_price[o] * commission_percent
        /\ package_price[o] * commission_percent \in Nat
    <3>1. package_price[o] \in Nat /\ package_price[o] <= task[t].price
      BY <1>1, <2>2 DEF PriceBook, Typed, DiscountTypeOK
    <3>2. QED
      BY <2>2, <3>1, ProductGrows, PriceAssumption
  <2> HIDE DEF amount
  <2>4. deductions'[o] = Append(deductions[o], amount) /\ deductions[o] \in Seq(Nat)
    BY <2>1, <2>2 DEF Typed, DiscountTypeOK, TypeOK
  <2>5. ASSUME NEW i \in DOMAIN deductions'[o]
        PROVE  deductions'[o][i] >= package_price[o] * commission_percent
    <3>1. \/ i \in DOMAIN deductions[o] /\ deductions'[o][i] = deductions[o][i]
          \/ deductions'[o][i] = amount
      BY <2>2, <2>4
    <3>2. QED
      BY <2>3, <3>1 DEF PriceBook
  <2>6. \A u \in Tasks : Discounting(u, o)' => Discounting(u, o)
    BY <1>1 DEF Discounting
  <2>7. \A u \in Tasks : task'[u].order = o =>
            /\ task'[u].at \in {"validate", "write_price"} => task'[u].price = package_price'[o]
            /\ task'[u].at = "submit" => task'[u].price >= package_price'[o]
    BY <1>1, <1>2 DEF PriceBook
  <2>8. QED
    BY <1>2, <2>5, <2>6, <2>7 DEF PriceBook
<1>5. QED
  BY <1>3, <1>4

LEMMA NextPrices == Typed /\ PriceBooks /\ [DiscountNext]_discountVars => PriceBooks'
<1> SUFFICES ASSUME Typed, PriceBooks, [DiscountNext]_discountVars,
                    NEW o \in References, o \notin overlapped'
             PROVE  PriceBook(o)'
  BY DEF PriceBooks
<1>1. PriceBook(o)
  <2>1. overlapped \subseteq overlapped'
    BY DEF DiscountNext, AccountOperation, StartReceipt, StartDiscount, Validate, WritePrice,
       CountUsage, Submit, ClearState, Fail, orderVars, discountVars
  <2>2. QED
    BY <2>1 DEF PriceBooks
<1>2. CASE UNCHANGED discountVars \/ AccountOperation
  <2>1. UNCHANGED <<package_price, deductions, task>>
    BY <1>2 DEF discountVars, AccountOperation, ConfirmTopup, RequestTopup, orderVars, accountVars
  <2>2. \A u \in Tasks : MovesOn(u)
    BY <2>1 DEF MovesOn
  <2>3. QED
    BY <1>1, <2>1, <2>2, PriceKept
<1>3. ASSUME NEW t \in Tasks, NEW p \in References, StartReceipt(t, p) PROVE PriceBook(o)'
  <2>1. /\ task[t].at = "idle"
        /\ task'[t].at = "submit" /\ task'[t].order = p /\ task'[t].code = None
        /\ task'[t].price = package_price[p] /\ package_price[p] \in Nat
        /\ \A u \in Tasks \ {t} : task'[u] = task[u]
    BY <1>3 DEF StartReceipt, Typed, DiscountTypeOK
  <2>2. UNCHANGED <<package_price, deductions>>
    BY <1>3 DEF StartReceipt, accountVars, orderVars
  <2>3. \A u \in Tasks : Discounting(u, o)' => Discounting(u, o)
    BY <2>1 DEF Discounting
  <2>4. \A u \in Tasks : task'[u].order = o =>
            /\ task'[u].at \in {"validate", "write_price"} => task'[u].price = package_price'[o]
            /\ task'[u].at = "submit" => task'[u].price >= package_price'[o]
    BY <1>1, <2>1, <2>2 DEF PriceBook
  <2>5. QED
    BY <1>1, <2>2, <2>3, <2>4 DEF PriceBook
<1>4. ASSUME NEW t \in Tasks, NEW p \in References, NEW d \in Codes, StartDiscount(t, p, d)
      PROVE  PriceBook(o)'
  <2>1. /\ task'[t].at = "validate" /\ task'[t].order = p
        /\ task'[t].price = package_price[p] /\ package_price[p] \in Nat
        /\ \A u \in Tasks \ {t} : task'[u] = task[u]
    BY <1>4 DEF StartDiscount, Typed, DiscountTypeOK
  <2>2. UNCHANGED <<package_price, deductions>>
    BY <1>4 DEF StartDiscount, accountVars
  <2>3. p = o => \A u \in Tasks : ~Discounting(u, o)
    BY <1>4 DEF StartDiscount, Discounting
  <2>4. \A u, v \in Tasks : Discounting(u, o)' /\ Discounting(v, o)' => u = v
    BY <1>1, <2>1, <2>3 DEF Discounting, PriceBook
  <2>5. \A u \in Tasks : task'[u].order = o =>
            /\ task'[u].at \in {"validate", "write_price"} => task'[u].price = package_price'[o]
            /\ task'[u].at = "submit" => task'[u].price >= package_price'[o]
    BY <1>1, <2>1, <2>2 DEF PriceBook
  <2>6. QED
    BY <1>1, <2>2, <2>4, <2>5 DEF PriceBook
<1>5. ASSUME NEW t \in Tasks, Validate(t) \/ CountUsage(t) \/ ClearState(t) \/ Fail(t)
      PROVE  PriceBook(o)'
  <2>1. UNCHANGED <<package_price, deductions>>
    BY <1>5 DEF Validate, CountUsage, ClearState, Fail, accountVars, orderVars
  <2>2. \A u \in Tasks : MovesOn(u)
    BY <1>5, TaskMoves DEF Validate, CountUsage, ClearState, Fail, MovesOn
  <2>3. QED
    BY <1>1, <2>1, <2>2, PriceKept
<1>6. ASSUME NEW t \in Tasks, WritePrice(t) \/ Submit(t) PROVE PriceBook(o)'
  BY <1>1, <1>6, WritePriceBook, SubmitBook
<1>7. QED
  BY <1>2, <1>3, <1>4, <1>5, <1>6 DEF DiscountNext

(* Unless two discounts of an order were handled at once, the commission   *)
(* that was taken for it covers that on the price it has in the end.       *)
THEOREM DiscountsCommissionCoversPrice == DiscountSpec => []CommissionCoversPrice
<1>1. DiscountInit => PriceBooks
  BY NoneAssumption DEF DiscountInit, Init, PriceBooks, PriceBook, Discounting, Idle
<1>2. PriceBooks => CommissionCoversPrice
  BY DEF PriceBooks, PriceBook, CommissionCoversPrice
<1>3. QED
  BY <1>1, <1>2, SpecTyped, NextPrices, PTL DEF DiscountSpec

\* So the books of the account balance whatever discounts do to the prices.
THEOREM DiscountsBookBalance == DiscountSpec => []BookBalance
BY DiscountsImplementAccount, AccountBookBalance, PTL DEF ImplementsAccount
=============================================================================
