---------------------- MODULE CommissionAccountProofs ----------------------
(* What the commission account promises, for every set of references and   *)
(* topups, every credit limit and every amount.                            *)
EXTENDS CommissionAccount, SumTheorems

(* Every transaction of the service leaves well-formed rows.               *)
THEOREM AccountTypeOK == Spec => []TypeOK
<1>1. Init => TypeOK
  BY DEF Init, TypeOK, NoTopup, Topup
<1>2. TypeOK /\ [Next]_accountVars => TypeOK'
  <2> SUFFICES ASSUME TypeOK, [Next]_accountVars PROVE TypeOK'
    OBVIOUS
  <2>1. ASSUME NEW ref \in References, NEW amount \in Amounts,
               DeductCommission(ref, amount)
        PROVE  TypeOK'
    BY <2>1, AmountsAssumption DEF TypeOK, DeductCommission
  <2>2. ASSUME NEW ref \in References, NEW amount \in Amounts,
               RefundCommission(ref, amount)
        PROVE  TypeOK'
    BY <2>2, AmountsAssumption DEF TypeOK, RefundCommission
  <2>3. ASSUME NEW w \in Topups, NEW amount \in TopupAmounts, RequestTopup(w, amount)
        PROVE  TypeOK'
    BY <2>3, TopupAmountsAssumption DEF TypeOK, RequestTopup, Topup
  <2>4. ASSUME NEW w \in Topups, ConfirmTopup(w) PROVE TypeOK'
    BY <2>4 DEF TypeOK, ConfirmTopup, Topup
  <2>5. CASE UNCHANGED accountVars
    BY <2>5 DEF TypeOK, accountVars
  <2>6. QED
    BY <2>1, <2>2, <2>3, <2>4, <2>5 DEF Next
<1>3. QED
  BY <1>1, <1>2, PTL DEF Spec

(* Commission alone never takes the account below its negative limit:      *)
(* deduct_commission_in_tx checks and writes under one row lock.           *)
THEOREM AccountCreditFloor == Spec => []CreditFloor
<1>1. Init => CreditFloor
  BY CreditLimitAssumption DEF Init, CreditFloor
<1>2. TypeOK /\ CreditFloor /\ [Next]_accountVars => CreditFloor'
  <2> SUFFICES ASSUME TypeOK, CreditFloor, [Next]_accountVars PROVE CreditFloor'
    OBVIOUS
  <2> USE CreditLimitAssumption DEF CreditFloor
  <2>1. ASSUME NEW ref \in References, NEW amount \in Amounts,
               DeductCommission(ref, amount)
        PROVE  CreditFloor'
    BY <2>1, AmountsAssumption DEF TypeOK, DeductCommission, InsufficientCredit
  <2>2. ASSUME NEW ref \in References, NEW amount \in Amounts,
               RefundCommission(ref, amount)
        PROVE  CreditFloor'
    BY <2>2, AmountsAssumption DEF TypeOK, RefundCommission
  <2>3. ASSUME NEW w \in Topups, NEW amount \in TopupAmounts, RequestTopup(w, amount)
        PROVE  CreditFloor'
    <3>1. \A v \in Topups : topups[v].status = "confirmed" => topups'[v] = topups[v]
      BY <2>3 DEF TypeOK, RequestTopup
    <3>2. QED
      BY <2>3, <3>1 DEF RequestTopup
  <2>4. ASSUME NEW w \in Topups, ConfirmTopup(w) PROVE CreditFloor'
    <3>1. \A v \in Topups : topups[v].status = "confirmed" => topups'[v] = topups[v]
      BY <2>4 DEF TypeOK, ConfirmTopup
    <3>2. topups'[w].status = "confirmed" /\ topups'[w].amount = topups[w].amount
      BY <2>4 DEF TypeOK, ConfirmTopup, Topup
    <3>3. CASE topups[w].amount < 0
      BY <3>2, <3>3
    <3>4. CASE topups[w].amount >= 0
      BY <2>4, <3>1, <3>4 DEF TypeOK, ConfirmTopup, Topup
    <3>5. QED
      BY <3>3, <3>4 DEF TypeOK, Topup
  <2>5. CASE UNCHANGED accountVars
    BY <2>5 DEF accountVars
  <2>6. QED
    BY <2>1, <2>2, <2>3, <2>4, <2>5 DEF Next
<1>3. QED
  BY <1>1, <1>2, AccountTypeOK, PTL DEF Spec

(* A credited topup is never credited again or edited: confirm_topup       *)
(* refuses a row that is not pending, under the lock of that row.          *)
THEOREM AccountCreditedTopupIsFinal == Spec => CreditedTopupIsFinal
<1>1. TypeOK /\ [Next]_accountVars =>
        [\A w \in Topups : topups[w].status = "confirmed" => topups'[w] = topups[w]]_accountVars
  BY DEF TypeOK, Next, accountVars, DeductCommission, RefundCommission,
         RequestTopup, ConfirmTopup
<1>2. QED
  BY <1>1, AccountTypeOK, PTL DEF Spec, CreditedTopupIsFinal

-----------------------------------------------------------------------------
(* The books.                                                              *)

LEMMA TotalType ==
    ASSUME NEW rows \in [References -> Seq(Nat)]
    PROVE  Total(rows) \in Int
<1>1. \A r \in References : rows[r] \in Seq(Int)
  <2>1. \A r \in References : rows[r] \in Seq(Nat)
    OBVIOUS
  <2>2. QED
    BY <2>1
<1>2. [r \in References |-> RowSum(rows[r])] \in [References -> Int]
  BY <1>1, SumFunctionAppend DEF RowSum
<1>3. QED
  BY <1>2, RowsAssumption, SumFunctionType DEF Total

\* One more row adds its amount to the total of its kind.
LEMMA TotalGrows ==
    ASSUME NEW rows \in [References -> Seq(Nat)], NEW ref \in References, NEW amount \in Nat
    PROVE  Total([rows EXCEPT ![ref] = Append(@, amount)]) = Total(rows) + amount
<1> DEFINE more == [rows EXCEPT ![ref] = Append(@, amount)]
           f == [r \in References |-> RowSum(rows[r])]
           g == [r \in References |-> RowSum(more[r])]
<1>1. \A r \in References : rows[r] \in Seq(Int)
  <2>1. \A r \in References : rows[r] \in Seq(Nat)
    OBVIOUS
  <2>2. QED
    BY <2>1
<1>2. more \in [References -> Seq(Nat)]
  OBVIOUS
<1>3. \A r \in References : more[r] \in Seq(Int)
  <2>1. \A r \in References : more[r] \in Seq(Nat)
    BY <1>2
  <2> HIDE DEF more
  <2>2. QED
    BY <2>1
<1>4. /\ more[ref] = Append(rows[ref], amount)
      /\ \A r \in References \ {ref} : more[r] = rows[r]
  OBVIOUS
<1>5. Total(rows) = SumFunction(f)
  BY DEF Total
<1>6. Total(more) = SumFunction(g)
  <2>1. DOMAIN more = References
    BY <1>2
  <2> HIDE DEF more
  <2>2. QED
    BY <2>1 DEF Total
<1> HIDE DEF more
<1>7. f \in [References -> Int]
  BY <1>1, SumFunctionAppend DEF RowSum
<1>8. g \in [References -> Int]
  BY <1>3, SumFunctionAppend DEF RowSum
<1>9. g[ref] = f[ref] + amount
  <2>1. g[ref] = SumFunction(Append(rows[ref], amount)) /\ f[ref] = SumFunction(rows[ref])
    BY <1>4 DEF RowSum
  <2>2. rows[ref] \in Seq(Int) /\ amount \in Int
    BY <1>1
  <2> HIDE DEF f, g
  <2>3. QED
    BY <2>1, <2>2, SumFunctionAppend
<1>10. \A r \in References \ {ref} : g[r] = f[r]
  BY <1>4
<1> HIDE DEF f, g
<1>11. SumFunction(g) = SumFunction(f) + (g[ref] - f[ref]) /\ SumFunction(f) \in Int
  BY <1>7, <1>8, <1>10, RowsAssumption, SumFunctionChange, SumFunctionType
<1>12. f[ref] \in Int
  BY <1>7
<1>13. QED
  BY <1>5, <1>6, <1>9, <1>11, <1>12 DEF more

LEMMA TotalOfNone == Total([r \in References |-> <<>>]) = 0
<1> DEFINE f == [r \in References |-> RowSum(<<>>)]
<1>1. Total([r \in References |-> <<>>]) = SumFunction(f)
  BY DEF Total
<1>2. f \in [References -> {0}]
  BY SumFunctionEmpty DEF RowSum
<1> HIDE DEF f
<1>3. QED
  BY <1>1, <1>2, RowsAssumption, SumFunctionZero

CreditedBy(rows) == [w \in Topups |->
    IF rows[w].status = "confirmed" THEN rows[w].amount ELSE 0]

LEMMA CreditedType ==
    ASSUME NEW rows \in [Topups -> Topup]
    PROVE  SumFunction(CreditedBy(rows)) \in Int
<1>1. CreditedBy(rows) \in [Topups -> Int]
  BY DEF CreditedBy, Topup
<1>2. QED
  BY <1>1, RowsAssumption, SumFunctionType

\* What a topup adds, when one row changes.
LEMMA CreditedChanges ==
    ASSUME NEW rows \in [Topups -> Topup], NEW w \in Topups, NEW row \in Topup
    PROVE  SumFunction(CreditedBy([rows EXCEPT ![w] = row])) =
               SumFunction(CreditedBy(rows))
                   + (IF row.status = "confirmed" THEN row.amount ELSE 0)
                   - (IF rows[w].status = "confirmed" THEN rows[w].amount ELSE 0)
<1> DEFINE more == [rows EXCEPT ![w] = row]
           f == CreditedBy(rows)
           g == CreditedBy(more)
<1>1. more \in [Topups -> Topup] /\ more[w] = row /\ \A v \in Topups \ {w} : more[v] = rows[v]
  OBVIOUS
<1> HIDE DEF more
<1>2. f \in [Topups -> Int] /\ g \in [Topups -> Int]
  BY <1>1 DEF CreditedBy, Topup
<1>3. \A v \in Topups \ {w} : g[v] = f[v]
  BY <1>1 DEF CreditedBy
<1>4. /\ g[w] = IF row.status = "confirmed" THEN row.amount ELSE 0
      /\ f[w] = IF rows[w].status = "confirmed" THEN rows[w].amount ELSE 0
  BY <1>1 DEF CreditedBy
<1> HIDE DEF f, g
<1>5. SumFunction(g) = SumFunction(f) + (g[w] - f[w]) /\ SumFunction(f) \in Int
  BY <1>2, <1>3, RowsAssumption, SumFunctionChange, SumFunctionType
<1>6. f[w] \in Int /\ g[w] \in Int
  BY <1>2
<1>7. SumFunction(g) = SumFunction(f) + g[w] - f[w]
  BY <1>5, <1>6
<1>8. QED
  BY <1>4, <1>5, <1>7 DEF f, g, more

\* The balance is what the rows of its three kinds add up to.
THEOREM AccountBookBalance == Spec => []BookBalance
<1>1. Credited = SumFunction(CreditedBy(topups))
  BY DEF Credited, CreditedBy
<1>2. Init => BookBalance
  <2> SUFFICES ASSUME Init PROVE BookBalance
    OBVIOUS
  <2>1. CreditedBy(topups) \in [Topups -> {0}]
    BY DEF Init, CreditedBy, NoTopup
  <2>2. Credited = 0
    BY <1>1, <2>1, RowsAssumption, SumFunctionZero
  <2>3. QED
    BY <2>2, TotalOfNone DEF Init, BookBalance
<1>3. TypeOK /\ BookBalance /\ [Next]_accountVars => BookBalance'
  <2> SUFFICES ASSUME TypeOK, BookBalance, [Next]_accountVars PROVE BookBalance'
    OBVIOUS
  <2>1. /\ Total(refunds) \in Int /\ Total(deductions) \in Int /\ Credited \in Int
        /\ wallet_credit_balance = Credited + Total(refunds) - Total(deductions)
    BY <1>1, TotalType, CreditedType DEF TypeOK, BookBalance
  <2>2. Credited' = SumFunction(CreditedBy(topups'))
    BY DEF Credited, CreditedBy
  <2>3. ASSUME NEW ref \in References, NEW amount \in Amounts,
               DeductCommission(ref, amount)
        PROVE  BookBalance'
    <3>1. Total(deductions') = Total(deductions) + amount
      BY <2>3, AmountsAssumption, TotalGrows DEF TypeOK, DeductCommission
    <3>2. Credited' = Credited /\ refunds' = refunds
      BY <1>1, <2>2, <2>3 DEF DeductCommission
    <3>3. wallet_credit_balance' = wallet_credit_balance - amount /\ amount \in Int
      BY <2>3, AmountsAssumption DEF DeductCommission
    <3>4. QED
      BY <2>1, <3>1, <3>2, <3>3 DEF BookBalance
  <2>4. ASSUME NEW ref \in References, NEW amount \in Amounts,
               RefundCommission(ref, amount)
        PROVE  BookBalance'
    <3>1. Total(refunds') = Total(refunds) + amount
      BY <2>4, AmountsAssumption, TotalGrows DEF TypeOK, RefundCommission
    <3>2. Credited' = Credited /\ deductions' = deductions
      BY <1>1, <2>2, <2>4 DEF RefundCommission
    <3>3. wallet_credit_balance' = wallet_credit_balance + amount /\ amount \in Int
      BY <2>4, AmountsAssumption DEF RefundCommission
    <3>4. QED
      BY <2>1, <3>1, <3>2, <3>3 DEF BookBalance
  <2>5. ASSUME NEW w \in Topups, NEW amount \in TopupAmounts, RequestTopup(w, amount)
        PROVE  BookBalance'
    <3> DEFINE row == [status |-> "pending", amount |-> amount]
    <3>1. row \in Topup /\ topups' = [topups EXCEPT ![w] = row]
      BY <2>5, TopupAmountsAssumption DEF RequestTopup, Topup
    <3>2. row.status = "pending" /\ topups[w].status = "none"
      BY <2>5 DEF RequestTopup
    <3> HIDE DEF row
    <3>3. Credited' = Credited + 0 - 0
      BY <1>1, <2>2, <3>1, <3>2, CreditedChanges DEF TypeOK
    <3>4. QED
      BY <2>1, <2>5, <3>3 DEF BookBalance, RequestTopup
  <2>6. ASSUME NEW w \in Topups, ConfirmTopup(w) PROVE BookBalance'
    <3> DEFINE row == [topups[w] EXCEPT !.status = "confirmed"]
    <3>1. topups[w] \in Topup /\ topups[w].status = "pending"
      BY <2>6 DEF TypeOK, ConfirmTopup
    <3>2. row \in Topup /\ row.status = "confirmed" /\ row.amount = topups[w].amount
      BY <3>1 DEF Topup
    <3>3. topups' = [topups EXCEPT ![w] = row]
      BY <2>6 DEF ConfirmTopup
    <3> HIDE DEF row
    <3>4. Credited' = Credited + topups[w].amount - 0
      BY <1>1, <2>2, <3>1, <3>2, <3>3, CreditedChanges DEF TypeOK
    <3>5. /\ wallet_credit_balance' = wallet_credit_balance + topups[w].amount
          /\ UNCHANGED <<refunds, deductions>>
      BY <2>6 DEF ConfirmTopup
    <3>6. topups[w].amount \in Int
      BY <3>1 DEF Topup
    <3>7. QED
      BY <2>1, <3>4, <3>5, <3>6 DEF BookBalance
  <2>7. CASE UNCHANGED accountVars
    BY <1>1, <2>1, <2>2, <2>7 DEF BookBalance, accountVars
  <2>8. QED
    BY <2>3, <2>4, <2>5, <2>6, <2>7 DEF Next
<1>4. QED
  BY <1>2, <1>3, AccountTypeOK, PTL DEF Spec
=============================================================================
