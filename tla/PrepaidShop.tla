----------------------------- MODULE PrepaidShop -----------------------------
(***************************************************************************)
(* What the customer's wallet and the stock of charge codes promise,       *)
(* without transactions, locks or handlers: a customer spends only what    *)
(* was credited before, and an item of the stock is handed to one          *)
(* customer, once, in the same step that takes the money.                  *)
(***************************************************************************)
EXTENDS Integers

CONSTANTS Customers, \* who has a wallet
          Items,     \* what may be in stock
          Nobody,    \* the owner of an item that was not sold
          Amounts,   \* amounts that are credited or taken
          Opening    \* what a wallet holds at the start

VARIABLES balance, \* what each customer may spend
          stock,   \* the items for sale
          owner    \* the customer an item was sold to

shopVars == <<balance, stock, owner>>

Init ==
    /\ balance = [c \in Customers |-> Opening]
    /\ stock = {}
    /\ owner = [i \in Items |-> Nobody]

Pay(c, amount) ==
    /\ amount <= balance[c]
    /\ balance' = [balance EXCEPT ![c] = @ - amount]

Credit(c, amount) ==
    /\ balance' = [balance EXCEPT ![c] = @ + amount]
    /\ UNCHANGED <<stock, owner>>

Spend(c, amount) == Pay(c, amount) /\ UNCHANGED <<stock, owner>>

Sell(c, items, amount) ==
    /\ items \subseteq stock
    /\ Pay(c, amount)
    /\ stock' = stock \ items
    /\ owner' = [i \in Items |-> IF i \in items THEN c ELSE owner[i]]

Supply(i) ==
    /\ i \notin stock /\ owner[i] = Nobody
    /\ stock' = stock \cup {i}
    /\ UNCHANGED <<balance, owner>>

Withdraw(items) ==
    /\ items \subseteq stock
    /\ stock' = stock \ items
    /\ UNCHANGED <<balance, owner>>

Next ==
    \/ \E c \in Customers, amount \in Amounts :
            \/ Credit(c, amount)
            \/ Spend(c, amount)
            \/ \E items \in SUBSET Items : Sell(c, items, amount)
    \/ \E i \in Items : Supply(i)
    \/ \E items \in SUBSET Items : Withdraw(items)

Spec == Init /\ [][Next]_shopVars
==============================================================================
