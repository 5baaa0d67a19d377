------------------------------- MODULE Ledger -------------------------------
(***************************************************************************)
(* What a paper book promises, without average prices, sides and margins:  *)
(* an account that buys and sells one symbol.  held is what it owns (less  *)
(* than nothing when it is short), money what it has been paid for it, and *)
(* a sale or purchase costs a fee exactly when it reduces what is held.    *)
(***************************************************************************)
EXTENDS Integers

CONSTANTS
  Book,     \* accounts
  Qty,      \* quantities of one fill
  Price,    \* prices
  FeeDiv    \* a fill of quantity q at price p costs (q * p) \div FeeDiv

VARIABLES held, money

Fee(q, p) == (q * p) \div FeeDiv

\* A fill of q at price p: d is 1 for a purchase and -1 for a sale.
Trade(b, d, q, p) ==
  LET fee == IF d * held[b] < 0 THEN Fee(q, p) ELSE 0
  IN /\ held' = [held EXCEPT ![b] = @ + d * q]
     /\ money' = [money EXCEPT ![b] = @ - d * (q * p) - fee]

\* The accounts in B are begun anew, or forgotten with what they held.
Anew(B) ==
  /\ held' = [b \in Book |-> IF b \in B THEN 0 ELSE held[b]]
  /\ \A b \in Book \ B : money'[b] = money[b]
  /\ DOMAIN money' = Book

Init == held = [b \in Book |-> 0] /\ money = [b \in Book |-> 0]

Next ==
  \/ \E b \in Book, d \in {1, -1}, q \in Qty, p \in Price : Trade(b, d, q, p)
  \/ \E B \in SUBSET Book : Anew(B)

Spec == Init /\ [][Next]_<<held, money>>
=============================================================================
