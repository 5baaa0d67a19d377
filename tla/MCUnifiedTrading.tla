-------------------------- MODULE MCUnifiedTrading --------------------------
(***************************************************************************)
(* UnifiedTrading with two callers, two books and two or three orders.     *)
(***************************************************************************)
EXTENDS UnifiedTrading, TLC

CONSTANTS t1, t2, b1, b2, o1, o2    \* model values

\* Callers, books and orders are interchangeable.
Symmetric == Permutations(Thread) \cup Permutations(Book) \cup Permutations(OrderId)

\* An entry that may be clipped, a resting order that flips, an order for the
\* exchange's price.
Asked ==
  {Order("long", "market", 2, 20, FALSE), Order("short", "resting", 3, 30, FALSE),
   Order("short", "market", 1, 0, TRUE)}
=============================================================================
