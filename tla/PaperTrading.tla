---------------------------- MODULE PaperTrading ----------------------------
(***************************************************************************)
(* PaperTradingEngine: the simulated exchange behind every paper session.  *)
(* Its books live in memory; cash and margin are copied to the database    *)
(* after each fill, and a restart finds them there, without the positions. *)
(* Every operation holds the engine's lock, so it is one step; what is cut *)
(* is find_or_create_portfolio, which looks in memory, looks in the        *)
(* database and creates under three separate locks.                        *)
(*                                                                         *)
(* One symbol, whole quantities.  A side's position is its quantity and    *)
(* its cost, quantity times cost basis; margin_used is kept as the         *)
(* notional it stands for, margin times leverage.                          *)
(***************************************************************************)
EXTENDS Integers, FiniteSets

CONSTANTS
  Book,      \* bound: portfolio ids
  OrderId,   \* bound: orders ever placed
  Qty,       \* bound: quantities of an order or of a fill
  Price,     \* bound: prices
  Marks,     \* bound: those the exchange answers and fill_order is called with
  FeeDiv,    \* the fee of a fill is its notional \div FeeDiv
  Balance,   \* initial_balance of a new book
  Leverages, \* leverages a session or the default asks for
  MaxFilled, \* bound: what one order is filled by fill_order
  MaxFaults  \* bound: failed commits and lookups, restarts, resets, deletions

ASSUME PaperAssumption ==
  /\ Qty \subseteq Nat \ {0} /\ Price \subseteq Nat \ {0} /\ Marks \subseteq Price /\ Leverages \subseteq Nat \ {0}
  /\ FeeDiv \in Nat \ {0} /\ Balance \in Nat \ {0} /\ MaxFaults \in Nat /\ MaxFilled \in Nat
  /\ 0 \notin Book /\ 0 \notin OrderId /\ IsFiniteSet(Book)

VARIABLES
  books,   \* _portfolios: the books in memory
  orders,  \* _orders: the orders by id
  rows,    \* paper_portfolios in the database
  faults   \* failed commits and lookups, restarts, resets, deletions

paperVars == <<books, orders, rows, faults>>

Side == {"long", "short"}
Opposite(s) == IF s = "long" THEN "short" ELSE "long"
Names == {"session", "fallback"}

\* A row of paper_portfolios, newest first by its number; a book in memory has
\* the positions, the price of its last trade and an uncertain copy in its row.
NoRow == [seq |-> 0, name |-> "session", cash |-> 0, used |-> 0, lev |-> 1]
NewBook(name, cash, used, lev) ==
  [name |-> name, cash |-> cash, used |-> used, lev |-> lev,
   qty |-> [s \in Side |-> 0], cost |-> [s \in Side |-> 0], last |-> 0, stale |-> FALSE]
NoOrder == [book |-> 0]
Known == DOMAIN books
Stored == {b \in Book : rows[b] # NoRow}

Fault == faults < MaxFaults /\ faults' = faults + 1
Works == UNCHANGED faults

-----------------------------------------------------------------------------
\* Portfolios.

\* Fault-seeded: only long positions need margin.
MarginUsed_LongOnly(cost) == cost["long"]

\* _recompute_margin_used.
MarginUsed(cost) == cost["long"] + cost["short"]

\* _sync_portfolio_leverage: a reused book follows the session's leverage; with
\* a new leverage the margin is computed again.
SyncLeverage(bk, lev) ==
  IF bk.lev = lev THEN bk ELSE [bk EXCEPT !.lev = lev, !.used = MarginUsed(bk.cost)]

\* The commit that follows: the row's leverage and margin, not its cash.
SyncRow(b, bk, lev) ==
  \/ (bk.lev = lev \/ b \notin Stored) /\ UNCHANGED rows /\ Works
  \/ bk.lev # lev /\ b \in Stored /\ Works
     /\ rows' = [rows EXCEPT ![b] = [@ EXCEPT !.lev = lev, !.used = SyncLeverage(bk, lev).used]]
  \/ bk.lev # lev /\ UNCHANGED rows /\ Fault

\* find_or_create_portfolio, in memory: the book b of that name is reused.
Reuse(b, name, lev) ==
  /\ b \in Known /\ books[b].name = name
  /\ books' = [books EXCEPT ![b] = SyncLeverage(@, lev)]
  /\ SyncRow(b, books[b], lev)
  /\ UNCHANGED orders

NoneInMemory(name) == \A b \in Known : books[b].name # name

\* The newest row of that name, 0 when there is none.
Newest(name) ==
  LET S == {b \in Stored : rows[b].name = name}
  IN IF S = {} THEN 0 ELSE CHOOSE b \in S : \A c \in S : rows[c].seq <= rows[b].seq

\* A book read back from its row: "float(row.cash or balance)", and no positions.
Loaded(r) ==
  [NewBook(r.name, IF r.cash = 0 THEN Balance ELSE r.cash, r.used, r.lev) EXCEPT !.stale = r.cash = 0]

\* find_or_create_portfolio, in the database: the newest row of that name.
Load(b, name, lev) ==
  /\ b # 0 /\ b = Newest(name)
  /\ LET bk == IF b \in Known THEN books[b] ELSE Loaded(rows[b])
     IN /\ books' = [c \in Known \cup {b} |-> IF c = b THEN SyncLeverage(bk, lev) ELSE books[c]]
        /\ SyncRow(b, bk, lev)
  /\ UNCHANGED orders

\* create_portfolio: a new id in memory.
Create(b, name, lev) ==
  /\ b \notin Known /\ b \notin Stored
  /\ books' = [c \in Known \cup {b} |-> IF c = b THEN NewBook(name, Balance, 0, lev) ELSE books[c]]
  /\ UNCHANGED <<orders, rows, faults>>

\* create_portfolio: its row, unless the commit fails.
Persist(b, name, lev) ==
  \/ /\ Works
     /\ rows' = [rows EXCEPT ![b] = [seq |-> 1 + Cardinality(Stored), name |-> name,
                                     cash |-> Balance, used |-> 0, lev |-> lev]]
     /\ UNCHANGED <<books, orders>>
  \/ Fault /\ UNCHANGED <<books, orders, rows>>

\* reset_portfolio: the row keeps what the book had, the orders stay fillable.
Reset(b) ==
  /\ b \in Known /\ Fault
  /\ books' = [books EXCEPT ![b] = [NewBook(@.name, Balance, 0, @.lev) EXCEPT !.stale = TRUE]]
  /\ UNCHANGED <<orders, rows>>

\* delete_portfolio: the row and the orders stay.
Delete(b) ==
  /\ b \in Known /\ Fault
  /\ books' = [c \in Known \ {b} |-> books[c]]
  /\ UNCHANGED <<orders, rows>>

-----------------------------------------------------------------------------
\* Fills.

\* The part of a fill that closes the opposite position.
Closed(bk, side, q) ==
  IF q < bk.qty[Opposite(side)] THEN q ELSE bk.qty[Opposite(side)]

\* The cost of what a fill closes.
Released(bk, side, q) ==
  IF q >= bk.qty[Opposite(side)] THEN bk.cost[Opposite(side)]
  ELSE (bk.cost[Opposite(side)] * q) \div bk.qty[Opposite(side)]

\* Its profit: of a purchase that closes a short position, of a sale that closes a
\* long one.
Profit(bk, side, q, p) ==
  LET paid == p * Closed(bk, side, q)
  IN IF side = "long" THEN Released(bk, side, q) - paid ELSE paid - Released(bk, side, q)

\* Fault-seeded: the remainder of a flip keeps the basis of the closed side.
Entered_AtBasis(bk, side, q, p) ==
  LET opp == Opposite(side)
      basis == IF bk.qty[opp] > 0 THEN bk.cost[opp] \div bk.qty[opp] ELSE p
  IN basis * (q - Closed(bk, side, q))

\* The cost of what a fill opens or adds.
Entered(bk, side, q, p) == p * (q - Closed(bk, side, q))

\* The fee is deducted from fills that close something.
FeeOf(bk, side, q, p) == IF bk.qty[Opposite(side)] > 0 THEN (q * p) \div FeeDiv ELSE 0

\* _fill_order_locked on the book: the opposite position is closed first, what is
\* left opens or averages the order's side, and the margin is computed again.
Fill(bk, side, q, p) ==
  LET opp  == Opposite(side)
      n    == Closed(bk, side, q)
      cost == [s \in Side |-> IF s = side THEN bk.cost[s] + Entered(bk, side, q, p)
                             ELSE bk.cost[s] - Released(bk, side, q)]
  IN [bk EXCEPT !.cash = @ + Profit(bk, side, q, p) - FeeOf(bk, side, q, p),
                !.qty  = [s \in Side |-> IF s = side THEN @[s] + (q - n) ELSE @[s] - n],
                !.cost = cost, !.used = MarginUsed(cost), !.last = p]

\* The order after a fill of q.
Filled(o, q) ==
  [o EXCEPT !.filled = @ + q, !.status = IF o.filled + q >= o.qty THEN "filled" ELSE "partial"]

\* Fault-seeded: the row gets the cash from before the fill.
StoredFields_TooEarly(old, new) == [cash |-> old.cash, used |-> new.used]

\* What the commit after a fill writes into the book's row.
StoredFields(old, new) == [cash |-> new.cash, used |-> new.used]

\* A fill of order record o of book b, and the commit that follows it: when it
\* fails, or finds no row yet, the row does not get the cash.
Settle(b, id, o, q, p) ==
  LET bk == Fill(books[b], o.side, q, p)
      w  == StoredFields(books[b], bk)
      Becomes(unsaved) == books' = [books EXCEPT ![b] = [bk EXCEPT !.stale = unsaved]]
  IN /\ orders' = [orders EXCEPT ![id] = Filled(o, q)]
     /\ \/ b \in Stored /\ Works /\ Becomes(FALSE)
           /\ rows' = [rows EXCEPT ![b] = [@ EXCEPT !.cash = w.cash, !.used = w.used]]
        \/ (IF b \in Stored THEN Fault ELSE Works) /\ Becomes(TRUE) /\ UNCHANGED rows

\* fill_order: any order of a book in memory, whatever its status, by what is
\* left of it or by the quantity asked for.
FillOrder(id, q, p) ==
  /\ orders[id] # NoOrder /\ orders[id].book \in Known
  /\ orders[id].filled + q <= MaxFilled
  /\ Settle(orders[id].book, id, orders[id], q, p)

-----------------------------------------------------------------------------
\* Orders.

\* An order: market orders have a price or 0, resting ones (limit, stop) have one.
Order(side, type, qty, price, reduce) ==
  [side |-> side, type |-> type, qty |-> qty, price |-> price, reduce |-> reduce]

\* The quantity beyond what closes the opposite position.
NetNew(bk, o) == IF o.qty > bk.qty[Opposite(o.side)] THEN o.qty - bk.qty[Opposite(o.side)] ELSE 0

\* The price the margin is checked at: the order's, or the last trade's.
Ref(bk, o) == IF o.price > 0 THEN o.price ELSE bk.last

\* Buying power: (cash - margin_used) times leverage.
Power(bk) == bk.lev * bk.cash - bk.used

\* The margin check of place_order: the quantity admitted, 0 when it is refused.
\* An entry that needs more than is available is clipped to 99 % of it.
Admitted(bk, o) ==
  LET opp     == bk.qty[Opposite(o.side)]
      clipped == opp + (Power(bk) * 99) \div (100 * Ref(bk, o))
  IN IF o.reduce \/ NetNew(bk, o) = 0 THEN o.qty
     ELSE IF Ref(bk, o) = 0 THEN 0
     ELSE IF NetNew(bk, o) * Ref(bk, o) <= Power(bk) THEN o.qty
     ELSE IF Power(bk) > 0 /\ clipped > opp THEN clipped ELSE 0

Takes(b, o) == IF b \in Known THEN Admitted(books[b], o) > 0 ELSE FALSE

Record(b, o, status) ==
  [book |-> b, side |-> o.side, qty |-> Admitted(books[b], o), filled |-> 0, status |-> status]

\* place_order for a book in memory: a resting order waits; a market order fills
\* at once, at its own price or at the exchange's last one (mark); without either
\* it is rejected.
PlaceOrder(b, id, o, mark) ==
  /\ Takes(b, o) /\ orders[id] = NoOrder
  /\ LET p == IF o.price > 0 THEN o.price ELSE mark
     IN \/ o.type = "resting" /\ orders' = [orders EXCEPT ![id] = Record(b, o, "pending")]
           /\ UNCHANGED <<books, rows, faults>>
        \/ o.type = "market" /\ p = 0 /\ orders' = [orders EXCEPT ![id] = Record(b, o, "rejected")]
           /\ UNCHANGED <<books, rows, faults>>
        \/ o.type = "market" /\ p > 0 /\ Settle(b, id, Record(b, o, "pending"), Admitted(books[b], o), p)

\* cancel_order.
CancelOrder(id) ==
  /\ orders[id] # NoOrder /\ orders[id].status \notin {"filled", "cancelled"}
  /\ orders' = [orders EXCEPT ![id] = [@ EXCEPT !.status = "cancelled"]]
  /\ UNCHANGED <<books, rows, faults>>

\* The backend restarts: only the rows are left.
Forget ==
  /\ Fault
  /\ books' = [b \in {} |-> NoRow] /\ orders' = [id \in OrderId |-> NoOrder]
  /\ UNCHANGED rows

-----------------------------------------------------------------------------
PaperInit ==
  /\ books = [b \in {} |-> NoRow]
  /\ orders = [id \in OrderId |-> NoOrder]
  /\ rows = [b \in Book |-> NoRow]
  /\ faults = 0

\* The operations of the engine that its router does not call.
EngineStep ==
  \/ \E b \in Book : Reset(b) \/ Delete(b)
  \/ \E id \in OrderId : CancelOrder(id)
  \/ \E id \in OrderId, q \in Qty, p \in Marks : FillOrder(id, q, p)

=============================================================================
