--------------------------- MODULE UnifiedTrading ---------------------------
(***************************************************************************)
(* UnifiedTrading, the router in front of the brokers and of the paper     *)
(* engine: one session, its mode and its book, orders of several threads,  *)
(* and the guard that forces a live session's orders into a paper book     *)
(* while TRADING_MODE is not live.  A routed order reads the session again *)
(* and again without its lock.                                             *)
(***************************************************************************)
EXTENDS PaperTrading

CONSTANTS
  Thread,       \* callers of place_order
  Requests,     \* the orders they may ask for
  TradingMode,  \* TRADING_MODE: "live", "paper" or "backtest"
  Modes,        \* the modes init_session is called with
  MaxSwitches,  \* bound: calls of switch_mode per session
  BrokerLev     \* paper_leverage_for_broker

ASSUME RouterAssumption ==
  /\ Requests \subseteq [side : {"long", "short"}, type : {"market", "resting"},
                         qty : Nat \ {0}, price : Price \cup {0}, reduce : BOOLEAN]
  /\ Modes \subseteq {"live", "paper"} /\ BrokerLev \in Nat \ {0} /\ "admin" \notin Thread

VARIABLES
  session,  \* the session: "none" before init_session
  pc,       \* where each caller is
  job       \* the book each caller looks for, and the mode its order was guarded in

vars == <<paperVars, session, pc, job>>

Admin == "admin"    \* the caller of init_session and switch_mode
Actor == Thread \cup {Admin}
NoSession == [mode |-> "none", book |-> 0, switches |-> 0]
NoJob == [name |-> "fallback", lev |-> 1, book |-> 0, saw |-> "none"]

Goto(t, stage) == pc' = [pc EXCEPT ![t] = stage]
Paused == UNCHANGED <<paperVars, session, job>>
Finds(t, b) == job' = [job EXCEPT ![t] = [@ EXCEPT !.book = b]]
Seeks(t, lev) == job' = [job EXCEPT ![t] = [@ EXCEPT !.name = "session", !.lev = lev]] /\ Goto(t, "find")

-----------------------------------------------------------------------------
\* find_or_create_portfolio, which leaves the book it found in job.book.

\* Looking for a book: a search in memory, in the database, a new book, its row.
Find(t) ==
  /\ pc[t] = "find"
  /\ \/ \E b \in Book : /\ Reuse(b, job[t].name, job[t].lev)
                        /\ Finds(t, b) /\ Goto(t, "found")
     \/ /\ NoneInMemory(job[t].name) /\ Goto(t, "lookup")
        /\ UNCHANGED <<paperVars, job>>
  /\ UNCHANGED session

Lookup(t) ==
  /\ pc[t] = "lookup"
  /\ \/ \E b \in Book : /\ Load(b, job[t].name, job[t].lev)
                        /\ Finds(t, b) /\ Goto(t, "found")
     \/ /\ Newest(job[t].name) = 0 \/ faults < MaxFaults
        /\ IF Newest(job[t].name) = 0 THEN Works ELSE Fault
        /\ Goto(t, "create")
        /\ UNCHANGED <<books, orders, rows, job>>
  /\ UNCHANGED session

Make(t) ==
  /\ pc[t] = "create"
  /\ \E b \in Book : /\ \A u \in Actor : job[u].book # b
                     /\ Create(b, job[t].name, job[t].lev)
                     /\ Finds(t, b)
  /\ Goto(t, "persist")
  /\ UNCHANGED session

Keep(t) ==
  /\ pc[t] = "persist"
  /\ Persist(job[t].book, job[t].name, job[t].lev)
  /\ Goto(t, "found") /\ UNCHANGED <<session, job>>

\* The book becomes the session's, whatever became of it in between.
Assign(t) ==
  /\ pc[t] = "found"
  /\ session' = [session EXCEPT !.book = job[t].book, !.mode = IF @ = "none" THEN "paper" ELSE @]
  /\ job' = [job EXCEPT ![t] = NoJob]
  /\ Goto(t, IF t = Admin THEN "idle" ELSE "paper")
  /\ UNCHANGED paperVars

-----------------------------------------------------------------------------
\* Sessions.

\* init_session: a paper session looks for its book while it holds the session
\* lock, a live one has none.
InitSession(mode) ==
  /\ pc[Admin] = "idle" /\ session = NoSession
  /\ IF mode = "paper"
     THEN Seeks(Admin, BrokerLev) /\ UNCHANGED session
     ELSE session' = [session EXCEPT !.mode = mode] /\ UNCHANGED <<pc, job>>
  /\ UNCHANGED paperVars

\* switch_mode: the mode changes at once, the book of the broker's name is looked
\* for with the default leverage of 1.
SwitchMode(m) ==
  /\ pc[Admin] = "idle" /\ session # NoSession
  /\ session.mode # m /\ session.switches < MaxSwitches
  /\ session' = [session EXCEPT !.mode = m, !.switches = @ + 1]
  /\ IF m = "paper" /\ session.book = 0
     THEN Seeks(Admin, 1)
     ELSE UNCHANGED <<pc, job>>
  /\ UNCHANGED paperVars

-----------------------------------------------------------------------------
\* place_order.

\* The session is looked up; what the order says does not matter before it reaches
\* a book.
Submit(t) ==
  /\ pc[t] = "idle" /\ session # NoSession
  /\ \E id \in OrderId : orders[id] = NoOrder
  /\ Goto(t, "guard")
  /\ Paused

\* Fault-seeded: only a backtest is kept from the brokers.
Guarded_BacktestOnly == session.mode = "live" /\ TradingMode = "backtest"

\* The guard: a live session while TRADING_MODE is not live.
Guarded == session.mode = "live" /\ TradingMode # "live"

\* "Safeguard: if global trading mode is not LIVE, force route to paper".
Guard(t) ==
  /\ pc[t] = "guard"
  /\ Goto(t, IF ~Guarded THEN "route" ELSE IF session.book = 0 THEN "find" ELSE "paper")
  /\ job' = [job EXCEPT ![t] = [@ EXCEPT !.saw = IF Guarded THEN "none" ELSE session.mode]]
  /\ UNCHANGED <<paperVars, session>>

\* The mode is read again: paper, or else the broker.
Route(t) ==
  /\ pc[t] = "route"
  /\ Goto(t, IF session.mode # "paper" THEN "live" ELSE IF session.book = 0 THEN "idle" ELSE "paper")
  /\ Paused

\* The order reaches the broker, which has a guard of its own.
Live(t) ==
  /\ pc[t] = "live"
  /\ Goto(t, "idle") /\ job' = [job EXCEPT ![t] = NoJob]
  /\ UNCHANGED <<paperVars, session>>

\* The engine's place_order, on the book the session has by now.
Paper(t) ==
  /\ pc[t] = "paper"
  /\ LET b == session.book
     IN \/ \E o \in Requests, id \in OrderId, mark \in Marks \cup {0} : PlaceOrder(b, id, o, mark)
        \/ /\ (\E o \in Requests : ~Takes(b, o)) \/ \A id \in OrderId : orders[id] # NoOrder
           /\ UNCHANGED paperVars
  /\ Goto(t, "idle") /\ job' = [job EXCEPT ![t] = NoJob]
  /\ UNCHANGED session

Engine == EngineStep /\ UNCHANGED <<session, pc, job>>

Restart ==
  /\ Forget
  /\ session' = NoSession
  /\ pc' = [t \in Actor |-> "idle"] /\ job' = [t \in Actor |-> NoJob]

-----------------------------------------------------------------------------
Init ==
  /\ PaperInit
  /\ session = NoSession
  /\ pc = [t \in Actor |-> "idle"] /\ job = [t \in Actor |-> NoJob]

Portfolio(t) == Find(t) \/ Lookup(t) \/ Make(t) \/ Keep(t) \/ Assign(t)

Next ==
  \/ \E m \in Modes : InitSession(m) \/ SwitchMode(m)
  \/ \E t \in Actor : Portfolio(t)
  \/ \E t \in Thread : Submit(t) \/ Guard(t) \/ Route(t) \/ Live(t) \/ Paper(t)
  \/ Engine \/ Restart

Spec == Init /\ [][Next]_vars

-----------------------------------------------------------------------------
\* Properties.

\* Every variable stays in its range; no side of a book goes below zero.
BookRange ==
  [name : Names, cash : Int, used : Nat, lev : Leverages, qty : [Side -> Nat],
   cost : [Side -> Nat], last : Price \cup {0}, stale : BOOLEAN]
RowRange == [seq : 0..Cardinality(Book), name : Names, cash : Int, used : Nat, lev : Leverages]
OrderRange ==
  [book : Book, side : Side, qty : Nat \ {0}, filled : Nat,
   status : {"pending", "partial", "filled", "cancelled", "rejected"}]
TypeOK ==
  /\ Known \subseteq Book /\ \A b \in Known : books[b] \in BookRange
  /\ \A id \in OrderId : orders[id] \in OrderRange \cup {NoOrder}
  /\ \A b \in Book : rows[b] \in RowRange \cup {NoRow}
  /\ faults \in 0..MaxFaults
  /\ session.book \in Book \cup {0}
  /\ \A t \in Actor : job[t].name \in Names /\ job[t].book \in Book \cup {0}

\* A side without a quantity has no cost, and no book is long and short at once.
Flat(bk, s) == bk.qty[s] = 0 /\ bk.cost[s] = 0
OneSided(bk) == \E s \in Side : Flat(bk, s)

\* Orders are sized against the margin of the positions: what is reserved is their
\* margin, on one side only, except in a book read back from its row, which has
\* the margin of positions it lost until its first fill or change of leverage.
MarginKept ==
  \A b \in Known :
    /\ OneSided(books[b])
    /\ \/ books[b].used = books[b].cost["long"] + books[b].cost["short"]
       \/ \A s \in Side : Flat(books[b], s)

\* "Reuse a persisted paper book so restarts do not reset PnL": the row has the cash
\* of its book, unless a commit failed, the book was reset since its last fill or
\* that fill came before the row.
CashStored ==
  \A b \in Known \cap Stored : books[b].stale \/ rows[b].cash = books[b].cash

\* The book as an account: what it holds, and what it was paid for it.
Held == [b \in Book |->
  IF b \in Known THEN books[b].qty["long"] - books[b].qty["short"] ELSE 0]
Money == [b \in Book |->
  IF b \in Known
  THEN books[b].cash - Balance - books[b].cost["long"] + books[b].cost["short"] ELSE 0]

\* What one fill may amount to: a request is filled in full or clipped.
Lots == Qty \cup UNION {1..o.qty : o \in Requests}

\* "Simulated exchange with full order lifecycle, fill engine, fee model": averaging,
\* partial closes and flips of a book are purchases and sales of one account at
\* their price; no fill invents or loses money.
Account == INSTANCE Ledger WITH held <- Held, money <- Money, Qty <- Lots
LedgerRefined == Account!Spec

\* "If global trading mode is not LIVE, force route to paper trading engine": while it
\* is not, only an order that was guarded while the session was still in paper
\* mode reaches a broker's adapter, the window between the two reads of the mode.
GuardHolds ==
  \A t \in Thread : pc[t] = "live" /\ TradingMode # "live" => job[t].saw = "paper"
=============================================================================
