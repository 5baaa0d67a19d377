------------------------ MODULE UnifiedTradingProofs ------------------------
(***************************************************************************)
(* What the paper books and the router's guard keep, for any number of     *)
(* callers, books, orders and faults, all quantities, prices and fees.     *)
(*                                                                         *)
(* The margin of a book follows from its costs after every fill.  That the *)
(* row has the cash of its book needs to know where rows come from: a      *)
(* caller that creates a book is the only one to store it, and until then  *)
(* the book still has its first balance, or is marked as unsaved.          *)
(***************************************************************************)
EXTENDS UnifiedTrading, FiniteSetTheorems, TLAPS

Books == [name : Names, cash : Int, used : Int, lev : Nat, qty : [Side -> Nat],
          cost : [Side -> Int], last : Nat, stale : BOOLEAN]
Rows == {NoRow} \cup [seq : Nat \ {0}, name : Names, cash : Int, used : Int, lev : Nat]
Taken == [book : Book, side : Side, qty : Nat, filled : Nat,
          status : {"pending", "partial", "filled", "cancelled", "rejected"}]
Stages == {"idle", "find", "lookup", "create", "persist", "found", "guard", "route", "live", "paper"}
Jobs == [name : Names, lev : Nat, book : Book \cup {0}, saw : {"none", "live", "paper"}]

\* The margin reserved is that of the positions.
Reserved(bk) ==
  /\ OneSided(bk)
  /\ \/ bk.used = bk.cost["long"] + bk.cost["short"]
     \/ \A s \in Side : Flat(bk, s)

\* The row has the book's cash, or will get it when it is created.
Saved(bk, b) ==
  bk.stale \/ bk.cash = IF rows[b] = NoRow THEN Balance ELSE rows[b].cash

TypedBooks ==
  /\ DOMAIN books \subseteq Book /\ books \in [DOMAIN books -> Books]
  /\ rows \in [Book -> Rows]
  /\ orders \in [OrderId -> Taken \cup {NoOrder}]
Sessions == [mode : {"none", "live", "paper"}, book : Book \cup {0}, switches : Nat]
TypedJobs == pc \in [Actor -> Stages] /\ job \in [Actor -> Jobs] /\ session \in Sessions

Accounts == \A b \in DOMAIN books : Reserved(books[b]) /\ Saved(books[b], b)

\* Only the creator of a book stores it.
Creators ==
  \A t \in Actor : pc[t] = "persist" =>
    /\ job[t].book \in Book /\ rows[job[t].book] = NoRow
    /\ \A u \in Actor \ {t} : pc[u] = "persist" => job[u].book # job[t].book

\* An order that passed the guard saw a session that was not live.
Routed ==
  /\ session.mode = "none" => session = NoSession /\ \A t \in Thread : pc[t] = "idle"
  /\ TradingMode # "live" => \A t \in Thread : pc[t] \in {"route", "live"} => job[t].saw = "paper"

-----------------------------------------------------------------------------
\* What the constants and the absent records are.
LEMMA Values ==
  /\ Balance \in Nat \ {0} /\ FeeDiv \in Nat \ {0} /\ Qty \subseteq Nat /\ Marks \subseteq Nat \ {0}
  /\ 0 \notin Book /\ IsFiniteSet(Book) /\ NoRow \in Rows /\ NoRow.cash = 0 /\ NoRow.name \in Names
  /\ NoRow.used = 0 /\ NoRow.lev = 1
  /\ \A r \in Rows : r.seq # 0 => r # NoRow
  /\ NoOrder \notin Taken /\ Admin \notin Thread
  BY PaperAssumption, RouterAssumption
     DEF PaperAssumption, RouterAssumption, NoRow, NoOrder, Rows, Names, Taken, Admin

\* What a request asks for.
LEMMA Asks ==
  ASSUME NEW o \in Requests
  PROVE  o.side \in Side /\ o.qty \in Nat \ {0} /\ o.price \in Price \cup {0} /\ o.price \in Nat
<1>1. o \in [side : {"long", "short"}, type : {"market", "resting"},
             qty : Nat \ {0}, price : Price \cup {0}, reduce : BOOLEAN]
  BY RouterAssumption, Zenon DEF RouterAssumption
<1>2. o.side \in Side /\ o.qty \in Nat \ {0} /\ o.price \in Price \cup {0}
  BY <1>1 DEF Side
<1>3. Price \subseteq Nat
  BY PaperAssumption DEF PaperAssumption
<1>4. CASE o.price = 0
  BY <1>2, <1>4
<1>5. CASE o.price \in Price
  <2>1. o.price \in Nat
    BY <1>3, <1>5, Zenon
  <2> QED
    BY <1>2, <2>1
<1> QED
  BY <1>2, <1>4, <1>5

\* A book begun anew or read back holds nothing.
LEMMA NewBooks ==
  ASSUME NEW name \in Names, NEW cash \in Int, NEW used \in Int, NEW lev \in Nat
  PROVE  /\ NewBook(name, cash, used, lev) \in Books /\ Reserved(NewBook(name, cash, used, lev))
         /\ NewBook(name, cash, used, lev).cash = cash /\ ~NewBook(name, cash, used, lev).stale
  BY DEF NewBook, Books, Side, Reserved, OneSided, Flat

\* A session's leverage changes neither positions nor cash.
LEMMA Synced ==
  ASSUME NEW bk \in Books, NEW lev \in Nat, Reserved(bk)
  PROVE  /\ SyncLeverage(bk, lev) \in Books /\ Reserved(SyncLeverage(bk, lev))
         /\ SyncLeverage(bk, lev).cash = bk.cash /\ SyncLeverage(bk, lev).stale = bk.stale
<1>1. CASE bk.lev = lev
  BY <1>1 DEF SyncLeverage
<1>2. CASE bk.lev # lev
  <2> DEFINE x == SyncLeverage(bk, lev)
  <2>1. x = [bk EXCEPT !.lev = lev, !.used = MarginUsed(bk.cost)]
    BY <1>2 DEF SyncLeverage
  <2>2. MarginUsed(bk.cost) = bk.cost["long"] + bk.cost["short"] /\ MarginUsed(bk.cost) \in Int
    BY DEF MarginUsed, Books, Side
  <2>3. /\ x \in Books /\ x.cost = bk.cost /\ x.qty = bk.qty /\ x.used = MarginUsed(bk.cost)
        /\ x.cash = bk.cash /\ x.stale = bk.stale
    BY <2>1, <2>2 DEF Books
  <2> HIDE DEF x
  <2>4. Reserved(x)
    BY <2>2, <2>3 DEF Reserved, OneSided, Flat
  <2> QED
    BY <2>3, <2>4 DEF x
<1> QED
  BY <1>1, <1>2

\* A fill leaves a book on one side, with the margin of what it holds.
LEMMA Fills ==
  ASSUME NEW bk \in Books, NEW side \in Side, NEW q \in Nat, NEW p \in Nat, OneSided(bk)
  PROVE  Fill(bk, side, q, p) \in Books /\ Reserved(Fill(bk, side, q, p))
<1> DEFINE opp == Opposite(side)
           n == Closed(bk, side, q)
           cost == [s \in Side |-> IF s = side THEN bk.cost[s] + Entered(bk, side, q, p)
                                   ELSE bk.cost[s] - Released(bk, side, q)]
           qty == [s \in Side |-> IF s = side THEN bk.qty[s] + (q - n) ELSE bk.qty[s] - n]
           cash == bk.cash + Profit(bk, side, q, p) - FeeOf(bk, side, q, p)
           x == Fill(bk, side, q, p)
<1>1. opp \in Side /\ opp # side /\ Side = {side, opp}
  BY DEF Opposite, Side
<1>2. bk.qty[opp] \in Nat /\ bk.qty[side] \in Nat /\ bk.cost[opp] \in Int /\ bk.cost[side] \in Int
  BY <1>1 DEF Books
<1>3. n \in Nat /\ n <= bk.qty[opp] /\ n <= q
  BY <1>2 DEF Closed
<1>4. Released(bk, side, q) \in Int
  <2>1. CASE q >= bk.qty[opp]
    BY <1>2, <2>1 DEF Released
  <2>2. CASE ~(q >= bk.qty[opp])
    <3>1. bk.cost[opp] * q \in Int /\ bk.qty[opp] \in Nat \ {0}
      BY <1>2, <2>2
    <3> QED
      BY <2>2, <3>1 DEF Released
  <2> QED
    BY <2>1, <2>2
<1>5. Entered(bk, side, q, p) \in Int /\ p * n \in Int
  BY <1>3 DEF Entered
<1>6. cash \in Int
  <2>1. Profit(bk, side, q, p) \in Int
    BY <1>4, <1>5 DEF Profit
  <2>2. FeeOf(bk, side, q, p) \in Int
    <3>1. q * p \in Int
      OBVIOUS
    <3> QED
      BY <3>1, Values DEF FeeOf
  <2> QED
    BY <2>1, <2>2 DEF Books
<1>7. cost \in [Side -> Int] /\ qty \in [Side -> Nat]
  BY <1>1, <1>2, <1>3, <1>4, <1>5
<1>8. MarginUsed(cost) = cost["long"] + cost["short"] /\ MarginUsed(cost) \in Int
  BY <1>7 DEF MarginUsed, Side
<1>9. /\ x \in Books /\ x.cash = cash /\ x.qty = qty /\ x.cost = cost /\ x.used = MarginUsed(cost)
  <2>1. x = [bk EXCEPT !.cash = cash, !.qty = qty, !.cost = cost, !.used = MarginUsed(cost), !.last = p]
    BY Zenon DEF Fill
  <2> HIDE DEF cash, qty, cost
  <2> QED
    BY <1>6, <1>7, <1>8, <2>1 DEF Books
<1>10. OneSided(x)
  <2>1. CASE q >= bk.qty[opp]
    <3>1. n = bk.qty[opp] /\ Released(bk, side, q) = bk.cost[opp]
      BY <1>2, <2>1 DEF Closed, Released
    <3>2. qty[opp] = 0 /\ cost[opp] = 0
      BY <1>1, <1>2, <3>1
    <3> QED
      BY <1>1, <1>9, <3>2 DEF OneSided, Flat
  <2>2. CASE ~(q >= bk.qty[opp])
    <3>1. n = q /\ bk.qty[opp] > 0
      BY <1>2, <2>2 DEF Closed
    <3>2. Flat(bk, side)
      BY <1>1, <3>1 DEF OneSided, Flat
    <3>3. Entered(bk, side, q, p) = 0
      BY <3>1 DEF Entered
    <3>4. qty[side] = 0 /\ cost[side] = 0
      BY <3>1, <3>2, <3>3 DEF Flat
    <3> QED
      BY <1>9, <3>4 DEF OneSided, Flat
  <2> QED
    BY <2>1, <2>2
<1> HIDE DEF x, cost
<1> QED
  BY <1>8, <1>9, <1>10 DEF Reserved, x

-----------------------------------------------------------------------------
\* The engine keeps its books and rows.
Engines == TypedBooks /\ Accounts
NoneStored == \A c \in Book : rows'[c] = NoRow <=> rows[c] = NoRow

\* A book in memory is replaced.
LEMMA Replaced ==
  ASSUME TypedBooks, NEW b \in DOMAIN books, NEW x \in Books, books' = [books EXCEPT ![b] = x]
  PROVE  /\ DOMAIN books' = DOMAIN books /\ books' \in [DOMAIN books' -> Books] /\ books'[b] = x
         /\ \A c \in DOMAIN books \ {b} : books'[c] = books[c]
  BY DEF TypedBooks

\* A book is added to those in memory, or one of them replaced.
LEMMA Added ==
  ASSUME TypedBooks, NEW b \in Book, NEW x \in Books,
         books' = [c \in Known \cup {b} |-> IF c = b THEN x ELSE books[c]]
  PROVE  /\ DOMAIN books' = DOMAIN books \cup {b} /\ DOMAIN books' \subseteq Book
         /\ books' \in [DOMAIN books' -> Books] /\ books'[b] = x
         /\ \A c \in DOMAIN books \ {b} : books'[c] = books[c]
  BY DEF TypedBooks, Known

\* The commit after a change of leverage leaves the cash of every row.
LEMMA SyncsRow ==
  ASSUME TypedBooks, NEW b \in Book, NEW bk \in Books, NEW lev \in Nat, Reserved(bk),
         SyncRow(b, bk, lev)
  PROVE  /\ rows' \in [Book -> Rows]
         /\ \A c \in Book : (rows'[c] = NoRow <=> rows[c] = NoRow) /\ rows'[c].cash = rows[c].cash
<1>1. CASE rows' = rows
  BY <1>1 DEF TypedBooks
<1> DEFINE u == SyncLeverage(bk, lev).used
<1>2. u \in Int
  BY Synced DEF Books
<1> HIDE DEF u
<1>3. CASE b \in Stored /\ rows' = [rows EXCEPT ![b] = [@ EXCEPT !.lev = lev, !.used = u]]
  <2>1. rows[b] \in [seq : Nat \ {0}, name : Names, cash : Int, used : Int, lev : Nat]
    BY <1>3 DEF Stored, TypedBooks, Rows
  <2> DEFINE x == [rows[b] EXCEPT !.lev = lev, !.used = u]
  <2>2. x \in [seq : Nat \ {0}, name : Names, cash : Int, used : Int, lev : Nat]
        /\ x.cash = rows[b].cash /\ x.seq # 0
    BY <1>2, <2>1
  <2>3. rows' = [rows EXCEPT ![b] = x]
    BY <1>3
  <2> HIDE DEF x
  <2>4. x \in Rows /\ x # NoRow /\ rows[b] # NoRow
    BY <1>3, <2>2, Values DEF Rows, Stored
  <2> QED
    BY <2>2, <2>3, <2>4 DEF TypedBooks
<1> QED
  BY <1>1, <1>3 DEF SyncRow, u

\* A book that is reused keeps its cash and its row.
LEMMA ReuseKeeps ==
  ASSUME Engines, NEW b \in Book, NEW name, NEW lev \in Nat, Reuse(b, name, lev)
  PROVE  Engines' /\ NoneStored
<1> DEFINE x == SyncLeverage(books[b], lev)
<1>1. b \in DOMAIN books /\ books[b] \in Books /\ Reserved(books[b]) /\ TypedBooks
  BY DEF Engines, TypedBooks, Accounts, Reuse, Known
<1>2. x \in Books /\ Reserved(x) /\ x.cash = books[b].cash /\ x.stale = books[b].stale
  BY <1>1, Synced
<1>3. books' = [books EXCEPT ![b] = x] /\ orders' = orders
  BY DEF Reuse
<1> HIDE DEF x
<1>4. /\ DOMAIN books' = DOMAIN books /\ books' \in [DOMAIN books' -> Books] /\ books'[b] = x
      /\ \A c \in DOMAIN books \ {b} : books'[c] = books[c]
  BY <1>1, <1>2, <1>3, Replaced
<1>5. /\ rows' \in [Book -> Rows]
      /\ \A c \in Book : (rows'[c] = NoRow <=> rows[c] = NoRow) /\ rows'[c].cash = rows[c].cash
  BY <1>1, SyncsRow DEF Reuse
<1>6. TypedBooks'
  BY <1>1, <1>3, <1>4, <1>5 DEF TypedBooks
<1>7. ASSUME NEW c \in DOMAIN books' PROVE Reserved(books'[c]) /\ Saved(books[c], c)'
  <2>1. c \in Book /\ Reserved(books[c]) /\ Saved(books[c], c)
    BY <1>4, <1>7 DEF Engines, TypedBooks, Accounts
  <2>2. Reserved(books'[c]) /\ books'[c].cash = books[c].cash /\ books'[c].stale = books[c].stale
    BY <1>2, <1>4, <1>7, <2>1
  <2> QED
    BY <1>5, <2>1, <2>2 DEF Saved
<1> QED
  BY <1>5, <1>6, <1>7 DEF Engines, Accounts, Reserved, OneSided, Flat, NoneStored

\* A book that is read back has the cash of its row.
LEMMA LoadKeeps ==
  ASSUME Engines, NEW b \in Book, NEW name, NEW lev \in Nat, Load(b, name, lev)
  PROVE  Engines' /\ NoneStored
<1> DEFINE bk == IF b \in Known THEN books[b] ELSE Loaded(rows[b])
           x == SyncLeverage(bk, lev)
<1>1. TypedBooks /\ rows[b] \in Rows
  BY DEF Engines, TypedBooks
<1>2. bk \in Books /\ Reserved(bk) /\ Saved(bk, b)
  <2>1. CASE b \in Known
    BY <2>1 DEF Engines, TypedBooks, Accounts, Known
  <2>2. CASE b \notin Known
    <3> DEFINE c == IF rows[b].cash = 0 THEN Balance ELSE rows[b].cash
               y == NewBook(rows[b].name, c, rows[b].used, rows[b].lev)
    <3>1. /\ rows[b].name \in Names /\ rows[b].cash \in Int /\ rows[b].used \in Int
          /\ rows[b].lev \in Nat /\ c \in Int
      BY <1>1, Values DEF Rows
    <3>2. y \in Books /\ Reserved(y) /\ y.cash = c
      BY <3>1, NewBooks
    <3>3. bk = [y EXCEPT !.stale = rows[b].cash = 0]
      BY <2>2 DEF Loaded
    <3> HIDE DEF y
    <3>4. /\ bk \in Books /\ bk.cash = c /\ bk.used = y.used /\ bk.cost = y.cost /\ bk.qty = y.qty
          /\ bk.stale = (rows[b].cash = 0)
      BY <3>2, <3>3 DEF Books
    <3> HIDE DEF bk
    <3>5. Reserved(bk)
      BY <3>2, <3>4 DEF Reserved, OneSided, Flat
    <3>6. Saved(bk, b)
      BY <3>4, Values DEF Saved
    <3> QED
      BY <3>4, <3>5, <3>6
  <2> QED
    BY <2>1, <2>2
<1> HIDE DEF bk
<1>3. x \in Books /\ Reserved(x) /\ x.cash = bk.cash /\ x.stale = bk.stale
  BY <1>2, Synced
<1>4. books' = [c \in Known \cup {b} |-> IF c = b THEN x ELSE books[c]] /\ orders' = orders
      /\ SyncRow(b, bk, lev)
  BY DEF Load, bk
<1> HIDE DEF x
<1>5. /\ DOMAIN books' = DOMAIN books \cup {b} /\ DOMAIN books' \subseteq Book
      /\ books' \in [DOMAIN books' -> Books] /\ books'[b] = x
      /\ \A c \in DOMAIN books \ {b} : books'[c] = books[c]
  BY <1>1, <1>3, <1>4, Added
<1>6. /\ rows' \in [Book -> Rows]
      /\ \A c \in Book : (rows'[c] = NoRow <=> rows[c] = NoRow) /\ rows'[c].cash = rows[c].cash
  BY <1>1, <1>2, <1>4, SyncsRow
<1>7. ASSUME NEW c \in DOMAIN books' PROVE Reserved(books'[c]) /\ Saved(books[c], c)'
  <2>1. CASE c = b
    BY <1>2, <1>3, <1>5, <1>6, <2>1 DEF Saved
  <2>2. CASE c # b
    <3>1. c \in DOMAIN books /\ books'[c] = books[c] /\ Reserved(books[c]) /\ Saved(books[c], c)
      BY <1>5, <1>7, <2>2 DEF Engines, Accounts
    <3> QED
      BY <1>5, <1>6, <3>1 DEF Saved
  <2> QED
    BY <2>1, <2>2
<1> QED
  BY <1>1, <1>4, <1>5, <1>6, <1>7
     DEF Engines, TypedBooks, Accounts, Reserved, OneSided, Flat, NoneStored

\* A new book has the first balance, and no row yet.
LEMMA CreateKeeps ==
  ASSUME Engines, NEW b \in Book, NEW name \in Names, NEW lev \in Nat, Create(b, name, lev)
  PROVE  Engines' /\ UNCHANGED rows /\ rows[b] = NoRow
<1> DEFINE x == NewBook(name, Balance, 0, lev)
<1>1. x \in Books /\ Reserved(x) /\ x.cash = Balance
  BY NewBooks, Values
<1>2. /\ books' = [c \in Known \cup {b} |-> IF c = b THEN x ELSE books[c]]
      /\ UNCHANGED <<orders, rows>> /\ rows[b] = NoRow
  BY DEF Create, Stored
<1> HIDE DEF x
<1>3. /\ DOMAIN books' = DOMAIN books \cup {b} /\ DOMAIN books' \subseteq Book
      /\ books' \in [DOMAIN books' -> Books] /\ books'[b] = x
      /\ \A c \in DOMAIN books \ {b} : books'[c] = books[c]
  BY <1>1, <1>2, Added DEF Engines
<1>4. ASSUME NEW c \in DOMAIN books' PROVE Reserved(books'[c]) /\ Saved(books[c], c)'
  <2>1. CASE c = b
    BY <1>1, <1>2, <1>3, <2>1 DEF Saved
  <2>2. CASE c # b
    BY <1>2, <1>3, <1>4, <2>2 DEF Engines, Accounts, Saved
  <2> QED
    BY <2>1, <2>2
<1> QED
  BY <1>2, <1>3, <1>4 DEF Engines, TypedBooks, Accounts, Reserved, OneSided, Flat

\* The creator's commit: a book that is not marked still has its first balance.
LEMMA PersistKeeps ==
  ASSUME Engines, NEW b \in Book, NEW name \in Names, NEW lev \in Nat, Persist(b, name, lev),
         rows[b] = NoRow
  PROVE  Engines' /\ \A c \in Book \ {b} : rows'[c] = rows[c]
<1>1. CASE UNCHANGED <<books, orders, rows>>
  BY <1>1 DEF Engines, TypedBooks, Accounts, Reserved, OneSided, Flat, Saved
<1>2. CASE ~UNCHANGED <<books, orders, rows>>
  <2> DEFINE x == [seq |-> 1 + Cardinality(Stored), name |-> name, cash |-> Balance, used |-> 0, lev |-> lev]
  <2>1. Cardinality(Stored) \in Nat
    <3>1. IsFiniteSet(Stored)
      BY Values, FS_Subset DEF Stored
    <3> QED
      BY <3>1, FS_CardinalityType
  <2>2. x \in Rows /\ x # NoRow /\ x.cash = Balance
    BY <2>1, Values DEF Rows
  <2>3. rows' = [rows EXCEPT ![b] = x] /\ UNCHANGED <<books, orders>>
    BY <1>2 DEF Persist
  <2> HIDE DEF x
  <2>4. rows' \in [Book -> Rows] /\ rows'[b] = x /\ \A c \in Book \ {b} : rows'[c] = rows[c]
    BY <2>2, <2>3 DEF Engines, TypedBooks
  <2>5. ASSUME NEW c \in DOMAIN books' PROVE Reserved(books'[c]) /\ Saved(books[c], c)'
    <3>1. c \in Book /\ books'[c] = books[c] /\ Reserved(books[c]) /\ Saved(books[c], c)
      BY <2>3, <2>5 DEF Engines, TypedBooks, Accounts
    <3> QED
      BY <2>2, <2>3, <2>4, <3>1 DEF Saved
  <2> QED
    BY <2>3, <2>4, <2>5 DEF Engines, TypedBooks, Accounts, Reserved, OneSided, Flat
<1> QED
  BY <1>1, <1>2

\* A book that is reset or deleted.
LEMMA ResetKeeps ==
  ASSUME Engines, NEW b \in Book, Reset(b) \/ Delete(b)
  PROVE  Engines' /\ UNCHANGED rows
<1>1. UNCHANGED <<orders, rows>> /\ b \in DOMAIN books
  BY DEF Reset, Delete, Known
<1>2. CASE Reset(b)
  <2> DEFINE y == NewBook(books[b].name, Balance, 0, books[b].lev)
             x == [y EXCEPT !.stale = TRUE]
  <2>1. y \in Books /\ Reserved(y)
    <3>1. books[b] \in Books
      BY <1>1 DEF Engines, TypedBooks
    <3>2. books[b].name \in Names /\ books[b].lev \in Nat
      BY <3>1 DEF Books
    <3> QED
      BY <3>2, NewBooks, Values
  <2>2. books' = [books EXCEPT ![b] = x]
    BY <1>2 DEF Reset
  <2> HIDE DEF y
  <2>3. x \in Books /\ x.stale /\ x.used = y.used /\ x.cost = y.cost /\ x.qty = y.qty
    BY <2>1 DEF Books
  <2> HIDE DEF x
  <2>4. Reserved(x)
    BY <2>1, <2>3 DEF Reserved, OneSided, Flat
  <2>5. /\ DOMAIN books' = DOMAIN books /\ books' \in [DOMAIN books' -> Books] /\ books'[b] = x
        /\ \A c \in DOMAIN books \ {b} : books'[c] = books[c]
    BY <1>1, <2>2, <2>3, Replaced DEF Engines
  <2>6. ASSUME NEW c \in DOMAIN books' PROVE Reserved(books'[c]) /\ Saved(books[c], c)'
    BY <1>1, <2>3, <2>4, <2>5, <2>6 DEF Engines, Accounts, Saved
  <2> QED
    BY <1>1, <2>5, <2>6 DEF Engines, TypedBooks, Accounts, Reserved, OneSided, Flat
<1>3. CASE Delete(b)
  <2>1. books' = [c \in DOMAIN books \ {b} |-> books[c]]
    BY <1>3 DEF Delete, Known
  <2>2. /\ DOMAIN books' = DOMAIN books \ {b} /\ books' \in [DOMAIN books' -> Books]
        /\ \A c \in DOMAIN books' : books'[c] = books[c]
    BY <2>1 DEF Engines, TypedBooks
  <2>3. ASSUME NEW c \in DOMAIN books' PROVE Reserved(books'[c]) /\ Saved(books[c], c)'
    BY <1>1, <2>2, <2>3 DEF Engines, Accounts, Saved
  <2> QED
    BY <1>1, <2>2, <2>3 DEF Engines, TypedBooks, Accounts, Reserved, OneSided, Flat
<1> QED
  BY <1>2, <1>3

\* An order to be filled.
LEMMA FilledOrders ==
  ASSUME NEW o \in Taken, NEW q \in Nat
  PROVE  Filled(o, q) \in Taken
<1> DEFINE st == IF o.filled + q >= o.qty THEN "filled" ELSE "partial"
<1>1. st \in {"pending", "partial", "filled", "cancelled", "rejected"} /\ o.filled + q \in Nat
  BY DEF Taken
<1>2. Filled(o, q) = [o EXCEPT !.filled = o.filled + q, !.status = st]
  BY Zenon DEF Filled
<1> HIDE DEF st
<1> QED
  BY <1>1, <1>2 DEF Taken

\* A fill: the row gets the cash, or the book is marked.
LEMMA SettleKeeps ==
  ASSUME Engines, NEW b \in DOMAIN books, NEW id \in OrderId, NEW o \in Taken, NEW q \in Nat,
         NEW p \in Nat, Settle(b, id, o, q, p)
  PROVE  Engines' /\ NoneStored
<1> DEFINE bk == Fill(books[b], o.side, q, p)
           w == StoredFields(books[b], bk)
<1>1. b \in Book /\ books[b] \in Books /\ OneSided(books[b]) /\ o.side \in Side /\ TypedBooks
  BY DEF Engines, TypedBooks, Accounts, Reserved, Taken
<1>2. bk \in Books /\ Reserved(bk)
  BY <1>1, Fills
<1>3. w.cash = bk.cash /\ w.used = bk.used /\ w.cash \in Int /\ w.used \in Int
  BY <1>2 DEF StoredFields, Books
<1>4. orders' = [orders EXCEPT ![id] = Filled(o, q)]
  BY DEF Settle
<1>5. \/ /\ b \in Stored /\ books' = [books EXCEPT ![b] = [bk EXCEPT !.stale = FALSE]]
         /\ rows' = [rows EXCEPT ![b] = [@ EXCEPT !.cash = w.cash, !.used = w.used]]
      \/ rows' = rows /\ books' = [books EXCEPT ![b] = [bk EXCEPT !.stale = TRUE]]
  BY Zenon DEF Settle
<1> HIDE DEF bk, w
<1>6. orders' \in [OrderId -> Taken \cup {NoOrder}]
  BY <1>1, <1>4, FilledOrders DEF TypedBooks
<1>7. ASSUME NEW stale \in BOOLEAN, NEW x, x = [bk EXCEPT !.stale = stale]
      PROVE  x \in Books /\ Reserved(x) /\ x.cash = bk.cash /\ x.stale = stale
  <2>1. x \in Books /\ x.cash = bk.cash /\ x.stale = stale /\ x.used = bk.used /\ x.cost = bk.cost
        /\ x.qty = bk.qty
    BY <1>2, <1>7 DEF Books
  <2> QED
    BY <1>2, <2>1 DEF Reserved, OneSided, Flat
<1>8. CASE rows' = rows /\ books' = [books EXCEPT ![b] = [bk EXCEPT !.stale = TRUE]]
  <2> DEFINE x == [bk EXCEPT !.stale = TRUE]
  <2>1. x \in Books /\ Reserved(x) /\ x.stale /\ books' = [books EXCEPT ![b] = x]
    BY <1>7, <1>8
  <2> HIDE DEF x
  <2>2. /\ DOMAIN books' = DOMAIN books /\ books' \in [DOMAIN books' -> Books] /\ books'[b] = x
        /\ \A c \in DOMAIN books \ {b} : books'[c] = books[c]
    BY <1>1, <2>1, Replaced
  <2>3. ASSUME NEW c \in DOMAIN books' PROVE Reserved(books'[c]) /\ Saved(books[c], c)'
    BY <1>8, <2>1, <2>2, <2>3 DEF Engines, Accounts, Saved
  <2> QED
    BY <1>1, <1>6, <1>8, <2>2, <2>3
       DEF Engines, TypedBooks, Accounts, Reserved, OneSided, Flat, NoneStored
<1>9. CASE /\ b \in Stored /\ books' = [books EXCEPT ![b] = [bk EXCEPT !.stale = FALSE]]
           /\ rows' = [rows EXCEPT ![b] = [@ EXCEPT !.cash = w.cash, !.used = w.used]]
  <2> DEFINE x == [bk EXCEPT !.stale = FALSE]
             row == [rows[b] EXCEPT !.cash = w.cash, !.used = w.used]
  <2>1. x \in Books /\ Reserved(x) /\ x.cash = bk.cash /\ books' = [books EXCEPT ![b] = x]
    BY <1>7, <1>9
  <2> HIDE DEF x
  <2>2. /\ DOMAIN books' = DOMAIN books /\ books' \in [DOMAIN books' -> Books] /\ books'[b] = x
        /\ \A c \in DOMAIN books \ {b} : books'[c] = books[c]
    BY <1>1, <2>1, Replaced
  <2>3. rows[b] \in [seq : Nat \ {0}, name : Names, cash : Int, used : Int, lev : Nat]
    BY <1>1, <1>9 DEF Stored, TypedBooks, Rows
  <2>4. row \in [seq : Nat \ {0}, name : Names, cash : Int, used : Int, lev : Nat]
        /\ row.cash = bk.cash /\ row.seq # 0
    BY <1>3, <2>3
  <2>5. rows' = [rows EXCEPT ![b] = row]
    BY <1>9
  <2> HIDE DEF row
  <2>6. row \in Rows /\ row # NoRow /\ rows[b] # NoRow
    BY <1>9, <2>4, Values DEF Rows, Stored
  <2>7. rows' \in [Book -> Rows] /\ rows'[b] = row /\ \A c \in Book \ {b} : rows'[c] = rows[c]
    BY <1>1, <2>5, <2>6 DEF TypedBooks
  <2>8. ASSUME NEW c \in DOMAIN books' PROVE Reserved(books'[c]) /\ Saved(books[c], c)'
    <3>1. CASE c = b
      BY <2>1, <2>2, <2>4, <2>6, <2>7, <3>1 DEF Saved
    <3>2. CASE c # b
      <4>1. c \in Book \ {b} /\ books'[c] = books[c] /\ Reserved(books[c]) /\ Saved(books[c], c)
        BY <1>1, <2>2, <2>8, <3>2 DEF Engines, TypedBooks, Accounts
      <4> QED
        BY <2>7, <4>1 DEF Saved
    <3> QED
      BY <3>1, <3>2
  <2> QED
    BY <1>1, <1>6, <2>2, <2>6, <2>7, <2>8
       DEF Engines, TypedBooks, Accounts, Reserved, OneSided, Flat, NoneStored
<1> QED
  BY <1>5, <1>8, <1>9

\* The quantity an order is admitted with.
LEMMA Quantities ==
  ASSUME NEW bk \in Books, NEW o \in Requests
  PROVE  o.side \in Side /\ o.price \in Nat /\ Admitted(bk, o) \in Nat
<1>1. o.side \in Side /\ o.price \in Nat /\ o.qty \in Nat /\ bk.last \in Nat
  BY Asks DEF Books
<1>2. bk.qty[Opposite(o.side)] \in Nat /\ Ref(bk, o) \in Nat
  BY <1>1 DEF Books, Opposite, Side, Ref
<1>3. Power(bk) \in Int
  BY DEF Power, Books
<1>4. CASE Ref(bk, o) = 0
  BY <1>1, <1>4 DEF Admitted
<1>5. CASE Ref(bk, o) # 0
  <2> DEFINE clip == (Power(bk) * 99) \div (100 * Ref(bk, o))
  <2>1. clip \in Int
    <3>1. 100 * Ref(bk, o) \in Nat \ {0} /\ Power(bk) * 99 \in Int
      BY <1>2, <1>3, <1>5
    <3> QED
      BY <3>1
  <2>2. bk.qty[Opposite(o.side)] + clip > bk.qty[Opposite(o.side)] =>
          bk.qty[Opposite(o.side)] + clip \in Nat
    BY <1>2, <2>1
  <2> HIDE DEF clip
  <2>3. Admitted(bk, o) \in {o.qty, 0, bk.qty[Opposite(o.side)] + clip}
        /\ (Admitted(bk, o) \in {o.qty, 0}
            \/ bk.qty[Opposite(o.side)] + clip > bk.qty[Opposite(o.side)])
    BY <1>5, Zenon DEF Admitted, clip
  <2> QED
    BY <1>1, <2>2, <2>3
<1> QED
  BY <1>1, <1>4, <1>5

\* Orders placed, filled and cancelled.
LEMMA PlaceKeeps ==
  ASSUME Engines, NEW b, NEW id \in OrderId, NEW o \in Requests,
         NEW mark \in Marks \cup {0}, PlaceOrder(b, id, o, mark)
  PROVE  Engines' /\ NoneStored
<1>1. b \in DOMAIN books /\ b \in Book /\ books[b] \in Books
  BY DEF PlaceOrder, Takes, Known, Engines, TypedBooks
<1>2. o.side \in Side /\ o.price \in Nat /\ Admitted(books[b], o) \in Nat /\ mark \in Nat
  BY <1>1, Quantities, Values
<1> DEFINE p == IF o.price > 0 THEN o.price ELSE mark
<1>3. \A st \in {"pending", "rejected"} : Record(b, o, st) \in Taken
  BY <1>1, <1>2 DEF Record, Taken
<1>4. p \in Nat
  BY <1>2
<1>5. CASE \E st \in {"pending", "rejected"} :
             orders' = [orders EXCEPT ![id] = Record(b, o, st)] /\ UNCHANGED <<books, rows, faults>>
  <2>1. orders' \in [OrderId -> Taken \cup {NoOrder}] /\ UNCHANGED <<books, rows>>
    BY <1>3, <1>5 DEF Engines, TypedBooks
  <2> QED
    BY <2>1 DEF Engines, TypedBooks, Accounts, Reserved, OneSided, Flat, Saved, NoneStored
<1>6. CASE Settle(b, id, Record(b, o, "pending"), Admitted(books[b], o), p)
  BY <1>1, <1>2, <1>3, <1>4, <1>6, SettleKeeps
<1> HIDE DEF p
<1> QED
  BY <1>5, <1>6, Zenon DEF PlaceOrder, p

\* The operations of the engine on its own.
LEMMA EngineKeeps ==
  ASSUME Engines, EngineStep
  PROVE  Engines' /\ NoneStored
<1>1. ASSUME NEW b \in Book, Reset(b) \/ Delete(b) PROVE Engines' /\ NoneStored
  BY <1>1, ResetKeeps DEF NoneStored
<1>2. ASSUME NEW id \in OrderId, CancelOrder(id) PROVE Engines' /\ NoneStored
  <2>1. orders[id] \in Taken /\ UNCHANGED <<books, rows>>
    BY <1>2 DEF CancelOrder, Engines, TypedBooks
  <2> DEFINE x == [orders[id] EXCEPT !.status = "cancelled"]
  <2>2. x \in Taken /\ orders' = [orders EXCEPT ![id] = x]
    BY <1>2, <2>1 DEF CancelOrder, Taken
  <2> HIDE DEF x
  <2>3. orders' \in [OrderId -> Taken \cup {NoOrder}]
    BY <2>2 DEF Engines, TypedBooks
  <2> QED
    BY <2>1, <2>3 DEF Engines, TypedBooks, Accounts, Reserved, OneSided, Flat, Saved, NoneStored
<1>3. ASSUME NEW id \in OrderId, NEW q \in Qty, NEW p \in Marks, FillOrder(id, q, p)
      PROVE  Engines' /\ NoneStored
  <2>1. orders[id] \in Taken /\ orders[id].book \in DOMAIN books /\ q \in Nat /\ p \in Nat
    BY <1>3, Values DEF FillOrder, Known, Engines, TypedBooks
  <2> QED
    BY <1>3, <2>1, SettleKeeps DEF FillOrder
<1> QED
  BY <1>1, <1>2, <1>3 DEF EngineStep

-----------------------------------------------------------------------------
\* The inductive invariant.
Inv == Engines /\ TypedJobs /\ Creators /\ Routed

\* A step of one caller, or of none.
LEMMA Moves ==
  ASSUME TypedJobs, NEW t \in Actor, NEW st \in Stages, NEW j \in Jobs, session' \in Sessions,
         pc' = [pc EXCEPT ![t] = st], job' = [job EXCEPT ![t] = j]
  PROVE  /\ TypedJobs' /\ pc'[t] = st /\ job'[t] = j
         /\ \A u \in Actor \ {t} : pc'[u] = pc[u] /\ job'[u] = job[u]
  BY DEF TypedJobs

\* A caller that does not begin to store a book disturbs no creator.
LEMMA Stays ==
  ASSUME Creators, NoneStored, NEW t \in Actor, pc'[t] # "persist",
         \A u \in Actor \ {t} : pc'[u] = pc[u] /\ job'[u] = job[u]
  PROVE  Creators'
  BY DEF Creators, NoneStored

\* A caller outside the guard's window leaves the guard's word as it was.
LEMMA Unguarded ==
  ASSUME Routed, NEW t \in Actor, pc'[t] \notin {"route", "live"},
         \A u \in Actor \ {t} : pc'[u] = pc[u] /\ job'[u] = job[u],
         session'.mode = "none" => session' = session /\ (t \in Thread => pc'[t] = "idle")
  PROVE  Routed'
<1>1. ASSUME session'.mode = "none"
      PROVE  session' = NoSession /\ \A u \in Thread : pc'[u] = "idle"
  BY <1>1 DEF Routed, Actor
<1>2. ASSUME TradingMode # "live", NEW u \in Thread, pc'[u] \in {"route", "live"}
      PROVE  job'[u].saw = "paper"
  BY <1>2 DEF Routed, Actor
<1> QED
  BY <1>1, <1>2 DEF Routed

\* Looking for a book: what a caller finds is a book, and what it makes is its own.
LEMMA PortfolioKeeps ==
  ASSUME Inv, NEW t \in Actor, Portfolio(t)
  PROVE  Inv'
<1>1. /\ Engines /\ TypedJobs /\ Creators /\ Routed /\ session \in Sessions
      /\ job[t] \in Jobs /\ job[t].name \in Names /\ job[t].lev \in Nat /\ pc[t] \in Stages
  BY DEF Inv, TypedJobs, Jobs
<1>2. job = [job EXCEPT ![t] = job[t]]
  BY <1>1 DEF TypedJobs
<1>3. ASSUME NEW b \in Book \cup {0} PROVE [job[t] EXCEPT !.book = b] \in Jobs
  BY <1>1, <1>3 DEF Jobs
<1>4. ASSUME NEW st \in Stages \ {"persist", "route", "live"}, NEW j \in Jobs, Engines', NoneStored,
             session' \in Sessions, pc' = [pc EXCEPT ![t] = st], job' = [job EXCEPT ![t] = j],
             session'.mode = "none" => session' = session /\ (t \in Thread => st = "idle")
      PROVE  Inv'
  <2>1. /\ TypedJobs' /\ pc'[t] = st /\ job'[t] = j
        /\ \A u \in Actor \ {t} : pc'[u] = pc[u] /\ job'[u] = job[u]
    BY <1>1, <1>4, Moves
  <2>2. Creators'
    BY <1>1, <1>4, <2>1, Stays
  <2>3. Routed'
    BY <1>1, <1>4, <2>1, Unguarded
  <2> QED
    BY <1>4, <2>1, <2>2, <2>3 DEF Inv
<1>5. ASSUME pc[t] # "idle", t \in Thread PROVE session.mode # "none"
  BY <1>1, <1>5 DEF Routed
<1>6. CASE Find(t)
  <2>1. CASE \E b \in Book : Reuse(b, job[t].name, job[t].lev) /\ Finds(t, b) /\ Goto(t, "found")
    <3>1. PICK b \in Book : Reuse(b, job[t].name, job[t].lev) /\ Finds(t, b) /\ Goto(t, "found")
      BY <2>1
    <3>2. Engines' /\ NoneStored
      BY <1>1, <3>1, ReuseKeeps
    <3>3. /\ pc' = [pc EXCEPT ![t] = "found"] /\ job' = [job EXCEPT ![t] = [job[t] EXCEPT !.book = b]]
          /\ session' = session /\ pc[t] = "find"
      BY <1>6, <3>1 DEF Find, Goto, Finds
    <3> QED
      BY <1>1, <1>3, <1>4, <1>5, <3>2, <3>3 DEF Stages
  <2>2. CASE Goto(t, "lookup") /\ UNCHANGED <<paperVars, job>>
    <3>1. Engines' /\ NoneStored
      BY <1>1, <2>2 DEF paperVars, Engines, TypedBooks, Accounts, Reserved, OneSided, Flat, Saved, NoneStored
    <3>2. pc' = [pc EXCEPT ![t] = "lookup"] /\ job' = job /\ session' = session /\ pc[t] = "find"
      BY <1>6, <2>2 DEF Find, Goto
    <3> QED
      BY <1>1, <1>2, <1>4, <1>5, <3>1, <3>2 DEF Stages
  <2> QED
    BY <1>6, <2>1, <2>2 DEF Find
<1>7. CASE Lookup(t)
  <2>1. CASE \E b \in Book : Load(b, job[t].name, job[t].lev) /\ Finds(t, b) /\ Goto(t, "found")
    <3>1. PICK b \in Book : Load(b, job[t].name, job[t].lev) /\ Finds(t, b) /\ Goto(t, "found")
      BY <2>1
    <3>2. Engines' /\ NoneStored
      BY <1>1, <3>1, LoadKeeps
    <3>3. /\ pc' = [pc EXCEPT ![t] = "found"] /\ job' = [job EXCEPT ![t] = [job[t] EXCEPT !.book = b]]
          /\ session' = session /\ pc[t] = "lookup"
      BY <1>7, <3>1 DEF Lookup, Goto, Finds
    <3> QED
      BY <1>1, <1>3, <1>4, <1>5, <3>2, <3>3 DEF Stages
  <2>2. CASE Goto(t, "create") /\ UNCHANGED <<books, orders, rows, job>>
    <3>1. Engines' /\ NoneStored
      BY <1>1, <2>2 DEF Engines, TypedBooks, Accounts, Reserved, OneSided, Flat, Saved, NoneStored
    <3>2. pc' = [pc EXCEPT ![t] = "create"] /\ job' = job /\ session' = session /\ pc[t] = "lookup"
      BY <1>7, <2>2 DEF Lookup, Goto
    <3> QED
      BY <1>1, <1>2, <1>4, <1>5, <3>1, <3>2 DEF Stages
  <2> QED
    BY <1>7, <2>1, <2>2 DEF Lookup
<1>8. CASE Make(t)
  <2>1. PICK b \in Book : /\ \A u \in Actor : job[u].book # b
                          /\ Create(b, job[t].name, job[t].lev) /\ Finds(t, b)
    BY <1>8 DEF Make
  <2>2. Engines' /\ UNCHANGED rows /\ rows[b] = NoRow
    BY <1>1, <2>1, CreateKeeps
  <2> DEFINE j == [job[t] EXCEPT !.book = b]
  <2>3. /\ pc' = [pc EXCEPT ![t] = "persist"] /\ job' = [job EXCEPT ![t] = j]
        /\ session' = session /\ pc[t] = "create"
    BY <1>8, <2>1 DEF Make, Goto, Finds
  <2>4. j \in Jobs /\ j.book = b
    BY <1>1, <1>3 DEF Jobs
  <2> HIDE DEF j
  <2>5. /\ TypedJobs' /\ pc'[t] = "persist" /\ job'[t] = j
        /\ \A u \in Actor \ {t} : pc'[u] = pc[u] /\ job'[u] = job[u]
    BY <1>1, <2>3, <2>4, Moves DEF Stages
  <2>6. Creators'
    BY <1>1, <2>1, <2>2, <2>4, <2>5 DEF Creators
  <2>7. Routed'
    BY <1>1, <1>5, <2>3, <2>5, Unguarded
  <2> QED
    BY <2>2, <2>5, <2>6, <2>7 DEF Inv
<1>9. CASE Keep(t)
  <2>1. /\ Persist(job[t].book, job[t].name, job[t].lev) /\ pc[t] = "persist"
        /\ pc' = [pc EXCEPT ![t] = "found"] /\ job' = job /\ session' = session
    BY <1>9 DEF Keep, Goto
  <2>2. job[t].book \in Book /\ rows[job[t].book] = NoRow
    BY <1>1, <2>1 DEF Creators
  <2>3. Engines' /\ \A c \in Book \ {job[t].book} : rows'[c] = rows[c]
    BY <1>1, <2>1, <2>2, PersistKeeps
  <2>4. /\ TypedJobs' /\ pc'[t] = "found" /\ \A u \in Actor \ {t} : pc'[u] = pc[u] /\ job'[u] = job[u]
    BY <1>1, <1>2, <2>1, Moves DEF Stages
  <2>5. Creators'
    BY <1>1, <2>1, <2>3, <2>4 DEF Creators
  <2>6. Routed'
    BY <1>1, <1>5, <2>1, <2>4, Unguarded
  <2> QED
    BY <2>3, <2>4, <2>5, <2>6 DEF Inv
<1>10. CASE Assign(t)
  <2> DEFINE st == IF t = Admin THEN "idle" ELSE "paper"
  <2>1. /\ session' = [session EXCEPT !.book = job[t].book,
                                      !.mode = IF session.mode = "none" THEN "paper" ELSE session.mode]
        /\ job' = [job EXCEPT ![t] = NoJob] /\ pc' = [pc EXCEPT ![t] = st] /\ UNCHANGED paperVars
    BY <1>10 DEF Assign, Goto
  <2>2. session' \in Sessions /\ session'.mode # "none"
    BY <1>1, <2>1 DEF Sessions, Jobs
  <2>3. st \in Stages \ {"persist", "route", "live"} /\ NoJob \in Jobs
    BY DEF Stages, NoJob, Jobs, Names
  <2>4. Engines' /\ NoneStored
    BY <1>1, <2>1 DEF paperVars, Engines, TypedBooks, Accounts, Reserved, OneSided, Flat, Saved, NoneStored
  <2> HIDE DEF st
  <2> QED
    BY <1>4, <2>1, <2>2, <2>3, <2>4
<1> QED
  BY <1>6, <1>7, <1>8, <1>9, <1>10 DEF Portfolio

\* A step that leaves the books, the orders and the rows alone.
LEMMA Aside ==
  ASSUME Engines, UNCHANGED <<books, orders, rows>>
  PROVE  Engines' /\ NoneStored
  BY DEF Engines, TypedBooks, Accounts, Reserved, OneSided, Flat, Saved, NoneStored

\* The session's calls.
LEMMA SessionKeeps ==
  ASSUME Inv, NEW m \in Modes, InitSession(m) \/ SwitchMode(m)
  PROVE  Inv'
<1>1. /\ Engines /\ TypedJobs /\ Creators /\ Routed /\ session \in Sessions /\ Admin \in Actor
      /\ Admin \notin Thread /\ job[Admin] \in Jobs /\ m \in {"live", "paper"} /\ BrokerLev \in Nat
      /\ pc[Admin] = "idle" /\ UNCHANGED paperVars
  BY Values, RouterAssumption DEF Inv, TypedJobs, Actor, RouterAssumption, InitSession, SwitchMode
<1>2. Engines' /\ NoneStored
  BY <1>1, Aside DEF paperVars
<1>3. session' \in Sessions /\ (session'.mode = "none" => session' = session)
  <2>1. CASE InitSession(m)
    BY <1>1, <2>1 DEF InitSession, Sessions
  <2>2. CASE SwitchMode(m)
    <3>1. session' = [session EXCEPT !.mode = m, !.switches = session.switches + 1]
      BY <2>2, Zenon DEF SwitchMode
    <3>2. session.switches + 1 \in Nat /\ m \in {"live", "paper"}
      BY <1>1 DEF Sessions
    <3> QED
      BY <1>1, <3>1, <3>2 DEF Sessions
  <2> QED
    BY <2>1, <2>2
<1>4. \/ UNCHANGED <<pc, job>>
      \/ \E lev \in Nat : Seeks(Admin, lev)
  BY <1>1 DEF InitSession, SwitchMode
<1>5. /\ TypedJobs' /\ pc'[Admin] \in {"idle", "find"}
      /\ \A u \in Actor \ {Admin} : pc'[u] = pc[u] /\ job'[u] = job[u]
  <2>1. CASE UNCHANGED <<pc, job>>
    BY <1>1, <1>3, <2>1 DEF TypedJobs
  <2>2. ASSUME NEW lev \in Nat, Seeks(Admin, lev)
        PROVE  /\ TypedJobs' /\ pc'[Admin] = "find"
               /\ \A u \in Actor \ {Admin} : pc'[u] = pc[u] /\ job'[u] = job[u]
    <3> DEFINE j == [job[Admin] EXCEPT !.name = "session", !.lev = lev]
    <3>1. job' = [job EXCEPT ![Admin] = j] /\ pc' = [pc EXCEPT ![Admin] = "find"]
      BY <2>2 DEF Seeks, Goto
    <3>2. j \in Jobs
      BY <1>1 DEF Jobs, Names
    <3> HIDE DEF j
    <3> QED
      BY <1>1, <1>3, <3>1, <3>2, Moves DEF Stages
  <2> QED
    BY <1>1, <1>4, <2>1, <2>2
<1>6. Creators'
  BY <1>1, <1>2, <1>5, Stays
<1>7. Routed'
  BY <1>1, <1>3, <1>5, Unguarded
<1> QED
  BY <1>2, <1>5, <1>6, <1>7 DEF Inv

\* An order's way through the router.
LEMMA RouterKeeps ==
  ASSUME Inv, NEW t \in Thread, Submit(t) \/ Guard(t) \/ Route(t) \/ Live(t) \/ Paper(t)
  PROVE  Inv'
<1>1. /\ Engines /\ TypedJobs /\ Creators /\ Routed /\ session \in Sessions /\ t \in Actor
      /\ job[t] \in Jobs /\ session' = session /\ NoJob \in Jobs
  BY DEF Inv, TypedJobs, Actor, Submit, Guard, Route, Live, Paper, Paused, NoJob, Jobs, Names
<1>2. job = [job EXCEPT ![t] = job[t]]
  BY <1>1 DEF TypedJobs
<1>3. session.mode # "none"
  BY <1>1 DEF Routed, Submit, Guard, Route, Live, Paper
<1>4. ASSUME NEW st \in Stages \ {"persist"}, NEW j \in Jobs, Engines', NoneStored,
             pc' = [pc EXCEPT ![t] = st], job' = [job EXCEPT ![t] = j],
             TradingMode # "live" /\ st \in {"route", "live"} => j.saw = "paper"
      PROVE  Inv'
  <2>1. /\ TypedJobs' /\ pc'[t] = st /\ job'[t] = j
        /\ \A u \in Actor \ {t} : pc'[u] = pc[u] /\ job'[u] = job[u]
    BY <1>1, <1>4, Moves
  <2>2. Creators'
    BY <1>1, <1>4, <2>1, Stays
  <2>3. Routed'
    BY <1>1, <1>3, <1>4, <2>1 DEF Routed, Actor
  <2> QED
    BY <1>4, <2>1, <2>2, <2>3 DEF Inv
<1>5. CASE Submit(t)
  <2>1. pc' = [pc EXCEPT ![t] = "guard"] /\ job' = job /\ UNCHANGED paperVars
    BY <1>5 DEF Submit, Goto, Paused
  <2>2. Engines' /\ NoneStored
    BY <1>1, <2>1, Aside DEF paperVars
  <2> QED
    BY <1>1, <1>2, <1>4, <2>1, <2>2 DEF Stages
<1>6. CASE Guard(t)
  <2> DEFINE st == IF ~Guarded THEN "route" ELSE IF session.book = 0 THEN "find" ELSE "paper"
             saw == IF Guarded THEN "none" ELSE session.mode
             j == [job[t] EXCEPT !.saw = saw]
  <2>1. pc' = [pc EXCEPT ![t] = st] /\ job' = [job EXCEPT ![t] = j] /\ UNCHANGED paperVars
    BY <1>6 DEF Guard, Goto
  <2>2. Engines' /\ NoneStored
    BY <1>1, <2>1, Aside DEF paperVars
  <2>3. st \in Stages \ {"persist"} /\ saw \in {"none", "live", "paper"}
    BY <1>1 DEF Stages, Sessions
  <2>4. TradingMode # "live" /\ st \in {"route", "live"} => saw = "paper"
    BY <1>1, <1>3 DEF Guarded, Sessions
  <2> HIDE DEF st, saw
  <2>5. j \in Jobs /\ j.saw = saw
    BY <1>1, <2>3 DEF Jobs
  <2> HIDE DEF j
  <2> QED
    BY <1>4, <2>1, <2>2, <2>3, <2>4, <2>5
<1>7. CASE Route(t)
  <2> DEFINE st == IF session.mode # "paper" THEN "live"
                   ELSE IF session.book = 0 THEN "idle" ELSE "paper"
  <2>1. pc' = [pc EXCEPT ![t] = st] /\ job' = job /\ UNCHANGED paperVars /\ pc[t] = "route"
    BY <1>7 DEF Route, Goto, Paused
  <2>2. Engines' /\ NoneStored
    BY <1>1, <2>1, Aside DEF paperVars
  <2>3. st \in Stages \ {"persist"}
    BY DEF Stages
  <2>4. TradingMode # "live" => job[t].saw = "paper"
    BY <1>1, <2>1 DEF Routed
  <2> HIDE DEF st
  <2> QED
    BY <1>1, <1>2, <1>4, <2>1, <2>2, <2>3, <2>4
<1>8. CASE Live(t)
  <2>1. pc' = [pc EXCEPT ![t] = "idle"] /\ job' = [job EXCEPT ![t] = NoJob] /\ UNCHANGED paperVars
    BY <1>8 DEF Live, Goto
  <2>2. Engines' /\ NoneStored
    BY <1>1, <2>1, Aside DEF paperVars
  <2> QED
    BY <1>1, <1>4, <2>1, <2>2 DEF Stages
<1>9. CASE Paper(t)
  <2>1. pc' = [pc EXCEPT ![t] = "idle"] /\ job' = [job EXCEPT ![t] = NoJob]
    BY <1>9 DEF Paper, Goto
  <2>2. \/ \E o \in Requests, id \in OrderId, mark \in Marks \cup {0} :
              PlaceOrder(session.book, id, o, mark)
        \/ UNCHANGED paperVars
    BY <1>9 DEF Paper
  <2>3. ASSUME UNCHANGED paperVars PROVE Engines' /\ NoneStored
    BY <1>1, <2>3, Aside DEF paperVars
  <2>4. ASSUME NEW o \in Requests, NEW id \in OrderId, NEW mark \in Marks \cup {0},
               PlaceOrder(session.book, id, o, mark)
        PROVE  Engines' /\ NoneStored
    BY <1>1, <2>4, PlaceKeeps
  <2>5. Engines' /\ NoneStored
    BY <2>2, <2>3, <2>4
  <2> QED
    BY <1>1, <1>4, <2>1, <2>5 DEF Stages
<1> QED
  BY <1>5, <1>6, <1>7, <1>8, <1>9

\* Nothing is in memory, and nobody is at work.
LEMMA Begins ==
  ASSUME books = [b \in {} |-> NoRow], orders = [id \in OrderId |-> NoOrder],
         rows \in [Book -> Rows], session = NoSession,
         pc = [t \in Actor |-> "idle"], job = [t \in Actor |-> NoJob]
  PROVE  Inv
<1>1. Engines
  BY DEF Engines, TypedBooks, Accounts
<1>2. TypedJobs
  BY DEF TypedJobs, Sessions, NoSession, Stages, Jobs, NoJob, Names
<1>3. Creators /\ Routed
  BY DEF Creators, Routed, Actor
<1> QED
  BY <1>1, <1>2, <1>3 DEF Inv

\* Every reachable state: the books and the rows, the callers that look for a book
\* and the orders on their way.
THEOREM Invariant == Spec => []Inv
<1>1. Init => Inv
  <2> SUFFICES ASSUME Init PROVE Inv
    OBVIOUS
  <2>1. rows \in [Book -> Rows]
    BY Values DEF Init, PaperInit
  <2> QED
    BY <2>1, Begins DEF Init, PaperInit
<1>2. Inv /\ [Next]_vars => Inv'
  <2> SUFFICES ASSUME Inv, [Next]_vars PROVE Inv'
    OBVIOUS
  <2>1. CASE UNCHANGED vars
    BY <2>1 DEF vars, paperVars, Inv, Engines, TypedBooks, Accounts, Reserved, OneSided, Flat, Saved,
                TypedJobs, Creators, Routed
  <2>2. ASSUME NEW m \in Modes, InitSession(m) \/ SwitchMode(m) PROVE Inv'
    BY <2>2, SessionKeeps
  <2>3. ASSUME NEW t \in Actor, Portfolio(t) PROVE Inv'
    BY <2>3, PortfolioKeeps
  <2>4. ASSUME NEW t \in Thread, Submit(t) \/ Guard(t) \/ Route(t) \/ Live(t) \/ Paper(t) PROVE Inv'
    BY <2>4, RouterKeeps
  <2>5. CASE Engine
    <3>1. Engines' /\ NoneStored /\ UNCHANGED <<session, pc, job>>
      BY <2>5, EngineKeeps DEF Engine, Inv
    <3>2. TypedJobs' /\ Creators' /\ Routed'
      BY <3>1 DEF Inv, TypedJobs, Creators, Routed, NoneStored
    <3> QED
      BY <3>1, <3>2 DEF Inv
  <2>6. CASE Restart
    <3>1. rows' \in [Book -> Rows]
      BY <2>6 DEF Restart, Forget, Inv, Engines, TypedBooks
    <3>2. /\ DOMAIN books' = {} /\ books' = [b \in {} |-> NoRow]
          /\ orders' = [id \in OrderId |-> NoOrder]
          /\ session' = NoSession /\ pc' = [t \in Actor |-> "idle"] /\ job' = [t \in Actor |-> NoJob]
      BY <2>6 DEF Restart, Forget
    <3>3. Engines'
      BY <3>1, <3>2 DEF Engines, TypedBooks, Accounts
    <3>4. TypedJobs'
      BY <3>2 DEF TypedJobs, Sessions, NoSession, Stages, Jobs, NoJob, Names
    <3>5. Creators' /\ Routed'
      BY <3>2 DEF Creators, Routed, Actor
    <3> QED
      BY <3>3, <3>4, <3>5 DEF Inv
  <2> QED
    BY <2>1, <2>2, <2>3, <2>4, <2>5, <2>6 DEF Next
<1> QED
  BY <1>1, <1>2, PTL DEF Spec

\* What a book reserves is the margin of its positions, which are on one side only.
THEOREM MarginIsKept == Spec => []MarginKept
<1>1. Inv => MarginKept
  BY DEF Inv, Engines, Accounts, Reserved, MarginKept, Known
<1> QED
  BY <1>1, Invariant, PTL

\* The row has the cash of its book, unless the book is known to differ.
THEOREM CashIsStored == Spec => []CashStored
<1>1. Inv => CashStored
  BY DEF Inv, Engines, Accounts, Saved, CashStored, Known, Stored
<1> QED
  BY <1>1, Invariant, PTL

\* While TRADING_MODE is not live, an order that reaches a broker's adapter was
\* guarded in paper mode.
THEOREM GuardIsKept == Spec => []GuardHolds
<1>1. Inv => GuardHolds
  BY DEF Inv, Routed, GuardHolds
<1> QED
  BY <1>1, Invariant, PTL

-----------------------------------------------------------------------------
\* A book as an account of the ledger: what it holds and what it was paid for it.
Net(bk) == bk.qty["long"] - bk.qty["short"]
Worth(bk) == bk.cash - Balance - bk.cost["long"] + bk.cost["short"]

LEMMA AccountRanges ==
  ASSUME NEW bk \in Books
  PROVE  Net(bk) \in Int /\ Worth(bk) \in Int
  BY Values DEF Books, Side, Net, Worth

\* A purchase of what closes a short position and of the rest costs what the whole does.
LEMMA SplitPrice ==
  ASSUME NEW p \in Nat, NEW q \in Nat, NEW n \in Nat, n <= q
  PROVE  p * n + p * (q - n) = q * p
<1>1. PICK k \in Nat : q = n + k
  <2>1. q - n \in Nat /\ q = n + (q - n)
    OBVIOUS
  <2> QED
    BY <2>1
<1>2. q - n = k
  BY <1>1
<1>3. p * (n + k) = p * n + p * k /\ (n + k) * p = p * (n + k)
  BY Z3
<1> QED
  BY <1>1, <1>2, <1>3

\* What a purchase (d is 1) or a sale (d is -1) makes of an account.
Sign(side) == IF side = "long" THEN 1 ELSE -1
Traded(bk, x, d, q, p) ==
  /\ Net(x) = Net(bk) + d * q
  /\ Worth(x) = Worth(bk) - d * (q * p) - (IF d * Net(bk) < 0 THEN (q * p) \div FeeDiv ELSE 0)

\* A fill, whatever it closes, opens and averages, is a trade of the account.
LEMMA FillTrades ==
  ASSUME NEW bk \in Books, NEW side \in Side, NEW q \in Nat, NEW p \in Nat, OneSided(bk)
  PROVE  Traded(bk, Fill(bk, side, q, p), Sign(side), q, p)
<1> DEFINE opp == Opposite(side)
           x == Fill(bk, side, q, p)
<1>0. PICK d \in {1, -1} : d = Sign(side)
  BY DEF Sign
<1>1. opp \in Side /\ opp # side /\ Side = {side, opp}
  BY DEF Opposite, Side
<1>2. /\ bk.qty[opp] \in Nat /\ bk.qty[side] \in Nat /\ bk.cost[opp] \in Int /\ bk.cost[side] \in Int
      /\ bk.cash \in Int
  BY <1>1 DEF Books
<1>3. PICK n \in Nat : n = Closed(bk, side, q) /\ n <= q /\ n <= bk.qty[opp]
  BY <1>2 DEF Closed
<1>4. PICK r \in Int : r = Released(bk, side, q)
  <2>1. CASE q >= bk.qty[opp]
    BY <1>2, <2>1 DEF Released
  <2>2. CASE ~(q >= bk.qty[opp])
    <3>1. bk.cost[opp] * q \in Int /\ bk.qty[opp] \in Nat \ {0}
      BY <1>2, <2>2
    <3> QED
      BY <2>2, <3>1 DEF Released
  <2> QED
    BY <2>1, <2>2
<1>5. PICK paid \in Int, e \in Int, all \in Nat :
        paid = p * n /\ e = p * (q - n) /\ all = q * p /\ paid + e = all
  <2>1. p * n \in Int /\ p * (q - n) \in Int /\ q * p \in Nat
    BY <1>3
  <2> QED
    BY <1>3, <2>1, SplitPrice
<1>6. PICK fee \in Int : fee = FeeOf(bk, side, q, p)
  BY <1>5, Values DEF FeeOf
<1>7. Entered(bk, side, q, p) = e
  BY <1>3, <1>5 DEF Entered
<1>8. Profit(bk, side, q, p) = IF side = "long" THEN r - paid ELSE paid - r
  BY <1>3, <1>4, <1>5 DEF Profit
<1>9. /\ x.qty[side] = bk.qty[side] + (q - n) /\ x.qty[opp] = bk.qty[opp] - n
      /\ x.cost[side] = bk.cost[side] + e /\ x.cost[opp] = bk.cost[opp] - r
      /\ x.cash = bk.cash + (IF side = "long" THEN r - paid ELSE paid - r) - fee
  <2> DEFINE cost == [s \in Side |-> IF s = side THEN bk.cost[s] + Entered(bk, side, q, p)
                                     ELSE bk.cost[s] - Released(bk, side, q)]
             qty == [s \in Side |-> IF s = side THEN bk.qty[s] + (q - Closed(bk, side, q))
                                    ELSE bk.qty[s] - Closed(bk, side, q)]
             cash == bk.cash + Profit(bk, side, q, p) - FeeOf(bk, side, q, p)
  <2>1. x = [bk EXCEPT !.cash = cash, !.qty = qty, !.cost = cost, !.used = MarginUsed(cost), !.last = p]
    BY Zenon DEF Fill
  <2>2. /\ qty[side] = bk.qty[side] + (q - n) /\ qty[opp] = bk.qty[opp] - n
        /\ cost[side] = bk.cost[side] + e /\ cost[opp] = bk.cost[opp] - r
    BY <1>1, <1>3, <1>4, <1>7
  <2>3. cash = bk.cash + (IF side = "long" THEN r - paid ELSE paid - r) - fee
    BY <1>6, <1>8
  <2> HIDE DEF cash, qty, cost
  <2>4. x.cash = cash /\ x.qty = qty /\ x.cost = cost
    BY <2>1 DEF Books
  <2> HIDE DEF x
  <2> QED
    BY <2>2, <2>3, <2>4
<1>10. bk.qty[opp] > 0 => bk.qty[side] = 0
  BY <1>1, <1>2 DEF OneSided, Flat
<1>11. fee = IF d * Net(bk) < 0 THEN all \div FeeDiv ELSE 0
  <2>1. d * Net(bk) = bk.qty[side] - bk.qty[opp]
    <3>1. CASE side = "long"
      <4>1. opp = "short" /\ d = 1
        BY <1>0, <3>1 DEF Opposite, Sign
      <4> QED
        BY <1>2, <3>1, <4>1 DEF Net
    <3>2. CASE side = "short"
      <4>1. opp = "long" /\ d = -1
        BY <1>0, <3>2 DEF Opposite, Sign
      <4> QED
        BY <1>2, <3>2, <4>1 DEF Net
    <3> QED
      BY <3>1, <3>2 DEF Side
  <2>2. d * Net(bk) < 0 <=> bk.qty[opp] > 0
    BY <1>2, <1>10, <2>1
  <2>3. fee = IF bk.qty[opp] > 0 THEN all \div FeeDiv ELSE 0
    BY <1>5, <1>6 DEF FeeOf
  <2> QED
    BY <2>2, <2>3, Zenon
<1> HIDE DEF x
<1>12. CASE side = "long"
  <2>1. opp = "short" /\ d = 1
    BY <1>0, <1>12 DEF Opposite, Sign
  <2>2. /\ Net(x) = Net(bk) + q
        /\ Worth(x) = Worth(bk) - all - fee
    BY <1>2, <1>5, <1>9, <1>12, <2>1, Values DEF Net, Worth
  <2>3. d * q = q /\ d * all = all
    BY <2>1
  <2>4. Net(x) = Net(bk) + d * q /\ Worth(x) = Worth(bk) - d * all - fee
    BY <2>2, <2>3
  <2> QED
    BY <1>0, <1>5, <1>11, <2>4, Zenon DEF Traded, x
<1>13. CASE side = "short"
  <2>1. opp = "long" /\ d = -1
    BY <1>0, <1>13 DEF Opposite, Sign
  <2>2. /\ Net(x) = Net(bk) - q
        /\ Worth(x) = Worth(bk) + all - fee
    BY <1>2, <1>5, <1>9, <1>13, <2>1, Values DEF Net, Worth
  <2>3. d * q = -q /\ d * all = -all
    BY <2>1
  <2>4. Net(bk) \in Int /\ Worth(bk) \in Int
    BY AccountRanges
  <2>5. Net(x) = Net(bk) + d * q /\ Worth(x) = Worth(bk) - d * all - fee
    BY <1>5, <1>6, <2>2, <2>3, <2>4
  <2> QED
    BY <1>0, <1>5, <1>11, <2>5, Zenon DEF Traded, x
<1> QED
  BY <1>12, <1>13 DEF Side

\* A request is filled with no more than it asks for.
LEMMA Clipped ==
  ASSUME NEW bk \in Books, NEW o \in Requests, Admitted(bk, o) > 0
  PROVE  Admitted(bk, o) \in Lots
<1>1. o.qty \in Nat \ {0} /\ o.price \in Nat /\ bk.last \in Nat /\ o.side \in Side
  BY Asks DEF Books
<1>2. PICK opp \in Nat : opp = bk.qty[Opposite(o.side)]
  BY <1>1 DEF Books, Opposite, Side
<1>3. PICK ref \in Nat : ref = Ref(bk, o)
  BY <1>1 DEF Ref
<1>4. PICK power \in Int : power = Power(bk)
  BY DEF Power, Books
<1>5. Admitted(bk, o) <= o.qty
  <2>1. CASE ref = 0
    BY <1>1, <1>3, <2>1 DEF Admitted
  <2>2. CASE o.reduce \/ NetNew(bk, o) = 0 \/ NetNew(bk, o) * ref <= power
    BY <1>1, <1>3, <1>4, <2>2 DEF Admitted
  <2>3. CASE ~(o.reduce \/ NetNew(bk, o) = 0 \/ NetNew(bk, o) * ref <= power) /\ ref # 0
    <3>1. PICK net \in Nat : net = NetNew(bk, o) /\ net # 0 /\ o.qty = opp + net
      BY <1>1, <1>2, <2>3 DEF NetNew
    <3>2. net * ref \in Nat /\ net * ref > power /\ 100 * ref \in Nat \ {0} /\ power * 99 \in Int
      BY <1>3, <1>4, <2>3, <3>1
    <3>3. PICK clip \in Int : clip = (power * 99) \div (100 * ref)
      BY <3>2
    <3>4. (100 * ref) * clip <= power * 99
      BY <3>2, <3>3
    <3>5. clip <= net
      <4>1. SUFFICES ASSUME clip > net PROVE FALSE
        BY <3>1
      <4>2. clip \in Nat /\ ref * net <= ref * clip /\ ref * net = net * ref
        <5>1. PICK k \in Nat : clip = net + k
          <6>1. clip - net \in Nat /\ clip = net + (clip - net)
            BY <4>1
          <6> QED
            BY <6>1
        <5>2. ref * (net + k) = ref * net + ref * k /\ ref * k \in Nat /\ ref * net = net * ref
          OBVIOUS
        <5> QED
          BY <5>1, <5>2
      <4>3. PICK a \in Nat, b \in Nat : a = net * ref /\ b = ref * clip
        BY <3>2, <4>2
      <4>4. (100 * ref) * clip = 100 * b /\ a > 0
        <5>1. (100 * ref) * clip = 100 * (ref * clip)
          BY <4>2
        <5>2. net * ref > 0
          BY <2>3, <3>1
        <5> QED
          BY <4>3, <5>1, <5>2
      <4>5. a <= b /\ a > power /\ 100 * b <= power * 99
        BY <3>2, <3>4, <4>2, <4>3, <4>4
      <4> QED
        BY <4>4, <4>5
    <3>6. Admitted(bk, o) \in {0, opp + clip, o.qty}
      BY <1>2, <1>3, <1>4, <3>3, Zenon DEF Admitted
    <3>7. 0 <= o.qty /\ opp + clip <= o.qty /\ o.qty <= o.qty
      BY <1>1, <3>1, <3>5
    <3> QED
      BY <3>6, <3>7
  <2> QED
    BY <2>1, <2>2, <2>3
<1>6. Admitted(bk, o) \in Nat
  BY Quantities
<1>7. Admitted(bk, o) \in 1..o.qty
  BY <1>1, <1>5, <1>6
<1> QED
  BY <1>7, Zenon DEF Lots

-----------------------------------------------------------------------------
\* No book changes what it holds, nor what it was paid.
LEMMA Stutters ==
  ASSUME Known' = Known,
         \A b \in Known : Net(books'[b]) = Net(books[b]) /\ Worth(books'[b]) = Worth(books[b])
  PROVE  UNCHANGED <<Held, Money>>
<1>1. \A b \in Book : b \in Known' <=> b \in Known
  BY Zenon
<1>2. Held' = [b \in Book |-> IF b \in Known' THEN Net(books'[b]) ELSE 0]
      /\ Held = [b \in Book |-> IF b \in Known THEN Net(books[b]) ELSE 0]
  BY DEF Held, Net
<1>3. Money' = [b \in Book |-> IF b \in Known' THEN Worth(books'[b]) ELSE 0]
      /\ Money = [b \in Book |-> IF b \in Known THEN Worth(books[b]) ELSE 0]
  BY DEF Money, Worth
<1> QED
  BY <1>1, <1>2, <1>3

\* A book is begun anew or forgotten, the others are as they were.
LEMMA Begun ==
  ASSUME NEW B \in SUBSET Book,
         \A b \in B : b \in Known' => Net(books'[b]) = 0,
         \A b \in Book \ B : (b \in Known' <=> b \in Known) /\ (b \in Known => books'[b] = books[b])
  PROVE  Account!Anew(B)
<1>1. Held' = [b \in Book |-> IF b \in Known' THEN Net(books'[b]) ELSE 0]
      /\ Held = [b \in Book |-> IF b \in Known THEN Net(books[b]) ELSE 0]
  BY DEF Held, Net
<1>2. Money' = [b \in Book |-> IF b \in Known' THEN Worth(books'[b]) ELSE 0]
      /\ Money = [b \in Book |-> IF b \in Known THEN Worth(books[b]) ELSE 0]
  BY DEF Money, Worth
<1>3. \A b \in Book : Held'[b] = IF b \in B THEN 0 ELSE Held[b]
  BY <1>1
<1>4. Held' = [b \in Book |-> IF b \in B THEN 0 ELSE Held[b]]
  BY <1>1, <1>3
<1>5. \A b \in Book \ B : Money'[b] = Money[b]
  BY <1>2
<1>6. DOMAIN Money' = Book
  BY <1>2
<1> QED
  BY <1>4, <1>5, <1>6 DEF Account!Anew

\* A fill of a book in memory.
LEMMA SettleTrades ==
  ASSUME Engines, NEW b \in DOMAIN books, NEW id \in OrderId, NEW o, o.side \in Side,
         NEW q \in Lots, NEW p \in Price, q \in Nat, p \in Nat, Settle(b, id, o, q, p)
  PROVE  Account!Next
<1> DEFINE bk == Fill(books[b], o.side, q, p)
<1>1. b \in Book /\ books[b] \in Books /\ OneSided(books[b]) /\ TypedBooks /\ b \in Known
  BY DEF Engines, TypedBooks, Accounts, Reserved, Known
<1>2. bk \in Books
  BY <1>1, Fills
<1>3. PICK u \in BOOLEAN : books' = [books EXCEPT ![b] = [bk EXCEPT !.stale = u]]
  BY Zenon DEF Settle
<1>4. PICK d \in {1, -1} : d = Sign(o.side)
  BY DEF Sign
<1>5. Traded(books[b], bk, d, q, p)
  BY <1>1, <1>4, FillTrades, Zenon
<1> HIDE DEF bk
<1> DEFINE x == [bk EXCEPT !.stale = u]
<1>6. x \in Books /\ Net(x) = Net(bk) /\ Worth(x) = Worth(bk)
  BY <1>2 DEF Books, Net, Worth
<1> HIDE DEF x
<1>7. books' = [books EXCEPT ![b] = x]
  BY <1>3 DEF x
<1>8. /\ DOMAIN books' = DOMAIN books /\ books'[b] = x
      /\ \A c \in DOMAIN books \ {b} : books'[c] = books[c]
  BY <1>1, <1>6, <1>7, Replaced
<1>9. Held' = [c \in Book |-> IF c \in Known' THEN Net(books'[c]) ELSE 0]
      /\ Held = [c \in Book |-> IF c \in Known THEN Net(books[c]) ELSE 0]
  BY DEF Held, Net
<1>10. Money' = [c \in Book |-> IF c \in Known' THEN Worth(books'[c]) ELSE 0]
       /\ Money = [c \in Book |-> IF c \in Known THEN Worth(books[c]) ELSE 0]
  BY DEF Money, Worth
<1>11. Known' = DOMAIN books /\ Known = DOMAIN books
  BY <1>8 DEF Known
<1>12. Held[b] = Net(books[b]) /\ Money[b] = Worth(books[b])
  BY <1>1, <1>9, <1>10
<1>13. Held' = [Held EXCEPT ![b] = Held[b] + d * q]
  <2>1. \A c \in Book : Held'[c] = IF c = b THEN Held[b] + d * q ELSE Held[c]
    BY <1>1, <1>5, <1>6, <1>8, <1>9, <1>11, <1>12, Zenon DEF Traded
  <2> QED
    BY <1>9, <2>1
<1> DEFINE fee == IF d * Held[b] < 0 THEN Account!Fee(q, p) ELSE 0
<1>14. Money' = [Money EXCEPT ![b] = Money[b] - d * (q * p) - fee]
  <2>1. fee = IF d * Net(books[b]) < 0 THEN (q * p) \div FeeDiv ELSE 0
    BY <1>12, Zenon DEF Account!Fee
  <2>2. Worth(x) = Money[b] - d * (q * p) - fee
    BY <1>5, <1>6, <1>12, <2>1, Zenon DEF Traded
  <2> HIDE DEF fee
  <2>3. \A c \in Book : Money'[c] = IF c = b THEN Money[b] - d * (q * p) - fee ELSE Money[c]
    BY <1>1, <1>8, <1>10, <1>11, <1>12, <2>2, Zenon
  <2> QED
    BY <1>10, <2>3
<1>15. Account!Trade(b, d, q, p)
  BY <1>13, <1>14, Zenon DEF Account!Trade
<1> QED
  BY <1>1, <1>4, <1>15 DEF Account!Next

\* An order that is placed is filled at once, or not yet.
LEMMA PlaceTrades ==
  ASSUME Engines, NEW b, NEW id \in OrderId, NEW o \in Requests,
         NEW mark \in Marks \cup {0}, PlaceOrder(b, id, o, mark)
  PROVE  Account!Next \/ UNCHANGED books
<1>1. b \in DOMAIN books /\ books[b] \in Books /\ Admitted(books[b], o) > 0
  BY DEF PlaceOrder, Takes, Known, Engines, TypedBooks
<1> DEFINE p == IF o.price > 0 THEN o.price ELSE mark
           q == Admitted(books[b], o)
<1>2. CASE p > 0 /\ Settle(b, id, Record(b, o, "pending"), q, p)
  <2>1. q \in Lots /\ q \in Nat /\ Record(b, o, "pending").side \in Side
    BY <1>1, Asks, Clipped, Quantities DEF Record
  <2>2. p \in Price /\ p \in Nat
    BY <1>2, Asks, Values, PaperAssumption DEF PaperAssumption
  <2> HIDE DEF p, q
  <2> QED
    BY <1>1, <1>2, <2>1, <2>2, SettleTrades
<1>3. CASE UNCHANGED <<books, rows, faults>>
  BY <1>3
<1> HIDE DEF p, q
<1> QED
  BY <1>2, <1>3, Zenon DEF PlaceOrder, p, q

\* The operations of the engine on its own.
LEMMA EngineTrades ==
  ASSUME Engines, EngineStep
  PROVE  Account!Next \/ UNCHANGED books
<1>1. ASSUME NEW b \in Book, Reset(b) \/ Delete(b) PROVE Account!Next
  <2>1. b \in DOMAIN books /\ TypedBooks
    BY <1>1 DEF Reset, Delete, Known, Engines
  <2>2. (b \in Known' => Net(books'[b]) = 0)
        /\ \A c \in Book \ {b} : (c \in Known' <=> c \in Known) /\ (c \in Known => books'[c] = books[c])
    <3>1. CASE Reset(b)
      <4> DEFINE x == [NewBook(books[b].name, Balance, 0, books[b].lev) EXCEPT !.stale = TRUE]
      <4>1. books' = [books EXCEPT ![b] = x]
        BY <3>1 DEF Reset
      <4>2. Net(x) = 0
        BY DEF Net, NewBook, Side
      <4> HIDE DEF x
      <4>3. DOMAIN books' = DOMAIN books /\ books'[b] = x
            /\ \A c \in DOMAIN books \ {b} : books'[c] = books[c]
        BY <2>1, <4>1 DEF TypedBooks
      <4> QED
        BY <4>2, <4>3 DEF Known
    <3>2. CASE Delete(b)
      <4>1. books' = [c \in DOMAIN books \ {b} |-> books[c]]
        BY <3>2 DEF Delete, Known
      <4> QED
        BY <4>1 DEF Known
    <3> QED
      BY <1>1, <3>1, <3>2
  <2>3. Account!Anew({b})
    BY <2>2, Begun
  <2> QED
    BY <2>3 DEF Account!Next
<1>2. ASSUME NEW id \in OrderId, CancelOrder(id) PROVE UNCHANGED books
  BY <1>2 DEF CancelOrder
<1>3. ASSUME NEW id \in OrderId, NEW q \in Qty, NEW p \in Marks, FillOrder(id, q, p)
      PROVE  Account!Next
  <2>1. /\ orders[id].book \in DOMAIN books /\ orders[id].side \in Side
        /\ q \in Nat /\ p \in Nat /\ q \in Lots /\ p \in Price
    BY <1>3, Values, PaperAssumption
       DEF FillOrder, Known, Engines, TypedBooks, Taken, Lots, PaperAssumption
  <2>2. Settle(orders[id].book, id, orders[id], q, p)
    BY <1>3 DEF FillOrder
  <2> QED
    BY <1>3, <2>1, <2>2, SettleTrades
<1> QED
  BY <1>1, <1>2, <1>3, Zenon DEF EngineStep

\* Looking for a book: none is traded.
LEMMA PortfolioTrades ==
  ASSUME Engines, TypedJobs, NEW t \in Actor, Portfolio(t)
  PROVE  Account!Next \/ UNCHANGED <<Held, Money>>
<1>1. job[t].name \in Names /\ job[t].lev \in Nat /\ TypedBooks
  BY DEF TypedJobs, Jobs, Engines
<1>2. ASSUME UNCHANGED books PROVE UNCHANGED <<Held, Money>>
  BY <1>2, Stutters DEF Known
<1>3. ASSUME NEW bk \in Books, Reserved(bk)
      PROVE  Net(SyncLeverage(bk, job[t].lev)) = Net(bk) /\ Worth(SyncLeverage(bk, job[t].lev)) = Worth(bk)
  <2>1. CASE bk.lev = job[t].lev
    BY <2>1 DEF SyncLeverage
  <2>2. CASE bk.lev # job[t].lev
    <3> DEFINE u == MarginUsed(bk.cost)
    <3>1. SyncLeverage(bk, job[t].lev) = [bk EXCEPT !.lev = job[t].lev, !.used = u]
      BY <2>2 DEF SyncLeverage
    <3> HIDE DEF u
    <3> QED
      BY <3>1 DEF Net, Worth, Books
  <2> QED
    BY <2>1, <2>2
<1>4. ASSUME NEW b \in Book, Reuse(b, job[t].name, job[t].lev) PROVE UNCHANGED <<Held, Money>>
  <2>1. /\ b \in DOMAIN books /\ books[b] \in Books /\ Reserved(books[b])
        /\ books' = [books EXCEPT ![b] = SyncLeverage(books[b], job[t].lev)]
    BY <1>4 DEF Reuse, Known, Engines, TypedBooks, Accounts
  <2>2. SyncLeverage(books[b], job[t].lev) \in Books
    BY <1>1, <2>1, Synced
  <2>3. /\ DOMAIN books' = DOMAIN books /\ books'[b] = SyncLeverage(books[b], job[t].lev)
        /\ \A c \in DOMAIN books \ {b} : books'[c] = books[c]
    BY <1>1, <2>1, <2>2, Replaced
  <2>4. \A c \in Known : Net(books'[c]) = Net(books[c]) /\ Worth(books'[c]) = Worth(books[c])
    BY <1>3, <2>1, <2>3 DEF Known
  <2> QED
    BY <2>3, <2>4, Stutters DEF Known
<1>5. ASSUME NEW b \in Book, Load(b, job[t].name, job[t].lev) PROVE Account!Next \/ UNCHANGED <<Held, Money>>
  <2> DEFINE bk == IF b \in Known THEN books[b] ELSE Loaded(rows[b])
             x == SyncLeverage(bk, job[t].lev)
  <2>1. books' = [c \in Known \cup {b} |-> IF c = b THEN x ELSE books[c]]
    BY <1>5 DEF Load
  <2>2. CASE b \in Known
    <3>1. bk = books[b] /\ bk \in Books /\ Reserved(bk)
      BY <2>2 DEF Known, Engines, TypedBooks, Accounts
    <3>2. Net(x) = Net(books[b]) /\ Worth(x) = Worth(books[b])
      BY <1>3, <3>1
    <3> HIDE DEF x
    <3>3. DOMAIN books' = Known /\ books'[b] = x /\ \A c \in Known \ {b} : books'[c] = books[c]
      BY <2>1, <2>2
    <3>4. \A c \in Known : Net(books'[c]) = Net(books[c]) /\ Worth(books'[c]) = Worth(books[c])
      BY <3>2, <3>3
    <3> QED
      BY <3>3, <3>4, Stutters DEF Known
  <2>3. CASE b \notin Known
    <3> DEFINE cash == IF rows[b].cash = 0 THEN Balance ELSE rows[b].cash
               y == NewBook(rows[b].name, cash, rows[b].used, rows[b].lev)
               z == rows[b].cash = 0
    <3>1. y.qty = [s \in Side |-> 0] /\ y \in Books
      <4>1. rows[b] \in Rows
        BY <1>1 DEF TypedBooks
      <4>2. /\ rows[b].name \in Names /\ rows[b].cash \in Int /\ rows[b].used \in Int
            /\ rows[b].lev \in Nat /\ cash \in Int
        BY <4>1, Values DEF Rows
      <4> HIDE DEF cash
      <4> QED
        BY <4>2, NewBooks DEF NewBook
    <3>2. bk = [y EXCEPT !.stale = z]
      BY <2>3, Zenon DEF Loaded
    <3> HIDE DEF y, z
    <3>3. bk.qty = [s \in Side |-> 0]
      BY <3>1, <3>2 DEF Books
    <3> HIDE DEF bk
    <3>4. x.qty = bk.qty \/ x = bk
      <4>1. CASE bk.lev = job[t].lev
        BY <4>1 DEF SyncLeverage
      <4>2. CASE bk.lev # job[t].lev
        <5> DEFINE u == MarginUsed(bk.cost)
        <5>1. x = [bk EXCEPT !.lev = job[t].lev, !.used = u]
          BY <4>2 DEF SyncLeverage
        <5> HIDE DEF u, x
        <5>2. bk = [y EXCEPT !.stale = z] /\ y \in Books
          BY <3>1, <3>2
        <5> QED
          BY <5>1, <5>2 DEF Books
      <4> QED
        BY <4>1, <4>2
    <3> HIDE DEF x
    <3>5. Net(x) = 0
      BY <3>3, <3>4 DEF Net, Side
    <3>6. books'[b] = x /\ DOMAIN books' = Known \cup {b} /\ \A c \in Known \ {b} : books'[c] = books[c]
      BY <2>1, <2>3
    <3>7. Account!Anew({b})
      BY <3>5, <3>6, Begun DEF Known
    <3> QED
      BY <3>7 DEF Account!Next
  <2> QED
    BY <2>2, <2>3
<1>6. ASSUME NEW b \in Book, Create(b, job[t].name, job[t].lev) PROVE Account!Next
  <2> DEFINE x == NewBook(job[t].name, Balance, 0, job[t].lev)
  <2>1. books' = [c \in Known \cup {b} |-> IF c = b THEN x ELSE books[c]] /\ b \notin Known
    BY <1>6 DEF Create
  <2>2. Net(x) = 0
    BY DEF Net, NewBook, Side
  <2> HIDE DEF x
  <2>3. books'[b] = x /\ DOMAIN books' = Known \cup {b} /\ \A c \in Known \ {b} : books'[c] = books[c]
    BY <2>1
  <2>4. Account!Anew({b})
    BY <2>2, <2>3, Begun DEF Known
  <2> QED
    BY <2>4 DEF Account!Next
<1>7. ASSUME NEW b, Persist(b, job[t].name, job[t].lev) PROVE UNCHANGED books
  BY <1>7 DEF Persist
<1>8. CASE Find(t)
  BY <1>2, <1>4, <1>8 DEF Find, paperVars
<1>9. CASE Lookup(t)
  BY <1>2, <1>5, <1>9 DEF Lookup, paperVars
<1>10. CASE Make(t)
  BY <1>6, <1>10 DEF Make
<1>11. CASE Keep(t)
  BY <1>2, <1>7, <1>11 DEF Keep
<1>12. CASE Assign(t)
  BY <1>2, <1>12 DEF Assign, paperVars
<1> QED
  BY <1>8, <1>9, <1>10, <1>11, <1>12 DEF Portfolio

\* A paper book keeps the account's promise: whatever is averaged, closed in part,
\* flipped, reset, deleted or read back, a fill buys or sells at its price for its
\* fee, and nothing else moves what the account was paid.
THEOREM BooksAreAccounts == Spec => LedgerRefined
<1>1. Init => Account!Init
  <2> SUFFICES ASSUME Init PROVE Account!Init
    OBVIOUS
  <2>1. Known = {}
    BY DEF Init, PaperInit, Known
  <2> QED
    BY <2>1, Zenon DEF Account!Init, Held, Money
<1>2. Inv /\ [Next]_vars => [Account!Next]_<<Held, Money>>
  <2> SUFFICES ASSUME Inv, [Next]_vars PROVE Account!Next \/ UNCHANGED <<Held, Money>>
    OBVIOUS
  <2>1. ASSUME UNCHANGED books PROVE UNCHANGED <<Held, Money>>
    BY <2>1, Stutters DEF Known
  <2>2. CASE UNCHANGED vars
    BY <2>1, <2>2 DEF vars, paperVars
  <2>3. ASSUME NEW m \in Modes, InitSession(m) \/ SwitchMode(m) PROVE UNCHANGED <<Held, Money>>
    BY <2>1, <2>3 DEF InitSession, SwitchMode, paperVars
  <2>4. ASSUME NEW t \in Actor, Portfolio(t) PROVE Account!Next \/ UNCHANGED <<Held, Money>>
    BY <2>4, PortfolioTrades DEF Inv
  <2>5. ASSUME NEW t \in Thread, Submit(t) \/ Guard(t) \/ Route(t) \/ Live(t) \/ Paper(t)
        PROVE  Account!Next \/ UNCHANGED <<Held, Money>>
    <3>1. CASE Paper(t)
      BY <2>1, <3>1, PlaceTrades DEF Paper, paperVars, Inv
    <3> QED
      BY <2>1, <2>5, <3>1 DEF Submit, Guard, Route, Live, Paused, paperVars
  <2>6. CASE Engine
    BY <2>1, <2>6, EngineTrades DEF Engine, Inv
  <2>7. CASE Restart
    <3>1. Known' = {}
      BY <2>7 DEF Restart, Forget, Known
    <3>2. Account!Anew(Book)
      BY <3>1, Begun
    <3> QED
      BY <3>2 DEF Account!Next
  <2> QED
    BY <2>2, <2>3, <2>4, <2>5, <2>6, <2>7 DEF Next
<1> QED
  BY <1>1, <1>2, Invariant, PTL DEF Spec, LedgerRefined, Account!Spec
=============================================================================
