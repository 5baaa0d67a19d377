---------------------------- MODULE CtraderBook ----------------------------
(***************************************************************************)
(* The cTrader book: orders and events over one socket, the cache of open  *)
(* positions, and the Trade rows that are reconciled with it from two      *)
(* threads.                                                                *)
(*                                                                         *)
(* The event loop runs place_order, waiting for the broker's answer, the   *)
(* insert of the row that follows, and the poller's reconciliation of a    *)
(* snapshot it took before.  The reactor thread runs the handlers of the   *)
(* socket and reconciles inside the handler of every position list.  Both  *)
(* read the open rows, and commit later.                                   *)
(*                                                                         *)
(* An order the broker accepts has the number of its position at once and  *)
(* fills later, or ends without a fill.  Only open rows are kept; prices,  *)
(* volumes and stops are left out.                                         *)
(***************************************************************************)
EXTENDS Integers, Sequences, FiniteSets

CONSTANTS
  Orders,    \* bound: orders ever placed, by number
  Old,       \* bound: those filled before, each with its row
  Sym,       \* bound: symbols
  Slots,     \* bound: open rows at a time
  MaxMishaps  \* bound: lost connections, restarts, failed inserts

ASSUME BookAssumption ==
  /\ Orders \in Nat /\ Old \in 0 .. Orders /\ Slots \in Nat /\ Old <= Slots /\ MaxMishaps \in Nat /\ Sym # {} /\ Sym \cap 0 .. Orders = {}

VARIABLES
  sym,     \* the symbol each order is for
  open,    \* the broker: positions that are open
  working, \* the broker: orders it accepted that have not filled
  asked,   \* requests on their way to the broker
  wire,    \* messages on their way to the client
  up,      \* _connected and _authenticated
  cache,   \* _positions
  deals,   \* _recent_deals, by position and by symbol
  call,    \* the calls of place_order: new, tried, or failed with an error
  loop,    \* what the event loop is doing
  snap,    \* the poller's live_positions, read in an executor thread
  react,   \* the reconciliation the reactor thread is in
  rows,    \* open Trade rows of the broker
  mishaps

bookVars == <<sym, open, working, asked, wire, up, cache, deals, call, loop, snap, react, rows, mishaps>>

Order == 1 .. Orders
NoId == 0
RowId == 1 .. Slots
NoRow == [sym |-> "none", pid |-> NoId, young |-> FALSE]
NoJob == [pc |-> "idle", of |-> NoId, got |-> "none", pid |-> NoId, adopt |-> {}, new |-> {}, gone |-> {}]
NoSnap == {NoId}
NoDeals == [k \in Order \cup Sym |-> "none"]
Book == 0
OpenRows == {r \in RowId : rows[r] # NoRow}
Mishap == mishaps < MaxMishaps /\ mishaps' = mishaps + 1

BookInit ==
  /\ sym \in [Order -> Sym]
  /\ open = 1 .. Old /\ working = {} /\ asked = <<>> /\ wire = <<>> /\ up = TRUE
  /\ cache = open /\ deals = NoDeals
  /\ call = [o \in Order |-> IF o \in open THEN "tried" ELSE "new"]
  /\ loop = NoJob /\ react = NoJob /\ snap = NoSnap
  /\ mishaps = 0
  /\ rows = [r \in RowId |-> IF r \in open THEN [sym |-> sym[r], pid |-> r, young |-> FALSE] ELSE NoRow]

-----------------------------------------------------------------------------
\* The broker: requests in order, and positions that close on their own.

Say(m) == wire' = IF up THEN Append(wire, m) ELSE wire
Msg(t, o) == [t |-> t, of |-> o, live |-> {}]
List(live) == [t |-> "list", of |-> NoId, live |-> live]

Answer ==
  /\ asked # <<>> /\ asked' = Tail(asked)
  /\ LET q == Head(asked)
     IN \/ q = Book /\ Say(List(open)) /\ UNCHANGED working
        \/ q # Book /\ Say(Msg("accepted", q)) /\ working' = working \cup {q}
        \/ q # Book /\ Say(Msg("error", q)) /\ UNCHANGED working
  /\ UNCHANGED <<sym, open, up, cache, deals, call, loop, snap, react, rows, mishaps>>

\* An accepted order fills, or it ends otherwise.
Fill(o) ==
  /\ o \in working /\ working' = working \ {o}
  /\ \/ open' = open \cup {o} /\ Say(Msg("filled", o))
     \/ UNCHANGED open /\ Say(Msg("ended", o))
  /\ UNCHANGED <<sym, asked, up, cache, deals, call, loop, snap, react, rows, mishaps>>

Close(o) ==
  /\ o \in open /\ open' = open \ {o}
  /\ Say(Msg("closed", o))
  /\ UNCHANGED <<sym, working, asked, up, cache, deals, call, loop, snap, react, rows, mishaps>>

-----------------------------------------------------------------------------
\* place_order on the event loop.

\* Up to callFromThread(_send): the waiter is registered and the order is sent.
\* Off line the order is only simulated, which a live caller takes as a failure.
Place(o) ==
  /\ loop = NoJob /\ up /\ call[o] = "new" /\ \A p \in 1 .. o - 1 : call[p] # "new"
  /\ call' = [call EXCEPT ![o] = "tried"]
  /\ loop' = [NoJob EXCEPT !.pc = "wait", !.of = o]
  /\ asked' = Append(asked, o)
  /\ UNCHANGED <<sym, open, working, wire, up, cache, deals, snap, react, rows, mishaps>>

\* The waiter is set, or its time is over: no answer in time is "sent".
Resume(o) ==
  /\ loop.pc = "wait" /\ loop.of = o
  /\ IF loop.got = "error"
     THEN call' = [call EXCEPT ![o] = "failed"] /\ loop' = NoJob
     ELSE loop' = [loop EXCEPT !.pc = "insert"] /\ UNCHANGED call
  /\ UNCHANGED <<sym, open, working, asked, wire, up, cache, deals, snap, react, rows, mishaps>>

\* Slots no row and no plan uses.
Free ==
  {r \in RowId : rows[r] = NoRow /\ \A j \in {loop, react} : r \notin j.gone /\ \A p \in Order : <<r, p>> \notin j.adopt}

\* persist_ctrader_execution, in the same turn of the event loop: a row with the
\* position id the answer had, if it had one.
Insert(o) ==
  /\ loop.pc = "insert" /\ loop.of = o /\ loop' = NoJob
  /\ \/ /\ UNCHANGED mishaps
        /\ \E r \in Free : /\ \A q \in Free : r <= q
                           /\ rows' = [rows EXCEPT ![r] = [sym |-> sym[o], pid |-> loop.pid, young |-> loop.pid = NoId]]
     \/ Mishap /\ UNCHANGED rows
  /\ UNCHANGED <<sym, open, working, asked, wire, up, cache, deals, call, snap, react>>

\* The fifteen seconds of grace of a row are over.
Age(r) ==
  /\ rows[r].young
  /\ rows' = [rows EXCEPT ![r].young = FALSE]
  /\ UNCHANGED <<sym, open, working, asked, wire, up, cache, deals, call, loop, snap, react, mishaps>>

-----------------------------------------------------------------------------
\* reconcile_ctrader_positions: a plan made from the open rows, then a commit.

Pids == {rows[r].pid : r \in OpenRows} \ {NoId}
Loose(s) == {r \in OpenRows : rows[r].pid = NoId /\ rows[r].sym = s}

\* The row of by_pid for a position: of two, the later one.
ByPid(p) == LET S == {r \in OpenRows : rows[r].pid = p} IN CHOOSE r \in S : \A q \in S : q <= r

\* Fault-seeded: every row of a listed position is kept.
Held_Every(live) == {r \in OpenRows : rows[r].pid \in live}

\* The rows the listed positions are found by.
Held(live) == {ByPid(p) : p \in live \cap Pids}

\* Positions without a row of theirs, each with the row without position id it
\* takes: one of its symbol, 0 when those are used up.
Adoptions(live) ==
  LET orphans == live \ Pids
      Fits(f) == \A p \in orphans :
        /\ f[p] \in Loose(sym[p]) \cup {0}
        /\ \A q \in orphans \ {p} : f[p] = f[q] => f[p] = 0
        /\ f[p] = 0 => Loose(sym[p]) \subseteq {f[q] : q \in orphans}
  IN {f \in [orphans -> OpenRows \cup {0}] : Fits(f)}

\* get_recent_deal: by position, else the last of the symbol.
DealOf(pid, s) == IF deals[pid] # "none" THEN deals[pid] ELSE deals[s]

\* The rows that are closed as absent: with an empty list only those a close
\* deal confirms, otherwise all but the ones in flight.
Absent(live, kept) ==
  IF live = {}
  THEN {r \in OpenRows \ kept : rows[r].pid # NoId /\ DealOf(rows[r].pid, rows[r].sym) = "closed"}
  ELSE {r \in OpenRows \ kept : rows[r].pid # NoId \/ ~rows[r].young}

Plans(live) ==
  {LET kept == Held(live) \cup {f[p] : p \in DOMAIN f}
   IN [NoJob EXCEPT !.pc = "commit",
       !.adopt = {<<f[p], p>> : p \in {q \in DOMAIN f : f[q] # 0}},
       !.new = {p \in DOMAIN f : f[p] = 0},
       !.gone = Absent(live, kept)] : f \in Adoptions(live)}

\* The slots new rows go to: the first free ones.
Placed(new) ==
  {at \in [new -> Free] :
     /\ \A p, q \in new : p # q => at[p] # at[q]
     /\ \A p \in new, r \in Free : r < at[p] => \E q \in new : at[q] = r}

\* db.commit: a row the other thread has closed meanwhile stays closed.
Commit(job) ==
  \E at \in Placed(job.new) :
    rows' = [r \in RowId |->
      IF \E p \in job.new : at[p] = r
      THEN LET p == CHOOSE p \in job.new : at[p] = r IN [sym |-> sym[p], pid |-> p, young |-> FALSE]
      ELSE IF r \in job.gone \/ rows[r] = NoRow THEN NoRow
      ELSE IF \E p \in Order : <<r, p>> \in job.adopt
      THEN [rows[r] EXCEPT !.pid = CHOOSE p \in Order : <<r, p>> \in job.adopt, !.young = FALSE]
      ELSE rows[r]]

-----------------------------------------------------------------------------
\* The reactor thread: _handle.

Deal(o, kind) == [deals EXCEPT ![o] = kind, ![sym[o]] = kind]

\* A request for the list right behind another one is the same request.
Asking == IF asked # <<>> /\ asked[Len(asked)] = Book THEN asked ELSE Append(asked, Book)

\* Fault-seeded: only a fill asks for the list of positions.
Refresh_FillsOnly(m) == IF m.t = "filled" THEN Asking ELSE asked

\* Every execution event asks for the list of positions.
Refresh(m) == IF m.t = "error" THEN asked ELSE Asking

\* What the waiter is told.
Heard(m) == IF m.t = "error" THEN [loop EXCEPT !.got = "error"] ELSE [loop EXCEPT !.got = "ok", !.pid = m.of]

\* signal_place_order_ack: whoever is waiting gets it, whatever it is about; a
\* position that closes is a filled order too.  An order that ends tells nobody.
Ack(m) == IF m.t # "ended" /\ loop.pc = "wait" /\ loop.got = "none" THEN loop' = Heard(m) ELSE UNCHANGED loop

\* An execution event (2126) or an order error (2132).
Event ==
  /\ react = NoJob /\ wire # <<>> /\ Head(wire).t # "list"
  /\ LET m == Head(wire)
     IN /\ Ack(m)
        /\ deals' = CASE m.t = "filled" -> Deal(m.of, "open")
                      [] m.t = "closed" -> Deal(m.of, "closed")
                      [] OTHER -> deals
        /\ asked' = Refresh(m)
  /\ wire' = Tail(wire)
  /\ UNCHANGED <<sym, open, working, up, cache, call, snap, react, rows, mishaps>>

\* Fault-seeded: the callback gets the list the cache had before.
Listed_Before(m) == cache

\* What the callbacks get.
Listed(m) == m.live

\* The list of positions (2125): the cache, and the callback's reconciliation.
Reconcile ==
  /\ react = NoJob /\ wire # <<>> /\ Head(wire).t = "list"
  /\ cache' = Head(wire).live
  /\ react' \in Plans(Listed(Head(wire)))
  /\ wire' = Tail(wire)
  /\ UNCHANGED <<sym, open, working, asked, up, deals, call, loop, snap, rows, mishaps>>

ReactCommit ==
  /\ react # NoJob /\ Commit(react) /\ react' = NoJob
  /\ UNCHANGED <<sym, open, working, asked, wire, up, cache, deals, call, loop, snap, mishaps>>

-----------------------------------------------------------------------------
\* The poller: sync_ctrader_once.

\* get_positions in an executor thread, when connected.
Snapshot ==
  /\ snap = NoSnap /\ up /\ snap' = cache
  /\ UNCHANGED <<sym, open, working, asked, wire, up, cache, deals, call, loop, react, rows, mishaps>>

\* Back on the event loop, after the awaits that follow the snapshot.
Poll ==
  /\ loop = NoJob /\ snap # NoSnap
  /\ loop' \in Plans(snap) /\ snap' = NoSnap
  /\ UNCHANGED <<sym, open, working, asked, wire, up, cache, deals, call, react, rows, mishaps>>

PollCommit ==
  /\ loop.pc = "commit" /\ Commit(loop) /\ loop' = NoJob
  /\ UNCHANGED <<sym, open, working, asked, wire, up, cache, deals, call, snap, react, mishaps>>

-----------------------------------------------------------------------------
\* Faults.

\* connectionLost: what is on its way is lost, in both directions.
Lose ==
  /\ up /\ Mishap /\ up' = FALSE /\ asked' = <<>> /\ wire' = <<>>
  /\ UNCHANGED <<sym, open, working, cache, deals, call, loop, snap, react, rows>>

\* Authenticated again (2103): the positions are asked for.
Reconnect ==
  /\ ~up /\ up' = TRUE /\ asked' = <<Book>>
  /\ UNCHANGED <<sym, open, working, wire, cache, deals, call, loop, snap, react, rows, mishaps>>

\* The process dies and starts again; its callers are gone.
Restart ==
  /\ Mishap /\ up' = FALSE /\ asked' = <<>> /\ wire' = <<>>
  /\ cache' = {} /\ deals' = NoDeals /\ snap' = NoSnap
  /\ loop' = NoJob /\ react' = NoJob
  /\ UNCHANGED <<sym, open, working, call, rows>>

BookNext ==
  \/ Answer \/ \E o \in Order : Fill(o) \/ Close(o) \/ Place(o) \/ Resume(o) \/ Insert(o)
  \/ \E r \in RowId : Age(r)
  \/ Event \/ Reconcile \/ ReactCommit
  \/ Snapshot \/ Poll \/ PollCommit
  \/ Lose \/ Reconnect \/ Restart

BookSpec == BookInit /\ [][BookNext]_bookVars

\* Both threads and the broker go on, a lost connection comes back, and so does
\* the poller.  Nothing has to be placed, to fill or to close.
BookFairness ==
  /\ WF_bookVars(Answer) /\ WF_bookVars(Event) /\ WF_bookVars(Reconcile) /\ WF_bookVars(ReactCommit)
  /\ WF_bookVars(Snapshot) /\ WF_bookVars(Poll) /\ WF_bookVars(PollCommit) /\ WF_bookVars(Reconnect)
  /\ \A o \in Order : WF_bookVars(Resume(o)) /\ WF_bookVars(Insert(o))
  /\ \A r \in RowId : WF_bookVars(Age(r))

FairBookSpec == BookSpec /\ BookFairness

-----------------------------------------------------------------------------
\* Properties.

JobType == [pc : {"idle", "wait", "insert", "commit"}, of : Order \cup {NoId}, got : {"none", "ok", "error"}, pid : Order \cup {NoId},
            adopt : SUBSET (RowId \X Order), new : SUBSET Order, gone : SUBSET RowId]

\* Types of the variables; the callback of the reactor thread is idle or about to
\* commit, and only an answer that is no error comes with a position id.
BookTypeOK ==
  /\ sym \in [Order -> Sym] /\ open \subseteq Order /\ working \subseteq Order /\ up \in BOOLEAN /\ cache \subseteq Order
  /\ asked \in Seq(Order \cup {Book})
  /\ wire \in Seq([t : {"accepted", "filled", "ended", "closed", "error", "list"}, of : Order \cup {NoId}, live : SUBSET Order])
  /\ deals \in [Order \cup Sym -> {"none", "open", "closed"}]
  /\ call \in [Order -> {"new", "tried", "failed"}]
  /\ loop \in JobType /\ react \in JobType /\ react.pc \in {"idle", "commit"}
  /\ loop.pid # NoId => loop.got = "ok"
  /\ snap = NoSnap \/ snap \subseteq Order
  /\ rows \in [RowId -> [sym : Sym \cup {"none"}, pid : Order \cup {NoId}, young : BOOLEAN]]
  /\ mishaps \in 0 .. MaxMishaps

\* Once everything that is on its way has arrived, the cache is the broker's book
\* (the 2124 requests after 2103 and after every 2126).
CacheCurrent == up /\ asked = <<>> /\ wire = <<>> => cache = open

\* The reactor thread plans to close the only row of an open position in one case:
\* the row got its number from an accept, the list is from before the fill, and so
\* the fill, which asks for the list that has it, is still on its way.  (The poller
\* also does so with an old snapshot.)
ReactorSees == [][Reconcile => \A r \in react'.gone :
  rows[r].pid \in open =>
    \/ \E q \in OpenRows \ react'.gone : rows[q].pid = rows[r].pid
    \/ \E i \in 1 .. Len(wire) : wire[i] = Msg("filled", rows[r].pid)]_bookVars

Owned(p) == \E r \in OpenRows : rows[r].pid = p /\ \A q \in OpenRows \ {r} : rows[q].pid # p

\* Duplicate rows, rows of orders never filled, rows closed on an old snapshot and
\* rows lost with a failed insert do not last: in the end every open position has
\* one row, and while there is one no other row is open.
Converges == <>[](/\ \A p \in open : Owned(p)
                  /\ open # {} => \A r \in OpenRows : rows[r].pid \in open)

=============================================================================
