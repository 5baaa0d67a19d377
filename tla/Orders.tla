------------------------------- MODULE Orders -------------------------------
(***************************************************************************)
(* The orders and the Trade rows of one leg, and those who write them side *)
(* by side: the trading loop (sync_positions, a post-only maker entry with *)
(* its MARKET fallback, exits), the order poller, and the dashboard, whose *)
(* reads mirror the live book into the rows.  Each is cut at its awaits,   *)
(* an entry between its requests to the exchange.                          *)
(*                                                                         *)
(* Where a stop may be placed is left to Protection, who may enter to      *)
(* Admission: here an entry finds neither a row nor a leg.                 *)
(***************************************************************************)
EXTENDS Integers, Sequences, FiniteSetsExt

CONSTANTS
  Qty,         \* the size of an entry
  MaxEntries,  \* bound: entries
  MaxFaults    \* bound: failed or unanswered calls, orders cancelled by others, crashes

ASSUME OrdersAssumption ==
  Qty \in Nat \ {0} /\ MaxEntries \in Nat \ {0} /\ MaxFaults \in Nat

VARIABLES
  leg,     \* exchange: the size of the leg
  stops,   \* exchange: the protective orders of the symbol
  order,   \* exchange: the maker order of each entry
  others,  \* exchange: another symbol has a leg
  pc,      \* program counter of the loop and of the entry in its thread
  snap,    \* the positions as the loop last fetched them
  gone,    \* the rows sync_positions is about to close
  entries, \* entries so far
  left,    \* what a partly filled maker order still lacks
  ref,     \* the order that the row of the entry will name
  rows,    \* the Trade rows, oldest first
  poll,    \* program counter of the poller
  answer,  \* what the poller is about to write, per row it has loaded
  dash,    \* what a dashboard request has fetched
  faults   \* faults so far

exchangeVars == <<leg, stops, order, others>>
loopVars == <<pc, snap, gone, entries, left, ref>>
vars == <<exchangeVars, loopVars, rows, poll, answer, dash, faults>>

Entry == 1..MaxEntries
Both == {"stop", "target"}
NoOrder == [st |-> "none", done |-> 0]
Flat == [leg |-> 0, empty |-> TRUE]
Row(st, to, levels) == [st |-> st, ref |-> to, levels |-> levels]
NoAnswer == <<>>

\* The order a row names: the maker order of an entry, a MARKET order, or none.
NoRef == 0
AtMarket == MaxEntries + 1

\* Rows that count: status open or filled.
Live == {i \in DOMAIN rows : rows[i].st \in {"open", "filled"}}
Resting == {e \in Entry : order[e].st = "live"}
Cancelled(E) == [e \in Entry |-> IF e \in E THEN [order[e] EXCEPT !.st = "gone"] ELSE order[e]]

\* The statuses in st of the rows in I.
Marked(I, st) == [i \in DOMAIN rows |-> IF i \in I THEN [rows[i] EXCEPT !.st = st] ELSE rows[i]]

Fault == faults < MaxFaults /\ faults' = faults + 1
Works == UNCHANGED faults

-----------------------------------------------------------------------------
\* The exchange.

Filled(o) == [st |-> IF o.done + 1 = Qty THEN "filled" ELSE "live", done |-> o.done + 1]

MakerFills ==
  /\ \E e \in Resting : order' = [order EXCEPT ![e] = Filled(@)]
  /\ leg' = leg + 1
  /\ UNCHANGED <<stops, others, loopVars, rows, poll, answer, dash, faults>>

\* The stop, the target or the user closes the leg; what did not fire stays.
LegCloses ==
  /\ leg > 0 /\ leg' = 0
  /\ stops' \in {stops, stops \ {"stop"}, stops \ {"target"}}
  /\ UNCHANGED <<order, others, loopVars, rows, poll, answer, dash, faults>>

\* The emergency halt or the user cancels an entry that rests.
OthersCancel ==
  /\ Resting # {} /\ Fault
  /\ order' = Cancelled(Resting)
  /\ UNCHANGED <<leg, stops, others, loopVars, rows, poll, answer, dash>>

OtherLegs ==
  /\ others' = ~others
  /\ UNCHANGED <<leg, stops, order, loopVars, rows, poll, answer, dash, faults>>

-----------------------------------------------------------------------------
\* sync_positions and the rest of a cycle.

Positions == [leg |-> leg, empty |-> leg = 0 /\ ~others]

SyncFetch ==
  /\ pc = "idle" /\ pc' = "sync" /\ snap' = Positions
  /\ UNCHANGED <<exchangeVars, gone, entries, left, ref, rows, poll, answer, dash, faults>>

\* Fault-seeded: a closed row owns the leg as well.
Owners_Dead == DOMAIN rows

\* db_keys: the rows that own the leg.
Owners == Live

\* The levels ensure_protective_orders can place: none without a leg.
Ensured == IF leg > 0 THEN Both ELSE stops

\* A leg without a row is adopted once it is protected.
Adopt ==
  /\ snap.leg > 0 /\ Owners = {}
  /\ \/ rows' = Append(rows, Row("filled", NoRef, TRUE)) /\ stops' = Ensured /\ Works
     \/ UNCHANGED <<rows, stops>> /\ Fault
  /\ pc' = "cache" /\ UNCHANGED gone

\* Fault-seeded: the guard of an empty book, the wrong way round.
Vanished_Inverted == snap.empty /\ Live # {}

\* The rows are of a leg that is not on the book; an empty book closes nothing.
Vanished == snap.leg = 0 /\ ~snap.empty /\ Live # {}

Sync ==
  /\ pc = "sync"
  /\ \/ Adopt
     \/ Vanished /\ pc' = "price" /\ gone' = Live /\ UNCHANGED <<rows, stops>> /\ Works
     \/ ~Vanished /\ ~(snap.leg > 0 /\ Owners = {})
        /\ pc' = "cache" /\ UNCHANGED <<gone, rows, stops>> /\ Works
  /\ snap' = Flat
  /\ UNCHANGED <<leg, order, others, entries, left, ref, poll, answer, dash>>

\* get_exit_price has answered: rows closed, every order of the symbol cancelled;
\* a failed cancel is logged, a failed commit undoes the rows.
SyncClose ==
  /\ pc = "price" /\ pc' = "cache" /\ gone' = {}
  /\ \/ rows' = Marked(gone, "closed") /\ stops' = {} /\ order' = Cancelled(Resting) /\ Works
     \/ rows' = Marked(gone, "closed") /\ UNCHANGED <<stops, order>> /\ Fault
     \/ UNCHANGED rows /\ stops' = {} /\ order' = Cancelled(Resting) /\ Fault
  /\ UNCHANGED <<leg, others, snap, entries, left, ref, poll, answer, dash>>

\* _cycle_positions, empty when the fetch fails.
Cache ==
  /\ pc = "cache" /\ pc' = "ready"
  /\ \/ snap' = Positions /\ Works
     \/ snap' = Flat /\ Fault
  /\ UNCHANGED <<exchangeVars, gone, entries, left, ref, rows, poll, answer, dash>>

\* A managed exit: place_order closes the leg and, flat, cancels its orders; the
\* rows are committed with it.
Exit ==
  /\ pc = "ready" /\ leg > 0 /\ Live # {}
  /\ leg' = 0 /\ stops' = {} /\ order' = Cancelled(Resting) /\ rows' = Marked(Live, "closed")
  /\ UNCHANGED <<others, loopVars, poll, answer, dash, faults>>

\* The cycle ends; ensure_exchange_protection has gone over the rows that have
\* levels.
EndCycle ==
  /\ pc = "ready" /\ pc' = "idle"
  /\ IF \E i \in Live : rows[i].levels
     THEN (stops' = Ensured /\ Works) \/ (UNCHANGED stops /\ Fault)
     ELSE UNCHANGED stops /\ Works
  /\ snap' = Flat
  /\ UNCHANGED <<leg, order, others, gone, entries, left, ref, rows, poll, answer, dash>>

-----------------------------------------------------------------------------
\* An entry: _try_maker_entry inside place_order, then the row.

\* The post-only order rests, or expires at once, or is refused, or its answer
\* is lost; without an answer the entry goes to the market.
Enter ==
  /\ pc = "ready" /\ Live = {} /\ snap.leg = 0 /\ entries < MaxEntries
  /\ entries' = entries + 1
  /\ LET Posted(st) == order' = [order EXCEPT ![entries + 1] = [st |-> st, done |-> 0]]
     IN \/ Posted("live") /\ pc' = "wait" /\ Works
        \/ Posted("gone") /\ pc' = "wait" /\ Works
        \/ UNCHANGED order /\ pc' = "market" /\ Works
        \/ Posted("live") /\ pc' = "market" /\ Fault
  /\ snap' = Flat
  /\ UNCHANGED <<leg, stops, others, gone, left, ref, rows, poll, answer, dash>>

Mine == order[entries]
Won(to) == pc' = "protect" /\ ref' = to

\* The status polls up to MAKER_WAIT_SEC; the last one may come too early.
Wait ==
  /\ pc = "wait"
  /\ \/ Mine.st = "filled" /\ Won(entries)
     \/ Mine.st = "gone" /\ pc' = "market" /\ UNCHANGED ref
     \/ pc' = "cancel" /\ UNCHANGED ref
  /\ UNCHANGED <<exchangeVars, snap, gone, entries, left, rows, poll, answer, dash, faults>>

\* The order is cancelled; an error is ignored.
Cancel ==
  /\ pc = "cancel" /\ pc' = "check"
  /\ \/ Mine.st = "live" /\ order' = Cancelled({entries}) /\ Works
     \/ UNCHANGED order /\ (IF Mine.st = "live" THEN Fault ELSE Works)
  /\ UNCHANGED <<leg, stops, others, snap, gone, entries, left, ref, rows, poll, answer, dash>>

\* Fault-seeded: a partly filled order is followed by the whole quantity.
Lacking_All(done) == Qty

Lacking(done) == Qty - done

\* The order once more: filled after all, filled in part, or not at all.  When
\* it cannot be fetched the entry is given up.
Check ==
  /\ pc = "check"
  /\ \/ Mine.st = "filled" /\ Won(entries) /\ UNCHANGED left /\ Works
     \/ Mine.st # "filled" /\ Mine.done > 0 /\ pc' = "topup" /\ left' = Lacking(Mine.done)
        /\ UNCHANGED ref /\ Works
     \/ Mine.done = 0 /\ pc' = "market" /\ UNCHANGED <<left, ref>> /\ Works
     \/ pc' = "idle" /\ UNCHANGED <<left, ref>> /\ Fault
  /\ UNCHANGED <<exchangeVars, snap, gone, entries, rows, poll, answer, dash>>

\* A MARKET order for so much; one that fails may have filled, and ends the entry.
Buy(size, to) ==
  /\ \/ leg' = leg + size /\ Won(to) /\ Works
     \/ leg' \in {leg, leg + size} /\ pc' = "idle" /\ UNCHANGED ref /\ Fault
  /\ left' = 0
  /\ UNCHANGED <<stops, order, others, snap, gone, entries, rows, poll, answer, dash>>

\* After a top-up the result names the maker order.
TopUp == pc = "topup" /\ Buy(left, entries)

Market == pc = "market" /\ Buy(Qty, AtMarket)

\* place_order's stop and target.  A stop that is there is kept (-4130); when none
\* can be placed the leg is closed, which may fail too, and the order is an error.
Protect ==
  /\ pc = "protect"
  /\ \/ (leg > 0 \/ "stop" \in stops) /\ stops' = Ensured /\ pc' = "record"
        /\ UNCHANGED <<leg, ref>> /\ Works
     \/ "stop" \notin stops /\ leg' \in {0, leg} /\ pc' = "idle" /\ ref' = NoRef
        /\ UNCHANGED stops /\ (IF leg > 0 THEN Fault ELSE Works)
  /\ UNCHANGED <<order, others, snap, gone, entries, left, rows, poll, answer, dash>>

\* The loop's task resumes and commits the row.
Record ==
  /\ pc = "record" /\ pc' = "idle"
  /\ \/ rows' = Append(rows, Row("open", ref, TRUE)) /\ Works
     \/ UNCHANGED rows /\ Fault
  /\ ref' = NoRef
  /\ UNCHANGED <<exchangeVars, snap, gone, entries, left, poll, answer, dash>>

-----------------------------------------------------------------------------
\* The order poller.

\* The open rows with an order id that does not rest any more.
Polled == {i \in DOMAIN rows : rows[i].st = "open" /\ rows[i].ref # NoRef /\ rows[i].ref \notin Resting}

PollLoad ==
  /\ poll = "idle" /\ poll' = IF Polled = {} THEN "flat" ELSE "ask"
  /\ answer' = [i \in Polled |-> "asked"]
  /\ UNCHANGED <<exchangeVars, loopVars, rows, dash, faults>>

\* What becomes of a row, by the status of its order.
Status(to) == IF to = AtMarket THEN "filled" ELSE order[to].st
Verdict(i) ==
  CASE Status(rows[i].ref) = "filled" -> "filled"
    [] Status(rows[i].ref) = "gone" -> "failed"
    [] OTHER -> "same"

PollAsk(i) ==
  /\ poll = "ask" /\ answer[i] = "asked"
  /\ \/ answer' = [answer EXCEPT ![i] = Verdict(i)] /\ Works
     \/ answer' = [answer EXCEPT ![i] = "same"] /\ Fault
  /\ UNCHANGED <<exchangeVars, loopVars, rows, poll, dash>>

\* The answers are written over whatever the rows have become; when the commit
\* fails the orphaned orders have to wait.
PollCommit ==
  /\ poll = "ask" /\ \A i \in DOMAIN answer : answer[i] # "asked"
  /\ LET Of(st) == {i \in DOMAIN answer : answer[i] = st}
     IN \/ rows' = [i \in DOMAIN rows |-> IF i \in Of("filled") \cup Of("failed")
                                           THEN [rows[i] EXCEPT !.st = answer[i]] ELSE rows[i]]
           /\ poll' = "flat" /\ Works
        \/ UNCHANGED rows /\ poll' = "idle" /\ Fault
  /\ answer' = NoAnswer
  /\ UNCHANGED <<exchangeVars, loopVars, dash>>

\* _cancel_orphaned_orders: the positions first,
PollPositions ==
  /\ poll = "flat" /\ poll' = IF leg = 0 THEN "orphans" ELSE "idle"
  /\ UNCHANGED <<exchangeVars, loopVars, rows, answer, dash, faults>>

\* then the orders, and those of a symbol that had no position are cancelled.
PollOrphans ==
  /\ poll = "orphans" /\ poll' = "idle"
  /\ (stops' = {} /\ Works) \/ (UNCHANGED stops /\ Fault)
  /\ UNCHANGED <<leg, order, others, loopVars, rows, answer, dash>>

-----------------------------------------------------------------------------
\* The dashboard: GET /portfolio, /positions and /trades.

DashFetch ==
  /\ dash = "idle" /\ dash' = IF leg > 0 THEN "held" ELSE "idle"
  /\ UNCHANGED <<exchangeVars, loopVars, rows, poll, answer, faults>>

Newest(I) == CHOOSE i \in I : \A j \in I : j <= i
Dead == {i \in DOMAIN rows : rows[i].st = "closed"}

\* upsert_binance_live_trades: the newest live row is open, else the newest
\* closed one is opened again, else there is a new one, without levels.
DashUpsert ==
  /\ dash = "held" /\ dash' = "idle"
  /\ rows' = IF Live # {} THEN Marked({Newest(Live)}, "open")
             ELSE IF Dead # {} THEN Marked({Newest(Dead)}, "open")
             ELSE Append(rows, Row("open", NoRef, FALSE))
  /\ UNCHANGED <<exchangeVars, loopVars, poll, answer, faults>>

-----------------------------------------------------------------------------
\* The backend dies and starts again.
Crash ==
  /\ Fault
  /\ pc' = "idle" /\ snap' = Flat /\ gone' = {} /\ left' = 0 /\ ref' = NoRef
  /\ poll' = "idle" /\ answer' = NoAnswer /\ dash' = "idle"
  /\ UNCHANGED <<exchangeVars, entries, rows>>

Init ==
  /\ leg = 0 /\ stops = {} /\ order = [e \in Entry |-> NoOrder] /\ others \in BOOLEAN
  /\ pc = "idle" /\ snap = Flat /\ gone = {}
  /\ entries = 0 /\ left = 0 /\ ref = NoRef
  /\ rows = <<>> /\ poll = "idle" /\ answer = NoAnswer /\ dash = "idle" /\ faults = 0

Loop ==
  \/ SyncFetch \/ Sync \/ SyncClose \/ Cache \/ Exit \/ EndCycle
  \/ Enter \/ Wait \/ Cancel \/ Check \/ TopUp \/ Market \/ Protect \/ Record

Poller ==
  PollLoad \/ (\E i \in DOMAIN answer : PollAsk(i)) \/ PollCommit \/ PollPositions \/ PollOrphans

Next ==
  \/ MakerFills \/ LegCloses \/ OthersCancel \/ OtherLegs
  \/ Loop \/ Poller \/ DashFetch \/ DashUpsert \/ Crash

Spec == Init /\ [][Next]_vars

\* The loop runs its cycles and the poller its rounds; nothing has to fill or to
\* close, and nobody has to open the dashboard.
Fairness == WF_vars(Loop) /\ WF_vars(Poller)

FairSpec == Spec /\ Fairness

-----------------------------------------------------------------------------
\* Properties.

\* Every variable stays in its range.
TypeOK ==
  /\ leg \in Nat /\ stops \subseteq Both /\ others \in BOOLEAN
  /\ order \in [Entry -> [st : {"none", "live", "filled", "gone"}, done : 0..Qty]]
  /\ pc \in {"idle", "sync", "price", "cache", "ready", "wait", "cancel", "check",
             "topup", "market", "protect", "record"}
  /\ snap \in [leg : Nat, empty : BOOLEAN] /\ gone \subseteq DOMAIN rows
  /\ entries \in 0..MaxEntries /\ left \in 0..Qty
  /\ ref \in 0..AtMarket
  /\ rows \in Seq([st : {"open", "filled", "failed", "closed"},
                   ref : 0..AtMarket, levels : BOOLEAN])
  /\ DOMAIN answer \subseteq DOMAIN rows
  /\ faults \in 0..MaxFaults

\* "abort to avoid duplicate fill / doubling position size": what is held and what
\* still rests never exceed one entry, and one more for each fault.
Exposure == leg + MapThenSumSet(LAMBDA e : Qty - order[e].done, Resting)
EntryBounded == Exposure <= Qty * (1 + faults)

\* "ownership instead of blocking that symbol forever": a leg that stays open has
\* a live row in the end, and a stop if one of its rows knows the levels.
HeldIsOwned ==
  <>[](leg > 0) =>
    <>[](Live # {} /\ ((\E i \in Live : rows[i].levels) => "stop" \in stops))

\* "sibling reduce-only orders are orphaned": of a leg that is gone for good, no
\* live row and no protective order stays, unless the book is empty.
GoneIsCleared == <>[](leg = 0 /\ others) => <>[](Live = {} /\ stops = {})
=============================================================================
