----------------------------- MODULE Admission -----------------------------
(***************************************************************************)
(* A cycle of the live trading loop: emergency exits, reconciliation of    *)
(* the Trade rows with the exchange, the position manager's exits, and the *)
(* scan in which one task per symbol decides, takes the execution lock,    *)
(* sends its order in an executor thread and records the fill.             *)
(*                                                                         *)
(* A task is cut at its awaits.  The exchange moves on its own: stops and  *)
(* targets fill whenever they like.  Quantities are counted in units.    *)
(***************************************************************************)
EXTENDS Integers, FiniteSetsExt

CONSTANTS
  Symbol,           \* perpetuals in the scan
  Base,             \* crypto_perp_base: the coin a symbol is quoted for
  MaxPositions,     \* MAX_BINANCE_POSITIONS
  MaxSameDirection, \* MAX_SAME_DIRECTION_POSITIONS
  MaxLayers,        \* PYRAMID_MAX_LAYERS, 0 for pyramid_mode off
  BatchSize,        \* SYMBOL_BATCH_SIZE
  Concurrency,      \* SYMBOL_CONCURRENCY
  EntrySize,        \* units of one entry: 2 for a leg that can be cut in half
  MaxUnits,         \* bound: units in one leg, and adds with an open row
  MaxFaults         \* bound: failed calls, stops and crashes

ASSUME AdmissionAssumption ==
  /\ IsFiniteSet(Symbol) /\ "free" \notin Symbol /\ "none" \notin Symbol
  /\ MaxPositions \in Nat /\ MaxSameDirection \in Nat /\ MaxLayers \in Nat
  /\ BatchSize \in Nat \ {0} /\ Concurrency \in Nat \ {0}
  /\ EntrySize \in Nat \ {0} /\ MaxUnits \in Nat \ {0} /\ MaxFaults \in Nat

Side == {"BUY", "SELL"}
Leg == Symbol \X Side                  \* hedge mode: one leg per side

\* An open Trade row; layer 0 is the base entry, the others pyramid adds.
Row == [sym : Symbol, side : Side, layer : 0..MaxUnits, size : 1..MaxUnits]
NoRow == [sym |-> "none"]
Act == {"none", "enter", "pyramid", "flatten"}

VARIABLES
  phase,     \* "idle", "emergency", "sync", "cache", "exits" or "scan"
  rows,      \* Trade rows with status open or filled
  closing,   \* rows closed in a session that is not committed yet
  layers,    \* len(_pyramid_layers[symbol])
  leg,       \* exchange: size of each leg
  seen,      \* the legs as last fetched by the cycle (_cycle_positions)
  openCount, \* _open_count
  blocked,   \* _entries_blocked
  pc,        \* program counter of each symbol's task
  plan,      \* each task's decision and the row it found
  batch,     \* the symbols of the running gather
  lock,      \* holder of _execution_lock, or "free"
  cleared,   \* tasks whose order has passed the hedge guard in its thread
  stray,     \* orders of cancelled tasks whose executor thread still runs
  crossed,   \* history: symbols ordered while a stray order of theirs still ran
  faults     \* failed calls, stops and crashes so far

bookVars == <<rows, closing, layers>>
cycleVars == <<phase, seen, openCount, blocked>>
taskVars == <<pc, plan, batch, lock>>
threadVars == <<cleared, stray, crossed>>
vars == <<bookVars, leg, cycleVars, taskVars, threadVars, faults>>

Plan(act, side, row, size) == [act |-> act, side |-> side, row |-> row, size |-> size]
NoPlan == Plan("none", "BUY", NoRow, 0)
Busy == {"begun", "evaluated", "queued", "ordering", "executed"}
Opposite(side) == IF side = "BUY" THEN "SELL" ELSE "BUY"
Least(a, b) == IF a < b THEN a ELSE b
Fault == faults < MaxFaults /\ faults' = faults + 1
Works == UNCHANGED faults
NoLegs == [l \in Leg |-> 0]

\* same_crypto_perp_leg and perp_alias_set.
Alias(s) == {t \in Symbol : Base[t] = Base[s]}

\* first_matching_open: a row of the symbol itself before one of an alias.
Existing(s) ==
  LET exact == {r \in rows : r.sym = s}
      alias == {r \in rows : r.sym \in Alias(s)}
  IN IF exact # {} THEN exact ELSE IF alias # {} THEN alias ELSE {NoRow}

OpenSymbols(R) == {r.sym : r \in R}
LiveSymbols == {s \in Symbol : \E side \in Side : leg[s, side] > 0}

\* remove_closed_pyramid_layer for every row of a set.
PopLayers(gone) == [s \in Symbol |->
  LET popped == Cardinality({r \in gone : r.sym = s /\ r.layer > 0})
  IN IF popped > layers[s] THEN 0 ELSE layers[s] - popped]

\* _reconstruct_pyramid_layers.
RebuiltLayers == [s \in Symbol |-> Cardinality({r \in rows : r.sym = s /\ r.layer > 0})]

-----------------------------------------------------------------------------
\* The exchange on its own: a stop or target fills, or a leg is cut there.
ExchangeReduces ==
  /\ \E l \in Leg : leg[l] > 0 /\ \E left \in 0..(leg[l] - 1) : leg' = [leg EXCEPT ![l] = left]
  /\ UNCHANGED <<bookVars, cycleVars, taskVars, threadVars, faults>>

\* A reduce-only order: "closed", "flat" when there is nothing to close,
\* "refused" (-2022) when it is larger than the leg.
ReduceResult(l, size) ==
  IF leg[l] = 0 THEN "flat" ELSE IF size > leg[l] THEN "refused" ELSE "closed"
Reduced(l, size) ==
  IF ReduceResult(l, size) = "closed" THEN [leg EXCEPT ![l] = @ - size] ELSE leg

-----------------------------------------------------------------------------
\* The start of a cycle and its emergency exits.

\* Sentry gate, risk guard and kill switch let the cycle pass; the margin gate
\* may block its entries.
StartCycle ==
  /\ phase = "idle"
  /\ phase' = "emergency"
  /\ blocked' \in BOOLEAN
  /\ \/ seen' = leg /\ Works
     \/ seen' = NoLegs /\ Fault
  /\ UNCHANGED <<bookVars, leg, openCount, taskVars, threadVars>>

\* A row is closed in the session and its layer forgotten; the commit is later.
CloseInSession(r) ==
  /\ closing' = closing \cup {r}
  /\ layers' = PopLayers({r})
  /\ UNCHANGED rows

\* The commit of the session's exits, or its rollback.
CommitExits ==
  /\ \/ rows' = rows \ closing /\ Works
     \/ closing # {} /\ rows' = rows /\ Fault
  /\ closing' = {}

\* run_emergency_exits force-closes a row.  When the close did not fill, the
\* legs are fetched again; that fetch swallows its errors, and an empty answer
\* counts as flat.
EmergencyExit(r) ==
  /\ phase = "emergency" /\ r \in rows \ closing
  /\ \E side \in Side : seen[r.sym, side] > 0
  /\ LET l == <<r.sym, r.side>>
         filled == ReduceResult(l, r.size) = "closed"
         flat == \A side \in Side : leg[r.sym, side] = 0
     IN /\ leg' = Reduced(l, r.size)
        /\ \/ (filled \/ flat) /\ Works
           \/ ~filled /\ Fault
  /\ CloseInSession(r)
  /\ UNCHANGED <<cycleVars, taskVars, threadVars>>

EndEmergency ==
  /\ phase = "emergency" /\ CommitExits
  /\ phase' = "sync"
  /\ UNCHANGED <<layers, leg, seen, openCount, blocked, taskVars, threadVars>>

-----------------------------------------------------------------------------
\* sync_positions.

\* Legs whose symbol and side no open row has.
Orphans == {l \in Leg : leg[l] > 0 /\ ~\E r \in rows : r.sym = l[1] /\ r.side = l[2]}
AdoptedRow(l) == [sym |-> l[1], side |-> l[2], layer |-> 0, size |-> leg[l]]
LiveRows == {r \in rows : r.sym \in LiveSymbols}

\* Fault-seeded: a leg that no row has is not adopted.
Synced_NoAdoption(refused) == LiveRows

\* The rows after a sync: orphans adopted unless their protection was refused,
\* rows of symbols that are not on the exchange closed.
Synced(refused) == LiveRows \cup {AdoptedRow(l) : l \in Orphans \ refused}

\* The rows are counted again once they are synced.  An empty snapshot closes
\* nothing while there are rows; a failure after the fetch undoes the rows but
\* not the layers.
Sync ==
  /\ phase = "sync"
  /\ \/ LiveSymbols = {} /\ UNCHANGED <<rows, layers>> /\ Works
     \/ /\ LiveSymbols # {}
        /\ rows' = Synced({}) /\ layers' = PopLayers(rows \ LiveRows)
        /\ Works
     \/ /\ LiveSymbols # {} /\ Fault
        /\ \/ \E refused \in SUBSET Orphans : rows' = Synced(refused)
           \/ rows' = rows
        /\ layers' = PopLayers(rows \ LiveRows)
  /\ openCount' = Cardinality(OpenSymbols(rows'))
  /\ phase' = "cache"
  /\ UNCHANGED <<closing, leg, seen, blocked, taskVars, threadVars>>

\* The positions cannot be fetched: the exception ends the cycle.
SyncFails ==
  /\ phase = "sync" /\ Fault
  /\ phase' = "idle"
  /\ UNCHANGED <<bookVars, leg, seen, openCount, blocked, taskVars, threadVars>>

\* _cycle_positions, empty when the fetch fails.
CachePositions ==
  /\ phase = "cache"
  /\ \/ seen' = leg /\ Works
     \/ seen' = NoLegs /\ Fault
  /\ phase' = "exits"
  /\ UNCHANGED <<bookVars, leg, openCount, blocked, taskVars, threadVars>>

-----------------------------------------------------------------------------
\* The position manager's exits.

\* Fault-seeded: a refused close is taken for a flat position.
ShownFlat_Trusted(s) == TRUE

\* What the position manager checks after a refused close: the cached legs.
ShownFlat(s) == \A side \in Side : seen[s, side] = 0

ManagedExit(r) ==
  /\ phase = "exits" /\ r \in rows \ closing
  /\ LET l == <<r.sym, r.side>>
     IN /\ ReduceResult(l, r.size) = "refused" => ShownFlat(r.sym)
        /\ leg' = Reduced(l, r.size)
  /\ CloseInSession(r)
  /\ UNCHANGED <<cycleVars, taskVars, threadVars, faults>>

\* The exits are committed and the rows counted again; the scan begins.
BeginScan ==
  /\ phase = "exits" /\ CommitExits
  /\ openCount' = IF rows' # rows THEN Cardinality(OpenSymbols(rows')) ELSE openCount
  /\ phase' = "scan"
  /\ pc' = [s \in Symbol |-> "wait"]
  /\ UNCHANGED <<layers, leg, seen, blocked, plan, batch, lock, threadVars>>

-----------------------------------------------------------------------------
\* The scan.

\* Fault-seeded: symbols already scanned are scanned again.
Waiting_Rescanned == {s \in Symbol : pc[s] \in {"wait", "done"}}

Waiting == {s \in Symbol : pc[s] = "wait"}

\* The next gather, when every task of the last one has returned.
NextBatch ==
  /\ phase = "scan" /\ Waiting # {}
  /\ \A s \in batch : pc[s] = "done"
  /\ \E B \in SUBSET Waiting :
       /\ Cardinality(B) = Least(BatchSize, Cardinality(Waiting))
       /\ batch' = B
  /\ UNCHANGED <<bookVars, leg, cycleVars, pc, plan, lock, threadVars, faults>>

EndCycle ==
  /\ phase = "scan" /\ \A s \in Symbol : pc[s] = "done"
  /\ phase' = "idle"
  /\ pc' = [s \in Symbol |-> "idle"]
  /\ plan' = [s \in Symbol |-> NoPlan]
  /\ batch' = {}
  /\ UNCHANGED <<bookVars, leg, seen, openCount, blocked, lock, threadVars, faults>>

Return(s) ==
  /\ pc' = [pc EXCEPT ![s] = "done"]
  /\ plan' = [plan EXCEPT ![s] = NoPlan]

\* The legs the task sees in the cached positions.
SeenLegs(s) == {l \in Leg : Base[l[1]] = Base[s] /\ seen[l] > 0}

\* The task's reasons to return before it evaluates: a leg without a row, hedge
\* legs, blocked entries without a position.
Unfit(s, row) ==
  \/ SeenLegs(s) # {} /\ row = NoRow
  \/ \E l, k \in SeenLegs(s) : l[2] # k[2]
  \/ blocked /\ row = NoRow

\* Up to evaluate_symbol.  Missing bars, a closed market, the blacklist or the
\* new-bar gate may also end the task.
Begin(s) ==
  /\ phase = "scan" /\ s \in batch /\ pc[s] = "wait"
  /\ Cardinality({t \in Symbol : pc[t] \in Busy}) < Concurrency
  /\ \E row \in Existing(s) :
       \/ Return(s)
       \/ /\ ~Unfit(s, row)
          /\ pc' = [pc EXCEPT ![s] = "begun"]
          /\ plan' = [plan EXCEPT ![s] = Plan("none", "BUY", row, 0)]
  /\ UNCHANGED <<bookVars, leg, cycleVars, batch, lock, threadVars, faults>>

\* Fault-seeded: one pyramid layer too many.
LayerFree_OffByOne(s) == layers[s] <= MaxLayers /\ MaxLayers > 0

LayerFree(s) == layers[s] < MaxLayers

\* evaluate_symbol: an entry only without a position and below the cap, a
\* pyramid add or an opposing flatten only with one.
Evaluate(s) ==
  /\ pc[s] = "begun"
  /\ LET row == plan[s].row
         Decided(act, side) ==
           /\ pc' = [pc EXCEPT ![s] = "evaluated"]
           /\ plan' = [plan EXCEPT ![s] = Plan(act, side, row, 0)]
     IN \/ Return(s)
        \/ row = NoRow /\ openCount < MaxPositions
           /\ \E side \in Side : Decided("enter", side)
        \/ row # NoRow /\ LayerFree(s) /\ Decided("pyramid", row.side)
        \/ row # NoRow /\ Decided("flatten", row.side)
  /\ UNCHANGED <<bookVars, leg, cycleVars, batch, lock, threadVars, faults>>

\* Fault-seeded: the rows of the other direction are counted.
SameDirection_Swapped(side) == OpenSymbols({r \in rows : r.side = Opposite(side)})

\* Distinct symbols with an open row in a direction.
SameDirection(side) == OpenSymbols({r \in rows : r.side = side})

\* The correlation cap, for entries only, and the exposure caps.
CheckDirection(s) ==
  /\ pc[s] = "evaluated"
  /\ \/ plan[s].act = "enter" /\ Return(s)
     \/ /\ plan[s].act = "enter" => Cardinality(SameDirection(plan[s].side)) < MaxSameDirection
        /\ pc' = [pc EXCEPT ![s] = "queued"] /\ UNCHANGED plan
  /\ UNCHANGED <<bookVars, leg, cycleVars, batch, lock, threadVars, faults>>

\* Fault-seeded: the cap is not checked again under the lock.
Admitted_NoRecheck(s) ==
  /\ plan[s].act = "flatten" => plan[s].row \in rows
  /\ plan[s].act # "flatten" => ~blocked

\* The tests under the lock: the cap with the freshest count, the row of a
\* flatten still open, entries not blocked.
Admitted(s) ==
  /\ plan[s].act = "enter" => openCount < MaxPositions
  /\ plan[s].act = "flatten" => plan[s].row \in rows
  /\ plan[s].act # "flatten" => ~blocked

\* What the loop has cached of the symbol's legs, the quantity of a flatten.
SeenSize(s) == MapThenSumSet(LAMBDA l : seen[l], SeenLegs(s))
OrderSize(s) ==
  IF plan[s].act # "flatten" THEN EntrySize
  ELSE IF SeenSize(s) > 0 THEN SeenSize(s) ELSE plan[s].row.size

\* Fault-seeded: the orders are not serialised.
LockFree_Always == TRUE

LockFree == lock = "free"

\* The task gets _execution_lock; it keeps it while its order is in the thread.
TakeLock(s) ==
  /\ pc[s] = "queued" /\ LockFree
  /\ IF Admitted(s)
     THEN /\ pc' = [pc EXCEPT ![s] = "ordering"]
          /\ plan' = [plan EXCEPT ![s] = Plan(@.act, @.side, @.row, OrderSize(s))]
          /\ lock' = s
          /\ crossed' = IF \E o \in stray : o.sym = s THEN crossed \cup {s} ELSE crossed
     ELSE Return(s) /\ UNCHANGED <<lock, crossed>>
  /\ UNCHANGED <<bookVars, leg, cycleVars, batch, cleared, stray, faults>>

\* Fault-seeded: no check of the legs already open on the symbol.
MayOpen_Unguarded(s, side) == Works

\* The hedge guard of place_order; its fetch of the legs swallows errors.
MayOpen(s, side) ==
  \/ leg[s, Opposite(side)] = 0 /\ Works
  \/ leg[s, Opposite(side)] > 0 /\ Fault

\* place_order reads the legs in the executor thread and goes on to the margin
\* check and the maker's polling; the order that fills is sent seconds later.
Guard(s) ==
  /\ pc[s] = "ordering" /\ plan[s].act # "flatten" /\ s \notin cleared
  /\ MayOpen(s, plan[s].side)
  /\ cleared' = cleared \cup {s}
  /\ UNCHANGED <<bookVars, leg, cycleVars, taskVars, stray, crossed>>

\* Layer numbers no open row of the symbol has; there is room for one more row.
FreeLayers(s) == 1..MaxUnits \ {r.layer : r \in {q \in rows : q.sym = s}}

\* The rest of place_order in the executor thread, with the success it reports;
\* any order may be skipped or fail.  An entry may fill and report an error when
\* its stop cannot be placed and neither a protection check nor the emergency
\* close goes through.
PlaceOrder(s, p, ok) ==
  LET l == IF p.act = "flatten" THEN <<p.row.sym, p.row.side>> ELSE <<s, p.side>>
      Filled == /\ p.act # "flatten"
                /\ leg[l] + EntrySize <= MaxUnits /\ FreeLayers(s) # {}
                /\ leg' = [leg EXCEPT ![l] = @ + EntrySize]
  IN \/ ok /\ p.act = "flatten" /\ ReduceResult(l, p.size) # "refused"
        /\ leg' = Reduced(l, p.size) /\ Works
     \/ ok /\ Filled /\ Works
     \/ ~ok /\ Filled /\ Fault
     \/ ~ok /\ UNCHANGED leg /\ Works

\* Only a flatten changes a leg without its guard.
AfterGuard(p, clear) == p.act = "flatten" \/ clear \/ UNCHANGED leg

Release == lock' = "free"

\* The order is done; a failed one ends the task.
Execute(s) ==
  /\ pc[s] = "ordering"
  /\ \/ PlaceOrder(s, plan[s], TRUE) /\ pc' = [pc EXCEPT ![s] = "executed"]
        /\ UNCHANGED <<plan, lock>>
     \/ PlaceOrder(s, plan[s], FALSE) /\ Return(s) /\ Release
  /\ AfterGuard(plan[s], s \in cleared)
  /\ cleared' = cleared \ {s}
  /\ UNCHANGED <<bookVars, cycleVars, batch, stray, crossed>>

\* The row of a filled entry or add; an add takes a layer number not in use.
NewRow(s, k) == [sym |-> s, side |-> plan[s].side, layer |-> k, size |-> EntrySize]

Lowered(n) == IF n = 0 THEN 0 ELSE n - 1

\* The task resumes with a successful order: counters, release of the lock,
\* row and commit run without an await.  When the commit fails the session is
\* rolled back and an entry's slot is given back; layers stay as they are.
Settle(s) ==
  /\ pc[s] = "executed"
  /\ \/ plan[s].act = "enter"
        /\ \/ rows' = rows \cup {NewRow(s, 0)} /\ openCount' = openCount + 1 /\ Works
           \/ UNCHANGED <<rows, openCount>> /\ Fault
        /\ UNCHANGED layers
     \/ plan[s].act = "pyramid"
        /\ \/ \E k \in FreeLayers(s) : rows' = rows \cup {NewRow(s, k)} /\ Works
           \/ UNCHANGED rows /\ Fault
        /\ layers' = [layers EXCEPT ![s] = @ + 1]
        /\ UNCHANGED openCount
     \/ plan[s].act = "flatten"
        /\ \/ rows' = rows \ {plan[s].row} /\ Works
           \/ UNCHANGED rows /\ Fault
        /\ openCount' = Lowered(openCount)
        /\ layers' = PopLayers({plan[s].row})
  /\ Return(s) /\ Release
  /\ UNCHANGED <<closing, leg, phase, seen, blocked, batch, threadVars>>

-----------------------------------------------------------------------------
\* Stops and crashes.

\* The loop's tasks are gone; start() rebuilds the layers from the rows.
Restarted ==
  /\ phase' = "idle"
  /\ pc' = [s \in Symbol |-> "idle"]
  /\ plan' = [s \in Symbol |-> NoPlan]
  /\ batch' = {} /\ lock' = "free" /\ cleared' = {}
  /\ closing' = {} /\ layers' = RebuiltLayers
  /\ UNCHANGED <<rows, leg, seen, openCount, blocked, crossed>>

\* stop() cancels the tasks, but not the thread that executes an order.
Stop ==
  /\ phase # "idle" /\ Fault
  /\ stray' = stray \cup {[sym |-> s, plan |-> plan[s], clear |-> s \in cleared] :
                            s \in {t \in Symbol : pc[t] = "ordering"}}
  /\ Restarted

Crash ==
  /\ phase # "idle" /\ Fault
  /\ stray' = {}
  /\ Restarted

\* The thread goes on by itself, without the lock and beside a loop that was
\* started again: its guard, then its order.
StrayGuard(o) ==
  /\ o \in stray /\ o.plan.act # "flatten" /\ ~o.clear
  /\ MayOpen(o.sym, o.plan.side)
  /\ stray' = (stray \ {o}) \cup {[o EXCEPT !.clear = TRUE]}
  /\ UNCHANGED <<bookVars, leg, cycleVars, taskVars, cleared, crossed>>

StrayOrder(o) ==
  /\ o \in stray
  /\ \E ok \in BOOLEAN : PlaceOrder(o.sym, o.plan, ok)
  /\ AfterGuard(o.plan, o.clear)
  /\ stray' = stray \ {o}
  /\ UNCHANGED <<bookVars, cycleVars, taskVars, cleared, crossed>>

-----------------------------------------------------------------------------
Init ==
  /\ phase = "idle" /\ rows = {} /\ closing = {} /\ layers = [s \in Symbol |-> 0]
  /\ leg = NoLegs /\ seen = NoLegs /\ openCount = 0 /\ blocked = FALSE
  /\ pc = [s \in Symbol |-> "idle"] /\ plan = [s \in Symbol |-> NoPlan]
  /\ batch = {} /\ lock = "free" /\ faults = 0
  /\ cleared = {} /\ stray = {} /\ crossed = {}

Cycle ==
  \/ StartCycle \/ EndEmergency \/ Sync \/ SyncFails \/ CachePositions \/ BeginScan
  \/ NextBatch \/ EndCycle

Exits == \E r \in rows : EmergencyExit(r) \/ ManagedExit(r)

Task(s) ==
  \/ Begin(s) \/ Evaluate(s) \/ CheckDirection(s) \/ TakeLock(s)
  \/ Guard(s) \/ Execute(s) \/ Settle(s)

Next ==
  \/ Cycle \/ Exits \/ \E s \in Symbol : Task(s)
  \/ ExchangeReduces \/ Stop \/ Crash \/ \E o \in stray : StrayGuard(o) \/ StrayOrder(o)

Spec == Init /\ [][Next]_vars

\* The event loop runs every task that can run and the loop starts a cycle
\* again after each interval; exits, stops and crashes need not happen.
Fairness == WF_vars(Cycle) /\ \A s \in Symbol : WF_vars(Task(s))

FairSpec == Spec /\ Fairness

-----------------------------------------------------------------------------
\* Properties.

\* Every variable stays in its range.
TypeOK ==
  /\ phase \in {"idle", "emergency", "sync", "cache", "exits", "scan"}
  /\ rows \subseteq Row /\ closing \subseteq rows
  /\ layers \in [Symbol -> Nat]
  /\ leg \in [Leg -> 0..MaxUnits] /\ seen \in [Leg -> 0..MaxUnits]
  /\ openCount \in Nat /\ blocked \in BOOLEAN
  /\ pc \in [Symbol -> Busy \cup {"idle", "wait", "done"}]
  /\ \A s \in Symbol : plan[s].act \in Act /\ plan[s].row \in Row \cup {NoRow}
  /\ batch \subseteq Symbol /\ lock \in Symbol \cup {"free"}
  /\ cleared \subseteq Symbol /\ crossed \subseteq Symbol
  /\ faults \in 0..MaxFaults

\* "serialized across the parallel symbol tasks": no two tasks have an order in
\* the executor or a fill that is not settled.
OneOrderAtATime ==
  \A s, t \in Symbol :
    pc[s] \in {"ordering", "executed"} /\ pc[t] \in {"ordering", "executed"} => s = t

\* "so concurrent BUYs can't both pass the max-positions check and overshoot the
\* cap": the tasks of a scan never hold more symbols than the cap.
CapHolds == Cardinality(LiveSymbols) <= MaxPositions

\* Every entry on the exchange belongs to an open row, or to a fill that its
\* task has still to record.
OwnedSize(l) ==
  MapThenSumSet(LAMBDA r : r.size, {r \in rows : r.sym = l[1] /\ r.side = l[2]})
  + IF pc[l[1]] = "executed" /\ plan[l[1]].act # "flatten" /\ plan[l[1]].side = l[2]
    THEN EntrySize ELSE 0
LegsOwned == \A l \in Leg : leg[l] <= OwnedSize(l)

\* PYRAMID_MAX_LAYERS bounds the adds to one leg, although they are counted in
\* memory, forgotten with rolled back closes and rebuilt from rows; a fault may
\* cost one add more.
LayersBounded == \A l \in Leg : leg[l] <= EntrySize * (1 + MaxLayers + faults)

\* "Block accidental opposite-side legs": although an order fills long after
\* its guard has read the legs, a symbol is held both ways only when the loop
\* sent an order for it while the thread of one that a stop had left was still
\* at work: those two pass their guards side by side, outside the lock.
NoHedge == \A s \in Symbol : s \in crossed \/ leg[s, "BUY"] = 0 \/ leg[s, "SELL"] = 0

\* "Correlation cap: max open positions (distinct symbols) in the SAME
\* direction."  It is tested before the lock, so the tasks of one gather may
\* pass it together; what other symbols hold in that direction leaves room for
\* whatever a task opens.
Opens(l) == leg[l] = 0 /\ leg'[l] > 0
HeldOutside(side) == {s \in Symbol \ batch : leg[s, side] > 0}
DirectionCap ==
  [][\A l \in Leg : Opens(l) => Cardinality(HeldOutside(l[2])) < MaxSameDirection]_vars

\* A scan comes to its end: semaphore, lock and gather never wait for each
\* other forever.
ScanEnds == phase = "scan" ~> phase # "scan"

\* A leg that no row owns, after a lost commit, a stop or a crash, is adopted
\* by a later cycle or gone from the exchange.
OrphanAdopted == \A l \in Leg : (l \in Orphans) ~> (l \notin Orphans)
=============================================================================
