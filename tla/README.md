# Verification of the trading platform

TLA+ models, TLC runs and TLAPS proofs for the parts of the platform that decide
whether an order goes out, what is held on the exchange, and what protects it.
The models are translated from `src/`; line numbers below and in `PROJECT.json`
are lines of that tree.

| module | models | proofs |
| --- | --- | --- |
| `Sentry` | trading halt, resume, watchdog container, gate of the loop | `SentryProofs` |
| `HaltSwitch` | abstract: what the halt flag promises | refined by `Sentry`, proved |
| `SentryFile` | how `trading_status.json` is written by several writers | `SentryProofs` |
| `StatusCell` | abstract: what an atomic write promises | refined by the lone writer, proved |
| `Admission` | a cycle of the live trading loop, up to every order and its row | `AdmissionProofs` |
| `Protection` | the stop of one leg: placed, replaced, restored | `ProtectionProofs` |
| `Orders` | one leg's orders and rows: loop, order poller, dashboard side by side | `EntriesProofs` |
| `PaperTrading` | the paper engine: books, orders, fills, database rows | `UnifiedTradingProofs` |
| `UnifiedTrading` | the router in front of it: session, mode, guard (extends `PaperTrading`) | `UnifiedTradingProofs` |
| `Ledger` | abstract: an account that buys and sells one symbol | refined by `UnifiedTrading`, proved |
| `Candidates` | the signal candidate engine | `EntriesProofs` |
| `CtraderSession` | sockets and flags of the cTrader session | `CtraderProofs` |
| `CtraderBook` | cTrader orders, events, position cache, rows | `CtraderProofs` |
| `CtraderExits` | the stop of a cTrader position and its exit manager | `CtraderExitsProofs` |
| `Sums` | lemmas about sums over sets | for `Candidates`, `Orders` and `Admission` |
| `MC...` | model values and definitions of the TLC instances | |

Run a configuration with `tlc -config MCAdmission_scan.cfg MCAdmission`, a proof
module with `tlapm AdmissionProofs.tla`. `runs` in `PROJECT.json` lists them all.

## 1. Inventory

### Parts that move money

**Trading halt** (`services/sentry_state.py`, `sentry_emergency.py`,
`sentry_resume.py`, `routes/sentry.py`). *State*: `trading_status.json`, with
`ACTIVE`, `HALTED_BY_SENTRY` or `HALTED_MANUAL` and who set it when.
*Operations*: manual halt (flag only), emergency halt (flag, then every position
closed and entry orders cancelled), operator's resume, watchdog's auto-resume
(reconcile, restore protection, write `ACTIVE`). *Interactions*: HTTP routes, the
watchdog, `replace_stop_loss` in an executor thread, the gate of the trading
loop. *Hard*: `safe_resume` awaits between reading and writing the flag; a
request outlives its client's timeout; both containers write the file.
*Correct when*: a manual halt survives everything but an operator; an outage
ends in a halt; a halt by the sentry ends by itself, a manual one does not; a
torn file halts.

**Sentry watchdog** (`sentry_watchdog/`). *State*, in memory: consecutive
failures and healthy polls, time of the last emergency, start of the grace
period. *Operations*: poll, post the halt, halt locally when that fails, post
the resume. *Hard*: restarts in the middle of an outage, timeouts that race
answers, cooldown and thresholds that could stick.

**Trading loop** (`services/trading_loop.py`). *State*: `_open_count`,
`_pyramid_layers`, `_cycle_positions`, `_entries_blocked`, the semaphore,
`_execution_lock`; Trade rows in the database. *Operations*: a cycle = gates,
emergency exits, sync with the broker, managed exits, a scan in batches with
one task per symbol (evaluate, caps, lock, order in a thread, counters, row,
commit), stop and start. *Interactions*: the decision engine decides, the broker
executes, the exchange fills stops meanwhile. *Hard*: tasks interleave at every
await, positions are cached for a whole cycle, a commit may fail after an order
filled, `stop()` cannot stop the executor thread. *Correct when*: orders are
serialised, caps hold, every leg has a row, no symbol is held both ways, the
scan ends.

**Loop helpers** (`services/trading_loop_helpers.py`). `run_emergency_exits`,
`sync_positions` (adopts legs without rows, closes rows without legs),
`TrailingStopManager`, `ExchangeProtectionManager`, layer bookkeeping. *Hard*:
a fetch that fails looks like no positions; one session commits several exits.

**Binance futures broker** (`services/binance_futures_service.py`). *State*: the
exchange's legs and orders; none of its own but caches. *Operations*:
`place_order` (hedge guard, entry, stop, emergency close), `replace_stop_loss`
(cancel, place, restore, emergency halt), `ensure_protective_orders`,
`_safe_create_order` (retries). *Hard*: every request may be executed without
an answer; only one closePosition stop is allowed (-4130), so a replacement
passes through a state without one; the event loop and the executor call it side
by side. *Correct when*: a leg that loses its stop gets one, or is closed, or
somebody is told; an emergency halt is called only for a leg that is naked.

**Decision engine** (`services/decision_engine.py`): which action a symbol may
take; in `Admission` by its guards only. **Symbol aliases**
(`services/symbol_aliases.py`): which symbols are quotes of one coin.

**Unified trading** (`services/unified_trading.py`). *State*: sessions with a mode
and a paper book; paper books (cash, reserved margin, positions) and orders in
memory; one database row per book. *Operations*: start a session, switch its mode,
route an order to a broker or to the book, place, fill and cancel paper orders,
reset and delete books, read a book back after a restart. *Hard*: the mode is
read twice; finding or creating a book takes three separate locks; a row is
written after the book and may fail. *Correct when*: no fill invents money, the
margin is that of the positions, the row has the book's cash, nothing reaches a
broker while `TRADING_MODE` is not live.

**Signal candidate engine** (`services/signal_candidate_engine.py`). *State*: the
store of candidates with their windows, in memory. *Operations*: scan, expire,
trim, cancel, clear, execute. *Hard*: an execution awaits the connection
and goes on with what it checked before. *Correct when*: one live candidate per
leg, an executed one keeps its leg from being armed again, the live ones stay
within the risk budget.

**Order poller and trade sync** (`binance_order_poller.py`,
`binance_trade_sync.py`). *State*: Trade rows. *Operations*: ask for the status of
open rows, write it back, cancel orphaned orders; mirror the live book into rows.
*Hard*: rows are loaded before an await and written after it, beside the loop and
the dashboard. *Correct when*: a leg that stays is owned and protected, one that is
gone leaves nothing behind.

**cTrader broker, poller, sync and exit manager** (`ctrader_*.py`): the second
venue, over one socket with a reactor thread. *State*: the session's flags, the
position cache, recent deals, rows with the original risk `r_distance`.
*Operations*: connect, enable, disable, reconnect; orders and their answers; events
and lists that replace the cache; reconciliation from two threads; amends by the
exit manager, the desk and the restoring of missing stops. *Hard*: answers carry no
request, amends are not awaited, old sockets share the flags. *Correct when*: a
session that says it is connected is, a paper desk stays on the demo host, rows and
cache end up as the broker has it, a locked profit stays locked.

**Manual trading routes** (`routes/trading.py`): orders, closes and stop changes from
the dashboard, beside the loop.

### Parts that let or stop

**Risk guard** (`risk_guard.py`): daily loss, drawdown and exposure against
snapshots of equity; raises to end a cycle. **Circuit breaker**
(`broker_circuit_breaker.py`): consecutive errors and time of re-opening for each
broker, called from several threads. **Trading mode, risk configuration**:
environment switches. **Entry gates** (`event_risk_filter.py`, `timing_guard.py`,
`kronos_gate.py`), **position manager** (`position_manager.py`): predicates over
bars, news and forecasts. **Model promotion** (`ml/promotion_gates.py`,
`ml/promotion_service.py`, `ml/holdout_registry.py`): gates in order, a holdout
spent once and recorded in a file.

### Parts that inform

**Opinion layer, hedge-fund agents, LLM router**: language-model calls with
fallback between providers. **Sentiment, news and feed schedulers, market data,
websocket, wallet poller**: periodic input into caches. **Trade memory, skills,
shadow tracking, backtesting, strategies, model training**: numerical or learning
code outside the order path. **Database, other routes, notifications, front end,
sidecars, deployment**: storage, input and output.

Every one of them is in `PROJECT.json` under `components` with its status. None
of the informing parts is modelled: what they say is a free choice in
`Admission` and `Candidates`, so the safety properties hold whatever they say.

## 2. Modules and code

### Sentry

One variable per field that decides something: `status` and `haltAge`
(`trading_status.json`), `backend` (up, hung: alive but `/health` times out, or
down), `haltReq` (the watchdog's POST that the backend has not served yet),
`flattening` (emergency halts whose closes still run), `resume` (a program
counter per `safe_resume` coroutine), `loopPc`, `legs`, and the watchdog's
counters and program counter `wdPc`. `manual` is a history variable: what became
of the operator's last manual halt.

`safe_resume` (`sentry_resume.py:79-136`) is three actions, cut at its await:
`StartSafeResume` reads the status and tests it, `Reconciled` ends the
await, `ResumeWrite` writes `ACTIVE` without reading again. Between restoring
and writing the coroutine does not await, so it keeps the event loop
(`LoopFree`); executor threads and the watchdog still run. The watchdog's `run`
is cut where it waits for an answer: poll, resume request, second status request,
halt request, local halt, sleep. Time is counted in poll intervals and every
clock is capped at the threshold it is compared with, which is exact because
nothing else reads it.

The status file is atomic here. `SentryFile` looks inside: inodes, the names
`trading_status.json` and `.tmp`, an open descriptor per writer. `open(tmp, "w")`
empties whatever inode has the name, `write` puts the record there, `rename`
moves the name and raises when another writer has moved it. A record is small
enough for one `write(2)`. A reader that finds no record fails closed
(`sentry_state.py:67-85`). Two writers can tear each other's write, so the promise
`AtomicAlone` is about the times when no two writers have shared the `.tmp` since all were last at rest: each step
then is one of `StatusCell`, also on what an earlier crash left in the `.tmp`.

### Admission

One cycle: `phase` goes from `emergency` over `sync`, `cache` and `exits` to
`scan`; the risk guard, the kill switch and the sentry gate only decide whether
`StartCycle` happens. Each symbol's task has a program counter with the awaits of
`_process_symbol_inner`: `Begin` (up to the evaluation), `Evaluate`,
`CheckDirection` (caps before the lock), `TakeLock` (the tests under the
lock), `Guard` (the hedge guard of `place_order`, in its thread), `Execute` (its
order, seconds of margin check and maker polling later, with the success it *reports*),
`Settle` (counters, row, commit or rollback). Trade rows, exchange legs and the
cached legs are three separate variables because the code keeps them separately;
most properties relate two of them. A row closed in a session waits in `closing`
until `CommitExits`.

The exchange moves by itself (`ExchangeReduces`: stops, targets, partial fills
of targets, manual closes). A failed call, a failed commit, `stop()` and a crash
are `Fault`s, bounded by `MaxFaults`. An order whose task was cancelled is kept
in `stray` until its thread is done; it has a guard and an order of its own
(`StrayGuard`, `StrayOrder`), outside the lock and beside a loop that was started again.
`cleared` is who has passed the guard and not ordered yet; the history variable `crossed`
remembers the symbols for which the loop took the lock while a stray order of theirs ran.

Abstractions: quantities are units; fetch and processing of `sync_positions` are
one step; between guard and fill nothing but the outcome is kept of margin check
and maker order (`Orders` has their requests); the lock and the semaphore let any
waiting task go first, which allows
more than their FIFO queues do; exposure caps, bars, blacklist and cooldowns
are free choices to end a task; `max_positions` and `max_binance_positions` are
one constant. Paper mode and cTrader rows, partial take-profits and the
trailing stop are not in this module.

### Protection

One long leg (a short one is its mirror image). `stop` is the exchange's stop,
`rows` the stop levels of the leg's Trade rows, `price` the market. The two
threads that may call the broker at the same time are `loop` (the event loop:
synchronous calls there block it, so it makes one call at a time) and `executor`
(entries and adds under the lock). A call is a `job` and goes through `look`,
`cancel`, `place`, `restore`, `halt`, `verify`, `close`; each is one request to
the exchange or the run of code up to the next one. Trailing stop, adoption and
closing of rows need an idle executor: they belong to phases of the cycle in
which no task runs. Dashboard changes and the resume's restore do not.

A request can fail, or be executed without an answer: `Cancel` then gives up,
`Place` and `Restore` are sent again by `_safe_create_order` without a client
order id, and a second stop is refused. `armed` is a history variable: the leg
had a stop and nothing took it unnoticed.

Left out: take-profits, native trailing orders, precision and rounding retries,
the reads inside `ensure_protective_orders` (one step), leg look-ups that return
another side's quantity. Assumed of the exchange: it drops a
closePosition stop with its leg and refuses one for a flat leg.

### Orders

Who writes what, for one leg of one symbol: the exchange's leg, its protective
orders (`stops`) and the maker order of each entry (`order`); the loop with its
snapshot (`snap`), from `SyncFetch` over the exits to the entry; the order poller
(`poll`, `answer`); one dashboard request (`dash`); the Trade rows, oldest first. Each
of the three is cut at its awaits, the entry also between its requests, because it
runs in a thread. A maker entry (`_try_maker_entry`) is `Enter` (the post-only
request), `Wait`, `Cancel`, `Check`, then `TopUp` for what a partial fill lacks or
`Market` for all of it, `Protect`, `Record`. A row has a status, a reference to the
order it names and whether it knows stop and target.

`OthersCancel` is the emergency halt's `cancel_non_protective_orders`, or the
operator: the resting order goes while the entry waits for it. Where stops may be
placed is `Protection`'s subject and who may enter `Admission`'s.

### PaperTrading, UnifiedTrading, Ledger

`PaperTrading` has the engine's operations, each one step because each holds the
engine's lock, except finding a book: `Reuse` (in memory), `Load` (from its row),
`Create` and `Persist` (its row) are separate. A side's position is a quantity and
its cost (quantity times basis), and `used` is margin times leverage: both are what
the code divides again, so that whole numbers are enough. `Fill` is
`_fill_order_locked`: the opposite side is closed first, what is left opens or
averages. `stale` marks a book that its row need not match: a commit failed, the
book was reset, it was filled before its row, or "`row.cash or balance`"
(`unified_trading.py:243`) gave it the initial balance.

`UnifiedTrading` adds a session, callers with a program counter and a `job`, and
`init_session` and `switch_mode` by `Admin`. An order is `Submit`ted, guarded
(`Guard`: the mode is read), routed (`Route`: it is read again) and ends at a broker
(`Live`) or in the book (`Paper`). A guarded order without a book goes through
`Find`, `Lookup`, `Make`, `Keep` and `Assign`. `Restart` forgets everything but the
rows.

`Ledger` knows no sides, averages or margins: what is held, what was paid, a fee
for whatever reduces what is held. `LedgerRefined` says each fill of a book is one
trade of that account: `held` is long minus short, `money` the cash less the initial
balance, less what the positions cost. Its quantities are `Lots`: those orders are
placed with and every part of what a running request asks for.

### Candidates

Candidates in memory with leg, status, window, risk and the time of their end. A
scan awaits its data first and then checks and inserts in one step (`Insert`), with
all that goes before it; `Prune` is both prunings with their trimming to
`max_candidates`; `GetReady` the reading that opens windows. `execute_candidate` is
cut at its only await: `Execute` checks, `Success` and `Failure` do what follows the
placement, on a candidate that may have left the store (`job` keeps the object).
`seen` is which legs the cache or a row shows a position of, which may change at any
time. Every refusal leaves the state as it is, so whatever only refuses (spreads,
cooldowns, caps on symbols and currencies) needs no step.

### CtraderSession, CtraderBook, CtraderExits

`CtraderSession`: sockets by number, each `free`, connected, asking for its accounts,
`mute` (an attempt that failed and was left open), `live` or `closing`; the one set
of flags that all of them write; callers at the connect lock (poller, desk,
reconnect threads). `Connect` … `ConnectFailed` are `_connect_once` and its loop,
`TcpUp`, `WrongHost`, `Authenticated`, `ErrorRes`, `Lost` the handlers.

`CtraderBook`: requests (`asked`) and messages (`wire`) in order over one socket (an old
socket that is still open beside it is in `CtraderSession` only); orders the broker is
`working` on and its `open` positions. An order is accepted (`Answer`), which already
tells `place_order` the position's id and asks for a list (`ctrader_service.py:342-352`,
`:395`), and fills or ends in a later step (`Fill`), so that a list may come in between.
Every list replaces the cache and every event asks for a new one; `loop` and `react` are
the reconciliations of the two threads, which plan on the rows they read (`Plans`) and
write later (`Commit`). An answer carries no request: `Ack` gives it to whoever waits.

`CtraderExits`: one long position, prices in ticks from its entry. The broker's `stop`
is known to nobody; the manager (`Exits`) compares the cached one with break-even and
the trail, clamps, sends without waiting, and `Commit` stores R. `Restore` is
`restore_missing_stops`, `Again` the second reading of the positions that follows it,
`Desk` an amend from the dashboard. A session that is back may be `dry`: it
authenticated after its attempt had timed out, is connected, and only simulates amends
(`:1264`, `:1798`). The poller does not end that; `Redial` is an order or the desk, which do. A
close ends the position and the model. Two history variables: `early`, an amend
went out while R was on no record and, if it was the manager's, was not recorded by its
own session; `tight`, the manager measured an R below the broker's stop level, which
takes an `early` amend.

The three share the connection in the code; here each has what it needs of the
others as a free choice: `CtraderBook` and `CtraderExits` lose and regain the session
at any time, `Candidates` sees any cache.

## 3. What the runs show

| run | question | instance | distinct states |
| --- | --- | --- | --- |
| `sentry_halts` | does a manual halt hold, is the flag a switch, do outages halt and halts by the sentry end, does a halt end the cycles | two auto-resumes in flight, two faults, thresholds 2, cooldown 3 | 116 762 |
| `sentry_race` | does an auto-resume leave a manual halt alone | one auto-resume, two faults | **violated** |
| `file_failclosed` | can mixed writes or a crash allow trading by mistake; is a lone write atomic | loop, thread and watchdog, five inodes, a crash | 93 424 |
| `admission_scan` | serialised orders, both caps, every leg owned, scan ends | three symbols, two quotes of one coin, two batches, two tasks, legs that can be cut | 183 220 |
| `admission_faults` | no hedge, layers bounded, orphans adopted | one symbol, a layer, one fault anywhere, guards and fills apart | 157 506 |
| `protection_naked` | is a lost stop accounted for and restored | two levels, two faults | 75 935 |
| `orders` | is an entry bounded, a leg owned, a gone one cleared | an entry of two units, two faults | 287 380 |
| `paper_trading` | does no fill invent money, are margin and rows right, does the guard hold | two callers, two books, two orders, one fault | 217 510 |
| `candidates` | one live candidate per leg, the brake, the budget | two candidates, two legs, two executions at once | 451 918 |
| `ctrader_session` | is a session real, does paper stay on demo, does it come back | four sockets, four callers, every kind of account, one fault | 57 496 |
| `ctrader_book` | is the cache current, do rows converge | two orders, one of them filled before, five rows, one fault | 260 116 |
| `ctrader_exits` | is R kept, profit locked, a stop restored, a winner at break-even | a loss, 1 R and 1.5 R, one amend by the desk, one fault, sessions in dry-run | 775 507 |

Every run passes but `sentry_race`, and every property of a passing run has a
mutant in `PROJECT.json`: a plausible bug, defined before the code's own operator (its
comment begins with `Fault-seeded`), that breaks it.

The deeper properties, in words:

* `ManualHaltHolds`: a manual halt that met no resume in flight and was not
  written over is in force until an operator resumes. `HaltSwitchRefined`: every
  run of the sentry is a run of `HaltSwitch`, so trading is allowed again only
  with a grant given while it was halted, used once; a late request, a second
  coroutine or a restart makes no exception.
* `OutageHalts`, `AutoRecovery`, `HaltDrains` (liveness): an outage that lasts
  ends halted; a halt by the sentry does not outlast a backend that stays healthy;
  a lasting halt leaves no cycle running.
* `HaltsFailClosed`: from halted to allowed only when somebody called a resume
  meanwhile, however the writes mix. `AtomicAlone`: a writer that met no other
  changes the file to its own whole record or not at all.
* `NoHedge`: an order fills long after its guard has read the legs, and still a symbol is
  held both ways only when the loop ordered for it beside a stray order (`crossed`).
* `CapHolds` and `LegsOwned` relate what the exchange holds to what tasks
  decided on stale caches; `OrphanAdopted` says a leg without a row does not stay
  so; `LayersBounded` that layers forgotten, rebuilt and counted in memory never
  let a leg outgrow its layers by more than one entry per fault. `DirectionCap` is
  what a cap that is tested before the lock still promises: a task opens a direction
  only when the symbols outside its own batch leave room.
* `NakedAccounted`: between cancel and create somebody always owes the leg a stop,
  or the halt was called; only a lost cancel answer or a crash can hide a loss.
  `NakedRestored`: then the cycle's check puts one back, unless the price is past
  the row's stop.
* `EntryBounded`: what is held and what still rests never exceed one entry and one
  more for each fault. `HeldIsOwned`, `GoneIsCleared` (liveness): whatever poller,
  dashboard and loop write over each other, a leg that stays ends up with a live row
  and, if a row knows its levels, a stop; one that is gone ends up without rows and
  orders.
* `CashStored`: the row has its book's cash however finding, creating, storing and
  trading interleave. `GuardHolds`: only an order that was guarded in paper mode can
  slip to a broker, in the window between the two reads.
* `OneArmedPerLeg`, `BrakeHolds`, `ExecutedKept`: no second live candidate, no live
  one on a leg executed within the day, and no pruning, trimming or cancelling that
  takes that memory away. `WithinBudget`: over its budget the engine goes only when
  the account loses or an execution sizes anew, and then it adds nothing.
* `OnlineIsReal`: stale sockets share the flags, and still a session that says it
  is connected sends on a live one. `Online` (liveness): after the last fault it comes
  up and stays, if the account may be used.
* `CacheCurrent`, `ReactorSees`, `Converges`: once everything has arrived the cache
  is the broker's book; the reactor thread plans to close the only row of an open
  position only on a list from before the fill, while the fill that asks for the next one is
  on its way; duplicates, missing rows and rows closed on an old snapshot do not
  last.
* `RIsOriginal`, `LockKept`: the R on record is the entry's unless a stop was
  changed before (`early`), and the manager never takes a locked profit back unless the
  R it measured was inside the stop level (`tight`). `StopRestored`, `BreaksEven`
  (liveness): once the market is calm and the session does not simulate, a missing stop is
  there and a winner's is at the entry or better. The first speaks of prices at which the
  restored stop, which is at most `MaxDist` below the entry, can rest.

**Bounds.** `Sentry`: two auto-resumes, because the 30 s timeout lets a second start
while one reconciles, and a third adds no new pair; thresholds of two, so that a
counter can be reset half way; a cooldown longer than the threshold, so that it
bites; two faults are an outage and an operator, two operators, or an outage and a
watchdog restart. `SentryFile`: three writers and five inodes, one more than can be
open and named at once. `Admission`: three symbols in two batches of two, with two
slots, let a batch fill up what the next one re-checks; entries of two units let the
exchange cut a leg in half; `MaxUnits` caps a leg and its rows. Two faults in the
fault run (3.1 million states, for `LayersBounded`) and two symbols without layers
(98 000 up to symmetry, for `NoHedge`) gave the same answers. `Protection`: two stop levels are one to lose and one to
win; with three order ids one is always free. `Orders`: an entry of two units can fill
in part; two entries with one fault (3.4 million states) keep the invariant
too. `PaperTrading`: a purchase of two and a sale of three flip a position, a reduction
without a price fills at the mark, and one fault leaves room for a restart or a failed
commit between any two steps; two books are what two callers may create of one name.
`Candidates`: two objects and two legs are a twin and a stranger, two callers a race, a
store trimmed at one. `CtraderSession`: four sockets are the live one, a stale one and
one for either caller that dials. `CtraderBook`: an old order and a new one are what
an answer can be mixed up between. `CtraderExits`: the prices are a loss, 1 R and far enough for the trail, a lag of one
message at each poll. `MaxFaults` (`MaxMishaps` in `CtraderBook`) bounds failures and what others do
out of turn, never the operations themselves.

**Fairness.** `Sentry`: the watchdog polls forever (`while True`), asyncio runs
coroutines that are ready, a cycle ends, and a reconciliation that is tried over
and over succeeds over and over (strong fairness). No operator, outage or recovery
is obliged to happen; the liveness properties say under which of them they hold.
`Admission`: the loop starts a cycle again after its interval and a runnable task
runs (weak fairness of `Cycle` and of each `Task`); no exit, stop or fault is
obliged. `Protection`: a call that was begun goes on (weak), and the cycle checks
every row again and again while trading is not halted (strong, since the leg may
have its stop in between). `Orders`: loop and poller go on with their rounds; nobody
is obliged to fill, close, enter or look at the dashboard. `CtraderSession`: callers
go on, the poller asks again (`while True`), a cooldown ends, a dialled host answers
in some way. `CtraderBook`, `CtraderExits`: messages arrive in order, threads go on,
the poller polls, a lost session is back some time (`Online`), maybe in dry-run, which
nobody has to end; no accepted order fills, no price moves, nothing closes. Nothing is
assumed of prices or of the exchange.

**Deadlock** is checked in the runs of `Sentry`, `SentryFile`, `Admission`,
`Protection`, `Orders` and `CtraderExits`, whose pollers and cycles never stop, and none is found. It is
not checked where the system may really come to rest: no order id is left
(`paper_trading`), the clock is at its bound (`candidates`), a session is up and no fault
left (`ctrader_session`), rows and book agree (`ctrader_book`).

## 4. Findings

`AutoResumeSkipsManual` (`sentry_race`): `safe_resume` reads the status, awaits, and
writes `ACTIVE` without reading it again; a manual halt set during the await is lost,
although its docstring says an auto-resume "only clears HALTED_BY_SENTRY"
(`sentry_resume.py:88`).

Observed while modelling, without a run of their own. The properties above are stated
so that they hold beside them.

*Halt and admission.*

* `halt_trading` writes `HALTED_BY_SENTRY` over `HALTED_MANUAL`; the next
  auto-resume then ends what was a manual halt. `ManualHaltHolds` stops there.
* Backend and watchdog share one `.tmp`: one renames what the other has just emptied,
  and the other's rename raises, although `write_state` promises "Atomically persist
  trading status" (`sentry_state.py:100`). A reader of such a file fails closed; what is
  lost is the record, and the flatten that follows `halt_trading` when its rename raises.
* A cycle past the gate still opens positions after a halt and its flatten; what
  holds is `HaltDrains`. The flatten itself may leave legs open when a close fails.
* An entry that filled but reports an error takes no slot
  (`binance_futures_service.py:1178-1190`), the next task takes it again: with faults the
  position cap can be passed.
* The direction cap is tested before the lock only (`trading_loop.py:1348`). With
  `SYMBOL_CONCURRENCY` above its default of 1 (`.env.example` sets 2) tasks of one
  gather pass it together.
* The re-fetch after a refused emergency close swallows errors and answers "flat"
  (`trading_loop_helpers.py:194`), so the branch for an unverified close is never
  reached and a row may be closed while its leg stays.
* A stop placed by a timed-out request makes retry and restore fail with -4130
  (`binance_futures_service.py:1740`), and every position is closed although the leg has
  its stop; `place_order` treats the same answer as success.
* With pyramiding, an opposing flatten closes the whole cached leg but one row and
  lowers the count by one; later adds revive the leg and the cap can be passed.
  `admission_scan` therefore has no layers.
* With two quotes of one coin a pyramid add goes to the scanned symbol, not to the
  row's, and both quotes may be entered in one cycle.
* A stop and a start while an order is in its thread are enough to hold a symbol both
  ways: the stray order runs outside the lock (`trading_loop.py:574`), and it and an opposite
  one of the new loop may pass their guards before either fills
  (`binance_futures_service.py:950`, then `:978` and the maker's polling). `NoHedge`
  leaves out just these symbols. Beside them it takes two faults, a lost commit and a
  swallowed fetch.
* A trailed stop more than 15 % in profit is refused as implausible by
  `ensure_protective_orders`; `NakedRestored` speaks of plausible levels only.
  A naked leg beyond its row's stop is neither protected nor closed by it. A trailing
  stop that the exchange refused leaves the row ahead of the exchange until the next
  improvement.

*Orders and rows.*

* A resting maker order that somebody cancels, the emergency halt included, is replaced
  by a full MARKET entry although trading is halted; a post-only request or a cancel
  whose answer is lost leaves an order resting beside the MARKET one. The docstring
  (`binance_futures_service.py:1343`) says the worst case is the behaviour without maker
  entries.
* The poller writes the status it asked for over whatever the row has become: a row
  closed meanwhile is alive again until the next sync, and a live leg whose maker order
  filled in part is marked "failed" until it is adopted.
* `_cancel_orphaned_orders` fetches positions, then orders: a leg opened in between
  loses its fresh stop. `sync_positions` strips orders after awaiting the exit price, with
  the same effect.
* A dashboard read between a fill and the commit of its row writes a second row,
  without stop and target; the sync then does not adopt the leg, and
  `ensure_exchange_protection` skips it (compare the comment at
  `trading_loop_helpers.py:360`).
* A sync that sees an empty book closes nothing.

*Paper trading.*

* A restart loses the positions of a book although it is reused "so restarts do not
  reset PnL" (`unified_trading.py:205`), and a book without cash is given the initial
  balance (`:243`). A reset or deletion does not reach the row.
* `switch_mode` finds its book again with leverage 1. Two guarded orders may create two
  "fallback" books, and one may trade on a book whose row is not there yet.
* `reduce_only` skips the margin check and is not enforced after it.

*cTrader.*

* Answers are given to whoever waits (`ctrader_service.py:1511`): the late rejection of an
  order that timed out can be given to the next one, which then is reported as an error
  although it fills. The docstring at `:1707` warns of just that misreport. The row is
  recreated from the broker's list later, without `r_distance`.
* A list answered between an order's accept and its fill lacks the position, whose row may
  have its id from the accept already, and the grace is for rows without one
  (`ctrader_trade_sync.py:387`): reactor and poller then close the row of a live position until
  the list after the fill. The poller also does so on an older snapshot.
* `get_recent_deal` falls back to the symbol's last
  deal, which may be another position's. A row of an order that never filled stays open
  while the broker's book is empty.
* A late authentication after a timeout leaves `dry_run` set while connected, and the
  next caller stacks a second session; the loss of a stale socket takes the live
  session's flags down; `disconnect()` leaves the socket open. A live account that is
  confirmed but run in paper mode is sent from host to host for ever, which the premise
  of `Online` leaves out. `/ctrader/disable` lasts until the next poll
  (`ctrader_service.py:1113`).
* With a cache that lags, the exit manager loosens a stop and overwrites a better one by
  the desk, although "the ratchet only ever tightens stops, never loosens them"
  (`ctrader_exit_manager.py:13`). It does not go back to the losing side (`LockKept`). Its
  amends carry only the stop, which per `routes/trading.py:1915` clears the target. A
  first commit that fails after its amend lets R be measured from the moved stop, and so
  does, without any failure, an amend by the desk or a restored stop before the first pass
  (`early`), although R is documented as the original distance that "prior amends can never
  shrink". Amends far in profit are refused as implausible.
* `restore_missing_stops` "places a broker-legal stop" (`ctrader_service.py:1869`), but what
  it computes is clamped around the entry: for a position that has lost more than the
  maximum distance the stop is at or past the market, and is refused for ever. In a session
  that authenticated late it is simulated, minute after minute, until an order or
  the desk connects anew.

*Candidates.*

* `execute_candidate` asks for no status: a cancelled or executed one can be executed
  again, and two executions at once both pass, which stacks a position the comment at
  `signal_candidate_engine.py:1682` means to prevent. Executing an executed one after its
  window makes it `EXPIRED` and takes the brake away, although such rows are never to be
  evicted (`:658`). A candidate pruned during the await leaves no brake.
* The cTrader execution checks the budget with the scan's risk and sizes anew
  afterwards (`:1695`, `:1756`).

*Outside the models.* The websocket's ring holds the bar that is still forming after a
backfill (`binance_websocket.py:231`), against its docstring. The circuit breaker counts
only raised errors: a rejected order is a success to it (`routes/trading.py:1440-1573`). A
loop whose `init_session` raises during a supervised restart is "already running" to the
next attempt (`trading_loop.py:464`, `main.py:85-103`). A loss of more than 80 % between two
snapshots of equity is dropped by the risk guard as implausible.

## 5. What is proved

For all values of the constants, under the `ASSUME`s of the modules (thresholds
positive, bounds natural numbers, names of model values distinct; TLC evaluates
them in every run).

* `SentryProofs!Typing`, `ManualHaltStays` (`ManualHaltHolds`),
  `SentryImplementsHaltSwitch` (`HaltSwitchRefined`). The manual halt is not inductive
  alone: a resume already in flight would clear it. `HeldAlone` adds that a held
  manual halt sees no resume in flight; a new one by the watchdog is refused because the
  status is manual, one by an operator ends the obligation. For the refinement each step
  maps to `Halt`, `Grant`, `Resume`, `Drop` or a stutter: a halt keeps the grants,
  `StartSafeResume` is `Grant` or a stutter, a crash drops all grants at once.
* `SentryProofs!FileTyping`, `FailsClosed` (`HaltsFailClosed`), `Atomic`
  (`AtomicAlone`), for any set of writers and number of crashes. `Names` says where
  names and descriptors point; without a resume called for, no inode that can become the
  status file has a resume's record; a lone writer's inode has its own payload or nothing.
* `AdmissionProofs!OrdersSerialised` (`OneOrderAtATime`) and `TypeCorrect`, for any
  number of symbols, batches, tasks and faults: `LockInv` says whoever is ordering or
  executed holds the lock. Lemmas say what each kind of step does to lock and tasks.
* `AdmissionProofs!NeverHedged` (`NoHedge`, until a second fault), `EntriesOwned`
  (`LegsOwned`) and `AddsBounded` (`LayersBounded`), both until the first fault, for
  any symbols, batches and sizes with `Separate`: pyramid adds, or two quotes of one
  coin, but not both. Rows, legs, cached legs, decisions of tasks and the exits'
  session follow one another, so `Clean` relates all of them: a leg is backed by as many
  entries as it has rows outside the session, plus a fill not recorded yet; a symbol
  has one side and one row of each layer; a leg that outgrew its cached position is
  one a task of this cycle opened or added to; and what a task has found still holds while it
  decides and orders. For `NoHedge`: before any fault an entry finds nothing on the
  other side, and once the one fault is spent the hedge guard's own fetch cannot fail. What
  it found must last until the fill (`GuardsHold` in `Unhedged`): the lock keeps other tasks
  out of the symbol, and a stray order beside a new one is what `crossed` excludes.
* `AdmissionProofs!CapNeverOvershot` (`CapHolds`) and `DirectionHasRoom`
  (`DirectionCap`), without pyramid adds and without faults, for any number of symbols
  and quotes: `Capped` adds to `Clean` that the count is that of the symbols with rows and
  that whoever orders an entry found it below the cap under the lock; `Roomy`, that
  the room a task found in its direction before the lock can only be used up by its own
  batch. With pyramid adds `CapHolds` is not true in general: an add may open
  again a leg whose stop has just filled, after another symbol took its place in the count.
* `ProtectionProofs!ProtectionTyping`, `LostStopsAccounted` (`NakedAccounted`), for any
  number of levels, ids and faults. Typing needs that a call that goes on wants a real
  level (`Threads`) and that the exchange finds an unused id (`Fresh`). The invariant
  adds `OfOpenLeg` (stops, and the memory of one, belong to an open leg); `Accounts` lists
  the six ways in which a step keeps the books.
* `UnifiedTradingProofs!MarginIsKept` (`MarginKept`), `CashIsStored` (`CashStored`),
  `GuardIsKept` (`GuardHolds`), for any number of callers, books, orders, switches and
  faults, every fee, price and leverage. `Reserved` follows from the costs after every
  fill, since a fill never leaves both sides open. That the row has its book's cash needs
  `Creators`: only the caller that made a book stores it, and until then the book has
  its first balance or is marked. `Routed` carries what the guard saw.
* `UnifiedTradingProofs!BooksAreAccounts` (`LedgerRefined`), for every quantity, price
  and fee: the paper engine implements `Ledger`, whose quantities are those of the
  orders and their parts. Every step but a fill is a stutter of both books. A fill
  first closes n of q, then opens the rest; that both together are one trade at
  the price p is p*n + p*(q-n) = p*q, and a fee is due iff the holding shrinks. In a
  partial close what leaves the position's cost is what the profit is reckoned from, so
  that the division cancels whatever it is rounded to.
* `EntriesProofs!EngineTyping`, `OneArmed` (`OneArmedPerLeg`), `Braked` (`BrakeHolds`),
  `BrakeKept` (`ExecutedKept`), `BudgetHolds` (`WithinBudget`), for any number of
  candidates and executions and any size of the store. The first three are inductive
  together; `Passive` names the steps that neither arm nor execute. The budget is
  a sum over the live candidates, and `Sums` says what a sum loses, gains and
  keeps when its set or its terms change.
* `EntriesProofs!OrdersTyping` and `ExposureBounded` (`EntryBounded`), for every size
  of an entry, any number of entries and faults. `Covered` counts: what rests
  without an entry that waits for it was paid for by a fault; so was whatever
  a cycle does not see that is ready to enter; and what is held, rests and may yet be
  bought at the market is at most one entry more. Each way from the maker order to the
  market moves an amount from one of these to the next.
* `CtraderProofs!TypeCorrect`, `PaperDemo` (`PaperStaysDemo`), `SessionIsReal`
  (`OnlineIsReal`), for any number of sockets, threads and faults: whatever takes a
  connection down takes the flags down with it.
* `CtraderProofs!BookTyping`, `CacheFollows` (`CacheCurrent`), `ReactorIsCurrent`
  (`ReactorSees`), for any number of orders, rows, instruments and mishaps. `Current`:
  unless a list is asked for or an event that will ask for one is on its way,
  the last list on its way, or else the cache, is the broker's book. `Later`:
  behind a list on its way that lacks an open position that position's fill is on its way,
  since the broker tells of a fill when the position opens; so a row the reactor finds
  without its position, by the list it works on, was numbered by an accept. One socket is assumed: a list
  from an old session's socket is not in the model.
* `CtraderExitsProofs!TypeCorrect`, `RIsTheEntrys` (`RIsOriginal`), `RNeverShrinks` (an
  R on record never changes, without exception), `LocksProfit` (`LockKept`), for all prices,
  distances, stops of the desk, lags and faults. The first holds of positions whose stop
  nobody changed before R was on record (`early`), the last while no R measured was inside the
  stop level (`tight`). While R is
  on no record and the stop is untouched, every stop anybody knows of is the entry's or
  none (`Untouched`); an amend ends this with R in the session until it is committed
  (`Measured`); what the manager has sent and the broker has not seen yet protects a
  profit (`Profits`).

Only model-checked: all liveness properties (fairness and `ENABLED` are outside the
prover), and `LayersBounded` beside faults, which `admission_faults` checks with one and
one layer; with several at once rows of both sides may share the count of one
symbol, so nothing is claimed of them. Every
safety property of the passing runs has its theorem. The hypotheses of those of
`Admission` are where the promise ends in the code (section 4: a fill reported as an error
takes no slot, an add with two quotes goes to the scanned symbol), and they
cover the instances of both runs except for that one fault. No module declares a
recursive operator.

## 6. Not modelled

* *Parts of modelled files.* `binance_futures_service.py`: targets, native trailing, precision,
  rate limits. `trading_loop.py`: partial take-profits, cooldowns, paper and cTrader rows in the
  cycle. `routes/trading.py` is mostly read-only reporting. `ctrader_service.py`: symbols, spot
  prices, bars, margin arithmetic, token refresh, closing by request.
  `signal_candidate_engine.py`: how a candidate is found and sized, which decides only
  whether one is offered. They add no state that the properties are about, or their
  outcome is a free choice in the models.
* *Numbers and opinions*: indicators, strategies, market regime, sizing, hedge-fund agents,
  opinion layer, entry gates, sentiment and news, training, promotion, backtesting. They are
  the larger part of the source. Sequential, without state shared with the order
  path; the models let them say anything.
* *Risk guard, circuit breaker, position manager*: verdicts over numbers. What they do to the
  loop (no cycle, a stop, an exit) is in `Admission`. The circuit breaker is asked only
  by the manual smart order.
* *Market data and websocket*: what is read is any price and bar, so stale ones add nothing.
* *Storage, HTTP, notifications, registry, credentials, LLM router, front end, deployment*: input
  and output; commits and rollbacks are modelled where a component relies on them.
