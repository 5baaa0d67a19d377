----------------------------- MODULE Protection -----------------------------
(***************************************************************************)
(* The stop that protects one leg on the exchange: placed by place_order,  *)
(* moved by replace_stop_loss, put back by ensure_protective_orders.  The  *)
(* event loop (checks of the cycle, adoption, resume, dashboard) and the   *)
(* executor thread (entries and pyramid adds) call them side by side, and  *)
(* a call is cut between its requests to the exchange.                     *)
(*                                                                         *)
(* The leg is long: a higher stop is tighter, and a stop stands below the  *)
(* price.  A short leg is its mirror image.                                *)
(***************************************************************************)
EXTENDS Integers

CONSTANTS
  MaxLevel,   \* bound: stop levels, the price has one more
  Plausible,  \* levels within 15 % of the entry price
  Fallback,   \* the stop of an adopted leg, 3 % from its entry price
  OrderId,    \* bound: ids of stop orders, used again once nobody knows them
  MaxFaults   \* bound: failed or unanswered requests, crashes

Level == 1..MaxLevel
Price == 1..(MaxLevel + 1)

ASSUME ProtectionAssumption ==
  /\ MaxLevel \in Nat \ {0} /\ MaxFaults \in Nat
  /\ Plausible \subseteq Level /\ Fallback \in Level
  /\ "none" \notin OrderId
  /\ \A a, b \in OrderId \cup {"none"} : OrderId \ {a, b} # {}

VARIABLES
  open,    \* exchange: the leg is open
  stop,    \* exchange: its closePosition stop, at most one (-4130)
  price,   \* exchange: the price
  rows,    \* stop_loss of the open Trade rows of the leg
  pc,      \* program counter of each thread
  job,     \* what each thread's call is about
  alarmed, \* trigger_emergency_halt_sync was called
  armed,   \* history: the leg had a stop, and nothing took it unnoticed
  faults   \* failed or unanswered requests and crashes so far

exchangeVars == <<open, stop, price>>
vars == <<exchangeVars, rows, pc, job, alarmed, armed, faults>>

Thread == {"loop", "executor"}
NoOrder == [id |-> "none", level |-> 0]

\* What a call is for: ensure_protective_orders for a row or for an adopted
\* leg; replace_stop_loss by the trailing stop, by modify_position or inside a
\* pyramid add; place_order's own stop for an entry or an add.
Ensuring == {"ensure", "adopt"}
Replacing == {"trail", "modify", "tighten"}
Ordering == {"enter", "add"}
Op == Ensuring \cup Replacing \cup Ordering

\* op, the level wanted, the row's level, the level and id of the order found.
Job(op, want, row, old, id) == [op |-> op, want |-> want, row |-> row, old |-> old, id |-> id]
NoJob == Job("ensure", 0, 0, 0, "none")

Fault == faults < MaxFaults /\ faults' = faults + 1
Works == UNCHANGED faults

\* _has_exchange_stop.
HasStop == stop # NoOrder

-----------------------------------------------------------------------------
\* The exchange.

\* A new id: one that neither the exchange nor a thread knows.
FreshId == CHOOSE id \in OrderId : id # stop.id /\ \A t \in Thread : job[t].id # id

\* Whether the exchange takes a closePosition stop: -4130 for a second one,
\* -2021 for one that would trigger at once.
Accepts(level) == open /\ ~HasStop /\ level < price
StopPlaced(level) == stop' = [id |-> FreshId, level |-> level] /\ armed' = TRUE
StopKept == UNCHANGED <<stop, armed>>
LegGone == open' = FALSE /\ stop' = NoOrder /\ armed' = FALSE

\* The price moves; at the stop's level the leg is closed.
PriceMoves ==
  /\ price' \in Price \ {price}
  /\ IF open /\ HasStop /\ price' <= stop.level THEN LegGone ELSE UNCHANGED <<open, stop, armed>>
  /\ UNCHANGED <<rows, pc, job, alarmed, faults>>

\* A target, a managed exit, a flatten or the user closes the leg.
LegCloses ==
  /\ open /\ LegGone
  /\ UNCHANGED <<price, rows, pc, job, alarmed, faults>>

-----------------------------------------------------------------------------
\* Calls begin.

Begin(t, stage, j) ==
  /\ pc' = [pc EXCEPT ![t] = stage]
  /\ job' = [job EXCEPT ![t] = j]

\* A call ends; the rows become R.
End(t, R) ==
  /\ pc' = [pc EXCEPT ![t] = "idle"]
  /\ job' = [job EXCEPT ![t] = NoJob]
  /\ rows' = R

\* Fault-seeded: the side test of a short leg.
Missing_WrongSide(r) == open /\ ~HasStop /\ r \in Plausible /\ r > price

\* The stop that ensure_protective_orders wants to place for a row: none is there,
\* its level is plausible and on the right side of the price.
Missing(r) == open /\ ~HasStop /\ r \in Plausible /\ r < price

\* ensure_protective_orders up to its request, for one row: by the cycle's check,
\* at startup or by restore_all_open_positions at a resume.
Ensure(r) ==
  /\ pc["loop"] = "idle" /\ r \in rows
  /\ Missing(r)
  /\ Begin("loop", "place", Job("ensure", r, r, 0, "none"))
  /\ UNCHANGED <<exchangeVars, rows, alarmed, armed, faults>>

\* sync_positions adopts a leg without a row: with the stop it finds, else with
\* the fallback, which ensure_protective_orders skips on the wrong side of the
\* price.
Adopt ==
  /\ pc["loop"] = "idle" /\ pc["executor"] = "idle"
  /\ open /\ rows = {}
  /\ IF ~HasStop /\ Fallback < price
     THEN Begin("loop", "place", Job("adopt", Fallback, 0, 0, "none")) /\ UNCHANGED rows
     ELSE rows' = {IF HasStop THEN stop.level ELSE Fallback} /\ UNCHANGED <<pc, job>>
  /\ UNCHANGED <<exchangeVars, alarmed, armed, faults>>

\* sync_positions closes the rows of a leg that is gone.
DropRows ==
  /\ pc["loop"] = "idle" /\ pc["executor"] = "idle"
  /\ ~open /\ rows # {} /\ rows' = {}
  /\ UNCHANGED <<exchangeVars, pc, job, alarmed, armed, faults>>

\* apply_trailing_stop: the row's stop is raised first, whatever becomes of the
\* exchange's.
Trail(r, level) ==
  /\ pc["loop"] = "idle" /\ pc["executor"] = "idle"
  /\ r \in rows /\ level > r /\ level < price
  /\ rows' = (rows \ {r}) \cup {level}
  /\ Begin("loop", "look", Job("trail", level, r, 0, "none"))
  /\ UNCHANGED <<exchangeVars, alarmed, armed, faults>>

\* PUT /positions/{id}/modify, at any time.
Modify(r, level) ==
  /\ pc["loop"] = "idle" /\ r \in rows
  /\ Begin("loop", "look", Job("modify", level, r, 0, "none"))
  /\ UNCHANGED <<exchangeVars, rows, alarmed, armed, faults>>

\* place_order has filled an entry.  A stop on the wrong side of the price is
\* skipped and the order still succeeds.
Enter(level) ==
  /\ pc["executor"] = "idle" /\ ~open /\ rows = {}
  /\ open' = TRUE
  /\ IF level < price
     THEN Begin("executor", "place", Job("enter", level, 0, 0, "none")) /\ UNCHANGED rows
     ELSE rows' = {level} /\ UNCHANGED <<pc, job>>
  /\ UNCHANGED <<stop, price, alarmed, armed, faults>>

\* place_order has filled a pyramid add: a stop on the exchange is tightened,
\* else one is placed; a failed look at the orders counts as no stop.
Add(level) ==
  /\ pc["executor"] = "idle" /\ open /\ rows # {}
  /\ \/ level >= price /\ rows' = rows \cup {level} /\ UNCHANGED <<pc, job>> /\ Works
     \/ level < price /\ HasStop /\ Works /\ UNCHANGED rows
        /\ Begin("executor", "look", Job("tighten", level, 0, 0, "none"))
     \/ level < price /\ UNCHANGED rows /\ (IF HasStop THEN Fault ELSE Works)
        /\ Begin("executor", "place", Job("add", level, 0, 0, "none"))
  /\ UNCHANGED <<exchangeVars, alarmed, armed>>

-----------------------------------------------------------------------------
\* Calls go on.

\* Fault-seeded: a failed call records the level it went back to.
RowsAfterFailure_Restored(j) == (rows \ {j.row}) \cup {j.old}

\* The rows once a call has ended well, and once it has failed: modify_position
\* replaces its row's level, the others but ensure and the trailing stop add one.
\* A pyramid add succeeds whatever replace_stop_loss returned inside it.
RowsAfter(j) ==
  IF j.op \in {"ensure", "trail"} THEN rows ELSE (rows \ {j.row}) \cup {j.want}
RowsAfterFailure(j) == IF j.op = "tighten" THEN rows \cup {j.want} ELSE rows

\* The level replace_stop_loss would restore, 0 when it found no stop.
OldLevel == stop.level

\* replace_stop_loss up to its first change: a stop that is not below the price
\* (unless the ticker fails), not tighter than the exchange's or without a leg
\* is skipped; the trailing stop passes a quantity, so the leg is not looked up.
Look(t) ==
  /\ pc[t] = "look"
  /\ LET j == job[t]
         Ticker == IF j.want < price THEN Works ELSE Fault
     IN \/ (j.want >= price \/ (HasStop /\ j.want <= stop.level)) /\ Works
           /\ End(t, RowsAfterFailure(j))
        \/ Fault /\ End(t, RowsAfterFailure(j))
        \/ HasStop /\ j.want > stop.level /\ Ticker /\ UNCHANGED rows
           /\ Begin(t, "cancel", Job(j.op, j.want, j.row, OldLevel, stop.id))
        \/ ~HasStop /\ (open \/ j.op = "trail") /\ Ticker /\ UNCHANGED rows
           /\ Begin(t, "place", j)
        \/ ~HasStop /\ ~open /\ j.op # "trail" /\ Works /\ End(t, RowsAfterFailure(j))
  /\ UNCHANGED <<exchangeVars, alarmed, armed>>

\* The old stop is cancelled.  When the request fails, or its answer is lost
\* although the stop is gone, the replacement is given up.
Cancel(t) ==
  /\ pc[t] = "cancel"
  /\ LET j == job[t]
         there == stop.id = j.id
     IN \/ there /\ stop' = NoOrder /\ UNCHANGED <<armed, rows>> /\ Works
           /\ Begin(t, "place", Job(j.op, j.want, j.row, j.old, "none"))
        \/ there /\ stop' = NoOrder /\ armed' = FALSE /\ Fault /\ End(t, RowsAfterFailure(j))
        \/ StopKept /\ (IF there THEN Fault ELSE Works) /\ End(t, RowsAfterFailure(j))
  /\ UNCHANGED <<open, price, alarmed>>

\* Fault-seeded: the old stop is not restored.
AfterRefusal_NoRestore(op) == IF op \in Ordering THEN "verify" ELSE "idle"

\* Where a call goes on when its stop was not placed.
AfterRefusal(op) ==
  IF op \in Replacing THEN "restore" ELSE IF op \in Ordering THEN "verify" ELSE "idle"

Placeable(level) == Accepts(level) /\ StopPlaced(level)

\* _safe_create_order: a request that timed out is sent again, although the
\* exchange may have placed the stop; other errors are raised, and so is the
\* last timeout.
Place(t) ==
  /\ pc[t] = "place"
  /\ LET j == job[t]
         Raise == IF AfterRefusal(j.op) = "idle" THEN End(t, RowsAfterFailure(j))
                  ELSE Begin(t, AfterRefusal(j.op), j) /\ UNCHANGED rows
     IN \/ Placeable(j.want) /\ Works /\ End(t, RowsAfter(j))
        \/ ~Accepts(j.want) /\ StopKept /\ Works /\ Raise
        \/ StopKept /\ Fault /\ Raise
        \/ (Placeable(j.want) \/ StopKept) /\ Fault /\ UNCHANGED <<pc, job, rows>>
  /\ UNCHANGED <<open, price, alarmed>>

\* replace_stop_loss puts the old level back, if it knows one.
Restore(t) ==
  /\ pc[t] = "restore"
  /\ LET j == job[t]
         Raise == Begin(t, "halt", j) /\ UNCHANGED rows
     IN \/ j.old = 0 /\ StopKept /\ Works /\ Raise
        \/ j.old # 0 /\ Placeable(j.old) /\ Works /\ End(t, RowsAfterFailure(j))
        \/ j.old # 0 /\ ~Accepts(j.old) /\ StopKept /\ Works /\ Raise
        \/ j.old # 0 /\ StopKept /\ Fault /\ Raise
        \/ j.old # 0 /\ (Placeable(j.old) \/ StopKept) /\ Fault /\ UNCHANGED <<pc, job, rows>>
  /\ UNCHANGED <<open, price, alarmed>>

\* trigger_emergency_halt_sync, which closes every position; a close may fail.
Halt(t) ==
  /\ pc[t] = "halt"
  /\ alarmed' = TRUE
  /\ \/ LegGone /\ Works
     \/ open /\ UNCHANGED <<open, stop, armed>> /\ Fault
  /\ End(t, RowsAfterFailure(job[t]))
  /\ UNCHANGED price

\* place_order looks whether the leg has a stop after all; when the look fails
\* the leg is left open.
Verify(t) ==
  /\ pc[t] = "verify"
  /\ \/ HasStop /\ Works /\ End(t, RowsAfter(job[t]))
     \/ ~HasStop /\ Works /\ Begin(t, "close", job[t]) /\ UNCHANGED rows
     \/ Fault /\ End(t, rows)
  /\ UNCHANGED <<exchangeVars, alarmed, armed>>

\* The emergency close of place_order.
Close(t) ==
  /\ pc[t] = "close"
  /\ \/ LegGone /\ Works
     \/ open /\ UNCHANGED <<open, stop, armed>> /\ Fault
  /\ End(t, rows)
  /\ UNCHANGED <<price, alarmed>>

\* The backend dies between two requests.
Crash ==
  /\ Fault
  /\ \E t \in Thread : pc[t] # "idle"
  /\ pc' = [t \in Thread |-> "idle"] /\ job' = [t \in Thread |-> NoJob]
  /\ armed' = HasStop
  /\ UNCHANGED <<exchangeVars, rows, alarmed>>

-----------------------------------------------------------------------------
Init ==
  /\ open = FALSE /\ stop = NoOrder /\ price \in Price
  /\ rows = {}
  /\ pc = [t \in Thread |-> "idle"] /\ job = [t \in Thread |-> NoJob]
  /\ alarmed = FALSE /\ armed = FALSE /\ faults = 0

EnsureRows == \E r \in rows : Ensure(r)

Start ==
  \/ EnsureRows \/ Adopt \/ DropRows
  \/ \E r \in rows, level \in Level : Trail(r, level) \/ Modify(r, level)
  \/ \E level \in Level : Enter(level) \/ Add(level)

Step(t) ==
  Look(t) \/ Cancel(t) \/ Place(t) \/ Restore(t) \/ Halt(t) \/ Verify(t) \/ Close(t)

Next == PriceMoves \/ LegCloses \/ Start \/ (\E t \in Thread : Step(t)) \/ Crash

Spec == Init /\ [][Next]_vars

\* A call that was begun goes on, and while trading is not halted the cycle checks
\* every row again and again.
Fairness ==
  /\ \A t \in Thread : WF_vars(Step(t))
  /\ \A r \in Level : SF_vars(~alarmed /\ Ensure(r))

FairSpec == Spec /\ Fairness

-----------------------------------------------------------------------------
\* Properties.

\* Every variable stays in its range.
Order == [id : OrderId, level : Level]
Stage == {"idle", "look", "cancel", "place", "restore", "halt", "verify", "close"}
JobType == [op : Op, want : 0..MaxLevel, row : 0..MaxLevel,
            old : 0..MaxLevel, id : OrderId \cup {"none"}]
Ranges ==
  /\ stop \in Order \cup {NoOrder} /\ price \in Price
  /\ rows \subseteq Level
  /\ pc \in [Thread -> Stage]
  /\ job \in [Thread -> JobType]
  /\ faults \in 0..MaxFaults
TypeOK == Ranges /\ open \in BOOLEAN /\ alarmed \in BOOLEAN /\ armed \in BOOLEAN

\* "rather than leave it naked": when a leg has lost its stop, a replacement
\* under way still owes it one or the emergency halt has been called, unless a
\* crash or a lost answer to the cancel took the stop unnoticed.
Owing(t) == job[t].op \in Replacing /\ pc[t] \in {"place", "restore", "halt"}
NakedAccounted == armed /\ open /\ ~HasStop => alarmed \/ \E t \in Thread : Owing(t)

\* "Re-place missing exchange SL/TP from DB levels": a leg without a stop gets
\* one, unless it closes, its row goes, the price is beyond the row's stop or the
\* emergency halt has stopped the cycles.
NakedRestored ==
  \A r \in Plausible :
    r \in rows /\ open /\ ~HasStop ~>
      HasStop \/ ~open \/ r \notin rows \/ price <= r \/ alarmed
=============================================================================
