-------------------------- MODULE AdmissionProofs --------------------------
(***************************************************************************)
(* What a cycle of the trading loop keeps, for every universe of symbols,  *)
(* every batch size and concurrency, and every cap:                        *)
(*                                                                         *)
(*   whatever fails   types, and the execution lock (OrdersSerialised);    *)
(*   until a failure  every entry has its row (EntriesOwned) and adds are  *)
(*                    bounded (AddsBounded);                               *)
(*   until a second   no symbol is held both ways unless a stop left an    *)
(*                    order beside a new one (NeverHedged);                *)
(*   and without      the cap and the correlation cap hold                 *)
(*   pyramid adds     (CapNeverOvershot, DirectionHasRoom).                *)
(*                                                                         *)
(* The inductive invariants are LockInv, Typed, Clean, Unhedged, Capped    *)
(* and Roomy.                                                              *)
(***************************************************************************)
EXTENDS Admission, Sums

\* A task with an order in the thread, or a fill not settled, holds the lock.
InOrder == {"ordering", "executed"}
Phases == Busy \cup {"idle", "wait", "done"}
LockInv ==
  /\ pc \in [Symbol -> Phases]
  /\ \A s \in Symbol : pc[s] \in InOrder => lock = s

\* A task that is not past the lock goes on to a place that is not past it.
LEMMA BeforeLock ==
  ASSUME NEW s \in Symbol, NEW x \in Phases \ InOrder, LockInv,
         pc' = [pc EXCEPT ![s] = x], lock' = lock
  PROVE  LockInv'
  BY DEF LockInv, InOrder

\* The holder gives the lock back as it returns.
LEMMA GivesBack ==
  ASSUME NEW s \in Symbol, LockInv, pc[s] \in InOrder,
         pc' = [pc EXCEPT ![s] = "done"], lock' = "free"
  PROVE  LockInv'
  BY DEF LockInv, InOrder, Phases

\* No task of a new cycle is past the lock.
LEMMA NoneInOrder ==
  ASSUME NEW x \in Phases \ InOrder, pc' = [s \in Symbol |-> x]
  PROVE  LockInv'
  BY DEF LockInv, InOrder

\* A step that touches neither lock nor tasks.
LEMMA SameTasks ==
  ASSUME LockInv, UNCHANGED <<pc, lock>>
  PROVE  LockInv'
  BY DEF LockInv

\* A task's step keeps the invariant of the lock.
LEMMA TaskKeepsLockInv ==
  ASSUME AdmissionAssumption, NEW s \in Symbol, LockInv, Task(s)
  PROVE  LockInv'
<1>1. "done" \in Phases \ InOrder /\ "begun" \in Phases \ InOrder
      /\ "evaluated" \in Phases \ InOrder /\ "queued" \in Phases \ InOrder
  BY DEF Phases, InOrder, Busy
<1>2. CASE Begin(s)
  BY <1>1, <1>2, BeforeLock DEF Begin, Return
<1>3. CASE Evaluate(s)
  BY <1>1, <1>3, BeforeLock DEF Evaluate, Return
<1>4. CASE CheckDirection(s)
  BY <1>1, <1>4, BeforeLock DEF CheckDirection, Return
<1>5. CASE TakeLock(s)
  <2>1. CASE Admitted(s)
    <3>1. lock = "free" /\ lock' = s /\ pc' = [pc EXCEPT ![s] = "ordering"]
      BY <1>5, <2>1 DEF TakeLock, LockFree
    <3>2. \A t \in Symbol : t # "free"
      BY DEF AdmissionAssumption
    <3> QED
      BY <3>1, <3>2 DEF LockInv, InOrder, Phases, Busy
  <2>2. CASE ~Admitted(s)
    BY <1>1, <1>5, <2>2, BeforeLock DEF TakeLock, Return
  <2> QED
    BY <2>1, <2>2
<1>6. CASE Execute(s)
  <2>1. CASE PlaceOrder(s, plan[s], TRUE) /\ pc' = [pc EXCEPT ![s] = "executed"]
             /\ UNCHANGED <<plan, lock>>
    BY <1>6, <2>1 DEF Execute, LockInv, InOrder, Phases, Busy
  <2>2. CASE PlaceOrder(s, plan[s], FALSE) /\ Return(s) /\ Release
    BY <1>6, <2>2, GivesBack DEF Execute, Return, Release, InOrder
  <2> QED
    BY <1>6, <2>1, <2>2 DEF Execute
<1>7. CASE Settle(s)
  BY <1>7, GivesBack DEF Settle, Return, Release, InOrder
<1>8. CASE Guard(s)
  BY <1>8, SameTasks DEF Guard, taskVars
<1> QED
  BY <1>2, <1>3, <1>4, <1>5, <1>6, <1>7, <1>8 DEF Task

\* A step of the cycle keeps the invariant of the lock.
LEMMA CycleKeepsLockInv ==
  ASSUME LockInv, Cycle
  PROVE  LockInv'
<1>1. "idle" \in Phases \ InOrder /\ "wait" \in Phases \ InOrder
  BY DEF Phases, InOrder
<1>2. CASE StartCycle
  BY <1>2, SameTasks DEF StartCycle, taskVars
<1>3. CASE EndEmergency
  BY <1>3, SameTasks DEF EndEmergency, taskVars
<1>4. CASE Sync
  BY <1>4, SameTasks DEF Sync, taskVars
<1>5. CASE SyncFails
  BY <1>5, SameTasks DEF SyncFails, taskVars
<1>6. CASE CachePositions
  BY <1>6, SameTasks DEF CachePositions, taskVars
<1>7. CASE BeginScan
  BY <1>1, <1>7, NoneInOrder DEF BeginScan
<1>8. CASE NextBatch
  BY <1>8, SameTasks DEF NextBatch
<1>9. CASE EndCycle
  BY <1>1, <1>9, NoneInOrder DEF EndCycle
<1> QED
  BY <1>2, <1>3, <1>4, <1>5, <1>6, <1>7, <1>8, <1>9 DEF Cycle

\* Whoever orders or settles holds the lock.
LEMMA LockInvariant == Spec => []LockInv
<1>1. Init => LockInv
  BY DEF Init, LockInv, InOrder, Phases
<1>2. LockInv /\ [Next]_vars => LockInv'
  <2> SUFFICES ASSUME LockInv, [Next]_vars PROVE LockInv'
    OBVIOUS
  <2>1. CASE Cycle
    BY <2>1, CycleKeepsLockInv
  <2>2. CASE Exits
    <3>1. PICK r \in rows : EmergencyExit(r) \/ ManagedExit(r)
      BY <2>2 DEF Exits
    <3>2. UNCHANGED <<pc, lock>>
      BY <3>1 DEF EmergencyExit, ManagedExit, taskVars
    <3> QED
      BY <3>2, SameTasks
  <2>3. ASSUME NEW s \in Symbol, Task(s) PROVE LockInv'
    BY <2>3, AdmissionAssumption, TaskKeepsLockInv
  <2>4. CASE ExchangeReduces
    BY <2>4, SameTasks DEF ExchangeReduces, taskVars
  <2>5. CASE Stop \/ Crash
    <3>1. pc' = [s \in Symbol |-> "idle"]
      BY <2>5 DEF Stop, Crash, Restarted
    <3>2. "idle" \in Phases \ InOrder
      BY DEF Phases, InOrder
    <3> QED
      BY <3>1, <3>2, NoneInOrder
  <2>6. ASSUME NEW o \in stray, StrayGuard(o) \/ StrayOrder(o) PROVE LockInv'
    BY <2>6, SameTasks DEF StrayGuard, StrayOrder, taskVars
  <2>7. CASE UNCHANGED vars
    BY <2>7, SameTasks DEF vars, taskVars
  <2> QED
    BY <2>1, <2>2, <2>3, <2>4, <2>5, <2>6, <2>7 DEF Next
<1> QED
  BY <1>1, <1>2, PTL DEF Spec

\* No two tasks of the loop ever have an order in the executor or a fill that
\* is not settled (_execution_lock around the caps, the order and the counters).
THEOREM OrdersSerialised == Spec => []OneOrderAtATime
<1>1. LockInv => OneOrderAtATime
  BY DEF LockInv, OneOrderAtATime, InOrder
<1> QED
  BY <1>1, LockInvariant, PTL
-----------------------------------------------------------------------------
\* Typing.

Plans == [act : Act, side : Side, row : Row \cup {NoRow}, size : Nat]
PlanOK(p) == p \in Plans /\ (p.act = "flatten" => p.row \in Row)

BookTyped ==
  /\ rows \subseteq Row /\ closing \subseteq rows /\ layers \in [Symbol -> Nat]
  /\ closing # {} => phase \in {"emergency", "exits"}
CycleTyped ==
  /\ phase \in {"idle", "emergency", "sync", "cache", "exits", "scan"}
  /\ leg \in [Leg -> 0..MaxUnits] /\ seen \in [Leg -> 0..MaxUnits]
  /\ openCount \in Nat /\ blocked \in BOOLEAN /\ faults \in 0..MaxFaults
TaskTyped ==
  /\ pc \in [Symbol -> Phases] /\ plan \in [Symbol -> Plans]
  /\ batch \subseteq Symbol /\ lock \in Symbol \cup {"free"}
  /\ \A s \in Symbol : PlanOK(plan[s])
  /\ phase # "scan" => \A s \in Symbol : pc[s] = "idle"
  /\ \A s \in Symbol : pc[s] = "executed" /\ plan[s].act # "flatten" => EntrySize <= MaxUnits
ThreadTyped ==
  /\ cleared \subseteq Symbol /\ crossed \subseteq Symbol
  /\ stray \subseteq [sym : Symbol, plan : Plans, clear : BOOLEAN]
  /\ \A o \in stray : PlanOK(o.plan)
Typed == BookTyped /\ CycleTyped /\ TaskTyped /\ ThreadTyped

\* The invariant is stronger than the type invariant of the component.
LEMMA TypedIsTypeOK == Typed => TypeOK
  BY DEF Typed, BookTyped, CycleTyped, TaskTyped, ThreadTyped, TypeOK, Phases, Plans

\* There are finitely many legs and rows.
LEMMA FiniteRows ==
  /\ IsFiniteSet(Leg)
  /\ \A R \in SUBSET Row : IsFiniteSet(R) /\ Cardinality(R) \in Nat
<1>1. IsFiniteSet(Side)
  <2>1. IsFiniteSet({"BUY"}) /\ IsFiniteSet({"SELL"})
    BY FS_Singleton
  <2>2. Side = {"BUY"} \cup {"SELL"}
    BY DEF Side
  <2> QED
    BY <2>1, <2>2, FS_Union
<1>2. IsFiniteSet(Leg)
  BY <1>1, AdmissionAssumption, FS_Product DEF AdmissionAssumption, Leg
<1>3. IsFiniteSet(Row)
  <2> DEFINE Fields == Leg \X ((0..MaxUnits) \X (1..MaxUnits))
             f == [r \in Row |-> <<<<r.sym, r.side>>, <<r.layer, r.size>>>>]
  <2>1. IsFiniteSet(0..MaxUnits) /\ IsFiniteSet(1..MaxUnits)
    BY AdmissionAssumption, FS_Interval DEF AdmissionAssumption
  <2>2. IsFiniteSet((0..MaxUnits) \X (1..MaxUnits))
    BY <2>1, FS_Product
  <2>3. IsFiniteSet(Fields)
    BY <1>2, <2>2, FS_Product
  <2>4. f \in [Row -> Fields]
    BY DEF Row, Leg
  <2>5. ASSUME NEW r \in Row, NEW q \in Row, f[r] = f[q] PROVE r = q
    BY <2>5 DEF Row
  <2>6. f \in Injection(Row, Fields)
    BY <2>4, <2>5 DEF Injection, IsInjective
  <2> QED
    BY <2>3, <2>6, FS_Injection
<1>4. ASSUME NEW R \in SUBSET Row PROVE IsFiniteSet(R) /\ Cardinality(R) \in Nat
  BY <1>3, FS_Subset, FS_CardinalityType
<1> QED
  BY <1>2, <1>4

\* No row is the placeholder.
LEMMA NoRowIsNone == NoRow \notin Row /\ NoPlan \in Plans /\ PlanOK(NoPlan)
<1>1. NoRow \notin Row
  <2> SUFFICES ASSUME NoRow \in Row PROVE FALSE
    OBVIOUS
  <2>1. NoRow.sym \in Symbol
    BY DEF Row
  <2>2. NoRow.sym = "none"
    BY DEF NoRow
  <2> QED
    BY <2>1, <2>2, AdmissionAssumption DEF AdmissionAssumption
<1> QED
  BY <1>1 DEF NoPlan, Plan, Plans, PlanOK, Act, Side

\* Counters that rows are subtracted from stay naturals, and so does a count of
\* symbols.
LEMMA LayersTyped ==
  ASSUME NEW R \in SUBSET Row, layers \in [Symbol -> Nat]
  PROVE  PopLayers(R) \in [Symbol -> Nat]
<1> SUFFICES ASSUME NEW s \in Symbol
             PROVE  PopLayers(R)[s] \in Nat
  BY DEF PopLayers
<1> DEFINE popped == Cardinality({r \in R : r.sym = s /\ r.layer > 0})
<1>1. popped \in Nat
  BY FiniteRows
<1>2. PopLayers(R)[s] = IF popped > layers[s] THEN 0 ELSE layers[s] - popped
  BY DEF PopLayers
<1> HIDE DEF popped
<1> QED
  BY <1>1, <1>2

\* So does what the rows say of them, and a count of symbols is a natural.
LEMMA CountsTyped ==
  ASSUME rows \subseteq Row
  PROVE  /\ RebuiltLayers \in [Symbol -> Nat]
         /\ \A R \in SUBSET Row :
              IsFiniteSet(OpenSymbols(R)) /\ OpenSymbols(R) \subseteq Symbol
              /\ Cardinality(OpenSymbols(R)) \in Nat
<1>1. RebuiltLayers \in [Symbol -> Nat]
  BY FiniteRows DEF RebuiltLayers
<1>2. ASSUME NEW R \in SUBSET Row
      PROVE  IsFiniteSet(OpenSymbols(R)) /\ OpenSymbols(R) \subseteq Symbol
             /\ Cardinality(OpenSymbols(R)) \in Nat
  <2>1. OpenSymbols(R) \subseteq Symbol
    BY DEF OpenSymbols, Row
  <2> QED
    BY <2>1, AdmissionAssumption, FS_Subset, FS_CardinalityType DEF AdmissionAssumption
<1> QED
  BY <1>1, <1>2

\* The legs a task has seen, summed, are no less than any of them.
LEMMA SeenSizes ==
  ASSUME NEW s \in Symbol, seen \in [Leg -> 0..MaxUnits]
  PROVE  /\ SeenSize(s) \in Nat
         /\ \A l \in SeenLegs(s) : seen[l] <= SeenSize(s)
         /\ SeenLegs(s) = {} => SeenSize(s) = 0
<1>1. SeenLegs(s) \subseteq Leg
  BY DEF SeenLegs
<1>2. IsFiniteSet(SeenLegs(s))
  BY <1>1, FiniteRows, FS_Subset
<1>3. \A l \in SeenLegs(s) : seen[l] \in Nat
  BY <1>1
<1>4. SeenSize(s) = SumOf(seen, SeenLegs(s))
  BY Zenon DEF SeenSize, SumOf
<1> QED
  BY <1>2, <1>3, <1>4, SumOfFacts

\* The quantity of an order is a natural.
LEMMA OrderSizeTyped ==
  ASSUME Typed, NEW s \in Symbol
  PROVE  OrderSize(s) \in Nat
<1>1. SeenSize(s) \in Nat
  BY SeenSizes DEF Typed, CycleTyped
<1>2. plan[s].act = "flatten" => plan[s].row.size \in Nat
  BY DEF Typed, TaskTyped, PlanOK, Row
<1> QED
  BY <1>1, <1>2, AdmissionAssumption DEF OrderSize, AdmissionAssumption

\* An order leaves the legs in their range.
LEMMA PlaceOrderTyped ==
  ASSUME CycleTyped, NEW s \in Symbol, NEW p, PlanOK(p), NEW ok \in BOOLEAN, PlaceOrder(s, p, ok)
  PROVE  /\ leg' \in [Leg -> 0..MaxUnits] /\ faults' \in 0..MaxFaults
         /\ ok /\ p.act # "flatten" => EntrySize <= MaxUnits
<1> USE AdmissionAssumption DEF AdmissionAssumption
<1> DEFINE l == IF p.act = "flatten" THEN <<p.row.sym, p.row.side>> ELSE <<s, p.side>>
           Filled == /\ p.act # "flatten"
                     /\ leg[l] + EntrySize <= MaxUnits /\ FreeLayers(s) # {}
                     /\ leg' = [leg EXCEPT ![l] = @ + EntrySize]
<1>1. l \in Leg /\ leg[l] \in 0..MaxUnits
  BY DEF PlanOK, Plans, Leg, Row, CycleTyped
<1>2. p.size \in Nat
  BY DEF PlanOK, Plans
<1>3. \/ ok /\ p.act = "flatten" /\ leg' = Reduced(l, p.size) /\ Works
      \/ ok /\ Filled /\ Works
      \/ ~ok /\ Filled /\ Fault
      \/ ~ok /\ UNCHANGED leg /\ Works
  BY DEF PlaceOrder
<1>4. Works \/ Fault => faults' \in 0..MaxFaults
  BY DEF Works, Fault, CycleTyped
<1>6. Reduced(l, p.size) \in [Leg -> 0..MaxUnits]
  BY <1>1, <1>2 DEF Reduced, ReduceResult, CycleTyped
<1>7. Filled => leg' \in [Leg -> 0..MaxUnits] /\ EntrySize <= MaxUnits
  BY <1>1 DEF CycleTyped
<1> HIDE DEF Filled, l
<1> QED
  BY <1>3, <1>4, <1>6, <1>7 DEF CycleTyped

\* What the exchange or the position manager takes from a leg leaves it in range.
LEMMA ReducedTyped ==
  ASSUME CycleTyped, NEW r \in Row
  PROVE  Reduced(<<r.sym, r.side>>, r.size) \in [Leg -> 0..MaxUnits]
<1> DEFINE l == <<r.sym, r.side>>
<1>1. l \in Leg /\ r.size \in Nat
  BY AdmissionAssumption DEF Row, Leg, AdmissionAssumption
<1>2. leg \in [Leg -> 0..MaxUnits] /\ MaxUnits \in Nat
  BY AdmissionAssumption DEF CycleTyped, AdmissionAssumption
<1> HIDE DEF l
<1>3. Reduced(l, r.size) \in [Leg -> 0..MaxUnits]
  BY <1>1, <1>2 DEF Reduced, ReduceResult
<1> QED
  BY <1>3 DEF l

\* What both kinds of exits do.
LEMMA ExitSteps ==
  ASSUME NEW r, EmergencyExit(r) \/ ManagedExit(r)
  PROVE  /\ r \in rows \ closing /\ phase \in {"emergency", "exits"}
         /\ leg' = Reduced(<<r.sym, r.side>>, r.size) /\ (Works \/ Fault)
         /\ CloseInSession(r)
         /\ UNCHANGED <<cycleVars, taskVars, threadVars>>
<1>1. CASE EmergencyExit(r)
  BY <1>1, Zenon DEF EmergencyExit
<1>2. CASE ManagedExit(r)
  BY <1>2 DEF ManagedExit, Works
<1> QED
  BY <1>1, <1>2

\* A step of the cycle keeps the types.
LEMMA CycleKeepsTyped ==
  ASSUME Typed, Cycle
  PROVE  Typed'
<1> USE AdmissionAssumption DEF AdmissionAssumption, Typed, BookTyped, CycleTyped, TaskTyped,
        ThreadTyped, bookVars, taskVars, threadVars, Works, Fault
<1>1. NoLegs \in [Leg -> 0..MaxUnits]
  BY DEF NoLegs
<1>2. CASE StartCycle
  BY <1>1, <1>2 DEF StartCycle
<1>3. CASE EndEmergency
  BY <1>3 DEF EndEmergency, CommitExits
<1>4. CASE Sync
  <2>1. closing = {}
    BY <1>4 DEF Sync
  <2>2. LiveRows \subseteq rows /\ \A refused \in SUBSET Orphans : Synced(refused) \subseteq Row
    <3>1. LiveRows \subseteq Row
      BY DEF LiveRows
    <3>2. \A l \in Orphans : AdoptedRow(l) \in Row
      BY DEF Orphans, AdoptedRow, Row, Leg
    <3> QED
      BY <3>1, <3>2 DEF LiveRows, Synced
  <2>3. rows' \subseteq Row
    <3>1. \/ UNCHANGED rows \/ rows' = Synced({})
          \/ \E refused \in SUBSET Orphans : rows' = Synced(refused)
      BY <1>4 DEF Sync
    <3> QED
      BY <2>2, <3>1
  <2>4. layers' \in [Symbol -> Nat]
    <3>1. UNCHANGED layers \/ layers' = PopLayers(rows \ LiveRows)
      BY <1>4 DEF Sync
    <3> QED
      BY <3>1, LayersTyped
  <2>5. openCount' \in Nat
    <3>1. openCount' = Cardinality(OpenSymbols(rows'))
      BY <1>4 DEF Sync
    <3> QED
      BY <2>3, <3>1, CountsTyped
  <2>6. faults' \in 0..MaxFaults
    BY <1>4 DEF Sync
  <2> QED
    BY <1>4, <2>1, <2>3, <2>4, <2>5, <2>6 DEF Sync
<1>5. CASE SyncFails
  BY <1>5 DEF SyncFails
<1>6. CASE CachePositions
  BY <1>1, <1>6 DEF CachePositions
<1>7. CASE BeginScan
  <2>1. rows' \subseteq Row /\ closing' = {} /\ faults' \in 0..MaxFaults
    BY <1>7 DEF BeginScan, CommitExits
  <2>2. openCount' \in Nat
    BY <1>7, <2>1, CountsTyped DEF BeginScan
  <2> QED
    BY <1>7, <2>1, <2>2 DEF BeginScan, Phases
<1>8. CASE NextBatch
  BY <1>8 DEF NextBatch, Waiting, cycleVars
<1>9. CASE EndCycle
  BY <1>9, NoRowIsNone DEF EndCycle, Phases, PlanOK
<1> QED
  BY <1>2, <1>3, <1>4, <1>5, <1>6, <1>7, <1>8, <1>9 DEF Cycle

\* The orders a stop or a crash leaves in their threads.
LEMMA StopSteps ==
  ASSUME Stop \/ Crash
  PROVE  \A o \in stray' : \/ o \in stray
                          \/ \E s \in Symbol :
                               o = [sym |-> s, plan |-> plan[s], clear |-> s \in cleared]
<1>1. CASE Stop
  BY <1>1, Zenon DEF Stop
<1>2. CASE Crash
  <2>1. stray' = {}
    BY <1>2 DEF Crash
  <2> QED
    BY <2>1
<1> QED
  BY <1>1, <1>2

\* What passing the hedge guard leaves alone.
LEMMA GuardSteps ==
  ASSUME NEW s \in Symbol, Guard(s)
  PROVE  /\ pc[s] = "ordering" /\ plan[s].act # "flatten"
         /\ cleared' = cleared \cup {s} /\ (Works \/ Fault)
         /\ UNCHANGED <<rows, closing, layers, leg, phase, seen, openCount, blocked, pc, plan, batch,
                       lock, stray, crossed>>
  BY DEF Guard, MayOpen, bookVars, cycleVars, taskVars

\* And the guard of a stray order.
LEMMA StrayGuardSteps ==
  ASSUME NEW o \in stray, StrayGuard(o)
  PROVE  /\ stray' = (stray \ {o}) \cup {[o EXCEPT !.clear = TRUE]} /\ (Works \/ Fault)
         /\ UNCHANGED <<rows, closing, layers, leg, phase, seen, openCount, blocked, pc, plan, batch,
                       lock, cleared, crossed>>
  BY DEF StrayGuard, MayOpen, bookVars, cycleVars, taskVars

\* So does an exit, a fill of the exchange, a stop, a crash and a stray order.
LEMMA OthersKeepTyped ==
  ASSUME Typed,
         \/ Exits \/ ExchangeReduces \/ Stop \/ Crash
         \/ \E o \in stray : StrayGuard(o) \/ StrayOrder(o)
  PROVE  Typed'
<1> USE AdmissionAssumption DEF AdmissionAssumption, Typed, BookTyped, CycleTyped, TaskTyped,
        ThreadTyped, bookVars, cycleVars, taskVars, threadVars, Works, Fault
<1>1. ASSUME NEW r \in rows, EmergencyExit(r) \/ ManagedExit(r) PROVE Typed'
  <2>1. /\ leg' = leg \/ leg' = Reduced(<<r.sym, r.side>>, r.size)
        /\ CloseInSession(r) /\ phase \in {"emergency", "exits"}
        /\ faults' \in 0..MaxFaults
        /\ UNCHANGED <<cycleVars, taskVars, threadVars>>
    <3>1. /\ leg' = Reduced(<<r.sym, r.side>>, r.size) /\ (Works \/ Fault)
          /\ CloseInSession(r) /\ phase \in {"emergency", "exits"}
          /\ UNCHANGED <<cycleVars, taskVars, threadVars>>
      BY <1>1, ExitSteps
    <3> QED
      BY <3>1
  <2>2. r \in Row
    OBVIOUS
  <2>3. leg' \in [Leg -> 0..MaxUnits]
    BY <2>1, <2>2, ReducedTyped
  <2>4. layers' \in [Symbol -> Nat]
    BY <2>1, <2>2, LayersTyped DEF CloseInSession
  <2> QED
    BY <2>1, <2>3, <2>4 DEF CloseInSession
<1>2. CASE ExchangeReduces
  <2>1. leg' \in [Leg -> 0..MaxUnits]
    BY <1>2 DEF ExchangeReduces
  <2> QED
    BY <1>2, <2>1 DEF ExchangeReduces
<1>3. CASE Stop \/ Crash
  <2>1. Restarted /\ faults' \in 0..MaxFaults
    BY <1>3 DEF Stop, Crash
  <2>2. ThreadTyped'
    <3>1. cleared' = {} /\ UNCHANGED crossed
      BY <2>1 DEF Restarted
    <3>2. \A o \in stray' : \/ o \in stray
                            \/ \E s \in Symbol :
                                 o = [sym |-> s, plan |-> plan[s], clear |-> s \in cleared]
      BY <1>3, StopSteps
    <3>3. ASSUME NEW o \in stray'
          PROVE  o \in [sym : Symbol, plan : Plans, clear : BOOLEAN] /\ PlanOK(o.plan)
      <4>1. CASE o \in stray
        BY <4>1
      <4>2. ASSUME NEW s \in Symbol, o = [sym |-> s, plan |-> plan[s], clear |-> s \in cleared]
            PROVE  o \in [sym : Symbol, plan : Plans, clear : BOOLEAN] /\ PlanOK(o.plan)
        <5>1. plan[s] \in Plans /\ PlanOK(plan[s])
          OBVIOUS
        <5>2. (s \in cleared) \in BOOLEAN
          OBVIOUS
        <5> QED
          BY <4>2, <5>1, <5>2
      <4> QED
        BY <3>2, <4>1, <4>2
    <3> QED
      BY <3>1, <3>3
  <2> QED
    BY <2>1, <2>2, CountsTyped, NoRowIsNone DEF Restarted, Phases, PlanOK
<1>4. ASSUME NEW o \in stray, StrayOrder(o) PROVE Typed'
  <2>1. leg' \in [Leg -> 0..MaxUnits] /\ faults' \in 0..MaxFaults
    BY <1>4, PlaceOrderTyped DEF StrayOrder
  <2> QED
    BY <1>4, <2>1 DEF StrayOrder
<1>5. ASSUME NEW o \in stray, StrayGuard(o) PROVE Typed'
  <2>1. [o EXCEPT !.clear = TRUE] \in [sym : Symbol, plan : Plans, clear : BOOLEAN]
        /\ [o EXCEPT !.clear = TRUE].plan = o.plan
    OBVIOUS
  <2>2. ThreadTyped'
    <3>1. stray' = (stray \ {o}) \cup {[o EXCEPT !.clear = TRUE]} /\ UNCHANGED <<cleared, crossed>>
      BY <1>5, StrayGuardSteps
    <3> DEFINE g == [o EXCEPT !.clear = TRUE]
    <3>2. g \in [sym : Symbol, plan : Plans, clear : BOOLEAN] /\ PlanOK(g.plan)
      BY <2>1
    <3> HIDE DEF g
    <3> QED
      BY <3>1, <3>2 DEF g
  <2>3. faults' \in 0..MaxFaults
    BY <1>5, StrayGuardSteps
  <2> QED
    BY <1>5, <2>2, <2>3, StrayGuardSteps
<1> QED
  BY <1>1, <1>2, <1>3, <1>4, <1>5 DEF Exits

\* A task's step leaves the types of the tasks when it writes one plan.
LEMMA PlanTyped ==
  ASSUME TaskTyped, NEW s \in Symbol, NEW x \in Phases, NEW p, PlanOK(p),
         pc' = [pc EXCEPT ![s] = x], plan' = [plan EXCEPT ![s] = p],
         UNCHANGED <<batch, phase>>, lock' \in Symbol \cup {"free"},
         pc[s] # "idle", x # "executed"
  PROVE  TaskTyped'
<1>1. p \in Plans
  BY DEF PlanOK
<1> QED
  BY <1>1 DEF TaskTyped

\* The step of a task keeps the types.
LEMMA TaskKeepsTyped ==
  ASSUME Typed, NEW s \in Symbol, Task(s)
  PROVE  Typed'
<1> USE AdmissionAssumption DEF AdmissionAssumption
<1>1. /\ "done" \in Phases /\ "begun" \in Phases /\ "evaluated" \in Phases
      /\ "queued" \in Phases /\ "ordering" \in Phases /\ "executed" \in Phases
  BY DEF Phases, Busy
<1>2. PlanOK(NoPlan) /\ PlanOK(plan[s]) /\ plan[s] \in Plans /\ lock \in Symbol \cup {"free"}
  BY NoRowIsNone DEF Typed, TaskTyped
<1>3. ASSUME Return(s), UNCHANGED <<batch, phase>>, lock' \in Symbol \cup {"free"}, pc[s] # "idle"
      PROVE  TaskTyped'
  BY <1>1, <1>2, <1>3, PlanTyped DEF Return, Typed
<1>4. ASSUME UNCHANGED <<bookVars, leg, cycleVars, cleared, stray, faults>>, TaskTyped',
             crossed' \subseteq Symbol
      PROVE  Typed'
  BY <1>4 DEF Typed, BookTyped, CycleTyped, ThreadTyped, bookVars, cycleVars
<1>11. crossed \subseteq Symbol /\ crossed \cup {s} \subseteq Symbol
  BY DEF Typed, ThreadTyped
<1>5. CASE Begin(s)
  <2>1. PICK row \in Existing(s) :
          \/ Return(s)
          \/ /\ pc' = [pc EXCEPT ![s] = "begun"]
             /\ plan' = [plan EXCEPT ![s] = Plan("none", "BUY", row, 0)]
    BY <1>5 DEF Begin
  <2>2. row \in Row \cup {NoRow}
    BY DEF Existing, Typed, BookTyped
  <2>3. PlanOK(Plan("none", "BUY", row, 0))
    BY <2>2 DEF Plan, PlanOK, Plans, Act, Side
  <2>4. TaskTyped'
    BY <1>1, <1>2, <1>3, <1>5, <2>1, <2>3, PlanTyped DEF Begin, Typed, cycleVars
  <2> QED
    BY <1>4, <1>5, <1>11, <2>4 DEF Begin, threadVars
<1>6. CASE Evaluate(s)
  <2>1. \/ Return(s)
        \/ \E act \in {"enter", "pyramid", "flatten"}, side \in Side :
             /\ act # "enter" => plan[s].row # NoRow
             /\ pc' = [pc EXCEPT ![s] = "evaluated"]
             /\ plan' = [plan EXCEPT ![s] = Plan(act, side, plan[s].row, 0)]
    <3>1. plan[s].row # NoRow => plan[s].row.side \in Side
      BY <1>2 DEF Plans, Row
    <3> QED
      BY <1>6, <3>1 DEF Evaluate
  <2>2. ASSUME NEW act \in {"enter", "pyramid", "flatten"}, NEW side \in Side,
               act # "enter" => plan[s].row # NoRow
        PROVE  PlanOK(Plan(act, side, plan[s].row, 0))
    BY <1>2, <2>2 DEF PlanOK, Plan, Plans, Act
  <2>3. TaskTyped'
    BY <1>1, <1>2, <1>3, <1>6, <2>1, <2>2, PlanTyped DEF Evaluate, Typed, cycleVars
  <2> QED
    BY <1>4, <1>6, <1>11, <2>3 DEF Evaluate, threadVars
<1>7. CASE CheckDirection(s)
  <2>1. Return(s) \/ (pc' = [pc EXCEPT ![s] = "queued"] /\ UNCHANGED plan)
    BY <1>7 DEF CheckDirection
  <2>2. TaskTyped'
    <3>1. CASE Return(s)
      BY <1>2, <1>3, <1>7, <3>1 DEF CheckDirection, cycleVars
    <3>2. CASE pc' = [pc EXCEPT ![s] = "queued"] /\ UNCHANGED plan
      BY <1>1, <1>7, <3>2 DEF CheckDirection, Typed, TaskTyped, cycleVars
    <3> QED
      BY <2>1, <3>1, <3>2
  <2> QED
    BY <1>4, <1>7, <1>11, <2>2 DEF CheckDirection, threadVars
<1>8. CASE TakeLock(s)
  <2> DEFINE p == Plan(plan[s].act, plan[s].side, plan[s].row, OrderSize(s))
  <2>1. PlanOK(p)
    BY <1>2, OrderSizeTyped DEF PlanOK, Plan, Plans
  <2>2. \/ pc' = [pc EXCEPT ![s] = "ordering"] /\ plan' = [plan EXCEPT ![s] = p] /\ lock' = s
        \/ Return(s) /\ UNCHANGED lock
    BY <1>2, <1>8, Zenon DEF TakeLock, Typed, TaskTyped
  <2> HIDE DEF p
  <2>3. TaskTyped'
    BY <1>1, <1>2, <1>3, <1>8, <2>1, <2>2, PlanTyped DEF TakeLock, Typed, cycleVars
  <2> QED
    BY <1>4, <1>8, <1>11, <2>3 DEF TakeLock
<1>9. CASE Execute(s)
  <2>1. \E ok \in BOOLEAN : PlaceOrder(s, plan[s], ok)
    BY <1>9 DEF Execute
  <2>2. leg' \in [Leg -> 0..MaxUnits] /\ faults' \in 0..MaxFaults
    BY <1>2, <2>1, PlaceOrderTyped DEF Typed
  <2>3. TaskTyped'
    <3>1. CASE PlaceOrder(s, plan[s], TRUE) /\ pc' = [pc EXCEPT ![s] = "executed"]
               /\ UNCHANGED <<plan, lock>>
      <4>1. plan[s].act # "flatten" => EntrySize <= MaxUnits
        BY <1>2, <3>1, PlaceOrderTyped DEF Typed
      <4> QED
        BY <1>1, <1>9, <3>1, <4>1 DEF Execute, Typed, TaskTyped, cycleVars
    <3>2. CASE Return(s) /\ Release
      BY <1>3, <1>9, <3>2 DEF Execute, Release, cycleVars
    <3> QED
      BY <1>9, <3>1, <3>2 DEF Execute
  <2> QED
    BY <1>9, <2>2, <2>3 DEF Execute, Typed, BookTyped, CycleTyped, ThreadTyped, bookVars, cycleVars
<1>10. CASE Settle(s)
  <2>1. TaskTyped'
    BY <1>3, <1>10 DEF Settle, Release
  <2>2. plan[s].act # "flatten" => \A k \in 0..MaxUnits : NewRow(s, k) \in Row
    BY <1>2, <1>10 DEF Settle, Typed, TaskTyped, NewRow, Row, Plans
  <2>3. rows' \subseteq Row /\ faults' \in 0..MaxFaults
    <3>1. \A k \in FreeLayers(s) : k \in 0..MaxUnits
      BY DEF FreeLayers
    <3> QED
      BY <1>10, <2>2, <3>1 DEF Settle, Works, Fault, Typed, BookTyped, CycleTyped
  <2>4. layers' \in [Symbol -> Nat]
    <3>1. \/ UNCHANGED layers \/ layers' = [layers EXCEPT ![s] = @ + 1]
          \/ plan[s].act = "flatten" /\ layers' = PopLayers({plan[s].row})
      BY <1>10 DEF Settle
    <3>2. plan[s].act = "flatten" => {plan[s].row} \in SUBSET Row
      BY <1>2 DEF PlanOK
    <3> QED
      BY <3>1, <3>2, LayersTyped DEF Typed, BookTyped
  <2>5. openCount' \in Nat
    BY <1>10 DEF Settle, Lowered, Typed, CycleTyped
  <2>6. closing = {}
    BY <1>10 DEF Settle, Typed, BookTyped, TaskTyped
  <2>7. closing' \subseteq rows'
    BY <1>10, <2>6 DEF Settle
  <2> QED
    BY <1>10, <2>1, <2>3, <2>4, <2>5, <2>6, <2>7
       DEF Settle, Typed, BookTyped, CycleTyped, ThreadTyped, threadVars
<1>12. CASE Guard(s)
  <2>1. faults' \in 0..MaxFaults
    BY <1>12, GuardSteps DEF Works, Fault, Typed, CycleTyped
  <2> QED
    BY <1>12, <2>1, GuardSteps DEF Typed, BookTyped, CycleTyped, TaskTyped, ThreadTyped
<1> QED
  BY <1>5, <1>6, <1>7, <1>8, <1>9, <1>10, <1>12 DEF Task

\* The types hold whatever fails.
LEMMA TypedInvariant == Spec => []Typed
<1>1. Init => Typed
  <2> SUFFICES ASSUME Init PROVE Typed
    OBVIOUS
  <2> USE AdmissionAssumption DEF AdmissionAssumption, Init
  <2>1. BookTyped
    BY DEF BookTyped
  <2>2. CycleTyped
    <3>1. NoLegs \in [Leg -> 0..MaxUnits]
      BY DEF NoLegs
    <3>2. faults \in 0..MaxFaults /\ openCount \in Nat
      OBVIOUS
    <3>3. leg \in [Leg -> 0..MaxUnits] /\ seen \in [Leg -> 0..MaxUnits]
      BY <3>1
    <3>4. blocked \in BOOLEAN
      OBVIOUS
    <3> QED
      BY <3>2, <3>3, <3>4 DEF CycleTyped
  <2>3. TaskTyped
    BY NoRowIsNone DEF TaskTyped, Phases, PlanOK
  <2>4. ThreadTyped
    BY DEF ThreadTyped
  <2> QED
    BY <2>1, <2>2, <2>3, <2>4 DEF Typed
<1>2. Typed /\ [Next]_vars => Typed'
  <2> SUFFICES ASSUME Typed, [Next]_vars PROVE Typed'
    OBVIOUS
  <2>1. CASE UNCHANGED vars
    BY <2>1 DEF vars, bookVars, cycleVars, taskVars, threadVars, Typed, BookTyped, CycleTyped, TaskTyped, ThreadTyped
  <2> QED
    BY <2>1, CycleKeepsTyped, OthersKeepTyped, TaskKeepsTyped DEF Next
<1> QED
  BY <1>1, <1>2, PTL DEF Spec

\* Every variable of a cycle stays in its range, whatever fails.
THEOREM TypeCorrect == Spec => []TypeOK
  BY TypedInvariant, TypedIsTypeOK, PTL

-----------------------------------------------------------------------------
(***************************************************************************)
(* Until the first failure.  The legs are tied to the rows by what each    *)
(* task has found and decided, by the cached positions and by the exits'   *)
(* session, so the invariant has a part for each of them.                  *)
(***************************************************************************)

\* Pyramid adds, or two quotes of one coin, but not both: an add on one quote
\* beside the row of another is not one of its own symbol.
Separate == MaxLayers = 0 \/ \A s, t \in Symbol : Base[s] = Base[t] => s = t

\* The rows of a leg whose close is not in the session, and the fill of the leg
\* that is not recorded yet: together they back it, an entry's units each.
LegRows(l) == {r \in rows \ closing : r.sym = l[1] /\ r.side = l[2]}
InFlight(l) == pc[l[1]] = "executed" /\ plan[l[1]].act # "flatten" /\ plan[l[1]].side = l[2]
Backed(l) == Cardinality(LegRows(l)) + (IF InFlight(l) THEN 1 ELSE 0)
Units(n) == EntrySize * n
LegsBacked == \A l \in Leg : leg[l] <= Units(Backed(l))

\* The rows are those of entries and adds: one side and one row of each layer
\* for a symbol.
RowsClean ==
  /\ \A r \in rows : r.size = EntrySize /\ (MaxLayers = 0 => r.layer = 0)
  /\ \A r, q \in rows : r.sym = q.sym => r.side = q.side /\ (r.layer = q.layer => r = q)

\* layers counts the rows of the adds, and never goes beyond its maximum.
Adds(s) == {r \in rows \ closing : r.sym = s /\ r.layer > 0}
LayersKept == \A s \in Symbol : layers[s] = Cardinality(Adds(s)) /\ layers[s] <= MaxLayers

\* A leg that outgrew the cached positions was opened or added to in this cycle.
Outgrown(l) ==
  /\ pc[l[1]] \in {"executed", "done"}
  /\ SeenLegs(l[1]) = {} \/ MaxLayers > 0
SeenFresh ==
  /\ phase = "exits" => \A l \in Leg : leg[l] <= seen[l]
  /\ phase = "scan" => \A l \in Leg : leg[l] > seen[l] => Outgrown(l)

\* What a task has found stays true while it decides and orders.
Found(s) ==
  pc[s] \in Busy =>
    /\ s \in batch
    /\ plan[s].row # NoRow => plan[s].row.sym \in Alias(s) /\ (MaxLayers > 0 => plan[s].row \in rows)
    /\ plan[s].row = NoRow => SeenLegs(s) = {} /\ \A r \in rows : r.sym # s
Decided(s) ==
  pc[s] \in Busy \ {"begun"} =>
    /\ plan[s].act # "none"
    /\ plan[s].act = "enter" => plan[s].row = NoRow
    /\ plan[s].act = "pyramid" =>
         plan[s].row # NoRow /\ layers[s] < MaxLayers /\ plan[s].side = plan[s].row.side
    /\ plan[s].act = "flatten" => plan[s].row # NoRow
Ordered(s) ==
  plan[s].act = "flatten" =>
    /\ pc[s] \in InOrder => plan[s].row \in rows
    /\ pc[s] = "ordering" =>
         plan[s].size = IF SeenSize(s) > 0 THEN SeenSize(s) ELSE plan[s].row.size
    /\ pc[s] = "executed" => leg[plan[s].row.sym, plan[s].row.side] = 0
TaskClean(s) == Found(s) /\ Decided(s) /\ Ordered(s)

BookClean == RowsClean /\ LegsBacked /\ LayersKept
Clean == stray = {} /\ BookClean /\ SeenFresh /\ \A s \in Symbol : TaskClean(s)

\* The units of n entries.
LEMMA UnitsFacts ==
  /\ Units(0) = 0
  /\ \A n \in Nat : Units(n) \in Nat /\ Units(n + 1) = Units(n) + EntrySize
  /\ \A m, n \in Nat : m <= n => Units(m) <= Units(n)
<1> USE AdmissionAssumption DEF AdmissionAssumption, Units
<1>1. Units(0) = 0
  OBVIOUS
<1>2. \A n \in Nat : Units(n) \in Nat /\ Units(n + 1) = Units(n) + EntrySize
  OBVIOUS
<1>3. ASSUME NEW m \in Nat, NEW n \in Nat, m <= n PROVE Units(m) <= Units(n)
  <2>1. PICK d \in Nat : n = m + d
    BY <1>3, n - m \in Nat, n = m + (n - m)
  <2>2. EntrySize * (m + d) = EntrySize * m + EntrySize * d
    OBVIOUS
  <2>3. EntrySize * d \in Nat
    OBVIOUS
  <2> QED
    BY <2>1, <2>2, <2>3
<1> QED
  BY <1>1, <1>2, <1>3

\* The rows that back a leg are finitely many.
LEMMA LegRowsFinite ==
  Typed => \A l : /\ LegRows(l) \subseteq Row /\ IsFiniteSet(LegRows(l))
                  /\ Cardinality(LegRows(l)) \in Nat /\ Backed(l) \in Nat
<1> SUFFICES ASSUME Typed, NEW l
             PROVE  /\ LegRows(l) \subseteq Row /\ IsFiniteSet(LegRows(l))
                    /\ Cardinality(LegRows(l)) \in Nat /\ Backed(l) \in Nat
  OBVIOUS
<1>1. LegRows(l) \subseteq Row
  BY DEF LegRows, Typed, BookTyped
<1>2. IsFiniteSet(LegRows(l)) /\ Cardinality(LegRows(l)) \in Nat
  BY <1>1, FiniteRows
<1> QED
  BY <1>1, <1>2 DEF Backed

\* What backs a leg is a natural.
LEMMA BackedIsNat == Typed => \A l : Backed(l) \in Nat
  BY LegRowsFinite

\* A leg is a symbol and a side.
LEMMA LegParts == \A l \in Leg : l[1] \in Symbol /\ l[2] \in Side /\ l = <<l[1], l[2]>>
  BY DEF Leg

\* One row less of a set of rows is one less of their number.
LEMMA OneRowLess ==
  ASSUME NEW R \in SUBSET Row, NEW r \in R
  PROVE  Cardinality(R \ {r}) = Cardinality(R) - 1 /\ Cardinality(R) >= 1
<1>1. IsFiniteSet(R) /\ Cardinality(R) \in Nat /\ R \ {r} \in SUBSET Row
  BY FiniteRows
<1>2. Cardinality(R \ {r}) = Cardinality(R) - 1
  BY <1>1, FS_RemoveElement
<1>3. Cardinality(R \ {r}) \in Nat
  BY <1>1, FiniteRows
<1> QED
  BY <1>1, <1>2, <1>3

\* One row more of a set of rows is one more of their number.
LEMMA OneRowMore ==
  ASSUME NEW R \in SUBSET Row, NEW r \in Row \ R
  PROVE  Cardinality(R \cup {r}) = Cardinality(R) + 1
  BY FiniteRows, FS_AddElement

\* What a task sees of the cached positions is a sum of theirs.
LEMMA SeenSum == \A s \in Symbol : SeenSize(s) = SumOf(seen, SeenLegs(s))
  BY Zenon DEF SeenSize, SumOf

\* What a task sees of the cached positions changes only with them.
LEMMA SeenKept ==
  ASSUME seen' = seen
  PROVE  \A s \in Symbol : SeenLegs(s)' = SeenLegs(s) /\ SeenSize(s)' = SeenSize(s)
<1>1. (\A s \in Symbol : SeenSize(s) = SumOf(seen, SeenLegs(s)))'
  BY SeenSum, PTL
<1>2. \A s \in Symbol : SeenSize(s)' = SumOf(seen', SeenLegs(s)')
  BY <1>1
<1>3. \A s \in Symbol : SeenLegs(s)' = SeenLegs(s)
  BY DEF SeenLegs
<1> QED
  BY <1>2, <1>3, SeenSum

\* A leg that is not empty has a row, or a fill that is being recorded.
LEMMA LegHasRow ==
  ASSUME Typed, LegsBacked, NEW l \in Leg, leg[l] > 0, ~InFlight(l)
  PROVE  \E r \in rows \ closing : r.sym = l[1] /\ r.side = l[2]
<1>1. Backed(l) = Cardinality(LegRows(l)) /\ leg[l] \in Nat
  <2>1. leg[l] \in Nat
    BY AdmissionAssumption DEF AdmissionAssumption, Typed, CycleTyped
  <2>2. Backed(l) = Cardinality(LegRows(l)) + 0
    BY DEF Backed
  <2> QED
    BY <2>1, <2>2, LegRowsFinite
<1>2. Cardinality(LegRows(l)) # 0
  <2>1. leg[l] <= Units(Backed(l))
    BY DEF LegsBacked
  <2> QED
    BY <1>1, <2>1, UnitsFacts
<1>3. LegRows(l) # {}
  BY <1>2, FS_EmptySet
<1> QED
  BY <1>3 DEF LegRows

\* A step that shrinks legs, commits the session and keeps the fills on their
\* way leaves the book clean.
LEMMA BookKept ==
  ASSUME Typed, Typed', BookClean,
         \A l \in Leg : leg'[l] <= leg[l],
         rows' \subseteq rows, rows' \ closing' = rows \ closing, UNCHANGED layers,
         \A l \in Leg : InFlight(l)' <=> InFlight(l)
  PROVE  BookClean'
<1>1. RowsClean'
  BY DEF BookClean, RowsClean
<1>2. \A l \in Leg : LegRows(l)' = LegRows(l) /\ Backed(l)' = Backed(l)
  <2> SUFFICES ASSUME NEW l \in Leg
               PROVE  LegRows(l)' = LegRows(l) /\ Backed(l)' = Backed(l)
    OBVIOUS
  <2>1. LegRows(l)' = LegRows(l)
    BY DEF LegRows
  <2>2. InFlight(l)' <=> InFlight(l)
    OBVIOUS
  <2> QED
    BY <2>1, <2>2 DEF Backed
<1>3. LegsBacked'
  <2> SUFFICES ASSUME NEW l \in Leg PROVE leg'[l] <= Units(Backed(l)')
    BY DEF LegsBacked, Units
  <2>1. leg'[l] <= leg[l] /\ leg[l] <= Units(Backed(l)) /\ Backed(l)' = Backed(l)
    BY <1>2 DEF BookClean, LegsBacked
  <2>2. leg[l] \in Int /\ leg'[l] \in Int /\ Units(Backed(l)) \in Int
    <3>1. leg[l] \in 0..MaxUnits /\ leg'[l] \in 0..MaxUnits
      BY DEF Typed, CycleTyped
    <3> QED
      BY <3>1, LegRowsFinite, UnitsFacts
  <2> QED
    BY <2>1, <2>2
<1>4. LayersKept'
  <2>1. \A s \in Symbol : Adds(s)' = Adds(s)
    BY DEF Adds
  <2> QED
    BY <2>1 DEF BookClean, LayersKept
<1> QED
  BY <1>1, <1>3, <1>4 DEF BookClean

\* A task that holds nothing has nothing to keep.
LEMMA IdleTask ==
  ASSUME NEW s \in Symbol, pc[s] \notin Busy
  PROVE  TaskClean(s)
  BY DEF TaskClean, Found, Decided, Ordered, Busy, InOrder

\* While no task works, a clean book is all there is to keep.
LEMMA NoTaskClean ==
  ASSUME BookClean, SeenFresh, stray = {}, \A s \in Symbol : pc[s] \notin Busy
  PROVE  Clean
  BY IdleTask DEF Clean

\* The sync finds a row for every leg: it adopts none, and closes the rows of
\* symbols without a leg.
LEMMA SyncKeepsClean ==
  ASSUME Typed, Typed', Clean, Sync, faults = 0, faults' = 0
  PROVE  Clean'
<1>1. phase = "sync" /\ phase' = "cache" /\ closing = {} /\ closing' = {}
  BY DEF Sync, Typed, BookTyped
<1>2. UNCHANGED <<leg, pc, plan, stray>> /\ \A s \in Symbol : pc[s] = "idle"
  BY <1>1 DEF Sync, Typed, TaskTyped, taskVars, threadVars
<1>3. \A l \in Leg : ~InFlight(l) /\ ~InFlight(l)'
  BY <1>2 DEF InFlight, Leg
<1>4. BookClean'
  <2>1. CASE UNCHANGED <<rows, layers>>
    <3>1. \A l \in Leg : leg'[l] <= leg[l]
      BY <1>2 DEF Typed, CycleTyped
    <3> QED
      BY <1>1, <1>3, <2>1, <3>1, BookKept DEF Clean
  <2>2. CASE rows' = Synced({}) /\ layers' = PopLayers(rows \ LiveRows)
    <3>1. BookClean
      BY DEF Clean
    <3>2. rows' = LiveRows
      <4>1. \A l \in Leg : leg[l] > 0 => \E r \in rows : r.sym = l[1] /\ r.side = l[2]
        BY <1>3, <3>1, LegHasRow DEF BookClean
      <4>2. Orphans = {}
        BY <4>1 DEF Orphans
      <4> QED
        BY <2>2, <4>2 DEF Synced
    <3>3. RowsClean'
      BY <3>1, <3>2 DEF BookClean, RowsClean, LiveRows
    <3>4. LegsBacked'
      <4>0. (\A l : Backed(l) \in Nat)'
        BY BackedIsNat, PTL
      <4> SUFFICES ASSUME NEW l \in Leg PROVE leg'[l] <= Units(Backed(l)')
        BY DEF LegsBacked, Units
      <4>1. leg'[l] = leg[l] /\ leg[l] \in Nat
        BY <1>2, AdmissionAssumption DEF Typed, CycleTyped, AdmissionAssumption
      <4>2. CASE leg[l] = 0
        <5>1. Units(Backed(l)') \in Nat
          BY <4>0, UnitsFacts
        <5> QED
          BY <4>1, <4>2, <5>1
      <4>3. CASE leg[l] > 0
        <5>1. l[1] \in LiveSymbols
          <6>1. l[1] \in Symbol /\ l[2] \in Side /\ leg[l[1], l[2]] = leg[l]
            BY LegParts
          <6> QED
            BY <4>3, <6>1 DEF LiveSymbols
        <5>2. LegRows(l)' = LegRows(l)
          BY <1>1, <3>2, <5>1 DEF LegRows, LiveRows
        <5>3. Backed(l)' = Backed(l)
          BY <1>3, <5>2 DEF Backed
        <5> QED
          BY <3>1, <4>1, <5>3 DEF BookClean, LegsBacked
      <4> QED
        BY <4>1, <4>2, <4>3
    <3>5. LayersKept'
      <4> SUFFICES ASSUME NEW s \in Symbol
                   PROVE  layers'[s] = Cardinality(Adds(s)') /\ layers'[s] <= MaxLayers
        BY DEF LayersKept
      <4> DEFINE gone == {r \in rows \ LiveRows : r.sym = s /\ r.layer > 0}
      <4>1. layers[s] = Cardinality(Adds(s)) /\ layers[s] <= MaxLayers /\ layers[s] \in Nat
        BY <3>1 DEF BookClean, LayersKept, Typed, BookTyped
      <4>2. layers'[s] = IF Cardinality(gone) > layers[s] THEN 0 ELSE layers[s] - Cardinality(gone)
        BY <2>2 DEF PopLayers
      <4>3. CASE s \in LiveSymbols
        <5>1. gone = {} /\ Adds(s)' = Adds(s)
          BY <1>1, <3>2, <4>3 DEF LiveRows, Adds
        <5>2. Cardinality(gone) = 0
          BY <5>1, FS_EmptySet
        <5> QED
          BY <4>1, <4>2, <5>1, <5>2
      <4>4. CASE s \notin LiveSymbols
        <5>1. gone = Adds(s) /\ Adds(s)' = {}
          BY <1>1, <3>2, <4>4 DEF LiveRows, Adds
        <5>2. Cardinality(Adds(s)') = 0
          BY <5>1, FS_EmptySet
        <5> HIDE DEF gone
        <5> QED
          BY <4>1, <4>2, <5>1, <5>2, AdmissionAssumption DEF AdmissionAssumption
      <4> QED
        BY <4>3, <4>4
    <3> QED
      BY <3>3, <3>4, <3>5 DEF BookClean
  <2>3. faults' # faults + 1
    OBVIOUS
  <2> QED
    BY <1>1, <2>1, <2>2, <2>3 DEF Sync, Fault
<1>5. SeenFresh'
  BY <1>1 DEF SeenFresh
<1>6. \A s \in Symbol : TaskClean(s)'
  BY <1>2 DEF TaskClean, Found, Decided, Ordered, Busy, InOrder
<1> QED
  BY <1>2, <1>4, <1>5, <1>6 DEF Clean

\* The other steps of a cycle keep the invariant.
LEMMA CycleKeepsClean ==
  ASSUME Typed, Typed', Clean, Cycle, faults = 0, faults' = 0
  PROVE  Clean'
<1>0. BookClean /\ stray = {}
  BY DEF Clean
<1>1. ~Fault
  BY DEF Fault
<1>2. \A l \in Leg : leg[l] \in Nat
  BY AdmissionAssumption DEF AdmissionAssumption, Typed, CycleTyped
<1>3. ASSUME NEW x \in {"idle", "wait"},
             \A s \in Symbol : pc[s] \in {"idle", "wait", "done"}, \A s \in Symbol : pc'[s] = x,
             UNCHANGED <<leg, layers, stray>>, rows' = rows \ closing, closing' = {}, SeenFresh'
      PROVE  Clean'
  <2>1. \A l \in Leg : ~InFlight(l) /\ ~InFlight(l)'
    BY <1>3 DEF InFlight, Leg
  <2>2. \A l \in Leg : leg'[l] <= leg[l]
    BY <1>2, <1>3
  <2>3. BookClean'
    BY <1>0, <1>3, <2>1, <2>2, BookKept
  <2>4. \A s \in Symbol : TaskClean(s)'
    BY <1>3 DEF TaskClean, Found, Decided, Ordered, Busy, InOrder
  <2> QED
    BY <1>0, <1>3, <2>3, <2>4 DEF Clean
<1>4. phase # "scan" => \A s \in Symbol : pc[s] = "idle"
  BY DEF Typed, TaskTyped
<1>5. phase \notin {"emergency", "exits"} => closing = {}
  BY DEF Typed, BookTyped
<1>6. CASE StartCycle
  BY <1>3, <1>4, <1>5, <1>6 DEF StartCycle, bookVars, taskVars, threadVars, SeenFresh
<1>7. CASE EndEmergency
  BY <1>1, <1>3, <1>4, <1>7 DEF EndEmergency, CommitExits, taskVars, threadVars, SeenFresh
<1>8. CASE Sync
  BY <1>8, SyncKeepsClean
<1>9. CASE SyncFails
  BY <1>1, <1>9 DEF SyncFails
<1>10. CASE CachePositions
  <2>1. SeenFresh'
    BY <1>1, <1>2, <1>10 DEF CachePositions, SeenFresh
  <2> QED
    BY <1>3, <1>4, <1>5, <1>10, <2>1 DEF CachePositions, bookVars, taskVars, threadVars
<1>11. CASE BeginScan
  <2>1. UNCHANGED <<leg, layers, seen, stray>> /\ rows' = rows \ closing /\ closing' = {}
        /\ phase = "exits" /\ phase' = "scan" /\ \A s \in Symbol : pc'[s] = "wait"
    BY <1>1, <1>11 DEF BeginScan, CommitExits, threadVars
  <2>2. \A l \in Leg : leg[l] <= seen[l]
    BY <2>1 DEF Clean, SeenFresh
  <2>3. \A l \in Leg : seen[l] \in Nat
    BY AdmissionAssumption DEF AdmissionAssumption, Typed, CycleTyped
  <2>4. SeenFresh'
    BY <1>2, <2>1, <2>2, <2>3 DEF SeenFresh
  <2>5. \A s \in Symbol : pc[s] = "idle"
    BY <1>4, <2>1
  <2> QED
    BY <1>3, <2>1, <2>4, <2>5
<1>12. CASE NextBatch
  <2>1. UNCHANGED <<rows, closing, layers, leg, phase, seen, pc, plan, stray>>
        /\ \A s \in batch : pc[s] = "done"
    BY <1>12 DEF NextBatch, bookVars, cycleVars, threadVars
  <2>2. \A s \in Symbol : pc[s] \notin Busy
    BY <2>1 DEF Clean, TaskClean, Found, Busy
  <2>3. BookClean'
    <3>1. \A l \in Leg : InFlight(l)' <=> InFlight(l)
      BY <2>1 DEF InFlight
    <3>2. rows' \subseteq rows /\ rows' \ closing' = rows \ closing
      BY <2>1
    <3>3. \A l \in Leg : leg'[l] <= leg[l]
      BY <1>2, <2>1
    <3> QED
      BY <1>0, <2>1, <3>1, <3>2, <3>3, BookKept
  <2>4. SeenFresh'
    BY <2>1, SeenKept DEF Clean, SeenFresh, Outgrown, Leg
  <2>5. \A s \in Symbol : TaskClean(s)'
    BY <2>1, <2>2 DEF TaskClean, Found, Decided, Ordered, Busy, InOrder
  <2> QED
    BY <1>0, <2>1, <2>3, <2>4, <2>5 DEF Clean
<1>13. CASE EndCycle
  BY <1>3, <1>5, <1>13 DEF EndCycle, bookVars, threadVars, SeenFresh
<1> QED
  BY <1>6, <1>7, <1>8, <1>9, <1>10, <1>11, <1>12, <1>13 DEF Cycle

\* A row's close is forgotten as a layer exactly when it was one.
LEMMA LayersPopped ==
  ASSUME Typed, RowsClean, LayersKept, NEW r \in rows \ closing,
         layers' = PopLayers({r}), rows' \ closing' = (rows \ closing) \ {r}
  PROVE  LayersKept'
<1> SUFFICES ASSUME NEW s \in Symbol
             PROVE  layers'[s] = Cardinality(Adds(s)') /\ layers'[s] <= MaxLayers
  BY DEF LayersKept
<1> DEFINE gone == {q \in {r} : q.sym = s /\ q.layer > 0}
<1>1. layers[s] = Cardinality(Adds(s)) /\ layers[s] <= MaxLayers /\ layers[s] \in Nat
  BY DEF LayersKept, Typed, BookTyped
<1>2. layers'[s] = IF Cardinality(gone) > layers[s] THEN 0 ELSE layers[s] - Cardinality(gone)
  BY DEF PopLayers
<1>3. CASE r.sym = s /\ r.layer > 0
  <2>1. gone = {r} /\ r \in Adds(s) /\ Adds(s)' = Adds(s) \ {r}
    BY <1>3 DEF Adds
  <2>2. Cardinality(gone) = 1
    BY <2>1, FS_Singleton
  <2>3. Adds(s) \in SUBSET Row
    BY DEF Adds, Typed, BookTyped
  <2>4. Cardinality(Adds(s)') = Cardinality(Adds(s)) - 1 /\ Cardinality(Adds(s)) >= 1
    BY <2>1, <2>3, OneRowLess
  <2> HIDE DEF gone
  <2> QED
    BY <1>1, <1>2, <2>2, <2>4, AdmissionAssumption DEF AdmissionAssumption
<1>4. CASE ~(r.sym = s /\ r.layer > 0)
  <2>1. gone = {} /\ Adds(s)' = Adds(s)
    BY <1>4 DEF Adds
  <2>2. Cardinality(gone) = 0
    BY <2>1, FS_EmptySet
  <2> HIDE DEF gone
  <2> QED
    BY <1>1, <1>2, <2>1, <2>2
<1> QED
  BY <1>3, <1>4

\* An exit closes a row with its leg, or finds the leg gone.
LEMMA ExitKeepsClean ==
  ASSUME Typed, Typed', Clean, NEW r \in rows, EmergencyExit(r) \/ ManagedExit(r),
         faults = 0, faults' = 0
  PROVE  Clean'
<1> DEFINE e == <<r.sym, r.side>>
<1>1. /\ r \in rows \ closing /\ phase \in {"emergency", "exits"}
      /\ leg' = Reduced(e, r.size) /\ CloseInSession(r)
      /\ UNCHANGED <<phase, seen, pc, plan, batch, stray>>
  BY ExitSteps DEF cycleVars, taskVars, threadVars
<1>2. RowsClean /\ LegsBacked /\ LayersKept /\ SeenFresh /\ stray = {}
  BY DEF Clean, BookClean
<1>3. e \in Leg /\ r.size = EntrySize /\ leg \in [Leg -> 0..MaxUnits] /\ seen \in [Leg -> 0..MaxUnits]
  BY <1>2 DEF Typed, BookTyped, CycleTyped, Row, Leg, RowsClean
<1>4. ReduceResult(e, r.size) # "refused" \/ leg[e] = 0
  <2>1. CASE EmergencyExit(r)
    <3>1. \/ ReduceResult(e, r.size) = "closed"
          \/ \A side \in Side : leg[r.sym, side] = 0
          \/ Fault
      BY <2>1, Zenon DEF EmergencyExit
    <3>2. ~Fault
      BY DEF Fault
    <3>3. r.side \in Side
      BY DEF Typed, BookTyped, Row
    <3>4. (\A side \in Side : leg[r.sym, side] = 0) => leg[e] = 0
      BY <3>3
    <3> HIDE DEF e
    <3> QED
      BY <3>1, <3>2, <3>4
  <2>2. CASE ManagedExit(r)
    <3>1. phase = "exits" /\ (ReduceResult(e, r.size) = "refused" => ShownFlat(r.sym))
      BY <2>2 DEF ManagedExit
    <3>2. leg[e] <= seen[e]
      BY <1>2, <1>3, <3>1 DEF SeenFresh
    <3>3. ShownFlat(r.sym) => seen[e] = 0
      BY <1>3 DEF ShownFlat, Leg
    <3> HIDE DEF e
    <3> QED
      BY <1>3, <3>1, <3>2, <3>3, AdmissionAssumption DEF AdmissionAssumption
  <2> QED
    BY <2>1, <2>2
<1>5. \A s \in Symbol : pc[s] = "idle" /\ pc'[s] = "idle"
  BY <1>1 DEF Typed, TaskTyped
<1>6. \A l \in Leg : ~InFlight(l) /\ ~InFlight(l)'
  BY <1>5 DEF InFlight, Leg
<1>7. rows' \ closing' = (rows \ closing) \ {r} /\ UNCHANGED rows /\ layers' = PopLayers({r})
  BY <1>1 DEF CloseInSession
<1> HIDE DEF e
<1>8. /\ \A l \in Leg \ {e} : leg'[l] = leg[l]
      /\ leg'[e] = 0 \/ leg'[e] = leg[e] - EntrySize
      /\ \A l \in Leg : leg'[l] <= leg[l]
  BY <1>1, <1>3, <1>4, AdmissionAssumption DEF Reduced, ReduceResult, AdmissionAssumption
<1>9. LegsBacked'
  <2>0. (\A l : Backed(l) \in Nat)'
    BY BackedIsNat, PTL
  <2> SUFFICES ASSUME NEW l \in Leg PROVE leg'[l] <= Units(Backed(l)')
    BY DEF LegsBacked, Units
  <2>1. leg[l] <= Units(Backed(l)) /\ leg[l] \in Int
    BY <1>2, <1>3 DEF LegsBacked
  <2>2. Backed(l) = Cardinality(LegRows(l)) + 0 /\ Backed(l)' = Cardinality(LegRows(l)') + 0
    BY <1>6 DEF Backed
  <2>3. CASE l # e
    <3>1. LegRows(l)' = LegRows(l)
      BY <1>7, <2>3, LegParts DEF LegRows, e
    <3> QED
      BY <1>8, <2>1, <2>2, <2>3, <3>1
  <2>4. CASE l = e /\ leg'[e] = 0
    BY <2>0, <2>4, UnitsFacts
  <2>5. CASE l = e /\ leg'[e] = leg[e] - EntrySize
    <3>1. r \in LegRows(l) /\ LegRows(l)' = LegRows(l) \ {r}
      BY <1>1, <1>7, <2>5 DEF LegRows, e
    <3>2. LegRows(l) \in SUBSET Row
      BY LegRowsFinite
    <3>3. Cardinality(LegRows(l)') = Cardinality(LegRows(l)) - 1
      BY <3>1, <3>2, OneRowLess
    <3>4. Backed(l) = Backed(l)' + 1 /\ Backed(l)' \in Nat
      BY <2>0, <2>2, <3>3, LegRowsFinite
    <3>5. Units(Backed(l)) = Units(Backed(l)') + EntrySize /\ Units(Backed(l)') \in Nat
      BY <3>4, UnitsFacts
    <3> QED
      BY <2>1, <2>5, <3>5, AdmissionAssumption DEF AdmissionAssumption
  <2> QED
    BY <1>8, <2>3, <2>4, <2>5
<1>10. RowsClean'
  BY <1>2, <1>7 DEF RowsClean
<1>11. LayersKept'
  BY <1>1, <1>2, <1>7, LayersPopped
<1>12. SeenFresh'
  <2>1. \A l \in Leg : leg'[l] \in Int /\ leg[l] \in Int /\ seen[l] \in Int
    BY <1>3 DEF Typed, CycleTyped
  <2> QED
    BY <1>1, <1>2, <1>8, <2>1 DEF SeenFresh
<1>13. \A s \in Symbol : TaskClean(s)'
  BY <1>5 DEF TaskClean, Found, Decided, Ordered, Busy, InOrder
<1> QED
  BY <1>1, <1>2, <1>9, <1>10, <1>11, <1>12, <1>13 DEF Clean, BookClean

\* The exchange takes from a leg what it likes.
LEMMA ExchangeKeepsClean ==
  ASSUME Typed, Typed', Clean, ExchangeReduces
  PROVE  Clean'
<1>1. UNCHANGED <<rows, closing, layers, phase, seen, pc, plan, batch, stray>>
  BY DEF ExchangeReduces, bookVars, cycleVars, taskVars, threadVars
<1>2. \A l \in Leg : leg'[l] <= leg[l] /\ leg[l] \in Nat /\ leg'[l] \in Nat /\ seen[l] \in Nat
  <2>1. \A l \in Leg : leg[l] \in Nat /\ leg'[l] \in Nat /\ seen[l] \in Nat
    BY AdmissionAssumption DEF AdmissionAssumption, Typed, CycleTyped
  <2>2. PICK m \in Leg : \E left \in 0..(leg[m] - 1) : leg' = [leg EXCEPT ![m] = left]
    BY DEF ExchangeReduces
  <2>3. \A l \in Leg : leg'[l] = leg[l] \/ (l = m /\ leg'[l] \in 0..(leg[m] - 1))
    BY <2>2 DEF Typed, CycleTyped
  <2> QED
    BY <2>1, <2>3
<1>3. BookClean'
  <2>1. \A l \in Leg : InFlight(l)' <=> InFlight(l)
    BY <1>1 DEF InFlight
  <2>2. rows' \subseteq rows /\ rows' \ closing' = rows \ closing
    BY <1>1
  <2> QED
    BY <1>1, <1>2, <2>1, <2>2, BookKept DEF Clean
<1>4. SeenFresh'
  <2>1. \A l \in Leg : Outgrown(l)' <=> Outgrown(l)
    BY <1>1, SeenKept DEF Outgrown, Leg
  <2>2. \A l \in Leg : leg'[l] > seen'[l] => leg[l] > seen[l]
    BY <1>1, <1>2
  <2>3. \A l \in Leg : leg[l] <= seen[l] => leg'[l] <= seen'[l]
    BY <1>1, <1>2
  <2> QED
    BY <1>1, <2>1, <2>2, <2>3 DEF Clean, SeenFresh
<1>5. ASSUME NEW s \in Symbol PROVE TaskClean(s)'
  <2>1. TaskClean(s)
    BY DEF Clean
  <2>2. Found(s)' /\ Decided(s)'
    BY <1>1, <2>1, SeenKept DEF TaskClean, Found, Decided, Alias
  <2>3. pc[s] = "executed" /\ plan[s].act = "flatten" =>
          <<plan[s].row.sym, plan[s].row.side>> \in Leg
    BY DEF Typed, TaskTyped, PlanOK, Row, Leg
  <2>4. pc[s] = "executed" /\ plan[s].act = "flatten" =>
          leg[plan[s].row.sym, plan[s].row.side] = 0 /\ leg'[plan[s].row.sym, plan[s].row.side] = 0
    <3> SUFFICES ASSUME pc[s] = "executed", plan[s].act = "flatten"
                 PROVE  leg[plan[s].row.sym, plan[s].row.side] = 0
                        /\ leg'[plan[s].row.sym, plan[s].row.side] = 0
      OBVIOUS
    <3> DEFINE l == <<plan[s].row.sym, plan[s].row.side>>
    <3>1. leg[l] = 0
      BY <2>1 DEF TaskClean, Ordered
    <3>2. l \in Leg
      BY <2>3
    <3>3. leg'[l] = 0
      <4> HIDE DEF l
      <4> QED
        BY <1>2, <3>1, <3>2
    <3> QED
      BY <3>1, <3>3
  <2>5. SeenSize(s)' = SeenSize(s)
    BY <1>1, SeenKept
  <2>6. Ordered(s)'
    BY <1>1, <2>1, <2>4, <2>5, Zenon DEF TaskClean, Ordered
  <2> QED
    BY <2>2, <2>6 DEF TaskClean
<1> QED
  BY <1>1, <1>3, <1>4, <1>5 DEF Clean

\* With pyramid adds a symbol is the only one of its coin.
LEMMA OwnSymbol ==
  ASSUME Separate, MaxLayers > 0, NEW s \in Symbol, NEW t \in Alias(s)
  PROVE  t = s
  BY AdmissionAssumption DEF Separate, Alias, AdmissionAssumption

\* A task keeps what it has while another one works: the others order nothing
\* while that one does, and their rows stay.
LEMMA OthersClean ==
  ASSUME Typed, LockInv, NEW s \in Symbol, NEW t \in Symbol \ {s}, TaskClean(t),
         pc'[t] = pc[t], plan'[t] = plan[t], UNCHANGED <<batch, seen>>,
         layers'[t] <= layers[t], layers'[t] \in Nat,
         \/ UNCHANGED <<rows, leg>>
         \/ /\ pc[s] \in InOrder
            /\ MaxLayers > 0 /\ plan[t].row \in rows => plan[t].row \in rows'
            /\ \A r \in rows' : r.sym = t => r \in rows
  PROVE  TaskClean(t)'
<1>1. Found(t)'
  BY SeenKept DEF TaskClean, Found, Alias
<1>2. Decided(t)'
  <2>1. layers[t] \in Nat
    BY DEF Typed, BookTyped
  <2>2. layers[t] < MaxLayers => layers'[t] < MaxLayers
    BY <2>1, AdmissionAssumption DEF AdmissionAssumption
  <2> QED
    BY <2>2 DEF TaskClean, Decided
<1>3. Ordered(t)'
  <2>1. CASE UNCHANGED <<rows, leg>>
    <3>1. SeenSize(t)' = SeenSize(t)
      BY SeenKept
    <3> QED
      BY <2>1, <3>1, Zenon DEF TaskClean, Ordered
  <2>2. CASE pc[s] \in InOrder
    <3>1. pc[t] \notin InOrder
      BY <2>2 DEF LockInv
    <3> QED
      BY <3>1 DEF Ordered, InOrder
  <2> QED
    BY <2>1, <2>2
<1> QED
  BY <1>1, <1>2, <1>3 DEF TaskClean

\* A task that touches neither book nor legs.
LEMMA ThoughtKeepsClean ==
  ASSUME Typed, Typed', LockInv, Clean, NEW s \in Symbol, NEW x,
         phase = "scan", pc[s] \notin {"executed", "done"}, x # "executed",
         pc' = [pc EXCEPT ![s] = x], \A t \in Symbol \ {s} : plan'[t] = plan[t],
         UNCHANGED <<rows, closing, layers, leg, phase, seen, batch, stray>>,
         TaskClean(s)'
  PROVE  Clean'
<1>1. \A t \in Symbol : pc'[t] = IF t = s THEN x ELSE pc[t]
  BY DEF Typed, TaskTyped
<1>2. \A l \in Leg : leg[l] \in Nat /\ seen[l] \in Nat
  BY AdmissionAssumption DEF AdmissionAssumption, Typed, CycleTyped
<1>3. BookClean'
  <2>1. \A l \in Leg : InFlight(l)' <=> InFlight(l)
    BY <1>1, LegParts DEF InFlight
  <2>2. \A l \in Leg : leg'[l] <= leg[l]
    BY <1>2
  <2> QED
    BY <2>1, <2>2, BookKept DEF Clean
<1>4. SeenFresh'
  <2>1. \A l \in Leg : leg[l] > seen[l] => Outgrown(l)
    BY DEF Clean, SeenFresh
  <2>2. \A l \in Leg : Outgrown(l) => Outgrown(l)'
    BY <1>1, LegParts, SeenKept DEF Outgrown
  <2> QED
    BY <2>1, <2>2 DEF SeenFresh
<1>5. ASSUME NEW t \in Symbol \ {s} PROVE TaskClean(t)'
  <2>1. layers'[t] <= layers[t] /\ layers'[t] \in Nat
    <3>1. layers[t] \in Nat
      BY DEF Typed, BookTyped
    <3> QED
      BY <3>1
  <2> QED
    BY <1>1, <2>1, OthersClean DEF Clean
<1> QED
  BY <1>3, <1>4, <1>5 DEF Clean

\* A task that returns leaves nothing to keep.
LEMMA ReturnKeepsClean ==
  ASSUME Typed, Typed', LockInv, Clean, NEW s \in Symbol, phase = "scan",
         pc[s] \notin {"executed", "done"}, Return(s),
         UNCHANGED <<rows, closing, layers, leg, phase, seen, batch, stray>>
  PROVE  Clean'
<1>1. pc'[s] = "done" /\ \A t \in Symbol \ {s} : plan'[t] = plan[t]
  BY DEF Return, Typed, TaskTyped
<1>2. TaskClean(s)'
  BY <1>1 DEF TaskClean, Found, Decided, Ordered, Busy, InOrder
<1> QED
  BY <1>1, <1>2, ThoughtKeepsClean DEF Return

\* Up to the lock a task only finds and decides.
LEMMA DecisionKeepsClean ==
  ASSUME Typed, Typed', LockInv, Clean, NEW s \in Symbol,
         Begin(s) \/ Evaluate(s) \/ CheckDirection(s)
  PROVE  Clean'
<1>1. UNCHANGED <<rows, closing, layers, leg, phase, seen, batch, stray>>
  BY DEF Begin, Evaluate, CheckDirection, bookVars, cycleVars, threadVars
<1>2. pc[s] \in {"wait", "begun", "evaluated"} /\ phase = "scan"
  BY DEF Begin, Evaluate, CheckDirection, Typed, TaskTyped
<1>3. CASE Return(s)
  BY <1>1, <1>2, <1>3, ReturnKeepsClean
<1>4. pc \in [Symbol -> Phases] /\ plan \in [Symbol -> Plans]
  BY DEF Typed, TaskTyped
<1>5. TaskClean(s) /\ SeenLegs(s)' = SeenLegs(s)
  BY <1>1, SeenKept DEF Clean
<1>6. CASE Begin(s) /\ ~Return(s)
  <2>1. PICK row \in Existing(s) :
          /\ ~Unfit(s, row) /\ pc' = [pc EXCEPT ![s] = "begun"]
          /\ plan' = [plan EXCEPT ![s] = Plan("none", "BUY", row, 0)]
    BY <1>6 DEF Begin
  <2>2. pc'[s] = "begun" /\ plan'[s] = Plan("none", "BUY", row, 0)
    BY <1>4, <2>1
  <2>3. /\ row # NoRow => row \in rows /\ row.sym \in Alias(s)
        /\ row = NoRow => SeenLegs(s) = {} /\ \A r \in rows : r.sym # s
    <3>1. s \in Alias(s)
      BY DEF Alias
    <3>2. NoRow \notin rows
      BY NoRowIsNone DEF Typed, BookTyped
    <3> QED
      BY <2>1, <3>1, <3>2 DEF Existing, Unfit
  <2>4. s \in batch
    BY <1>6 DEF Begin
  <2>5. Found(s)'
    BY <1>1, <1>5, <2>2, <2>3, <2>4 DEF Found, Plan, Alias
  <2>6. TaskClean(s)'
    BY <2>2, <2>5 DEF TaskClean, Decided, Ordered, Plan, Busy
  <2>7. \A t \in Symbol \ {s} : plan'[t] = plan[t]
    BY <1>4, <2>1
  <2> QED
    BY <1>1, <1>2, <2>1, <2>6, <2>7, ThoughtKeepsClean
<1>7. CASE Evaluate(s) /\ ~Return(s)
  <2>0. plan[s].row # NoRow => plan[s].row.side \in Side
    BY <1>4 DEF Plans, Row
  <2>1. PICK act \in {"enter", "pyramid", "flatten"}, side \in Side :
          /\ pc' = [pc EXCEPT ![s] = "evaluated"]
          /\ plan' = [plan EXCEPT ![s] = Plan(act, side, plan[s].row, 0)]
          /\ act = "enter" => plan[s].row = NoRow
          /\ act = "pyramid" => plan[s].row # NoRow /\ LayerFree(s) /\ side = plan[s].row.side
          /\ act = "flatten" => plan[s].row # NoRow
    BY <1>7, <2>0 DEF Evaluate
  <2>2. pc'[s] = "evaluated" /\ plan'[s] = Plan(act, side, plan[s].row, 0) /\ pc[s] = "begun"
    BY <1>4, <1>7, <2>1 DEF Evaluate
  <2>3. Found(s)'
    BY <1>1, <1>5, <2>2 DEF TaskClean, Found, Plan, Alias, Busy
  <2>4. Decided(s)'
    BY <1>1, <2>1, <2>2 DEF Decided, Plan, LayerFree
  <2>5. TaskClean(s)'
    BY <2>2, <2>3, <2>4 DEF TaskClean, Ordered, InOrder
  <2>6. \A t \in Symbol \ {s} : plan'[t] = plan[t]
    BY <1>4, <2>1
  <2> QED
    BY <1>1, <1>2, <2>1, <2>5, <2>6, ThoughtKeepsClean
<1>8. CASE CheckDirection(s) /\ ~Return(s)
  <2>1. pc' = [pc EXCEPT ![s] = "queued"] /\ UNCHANGED plan /\ pc[s] = "evaluated"
    BY <1>8 DEF CheckDirection
  <2>2. pc'[s] = "queued"
    BY <1>4, <2>1
  <2>3. Found(s)' /\ Decided(s)'
    BY <1>1, <1>5, <2>1, <2>2 DEF TaskClean, Found, Decided, Alias, Busy
  <2>4. TaskClean(s)'
    BY <2>2, <2>3 DEF TaskClean, Ordered, InOrder
  <2> QED
    BY <1>1, <1>2, <2>1, <2>4, ThoughtKeepsClean
<1> QED
  BY <1>3, <1>6, <1>7, <1>8

\* Under the lock it fixes the size of its order.
LEMMA TakeLockKeepsClean ==
  ASSUME Typed, Typed', LockInv, Clean, NEW s \in Symbol, TakeLock(s)
  PROVE  Clean'
<1>1. UNCHANGED <<rows, closing, layers, leg, phase, seen, batch, stray>> /\ pc[s] = "queued"
  BY DEF TakeLock, bookVars, cycleVars
<1>2. phase = "scan"
  BY <1>1 DEF Typed, TaskTyped
<1>3. CASE Return(s)
  BY <1>1, <1>2, <1>3, ReturnKeepsClean
<1>4. CASE ~Return(s)
  <2> DEFINE p == Plan(plan[s].act, plan[s].side, plan[s].row, OrderSize(s))
  <2>1. Admitted(s) /\ pc' = [pc EXCEPT ![s] = "ordering"]
    BY <1>4 DEF TakeLock
  <2>2. plan' = [plan EXCEPT ![s] = p]
    BY <1>4, Zenon DEF TakeLock, Typed, TaskTyped
  <2>3. /\ pc'[s] = "ordering" /\ plan'[s] = p
        /\ \A t \in Symbol \ {s} : plan'[t] = plan[t]
    <3> HIDE DEF p
    <3> QED
      BY <2>1, <2>2 DEF Typed, TaskTyped
  <2>4. plan'[s].act = plan[s].act /\ plan'[s].side = plan[s].side /\ plan'[s].row = plan[s].row
        /\ plan'[s].size = OrderSize(s)
    BY <2>3 DEF Plan
  <2> HIDE DEF p
  <2>5. Found(s) /\ Decided(s) /\ SeenLegs(s)' = SeenLegs(s) /\ SeenSize(s)' = SeenSize(s)
    BY <1>1, SeenKept DEF Clean, TaskClean
  <2>6. Found(s)' /\ Decided(s)'
    BY <1>1, <2>3, <2>4, <2>5 DEF Found, Decided, Alias, Busy
  <2>7. plan[s].act = "flatten" =>
          /\ plan[s].row \in rows
          /\ OrderSize(s) = IF SeenSize(s) > 0 THEN SeenSize(s) ELSE plan[s].row.size
    BY <2>1, Zenon DEF Admitted, OrderSize
  <2>8. Ordered(s)'
    BY <1>1, <2>3, <2>4, <2>5, <2>7, Zenon DEF Ordered
  <2>9. TaskClean(s)'
    BY <2>6, <2>8 DEF TaskClean
  <2> QED
    BY <1>1, <1>2, <2>1, <2>3, <2>9, ThoughtKeepsClean
<1> QED
  BY <1>3, <1>4

\* A task with an order to open finds no row of its symbol on the other side,
\* so nothing is left for the hedge guard to refuse.
LEMMA RowsOnItsSide ==
  ASSUME Typed, Separate, Clean, NEW s \in Symbol, pc[s] \in InOrder, plan[s].act # "flatten"
  PROVE  /\ \A r \in rows : r.sym = s => r.side = plan[s].side
         /\ plan[s].act = "enter" => \A r \in rows : r.sym # s
         /\ plan[s].act \in {"enter", "pyramid"} /\ plan[s].side \in Side
<1>1. Found(s) /\ Decided(s) /\ RowsClean /\ pc[s] \in Busy \ {"begun"}
  BY DEF Clean, BookClean, TaskClean, InOrder, Busy
<1>2. plan[s].act \in {"enter", "pyramid"} /\ plan[s].side \in Side
  BY <1>1 DEF Decided, Typed, TaskTyped, Plans, Act
<1>3. CASE plan[s].act = "enter"
  BY <1>1, <1>2, <1>3 DEF Found, Decided
<1>4. CASE plan[s].act = "pyramid"
  <2>1. /\ plan[s].row # NoRow /\ plan[s].side = plan[s].row.side /\ MaxLayers > 0
        /\ plan[s].row.sym \in Alias(s) /\ (MaxLayers > 0 => plan[s].row \in rows)
    <3>1. layers[s] \in Nat /\ (layers[s] < MaxLayers => MaxLayers > 0)
      BY AdmissionAssumption DEF AdmissionAssumption, Typed, BookTyped
    <3> QED
      BY <1>1, <1>4, <3>1 DEF Found, Decided
  <2>2. plan[s].row.sym = s
    BY <2>1, OwnSymbol
  <2> QED
    BY <1>1, <1>2, <1>4, <2>1, <2>2 DEF RowsClean
<1> QED
  BY <1>2, <1>3, <1>4

\* The guard's leg is empty.
LEMMA NothingOpposite ==
  ASSUME Typed, Separate, Clean, NEW s \in Symbol, pc[s] = "ordering", plan[s].act # "flatten"
  PROVE  leg[s, Opposite(plan[s].side)] = 0
<1> DEFINE o == <<s, Opposite(plan[s].side)>>
<1>1. \A r \in rows : r.sym = s => r.side = plan[s].side
  BY RowsOnItsSide DEF InOrder
<1>2. o \in Leg /\ o[1] = s /\ o[2] # plan[s].side
  <2>1. plan[s].side \in Side
    BY RowsOnItsSide DEF InOrder
  <2> QED
    BY <2>1 DEF Opposite, Leg, Side
<1>3. leg[o] \in Nat
  BY <1>2, AdmissionAssumption DEF AdmissionAssumption, Typed, CycleTyped
<1> HIDE DEF o
<1>4. ~InFlight(o)
  BY <1>2 DEF InFlight
<1>5. ~ leg[o] > 0
  BY <1>1, <1>2, <1>4, LegHasRow DEF Clean, BookClean
<1>6. leg[o] = 0
  BY <1>3, <1>5
<1> QED
  BY <1>6 DEF o

\* A flatten's order is large enough for the leg of its row.
LEMMA FlattenCovers ==
  ASSUME Typed, LockInv, Separate, Clean, NEW s \in Symbol, pc[s] = "ordering",
         plan[s].act = "flatten", NEW l, l = <<plan[s].row.sym, plan[s].row.side>>
  PROVE  l \in Leg /\ leg[l] <= plan[s].size
<1>1. /\ plan[s].row \in Row /\ plan[s].row \in rows /\ plan[s].row.sym \in Alias(s)
      /\ plan[s].size = IF SeenSize(s) > 0 THEN SeenSize(s) ELSE plan[s].row.size
  <2>1. plan[s].row \in Row /\ NoRow \notin Row
    BY NoRowIsNone DEF Typed, TaskTyped, PlanOK
  <2> QED
    BY <2>1 DEF Clean, TaskClean, Found, Ordered, InOrder, Busy
<1>2. l \in Leg /\ Base[l[1]] = Base[s] /\ l[1] = plan[s].row.sym /\ l[2] = plan[s].row.side
  BY <1>1 DEF Row, Leg, Alias
<1>3. leg[l] \in Nat /\ seen[l] \in Nat /\ SeenSize(s) \in Nat
  <2>1. SeenSize(s) \in Nat
    BY SeenSizes DEF Typed, CycleTyped
  <2> QED
    BY <1>2, <2>1, AdmissionAssumption DEF AdmissionAssumption, Typed, CycleTyped
<1>4. phase = "scan"
  BY DEF Typed, TaskTyped
<1>5. CASE leg[l] <= seen[l]
  <2>1. CASE seen[l] = 0
    <3>1. plan[s].size \in Nat
      BY DEF Typed, TaskTyped, Plans
    <3> QED
      BY <1>2, <1>3, <1>5, <2>1, <3>1
  <2>2. CASE seen[l] > 0
    <3>1. l \in SeenLegs(s)
      BY <1>2, <2>2 DEF SeenLegs
    <3>2. seen[l] <= SeenSize(s)
      BY <3>1, SeenSizes DEF Typed, CycleTyped
    <3> QED
      BY <1>1, <1>2, <1>3, <1>5, <2>2, <3>2
  <2> QED
    BY <1>3, <2>1, <2>2
<1>6. CASE leg[l] > seen[l]
  <2>1. Outgrown(l)
    BY <1>2, <1>4, <1>6 DEF Clean, SeenFresh
  <2>2. l[1] # s
    BY <2>1 DEF Outgrown
  <2>3. ~(MaxLayers > 0)
    BY <1>1, <1>2, <2>2, OwnSymbol
  <2>4. pc[l[1]] # "executed" /\ SeenLegs(l[1]) = {}
    <3>1. l[1] \in Symbol
      BY <1>2, LegParts
    <3> QED
      BY <2>1, <2>2, <2>3, <3>1 DEF Outgrown, LockInv, InOrder
  <2>5. SeenLegs(s) = {}
    BY <1>2, <2>4 DEF SeenLegs
  <2>6. plan[s].size = EntrySize
    <3>1. SeenSize(s) = 0
      BY <2>5, SeenSizes DEF Typed, CycleTyped
    <3>2. plan[s].row.size = EntrySize
      BY <1>1 DEF Clean, BookClean, RowsClean
    <3> QED
      BY <1>1, <3>1, <3>2
  <2>7. LegRows(l) \subseteq {plan[s].row}
    <3>1. MaxLayers = 0
      BY <2>3, AdmissionAssumption DEF AdmissionAssumption
    <3> QED
      BY <1>1, <1>2, <3>1 DEF LegRows, Clean, BookClean, RowsClean
  <2>8. Backed(l) <= 1 /\ Backed(l) \in Nat
    <3>1. IsFiniteSet({plan[s].row}) /\ Cardinality({plan[s].row}) = 1
      BY FS_Singleton
    <3>2. Cardinality(LegRows(l)) <= 1
      BY <2>7, <3>1, FS_Subset
    <3>3. Backed(l) = Cardinality(LegRows(l)) + 0
      BY <2>4 DEF Backed, InFlight
    <3> QED
      BY <3>2, <3>3, LegRowsFinite
  <2>9. Units(Backed(l)) <= EntrySize
    <3>1. Units(0 + 1) = 0 + EntrySize
      BY UnitsFacts
    <3>2. Units(Backed(l)) <= Units(1)
      BY <2>8, UnitsFacts
    <3> QED
      BY <3>1, <3>2, AdmissionAssumption DEF AdmissionAssumption
  <2>10. leg[l] <= Units(Backed(l)) /\ Units(Backed(l)) \in Nat
    BY <1>2, <2>8, UnitsFacts DEF Clean, BookClean, LegsBacked
  <2> QED
    BY <1>2, <1>3, <2>6, <2>9, <2>10, AdmissionAssumption DEF AdmissionAssumption
<1> QED
  BY <1>3, <1>5, <1>6

\* What a task orders without a failure: a flatten that leaves nothing of its
\* leg, an entry or add of one unit size, or nothing.
LEMMA WhatIsOrdered ==
  ASSUME Typed, LockInv, Separate, Clean, NEW s \in Symbol, Execute(s), faults = 0, faults' = 0
  PROVE  \/ UNCHANGED leg /\ Return(s)
         \/ /\ pc' = [pc EXCEPT ![s] = "executed"] /\ UNCHANGED plan
            /\ plan[s].act = "flatten"
            /\ \A l \in Leg : leg'[l] <= leg[l]
            /\ leg'[plan[s].row.sym, plan[s].row.side] = 0
         \/ /\ pc' = [pc EXCEPT ![s] = "executed"] /\ UNCHANGED plan
            /\ plan[s].act # "flatten"
            /\ leg' = [leg EXCEPT ![<<s, plan[s].side>>] = @ + EntrySize]
<1> DEFINE p == plan[s]
           l == IF p.act = "flatten" THEN <<p.row.sym, p.row.side>> ELSE <<s, p.side>>
<1>1. ~Fault /\ pc[s] = "ordering"
  BY DEF Fault, Execute
<1>2. CASE PlaceOrder(s, p, FALSE) /\ Return(s)
  <2>1. UNCHANGED leg
    BY <1>1, <1>2, Zenon DEF PlaceOrder
  <2> QED
    BY <1>2, <2>1
<1>3. CASE PlaceOrder(s, p, TRUE) /\ pc' = [pc EXCEPT ![s] = "executed"] /\ UNCHANGED plan
  <2>1. \/ /\ p.act = "flatten" /\ ReduceResult(l, p.size) # "refused"
           /\ leg' = Reduced(l, p.size)
        \/ p.act # "flatten" /\ leg' = [leg EXCEPT ![l] = @ + EntrySize]
    BY <1>3, Zenon DEF PlaceOrder
  <2>2. CASE p.act = "flatten"
    <3>1. l = <<p.row.sym, p.row.side>>
      BY <2>2
    <3>2. l \in Leg /\ leg[l] <= p.size
      BY <1>1, <2>2, <3>1, FlattenCovers
    <3>3. leg \in [Leg -> 0..MaxUnits] /\ MaxUnits \in Nat /\ p.size \in Nat
      BY AdmissionAssumption DEF AdmissionAssumption, Typed, CycleTyped, TaskTyped, Plans
    <3>4. ReduceResult(l, p.size) # "refused" /\ leg' = Reduced(l, p.size)
      BY <2>1, <2>2
    <3>5. leg'[l] = 0 /\ \A m \in Leg : leg'[m] <= leg[m]
      <4> HIDE DEF l, p
      <4> QED
        BY <3>2, <3>3, <3>4 DEF Reduced, ReduceResult
    <3>6. leg'[p.row.sym, p.row.side] = 0
      BY <3>1, <3>5
    <3> QED
      BY <1>3, <2>2, <3>5, <3>6
  <2>3. CASE p.act # "flatten"
    BY <1>3, <2>1, <2>3
  <2> QED
    BY <2>2, <2>3
<1> QED
  BY <1>2, <1>3 DEF Execute

\* The order keeps the invariant: what it opens is on its way to a row.
LEMMA ExecuteKeepsClean ==
  ASSUME Typed, Typed', LockInv, Separate, Clean, NEW s \in Symbol, Execute(s),
         faults = 0, faults' = 0
  PROVE  Clean'
<1>1. UNCHANGED <<rows, closing, layers, phase, seen, batch, stray>> /\ pc[s] = "ordering"
  BY DEF Execute, bookVars, cycleVars
<1>2. phase = "scan" /\ pc \in [Symbol -> Phases]
  BY <1>1 DEF Typed, TaskTyped
<1>3. CASE UNCHANGED leg /\ Return(s)
  BY <1>1, <1>2, <1>3, ReturnKeepsClean
<1>4. ASSUME pc' = [pc EXCEPT ![s] = "executed"], UNCHANGED plan, BookClean',
             \A l \in Leg : l[1] = s \/ leg'[l] <= leg[l],
             plan[s].act = "flatten" =>
               /\ \A l \in Leg : leg'[l] <= leg[l]
               /\ leg'[plan[s].row.sym, plan[s].row.side] = 0
      PROVE  Clean'
  <2>1. pc'[s] = "executed" /\ \A t \in Symbol \ {s} : pc'[t] = pc[t]
    BY <1>2, <1>4
  <2>2. TaskClean(s) /\ SeenLegs(s)' = SeenLegs(s)
    BY <1>1, SeenKept DEF Clean
  <2>3. SeenFresh'
    <3> SUFFICES ASSUME NEW l \in Leg, leg'[l] > seen'[l] PROVE Outgrown(l)'
      BY <1>1, <1>2 DEF SeenFresh
    <3>1. SeenLegs(l[1])' = SeenLegs(l[1])
      BY <1>1, SeenKept, LegParts
    <3>2. CASE leg[l] > seen[l]
      <4>1. Outgrown(l)
        BY <1>2, <3>2 DEF Clean, SeenFresh
      <4> QED
        BY <2>1, <3>1, <4>1, LegParts DEF Outgrown
    <3>3. CASE ~(leg[l] > seen[l])
      <4>0. leg[l] \in Nat /\ leg'[l] \in Nat /\ seen[l] \in Nat
        BY AdmissionAssumption DEF AdmissionAssumption, Typed, CycleTyped
      <4>1. l[1] = s /\ plan[s].act # "flatten"
        <5>1. seen'[l] = seen[l]
          BY <1>1
        <5>2. ~(leg'[l] <= leg[l])
          BY <3>3, <4>0, <5>1
        <5> QED
          BY <1>4, <5>2
      <4>2. plan[s].act = "enter" => SeenLegs(s) = {}
        BY <1>1, <2>2 DEF TaskClean, Found, Decided, Busy
      <4>3. plan[s].act = "pyramid" => MaxLayers > 0
        <5>1. layers[s] \in Nat /\ (layers[s] < MaxLayers => MaxLayers > 0)
          BY AdmissionAssumption DEF AdmissionAssumption, Typed, BookTyped
        <5> QED
          BY <1>1, <2>2, <5>1 DEF TaskClean, Decided, Busy
      <4>4. plan[s].act \in {"enter", "pyramid"}
        BY <1>1, <2>2, <4>1 DEF TaskClean, Decided, Typed, TaskTyped, Plans, Act, Busy
      <4> QED
        BY <2>1, <3>1, <4>1, <4>2, <4>3, <4>4 DEF Outgrown
    <3> QED
      BY <3>2, <3>3
  <2>4. TaskClean(s)'
    <3>1. Found(s)' /\ Decided(s)'
      BY <1>1, <1>4, <2>1, <2>2 DEF TaskClean, Found, Decided, Alias, Busy
    <3>2. Ordered(s)'
      <4>1. plan[s].act = "flatten" => plan[s].row \in rows
        BY <1>1, <2>2 DEF TaskClean, Ordered, InOrder
      <4> QED
        BY <1>1, <1>4, <2>1, <4>1 DEF Ordered
    <3> QED
      BY <3>1, <3>2 DEF TaskClean
  <2>5. ASSUME NEW t \in Symbol \ {s} PROVE TaskClean(t)'
    <3>1. layers'[t] <= layers[t] /\ layers'[t] \in Nat
      <4>1. layers[t] \in Nat
        BY DEF Typed, BookTyped
      <4> QED
        BY <1>1, <4>1
    <3>2. pc[s] \in InOrder /\ TaskClean(t)
      BY <1>1 DEF InOrder, Clean
    <3> QED
      BY <1>1, <1>4, <2>1, <3>1, <3>2, OthersClean
  <2> QED
    BY <1>1, <1>4, <2>3, <2>4, <2>5 DEF Clean
<1>5. ASSUME pc' = [pc EXCEPT ![s] = "executed"], UNCHANGED plan, plan[s].act = "flatten",
             \A l \in Leg : leg'[l] <= leg[l], leg'[plan[s].row.sym, plan[s].row.side] = 0
      PROVE  Clean'
  <2>1. \A l \in Leg : InFlight(l)' <=> InFlight(l)
    BY <1>1, <1>2, <1>5, LegParts DEF InFlight
  <2>2. BookClean'
    BY <1>1, <1>5, <2>1, BookKept DEF Clean
  <2> QED
    BY <1>4, <1>5, <2>2
<1>6. ASSUME pc' = [pc EXCEPT ![s] = "executed"], UNCHANGED plan, plan[s].act # "flatten",
             leg' = [leg EXCEPT ![<<s, plan[s].side>>] = @ + EntrySize]
      PROVE  Clean'
  <2> DEFINE e == <<s, plan[s].side>>
  <2>1. e \in Leg /\ leg \in [Leg -> 0..MaxUnits] /\ MaxUnits \in Nat
    BY AdmissionAssumption DEF AdmissionAssumption, Typed, CycleTyped, TaskTyped, Plans, Leg
  <2>2. leg'[e] = leg[e] + EntrySize /\ \A l \in Leg \ {e} : leg'[l] = leg[l]
    <3>1. leg' = [leg EXCEPT ![e] = @ + EntrySize]
      BY <1>6
    <3> HIDE DEF e
    <3> QED
      BY <2>1, <3>1
  <2>3. \A l \in Leg : l[1] = s \/ leg'[l] <= leg[l]
    BY <2>1, <2>2
  <2>4. LegsBacked'
    <3> SUFFICES ASSUME NEW l \in Leg PROVE leg'[l] <= Units(Backed(l)')
      BY DEF LegsBacked, Units
    <3>1. LegRows(l)' = LegRows(l)
      BY <1>1 DEF LegRows
    <3>2. leg[l] <= Units(Backed(l)) /\ Backed(l) \in Nat /\ leg[l] \in Nat
      BY <2>1, LegRowsFinite DEF Clean, BookClean, LegsBacked
    <3>3. CASE l = e
      <4>1. ~InFlight(l) /\ InFlight(l)'
        BY <1>1, <1>2, <1>6, <3>3 DEF InFlight
      <4>2. Backed(l)' = Backed(l) + 1
        BY <3>1, <4>1, LegRowsFinite DEF Backed
      <4>3. Units(Backed(l) + 1) = Units(Backed(l)) + EntrySize /\ Units(Backed(l)) \in Nat
        BY <3>2, UnitsFacts
      <4> HIDE DEF e
      <4> QED
        BY <2>2, <3>2, <3>3, <4>2, <4>3, AdmissionAssumption DEF AdmissionAssumption
    <3>4. CASE l # e
      <4>1. InFlight(l)' <=> InFlight(l)
        BY <1>1, <1>2, <1>6, <3>4, LegParts DEF InFlight
      <4>2. Backed(l)' = Backed(l)
        BY <3>1, <4>1 DEF Backed
      <4> QED
        BY <2>2, <3>2, <3>4, <4>2
    <3> QED
      BY <3>3, <3>4
  <2>5. RowsClean' /\ LayersKept'
    BY <1>1 DEF Clean, BookClean, RowsClean, LayersKept, Adds
  <2> QED
    BY <1>4, <1>6, <2>3, <2>4, <2>5 DEF BookClean
<1> QED
  BY <1>3, <1>5, <1>6, WhatIsOrdered

\* What a task records without a failure: the row of its fill, or the close of
\* the row it flattened.
LEMMA WhatIsRecorded ==
  ASSUME NEW s \in Symbol, Settle(s), faults = 0, faults' = 0
  PROVE  \/ /\ plan[s].act = "enter" /\ UNCHANGED layers
            /\ rows' = rows \cup {NewRow(s, 0)} /\ openCount' = openCount + 1
         \/ /\ plan[s].act = "pyramid" /\ layers' = [layers EXCEPT ![s] = @ + 1]
            /\ \E k \in FreeLayers(s) : rows' = rows \cup {NewRow(s, k)}
         \/ /\ plan[s].act = "flatten" /\ rows' = rows \ {plan[s].row}
            /\ layers' = PopLayers({plan[s].row}) /\ openCount' = Lowered(openCount)
<1>1. ~Fault
  BY DEF Fault
<1> QED
  BY <1>1 DEF Settle

\* The other tasks, the legs and the cached positions when a task settles.
LEMMA SettleKeepsRest ==
  ASSUME Typed, Typed', LockInv, Clean, NEW s \in Symbol, Settle(s), BookClean',
         \A t \in Symbol \ {s} :
           /\ layers'[t] <= layers[t]
           /\ MaxLayers > 0 /\ pc[t] \in Busy /\ plan[t].row \in rows => plan[t].row \in rows'
           /\ \A r \in rows' : r.sym = t => r \in rows
  PROVE  Clean'
<1>1. UNCHANGED <<leg, phase, seen, batch, stray>> /\ pc[s] = "executed" /\ Return(s)
  BY DEF Settle, threadVars
<1>2. pc \in [Symbol -> Phases] /\ plan \in [Symbol -> Plans]
  BY DEF Typed, TaskTyped
<1>3. /\ pc'[s] = "done"
      /\ \A t \in Symbol \ {s} : pc'[t] = pc[t] /\ plan'[t] = plan[t]
  BY <1>1, <1>2 DEF Return
<1>4. SeenFresh'
  <2>1. \A l \in Leg : Outgrown(l) => Outgrown(l)'
    BY <1>1, <1>3, LegParts, SeenKept DEF Outgrown
  <2> QED
    BY <1>1, <2>1 DEF Clean, SeenFresh
<1>5. TaskClean(s)'
  BY <1>3 DEF TaskClean, Found, Decided, Ordered, Busy, InOrder
<1>6. ASSUME NEW t \in Symbol \ {s} PROVE TaskClean(t)'
  <2>1. TaskClean(t) /\ pc[s] \in InOrder
    BY <1>1 DEF Clean, InOrder
  <2>2. CASE pc[t] \in Busy
    <3>1. layers'[t] \in Nat
      BY DEF Typed, BookTyped
    <3> QED
      BY <1>1, <1>3, <2>1, <2>2, <3>1, OthersClean
  <2>3. CASE pc[t] \notin Busy
    BY <1>3, <2>3 DEF TaskClean, Found, Decided, Ordered, Busy, InOrder
  <2> QED
    BY <2>2, <2>3
<1> QED
  BY <1>1, <1>4, <1>5, <1>6 DEF Clean

\* The row of a fill takes the place of the fill.
LEMMA RecordKeepsBook ==
  ASSUME Typed, Typed', LockInv, Separate, Clean, NEW s \in Symbol, Settle(s),
         plan[s].act # "flatten", NEW k \in Nat, rows' = rows \cup {NewRow(s, k)},
         \/ plan[s].act = "enter" /\ k = 0 /\ UNCHANGED layers
         \/ /\ plan[s].act = "pyramid" /\ k \in FreeLayers(s)
            /\ layers' = [layers EXCEPT ![s] = @ + 1]
  PROVE  BookClean'
<1> DEFINE new == NewRow(s, k)
<1>1. UNCHANGED <<leg, closing>> /\ pc[s] = "executed" /\ Return(s) /\ closing = {}
  BY DEF Settle, Typed, BookTyped, TaskTyped
<1>2. pc \in [Symbol -> Phases] /\ plan \in [Symbol -> Plans] /\ layers \in [Symbol -> Nat]
  BY DEF Typed, TaskTyped, BookTyped
<1>3. /\ pc'[s] = "done"
      /\ \A t \in Symbol \ {s} : pc'[t] = pc[t] /\ plan'[t] = plan[t]
  BY <1>1, <1>2 DEF Return
<1>4. new.sym = s /\ new.side = plan[s].side /\ new.layer = k /\ new.size = EntrySize
  BY DEF NewRow
<1> HIDE DEF new
<1>5. new \in rows' /\ new \in Row /\ rows' = rows \cup {new}
  BY DEF new, Typed, BookTyped
<1>6. /\ \A r \in rows : r.sym = s => r.side = plan[s].side /\ r.layer # k
      /\ plan[s].act = "enter" => \A r \in rows : r.sym # s
      /\ plan[s].act = "pyramid" => MaxLayers > 0 /\ k > 0 /\ layers[s] < MaxLayers
  <2>1. /\ \A r \in rows : r.sym = s => r.side = plan[s].side
        /\ plan[s].act = "enter" => \A r \in rows : r.sym # s
    BY <1>1, RowsOnItsSide DEF InOrder
  <2>2. k \in FreeLayers(s) => k > 0 /\ \A r \in rows : r.sym = s => r.layer # k
    BY AdmissionAssumption DEF FreeLayers, AdmissionAssumption
  <2>3. plan[s].act = "pyramid" => layers[s] < MaxLayers
    BY <1>1 DEF Clean, TaskClean, Decided, Busy
  <2>4. layers[s] < MaxLayers => MaxLayers > 0
    BY <1>2, AdmissionAssumption DEF AdmissionAssumption
  <2> QED
    BY <2>1, <2>2, <2>3, <2>4
<1>7. new \notin rows
  BY <1>4, <1>6
<1>8. RowsClean'
  <2>1. RowsClean
    BY DEF Clean, BookClean
  <2>2. \A r \in rows' : r.size = EntrySize /\ (MaxLayers = 0 => r.layer = 0)
    BY <1>4, <1>5, <1>6, <2>1 DEF RowsClean
  <2>3. \A r, q \in rows' : r.sym = q.sym => r.side = q.side /\ (r.layer = q.layer => r = q)
    BY <1>4, <1>5, <1>6, <2>1 DEF RowsClean
  <2> QED
    BY <2>2, <2>3 DEF RowsClean
<1>9. \A l \in Leg : Backed(l)' = Backed(l)
  <2> SUFFICES ASSUME NEW l \in Leg PROVE Backed(l)' = Backed(l)
    OBVIOUS
  <2>1. CASE l[1] = s /\ l[2] = plan[s].side
    <3>1. LegRows(l)' = LegRows(l) \cup {new} /\ new \notin LegRows(l)
      BY <1>1, <1>4, <1>5, <1>7, <2>1 DEF LegRows
    <3>2. LegRows(l) \in SUBSET Row /\ Cardinality(LegRows(l)) \in Nat
      BY LegRowsFinite
    <3>3. Cardinality(LegRows(l)') = Cardinality(LegRows(l)) + 1
      BY <1>5, <3>1, <3>2, OneRowMore
    <3>4. InFlight(l) /\ ~InFlight(l)'
      BY <1>1, <1>3, <2>1 DEF InFlight
    <3> QED
      BY <3>2, <3>3, <3>4 DEF Backed
  <2>2. CASE ~(l[1] = s /\ l[2] = plan[s].side)
    <3>1. LegRows(l)' = LegRows(l)
      BY <1>1, <1>4, <1>5, <2>2 DEF LegRows
    <3>2. InFlight(l)' <=> InFlight(l)
      BY <1>1, <1>3, <2>2, LegParts DEF InFlight
    <3> QED
      BY <3>1, <3>2 DEF Backed
  <2> QED
    BY <2>1, <2>2
<1>10. LegsBacked'
  BY <1>1, <1>9 DEF Clean, BookClean, LegsBacked, Units
<1>11. LayersKept'
  <2> SUFFICES ASSUME NEW t \in Symbol
               PROVE  layers'[t] = Cardinality(Adds(t)') /\ layers'[t] <= MaxLayers
    BY DEF LayersKept
  <2>1. layers[t] = Cardinality(Adds(t)) /\ layers[t] <= MaxLayers
    BY DEF Clean, BookClean, LayersKept
  <2>2. CASE t = s /\ plan[s].act = "pyramid"
    <3>1. Adds(t)' = Adds(t) \cup {new} /\ new \notin Adds(t)
      BY <1>1, <1>4, <1>5, <1>6, <1>7, <2>2 DEF Adds
    <3>2. Adds(t) \in SUBSET Row
      BY DEF Adds, Typed, BookTyped
    <3>3. Cardinality(Adds(t)') = Cardinality(Adds(t)) + 1
      BY <1>5, <3>1, <3>2, OneRowMore
    <3>4. layers'[t] = layers[t] + 1
      BY <1>2, <2>2
    <3> QED
      BY <1>2, <1>6, <2>1, <2>2, <3>3, <3>4, AdmissionAssumption DEF AdmissionAssumption
  <2>3. CASE ~(t = s /\ plan[s].act = "pyramid")
    <3>1. Adds(t)' = Adds(t)
      BY <1>1, <1>4, <1>5, <2>3 DEF Adds
    <3>2. layers'[t] = layers[t]
      BY <1>2, <2>3
    <3> QED
      BY <2>1, <3>1, <3>2
  <2> QED
    BY <2>2, <2>3
<1> QED
  BY <1>8, <1>10, <1>11 DEF BookClean

\* A flatten closes the row of a leg that is empty.
LEMMA FlattenKeepsBook ==
  ASSUME Typed, Typed', LockInv, Clean, NEW s \in Symbol, Settle(s), plan[s].act = "flatten",
         rows' = rows \ {plan[s].row}, layers' = PopLayers({plan[s].row})
  PROVE  BookClean'
<1> DEFINE r == plan[s].row
           e == <<r.sym, r.side>>
<1>1. UNCHANGED <<leg, closing>> /\ pc[s] = "executed" /\ Return(s) /\ closing = {}
  BY DEF Settle, Typed, BookTyped, TaskTyped
<1>2. pc \in [Symbol -> Phases] /\ plan \in [Symbol -> Plans]
  BY DEF Typed, TaskTyped
<1>3. /\ pc'[s] = "done"
      /\ \A t \in Symbol \ {s} : pc'[t] = pc[t] /\ plan'[t] = plan[t]
  BY <1>1, <1>2 DEF Return
<1>4. r \in rows /\ leg[e] = 0
  BY <1>1 DEF Clean, TaskClean, Ordered, InOrder
<1>5. RowsClean'
  BY DEF Clean, BookClean, RowsClean
<1>6. LegsBacked'
  <2>0. (\A l : Backed(l) \in Nat)'
    BY BackedIsNat, PTL
  <2> SUFFICES ASSUME NEW l \in Leg PROVE leg'[l] <= Units(Backed(l)')
    BY DEF LegsBacked, Units
  <2>1. CASE l = e
    BY <1>1, <1>4, <2>0, <2>1, UnitsFacts
  <2>2. CASE l # e
    <3>1. LegRows(l)' = LegRows(l)
      BY <1>1, <2>2, LegParts DEF LegRows
    <3>2. InFlight(l)' <=> InFlight(l)
      BY <1>1, <1>3, LegParts DEF InFlight
    <3>3. Backed(l)' = Backed(l)
      BY <3>1, <3>2 DEF Backed
    <3> QED
      BY <1>1, <3>3 DEF Clean, BookClean, LegsBacked
  <2> QED
    BY <2>1, <2>2
<1>7. LayersKept'
  <2>1. r \in rows \ closing /\ rows' \ closing' = (rows \ closing) \ {r}
    BY <1>1, <1>4
  <2>2. layers' = PopLayers({r})
    OBVIOUS
  <2> HIDE DEF r
  <2> QED
    BY <2>1, <2>2, LayersPopped DEF Clean, BookClean
<1> QED
  BY <1>5, <1>6, <1>7 DEF BookClean

\* So a task settles what it ordered.
LEMMA SettleKeepsClean ==
  ASSUME Typed, Typed', LockInv, Separate, Clean, NEW s \in Symbol, Settle(s),
         faults = 0, faults' = 0
  PROVE  Clean'
<1>1. layers \in [Symbol -> Nat] /\ pc[s] = "executed"
  BY DEF Settle, Typed, BookTyped
<1>2. ASSUME NEW k \in Nat, rows' = rows \cup {NewRow(s, k)}, plan[s].act # "flatten",
             \/ plan[s].act = "enter" /\ k = 0 /\ UNCHANGED layers
             \/ /\ plan[s].act = "pyramid" /\ k \in FreeLayers(s)
                /\ layers' = [layers EXCEPT ![s] = @ + 1]
      PROVE  Clean'
  <2>1. BookClean'
    BY <1>2, RecordKeepsBook
  <2>2. NewRow(s, k).sym = s
    BY DEF NewRow
  <2>3. \A t \in Symbol \ {s} : layers'[t] <= layers[t]
    BY <1>1, <1>2
  <2> QED
    BY <1>2, <2>1, <2>2, <2>3, SettleKeepsRest
<1>3. ASSUME plan[s].act = "flatten", rows' = rows \ {plan[s].row},
             layers' = PopLayers({plan[s].row})
      PROVE  Clean'
  <2>1. BookClean'
    BY <1>3, FlattenKeepsBook
  <2>2. plan[s].row \in rows /\ plan[s].row \in Row
    BY <1>1, <1>3 DEF Clean, TaskClean, Ordered, InOrder, Typed, BookTyped
  <2>3. ASSUME NEW t \in Symbol PROVE layers'[t] <= layers[t]
    <3> DEFINE n == Cardinality({r \in {plan[s].row} : r.sym = t /\ r.layer > 0})
    <3>1. layers'[t] = IF n > layers[t] THEN 0 ELSE layers[t] - n
      BY <1>3 DEF PopLayers
    <3>2. n \in Nat
      BY <2>2, FiniteRows
    <3> HIDE DEF n
    <3> QED
      BY <1>1, <3>1, <3>2
  <2>4. ASSUME NEW t \in Symbol \ {s}, MaxLayers > 0, pc[t] \in Busy, plan[t].row \in rows
        PROVE  plan[t].row \in rows'
    <3>1. NoRow \notin rows
      BY NoRowIsNone DEF Typed, BookTyped
    <3>2. plan[t].row.sym \in Alias(t) /\ plan[s].row.sym \in Alias(s)
      BY <1>1, <2>2, <2>4, <3>1 DEF Clean, TaskClean, Found, Busy
    <3>3. plan[t].row.sym = t /\ plan[s].row.sym = s
      BY <2>4, <3>2, OwnSymbol
    <3> QED
      BY <1>3, <2>4, <3>3
  <2> QED
    BY <1>3, <2>1, <2>3, <2>4, SettleKeepsRest
<1>4. FreeLayers(s) \subseteq Nat
  BY DEF FreeLayers
<1> QED
  BY <1>2, <1>3, <1>4, WhatIsRecorded

\* A failure is counted, and never taken back.
LEMMA FaultsGrow ==
  ASSUME Typed, [Next]_vars
  PROVE  faults' = faults \/ faults' = faults + 1
<1> USE DEF Works, Fault
<1>1. CASE UNCHANGED vars
  BY <1>1 DEF vars
<1>2. CASE Cycle
  BY <1>2 DEF Cycle, StartCycle, EndEmergency, CommitExits, Sync, SyncFails, CachePositions,
              BeginScan, NextBatch, EndCycle
<1>3. CASE Exits
  BY <1>3, ExitSteps DEF Exits
<1>4. ASSUME NEW s, NEW p, NEW ok, PlaceOrder(s, p, ok) PROVE faults' = faults \/ faults' = faults + 1
  BY <1>4, Zenon DEF PlaceOrder
<1>5. ASSUME NEW s \in Symbol, Task(s) PROVE faults' = faults \/ faults' = faults + 1
  <2>1. CASE Execute(s)
    BY <1>4, <2>1 DEF Execute
  <2>2. CASE Guard(s)
    BY <2>2, GuardSteps
  <2> QED
    BY <1>5, <2>1, <2>2 DEF Task, Begin, Evaluate, CheckDirection, TakeLock, Settle
<1>6. CASE ExchangeReduces \/ Stop \/ Crash
  BY <1>6 DEF ExchangeReduces, Stop, Crash
<1>7. CASE \E o \in stray : StrayGuard(o) \/ StrayOrder(o)
  BY <1>4, <1>7, StrayGuardSteps DEF StrayOrder
<1> QED
  BY <1>1, <1>2, <1>3, <1>5, <1>6, <1>7 DEF Next

\* A step that touches nothing the invariant speaks of.
LEMMA UntouchedClean ==
  ASSUME Typed, Clean,
         UNCHANGED <<rows, closing, layers, leg, phase, seen, pc, plan, batch, stray>>
  PROVE  Clean'
<1>1. BookClean'
  BY DEF Clean, BookClean, RowsClean, LegsBacked, LayersKept, Units, Backed, LegRows, InFlight, Adds
<1>2. SeenFresh'
  BY SeenKept DEF Clean, SeenFresh, Outgrown, Leg
<1>3. ASSUME NEW s \in Symbol PROVE TaskClean(s)'
  <2>1. TaskClean(s) /\ SeenSize(s)' = SeenSize(s) /\ SeenLegs(s)' = SeenLegs(s)
    BY SeenKept DEF Clean
  <2>2. Found(s)' /\ Decided(s)'
    BY <2>1 DEF TaskClean, Found, Decided, Alias
  <2>3. Ordered(s)'
    BY <2>1, Zenon DEF TaskClean, Ordered
  <2> QED
    BY <2>2, <2>3 DEF TaskClean
<1> QED
  BY <1>1, <1>2, <1>3 DEF Clean

\* Until the first failure every entry has a row or a task that records it.
LEMMA CleanInvariant == Separate => (Spec => [](faults = 0 => Clean))
<1> SUFFICES ASSUME Separate PROVE Spec => [](faults = 0 => Clean)
  OBVIOUS
<1>1. Init => Clean
  <2> SUFFICES ASSUME Init PROVE Clean
    OBVIOUS
  <2> USE DEF Init
  <2>1. LegsBacked
    <3> SUFFICES ASSUME NEW l \in Leg PROVE leg[l] <= Units(Backed(l))
      BY DEF LegsBacked
    <3>1. LegRows(l) = {} /\ ~InFlight(l)
      BY DEF LegRows, InFlight, Leg
    <3>2. Backed(l) = 0
      BY <3>1, FS_EmptySet DEF Backed
    <3> QED
      BY <3>2, UnitsFacts DEF NoLegs
  <2>2. RowsClean
    BY DEF RowsClean
  <2>3. LayersKept
    <3>1. \A s \in Symbol : Adds(s) = {}
      BY DEF Adds
    <3> QED
      BY <3>1, FS_EmptySet, AdmissionAssumption DEF LayersKept, AdmissionAssumption
  <2>4. SeenFresh
    BY DEF SeenFresh
  <2>5. \A s \in Symbol : TaskClean(s)
    BY DEF TaskClean, Found, Decided, Ordered, Busy, InOrder
  <2> QED
    BY <2>1, <2>2, <2>3, <2>4, <2>5 DEF Clean, BookClean
<1>2. Typed /\ Typed' /\ LockInv /\ (faults = 0 => Clean) /\ [Next]_vars => (faults = 0 => Clean)'
  <2> SUFFICES ASSUME Typed, Typed', LockInv, faults = 0 => Clean, [Next]_vars, faults' = 0
               PROVE  Clean'
    OBVIOUS
  <2>1. faults = 0 /\ Clean
    <3>1. faults \in Nat
      BY AdmissionAssumption DEF AdmissionAssumption, Typed, CycleTyped
    <3> QED
      BY <3>1, FaultsGrow
  <2>2. CASE UNCHANGED vars
    <3>1. UNCHANGED <<rows, closing, layers, leg, phase, seen, pc, plan, batch, stray>>
      BY <2>2 DEF vars, bookVars, cycleVars, taskVars, threadVars
    <3> QED
      BY <2>1, <3>1, UntouchedClean
  <2>3. CASE Cycle
    BY <2>1, <2>3, CycleKeepsClean
  <2>4. CASE Exits
    BY <2>1, <2>4, ExitKeepsClean DEF Exits
  <2>5. ASSUME NEW s \in Symbol, Task(s) PROVE Clean'
    <3>1. CASE Guard(s)
      <4>1. UNCHANGED <<rows, closing, layers, leg, phase, seen, pc, plan, batch, stray>>
        BY <3>1, GuardSteps
      <4> QED
        BY <2>1, <4>1, UntouchedClean
    <3> QED
      BY <2>1, <2>5, <3>1, DecisionKeepsClean, TakeLockKeepsClean, ExecuteKeepsClean, SettleKeepsClean
         DEF Task
  <2>6. CASE ExchangeReduces
    BY <2>1, <2>6, ExchangeKeepsClean
  <2>7. ~Stop /\ ~Crash
    BY <2>1 DEF Stop, Crash, Fault
  <2>8. stray = {}
    BY <2>1 DEF Clean
  <2> QED
    BY <2>2, <2>3, <2>4, <2>5, <2>6, <2>7, <2>8 DEF Next
<1> QED
  BY <1>1, <1>2, TypedInvariant, LockInvariant, PTL DEF Spec

\* What is taken from a leg makes none larger.
LEMMA ReducedShrinks ==
  ASSUME CycleTyped, NEW l, NEW n \in Nat
  PROVE  \A m \in Leg : Reduced(l, n)[m] <= leg[m]
<1> leg \in [Leg -> 0..MaxUnits] /\ MaxUnits \in Nat
  BY AdmissionAssumption DEF AdmissionAssumption, CycleTyped
<1> QED
  BY DEF Reduced, ReduceResult

\* The legs are naturals.
LEMMA LegsAreNat == Typed => \A l \in Leg : leg[l] \in Nat /\ seen[l] \in Nat
  BY AdmissionAssumption DEF AdmissionAssumption, Typed, CycleTyped

\* Only the orders of tasks make legs larger.
LEMMA LegsShrink ==
  ASSUME Typed, Typed', [Next]_vars, ~\E s \in Symbol : Execute(s),
         ~\E o \in stray : StrayOrder(o)
  PROVE  \A l \in Leg : leg'[l] <= leg[l]
<1>0. \A l \in Leg : leg[l] \in Nat
  BY LegsAreNat
<1>1. ASSUME UNCHANGED leg PROVE \A l \in Leg : leg'[l] <= leg[l]
  BY <1>0, <1>1
<1>2. CASE UNCHANGED vars \/ Cycle \/ Stop \/ Crash
  BY <1>1, <1>2 DEF vars, Cycle, StartCycle, EndEmergency, Sync, SyncFails, CachePositions,
                    BeginScan, NextBatch, EndCycle, Stop, Crash, Restarted
<1>3. CASE Exits
  <2>1. PICK r \in rows : leg' = Reduced(<<r.sym, r.side>>, r.size)
    BY <1>3, ExitSteps DEF Exits
  <2>2. r.size \in Nat
    BY DEF Typed, BookTyped, Row
  <2> QED
    BY <2>1, <2>2, ReducedShrinks DEF Typed
<1>4. CASE ExchangeReduces
  <2>1. PICK m \in Leg : \E left \in 0..(leg[m] - 1) : leg' = [leg EXCEPT ![m] = left]
    BY <1>4 DEF ExchangeReduces
  <2>2. \A l \in Leg : leg'[l] = leg[l] \/ (l = m /\ leg'[l] \in 0..(leg[m] - 1))
    BY <2>1 DEF Typed, CycleTyped
  <2> QED
    BY <1>0, <2>2
<1>5. ASSUME NEW s \in Symbol, Task(s) PROVE \A l \in Leg : leg'[l] <= leg[l]
  BY <1>1, <1>5, GuardSteps DEF Task, Begin, Evaluate, CheckDirection, TakeLock, Settle
<1>6. CASE \E o \in stray : StrayGuard(o)
  BY <1>1, <1>6, StrayGuardSteps
<1> QED
  BY <1>2, <1>3, <1>4, <1>5, <1>6 DEF Next

-----------------------------------------------------------------------------
(***************************************************************************)
(* Until the second failure.  A guard may be seconds old when its order    *)
(* fills, so the invariant says of every order past its guard that the     *)
(* other leg is still empty.  It stays so because nobody else opens a leg  *)
(* of that symbol meanwhile: the lock keeps the other tasks out, and a     *)
(* stray order beside a new one is what crossed records.                   *)
(***************************************************************************)

\* What a guard has found holds until its order is done.
GuardsHold ==
  /\ \A s \in cleared : s \notin crossed => leg[s, Opposite(plan[s].side)] = 0
  /\ \A o \in stray : o.clear /\ o.sym \notin crossed => leg[o.sym, Opposite(o.plan.side)] = 0

\* A symbol that is not crossed has at most one order in a thread.
OneThread ==
  /\ \A s \in cleared : pc[s] = "ordering" /\ plan[s].act # "flatten"
  /\ \A o \in stray : pc[o.sym] = "ordering" => o.sym \in crossed
  /\ \A o, q \in stray : o.sym = q.sym => o = q

Unhedged == NoHedge /\ GuardsHold /\ OneThread

\* The other leg of an order is a leg.
LEMMA OtherLeg == \A s \in Symbol, side \in Side : <<s, Opposite(side)>> \in Leg /\ <<s, side>> \in Leg
  BY DEF Leg, Side, Opposite

\* The sides of the orders that passed their guards.
LEMMA ThreadSides ==
  ASSUME Typed
  PROVE  /\ \A s \in Symbol : plan[s].side \in Side
         /\ \A o \in stray : o.sym \in Symbol /\ o.plan.side \in Side
  BY DEF Typed, TaskTyped, ThreadTyped, Plans

\* A step that opens no leg and starts no order beside a stray one.
LEMMA QuietUnhedged ==
  ASSUME Typed, Typed', Unhedged, \A l \in Leg : leg'[l] <= leg[l],
         cleared' \subseteq cleared, stray' \subseteq stray, crossed \subseteq crossed',
         \A s \in cleared' : pc'[s] = pc[s] /\ plan'[s] = plan[s],
         \A s \in Symbol : pc'[s] = "ordering" =>
           pc[s] = "ordering" \/ s \in crossed' \/ \A o \in stray : o.sym # s
  PROVE  Unhedged'
<1>1. \A l \in Leg : leg[l] = 0 => leg'[l] = 0
  BY LegsAreNat DEF Typed, CycleTyped
<1>2. cleared \subseteq Symbol
  BY DEF Typed, ThreadTyped
<1>3. NoHedge'
  <2> SUFFICES ASSUME NEW s \in Symbol, s \notin crossed'
               PROVE  leg'[s, "BUY"] = 0 \/ leg'[s, "SELL"] = 0
    BY DEF NoHedge
  <2>1. <<s, "BUY">> \in Leg /\ <<s, "SELL">> \in Leg
    BY DEF Leg, Side
  <2> QED
    BY <1>1, <2>1 DEF Unhedged, NoHedge
<1>4. GuardsHold'
  <2>1. ASSUME NEW s \in cleared', s \notin crossed' PROVE leg'[s, Opposite(plan'[s].side)] = 0
    <3>1. leg[s, Opposite(plan[s].side)] = 0 /\ <<s, Opposite(plan[s].side)>> \in Leg
      BY <1>2, <2>1, OtherLeg, ThreadSides DEF Unhedged, GuardsHold
    <3> QED
      BY <1>1, <2>1, <3>1
  <2>2. ASSUME NEW o \in stray', o.clear, o.sym \notin crossed'
        PROVE  leg'[o.sym, Opposite(o.plan.side)] = 0
    <3>1. leg[o.sym, Opposite(o.plan.side)] = 0 /\ <<o.sym, Opposite(o.plan.side)>> \in Leg
      BY <2>2, OtherLeg, ThreadSides DEF Unhedged, GuardsHold
    <3> QED
      BY <1>1, <3>1
  <2> QED
    BY <2>1, <2>2 DEF GuardsHold
<1>5. OneThread'
  BY ThreadSides DEF Unhedged, OneThread
<1> QED
  BY <1>3, <1>4, <1>5 DEF Unhedged

\* An entry that fills while its guard holds, or on a crossed symbol.
LEMMA FillUnhedged ==
  ASSUME Typed, Typed', Unhedged, NEW s \in Symbol, NEW side \in Side,
         leg' = [leg EXCEPT ![<<s, side>>] = @ + EntrySize],
         s \in crossed \/ leg[s, Opposite(side)] = 0,
         s \in crossed \/ (s \notin cleared' /\ \A o \in stray' : o.sym # s),
         cleared' \subseteq cleared, stray' \subseteq stray, crossed' = crossed,
         \A t \in cleared' : pc'[t] = pc[t] /\ plan'[t] = plan[t],
         \A t \in Symbol : pc'[t] = "ordering" => pc[t] = "ordering"
  PROVE  Unhedged'
<1>1. \A t \in Symbol \ {s}, x \in Side : leg'[t, x] = leg[t, x]
  BY DEF Typed, CycleTyped, Leg
<1>2. cleared \subseteq Symbol
  BY DEF Typed, ThreadTyped
<1>3. NoHedge'
  <2> SUFFICES ASSUME NEW t \in Symbol, t \notin crossed
               PROVE  leg'[t, "BUY"] = 0 \/ leg'[t, "SELL"] = 0
    BY DEF NoHedge
  <2>1. CASE t = s
    <3>1. Opposite(side) \in Side /\ Opposite(side) # side
      BY DEF Side, Opposite
    <3>2. leg'[s, Opposite(side)] = leg[s, Opposite(side)]
      BY <3>1 DEF Typed, CycleTyped, Leg
    <3> QED
      BY <2>1, <3>1, <3>2 DEF Side
  <2>2. CASE t # s
    BY <1>1, <2>2 DEF Unhedged, NoHedge, Side
  <2> QED
    BY <2>1, <2>2
<1>4. GuardsHold'
  <2>1. \A x \in Side : Opposite(x) \in Side
    BY DEF Side, Opposite
  <2>2. ASSUME NEW t \in cleared', t \notin crossed PROVE leg'[t, Opposite(plan'[t].side)] = 0
    <3>1. t # s /\ t \in Symbol /\ plan'[t] = plan[t] /\ leg[t, Opposite(plan[t].side)] = 0
      BY <1>2, <2>2 DEF Unhedged, GuardsHold
    <3>2. Opposite(plan[t].side) \in Side
      BY <2>1, <3>1, ThreadSides
    <3>3. leg'[t, Opposite(plan[t].side)] = leg[t, Opposite(plan[t].side)]
      BY <1>1, <3>1, <3>2
    <3> QED
      BY <3>1, <3>3
  <2>3. ASSUME NEW o \in stray', o.clear, o.sym \notin crossed
        PROVE  leg'[o.sym, Opposite(o.plan.side)] = 0
    <3>1. o.sym # s /\ leg[o.sym, Opposite(o.plan.side)] = 0
      BY <2>3 DEF Unhedged, GuardsHold
    <3>2. o.sym \in Symbol /\ o.plan.side \in Side
      BY ThreadSides
    <3> QED
      BY <1>1, <2>1, <3>1, <3>2
  <2> QED
    BY <2>2, <2>3 DEF GuardsHold
<1>5. OneThread'
  BY ThreadSides DEF Unhedged, OneThread
<1> QED
  BY <1>3, <1>4, <1>5 DEF Unhedged

\* What an order does to the legs.
LEMMA OrderedLegs ==
  ASSUME Typed, Typed', NEW s \in Symbol, NEW p, PlanOK(p), NEW ok \in BOOLEAN, PlaceOrder(s, p, ok)
  PROVE  \/ \A m \in Leg : leg'[m] <= leg[m]
         \/ p.act # "flatten" /\ leg' = [leg EXCEPT ![<<s, p.side>>] = @ + EntrySize]
<1> DEFINE l == IF p.act = "flatten" THEN <<p.row.sym, p.row.side>> ELSE <<s, p.side>>
<1>1. p.size \in Nat
  BY DEF PlanOK, Plans
<1>2. \/ UNCHANGED leg
      \/ leg' = Reduced(l, p.size)
      \/ p.act # "flatten" /\ leg' = [leg EXCEPT ![l] = @ + EntrySize]
  BY Zenon DEF PlaceOrder
<1>3. CASE UNCHANGED leg
  BY <1>3, LegsAreNat
<1>4. CASE leg' = Reduced(l, p.size)
  <2> HIDE DEF l
  <2> QED
    BY <1>1, <1>4, ReducedShrinks DEF Typed
<1>5. CASE p.act # "flatten" /\ leg' = [leg EXCEPT ![l] = @ + EntrySize]
  BY <1>5
<1> QED
  BY <1>2, <1>3, <1>4, <1>5

\* The guard finds the other leg empty: without a failure nothing is there, and
\* with one behind it its fetch is the truth.
LEMMA GuardFinds ==
  ASSUME Typed, Separate, faults = 0 => Clean, faults' <= 1, NEW s \in Symbol, Guard(s)
  PROVE  leg[s, Opposite(plan[s].side)] = 0
<1>1. pc[s] = "ordering" /\ plan[s].act # "flatten" /\ MayOpen(s, plan[s].side)
  BY DEF Guard
<1>2. CASE faults = 0
  BY <1>1, <1>2, NothingOpposite
<1>3. CASE faults # 0
  <2>1. ~Fault
    BY <1>3 DEF Fault, Typed, CycleTyped
  <2> QED
    BY <1>1, <2>1 DEF MayOpen
<1> QED
  BY <1>2, <1>3

\* A task's order between its guard and its fill.
LEMMA TaskUnhedged ==
  ASSUME Typed, Typed', Separate, Unhedged, faults = 0 => Clean, faults' <= 1,
         NEW s \in Symbol, Task(s)
  PROVE  Unhedged'
<1>1. pc \in [Symbol -> Phases] /\ plan \in [Symbol -> Plans] /\ cleared \subseteq Symbol
  BY DEF Typed, TaskTyped, ThreadTyped
<1>2. \A t \in cleared : pc[t] = "ordering"
  BY DEF Unhedged, OneThread
<1>3. CASE Guard(s)
  <2>1. /\ cleared' = cleared \cup {s} /\ UNCHANGED <<leg, pc, plan, stray, crossed>>
        /\ pc[s] = "ordering" /\ plan[s].act # "flatten"
    BY <1>3, GuardSteps
  <2>2. leg[s, Opposite(plan[s].side)] = 0
    BY <1>3, GuardFinds
  <2> QED
    BY <2>1, <2>2 DEF Unhedged, NoHedge, GuardsHold, OneThread
<1>4. CASE Execute(s)
  <2>1. /\ pc[s] = "ordering" /\ cleared' = cleared \ {s} /\ UNCHANGED <<stray, crossed>>
        /\ \E ok \in BOOLEAN : PlaceOrder(s, plan[s], ok)
        /\ plan[s].act = "flatten" \/ s \in cleared \/ UNCHANGED leg
    BY <1>4, Zenon DEF Execute, AfterGuard
  <2>2. /\ \A t \in Symbol \ {s} : pc'[t] = pc[t] /\ plan'[t] = plan[t]
        /\ pc'[s] # "ordering"
    BY <1>1, <1>4 DEF Execute, Return
  <2>3. PlanOK(plan[s]) /\ plan[s].side \in Side
    BY ThreadSides DEF Typed, TaskTyped
  <2>4. CASE \A m \in Leg : leg'[m] <= leg[m]
    BY <1>1, <2>1, <2>2, <2>4, QuietUnhedged
  <2>5. CASE ~\A m \in Leg : leg'[m] <= leg[m]
    <3>1. plan[s].act # "flatten" /\ leg' = [leg EXCEPT ![<<s, plan[s].side>>] = @ + EntrySize]
      BY <2>1, <2>3, <2>5, OrderedLegs
    <3>2. s \in cleared
      BY <2>1, <2>5, <3>1, LegsAreNat
    <3>3. s \in crossed \/ leg[s, Opposite(plan[s].side)] = 0
      BY <3>2 DEF Unhedged, GuardsHold
    <3>4. s \in crossed \/ \A o \in stray : o.sym # s
      BY <2>1 DEF Unhedged, OneThread
    <3> QED
      BY <1>1, <2>1, <2>2, <2>3, <3>1, <3>3, <3>4, FillUnhedged
  <2> QED
    BY <2>4, <2>5
<1>5. CASE ~Guard(s) /\ ~Execute(s)
  <2>1. /\ pc[s] # "ordering" /\ UNCHANGED <<leg, cleared, stray>> /\ crossed \subseteq crossed'
        /\ \A t \in Symbol \ {s} : pc'[t] = pc[t] /\ plan'[t] = plan[t]
        /\ pc'[s] = "ordering" => s \in crossed' \/ \A o \in stray : o.sym # s
    BY <1>1, <1>5
       DEF Task, Begin, Evaluate, CheckDirection, TakeLock, Settle, Return, threadVars
  <2>2. \A t \in cleared' : pc'[t] = pc[t] /\ plan'[t] = plan[t]
    BY <1>1, <1>2, <2>1
  <2>3. \A l \in Leg : leg'[l] <= leg[l]
    BY <2>1, LegsAreNat
  <2> QED
    BY <2>1, <2>2, <2>3, QuietUnhedged
<1> QED
  BY <1>3, <1>4, <1>5

\* A stray order between its guard and its fill; there is none before the first
\* failure, and one for each symbol before the second.
LEMMA StrayUnhedged ==
  ASSUME Typed, Typed', Unhedged, faults = 0 => Clean, faults' <= 1,
         NEW o \in stray, StrayGuard(o) \/ StrayOrder(o)
  PROVE  Unhedged'
<1>1. faults # 0 /\ faults \in Nat
  BY DEF Clean, Typed, CycleTyped
<1>2. o.sym \in Symbol /\ o.plan.side \in Side /\ PlanOK(o.plan) /\ cleared \subseteq Symbol
  BY ThreadSides DEF Typed, ThreadTyped
<1>3. /\ \A q \in stray \ {o} : q.sym # o.sym
      /\ o.sym \in cleared => o.sym \in crossed
  BY DEF Unhedged, OneThread
<1>4. CASE StrayGuard(o)
  <2> DEFINE g == [o EXCEPT !.clear = TRUE]
  <2>1. g.sym = o.sym /\ g.plan = o.plan
    BY DEF Typed, ThreadTyped
  <2>2. leg[o.sym, Opposite(o.plan.side)] = 0
    <3>1. ~Fault
      BY <1>1 DEF Fault
    <3>2. MayOpen(o.sym, o.plan.side)
      BY <1>4 DEF StrayGuard
    <3> QED
      BY <3>1, <3>2, Zenon DEF MayOpen
  <2>3. stray' = (stray \ {o}) \cup {g} /\ UNCHANGED <<leg, pc, plan, cleared, crossed>>
    BY <1>4, StrayGuardSteps
  <2> HIDE DEF g
  <2>4. NoHedge' /\ GuardsHold'
    BY <2>1, <2>2, <2>3 DEF Unhedged, NoHedge, GuardsHold
  <2>5. OneThread'
    BY <1>3, <2>1, <2>3 DEF Unhedged, OneThread
  <2> QED
    BY <2>4, <2>5 DEF Unhedged
<1>5. CASE StrayOrder(o)
  <2>1. /\ stray' = stray \ {o} /\ UNCHANGED <<pc, plan, cleared, crossed>>
        /\ \E ok \in BOOLEAN : PlaceOrder(o.sym, o.plan, ok)
        /\ o.plan.act = "flatten" \/ o.clear \/ UNCHANGED leg
    BY <1>5, Zenon DEF StrayOrder, AfterGuard, taskVars
  <2>2. CASE \A m \in Leg : leg'[m] <= leg[m]
    BY <2>1, <2>2, QuietUnhedged
  <2>3. CASE ~\A m \in Leg : leg'[m] <= leg[m]
    <3>1. o.plan.act # "flatten" /\ leg' = [leg EXCEPT ![<<o.sym, o.plan.side>>] = @ + EntrySize]
      BY <1>2, <2>1, <2>3, OrderedLegs
    <3>2. o.clear
      BY <2>1, <2>3, <3>1, LegsAreNat
    <3>3. o.sym \in crossed \/ leg[o.sym, Opposite(o.plan.side)] = 0
      BY <3>2 DEF Unhedged, GuardsHold
    <3> QED
      BY <1>2, <1>3, <2>1, <3>1, <3>3, FillUnhedged
  <2> QED
    BY <2>2, <2>3
<1> QED
  BY <1>4, <1>5

\* A stop leaves what the lock allowed: one order, with what its guard found.
LEMMA StopUnhedged ==
  ASSUME Typed, Typed', Unhedged, faults = 0 => Clean, faults' <= 1, Stop
  PROVE  Unhedged'
<1>1. faults = 0
  BY DEF Stop, Fault, Typed, CycleTyped
<1>2. stray = {} /\ UNCHANGED <<leg, crossed>> /\ cleared' = {}
  BY <1>1 DEF Clean, Stop, Restarted
<1>3. ASSUME NEW o \in stray'
      PROVE  /\ o = [sym |-> o.sym, plan |-> plan[o.sym], clear |-> o.sym \in cleared]
             /\ o.sym \in Symbol
  <2>1. PICK s \in Symbol : o = [sym |-> s, plan |-> plan[s], clear |-> s \in cleared]
    BY <1>2, <1>3, StopSteps
  <2>2. o.sym = s
    BY <2>1
  <2> QED
    BY <2>1, <2>2, Zenon
<1>4. NoHedge'
  BY <1>2 DEF Unhedged, NoHedge
<1>5. GuardsHold'
  <2>1. ASSUME NEW o \in stray', o.clear, o.sym \notin crossed
        PROVE  leg[o.sym, Opposite(o.plan.side)] = 0
    <3>1. o.plan = plan[o.sym] /\ (o.clear <=> o.sym \in cleared)
      <4>1. o = [sym |-> o.sym, plan |-> plan[o.sym], clear |-> o.sym \in cleared]
        BY <1>3
      <4>2. [sym |-> o.sym, plan |-> plan[o.sym], clear |-> o.sym \in cleared].plan = plan[o.sym]
        BY Zenon
      <4>3. [sym |-> o.sym, plan |-> plan[o.sym], clear |-> o.sym \in cleared].clear
            <=> o.sym \in cleared
        BY Zenon
      <4> QED
        BY <4>1, <4>2, <4>3, Zenon
    <3> QED
      BY <2>1, <3>1 DEF Unhedged, GuardsHold
  <2> QED
    BY <1>2, <2>1 DEF GuardsHold
<1>6. OneThread'
  <2>1. \A s \in Symbol : pc'[s] = "idle"
    BY DEF Stop, Restarted
  <2>2. \A o, q \in stray' : o.sym = q.sym => o = q
    BY <1>3, Zenon
  <2> QED
    BY <1>2, <1>3, <2>1, <2>2 DEF OneThread
<1> QED
  BY <1>4, <1>5, <1>6 DEF Unhedged

\* Every other step opens no leg and starts no order.
LEMMA OthersUnhedged ==
  ASSUME Typed, Typed', Unhedged, [Next]_vars, ~Stop, ~\E s \in Symbol : Task(s),
         ~\E o \in stray : StrayGuard(o) \/ StrayOrder(o)
  PROVE  Unhedged'
<1>1. \A l \in Leg : leg'[l] <= leg[l]
  BY LegsShrink DEF Task
<1>2. \A t \in cleared : pc[t] = "ordering" /\ t \in Symbol
  BY DEF Unhedged, OneThread, Typed, ThreadTyped
<1>3. CASE UNCHANGED <<pc, plan, cleared, stray, crossed>>
  BY <1>1, <1>3, QuietUnhedged
<1>4. CASE UNCHANGED <<cleared, stray, crossed>> /\ cleared = {}
           /\ \A s \in Symbol : pc'[s] # "ordering"
  BY <1>1, <1>4, QuietUnhedged
<1>5. CASE Cycle
  <2>1. CASE BeginScan
    <3>1. cleared = {}
      BY <1>2, <2>1 DEF BeginScan, Typed, TaskTyped
    <3> QED
      BY <1>4, <2>1, <3>1 DEF BeginScan, threadVars
  <2>2. CASE EndCycle
    <3>1. cleared = {}
      BY <1>2, <2>2 DEF EndCycle
    <3> QED
      BY <1>4, <2>2, <3>1 DEF EndCycle, threadVars
  <2>3. CASE ~BeginScan /\ ~EndCycle
    BY <1>3, <1>5, <2>3
       DEF Cycle, StartCycle, EndEmergency, Sync, SyncFails, CachePositions, NextBatch, taskVars, threadVars
  <2> QED
    BY <2>1, <2>2, <2>3
<1>6. CASE Exits \/ ExchangeReduces \/ UNCHANGED vars
  BY <1>3, <1>6, ExitSteps DEF Exits, ExchangeReduces, vars, taskVars, threadVars
<1>7. CASE Crash
  <2>1. cleared' = {} /\ stray' = {} /\ UNCHANGED crossed /\ \A s \in Symbol : pc'[s] = "idle"
    BY <1>7 DEF Crash, Restarted
  <2> QED
    BY <1>1, <2>1, QuietUnhedged
<1> QED
  BY <1>5, <1>6, <1>7 DEF Next

\* "Block accidental opposite-side legs": until a second failure, and although
\* the guard of an order may be stale when it fills, only a symbol for which the
\* loop ordered beside a stray order of a stop is ever held both ways.
THEOREM NeverHedged == Separate => (Spec => [](faults <= 1 => NoHedge))
<1> SUFFICES ASSUME Separate PROVE Spec => [](faults <= 1 => NoHedge)
  OBVIOUS
<1>1. Init => Unhedged
  BY DEF Init, Unhedged, NoHedge, GuardsHold, OneThread, NoLegs, Leg, Side
<1>2. /\ Typed /\ Typed' /\ (faults = 0 => Clean) /\ [Next]_vars
      /\ (faults <= 1 => Unhedged)
      => (faults <= 1 => Unhedged)'
  <2> SUFFICES ASSUME Typed, Typed', faults = 0 => Clean, [Next]_vars,
                      faults <= 1 => Unhedged, faults' <= 1
               PROVE  Unhedged'
    OBVIOUS
  <2>1. faults \in Nat
    BY AdmissionAssumption DEF AdmissionAssumption, Typed, CycleTyped
  <2>2. Unhedged
    BY <2>1, FaultsGrow
  <2> QED
    BY <2>2, TaskUnhedged, StrayUnhedged, StopUnhedged, OthersUnhedged
<1>3. (faults <= 1 => Unhedged) => (faults <= 1 => NoHedge)
  BY DEF Unhedged
<1> QED
  BY <1>1, <1>2, <1>3, CleanInvariant, TypedInvariant, PTL DEF Spec

\* The sizes of rows that are all one entry's add up to an entry's units each.
LEMMA RowSizes ==
  ASSUME NEW R \in SUBSET Row, \A r \in R : r.size = EntrySize
  PROVE  MapThenSumSet(LAMBDA r : r.size, R) = Units(Cardinality(R))
<1> DEFINE f == [r \in R |-> r.size]
           Rec(g) == g = [T \in SUBSET R |-> IF T = {} THEN 0
                            ELSE (CHOOSE x \in T : TRUE).size + g[T \ {CHOOSE x \in T : TRUE}]]
<1>1. IsFiniteSet(R) /\ EntrySize \in Nat /\ \A r \in R : f[r] = EntrySize
  BY FiniteRows, AdmissionAssumption DEF AdmissionAssumption
<1>2. ASSUME NEW g PROVE Rec(g) <=> Sums(f, R, g)
  <2>1. ASSUME NEW T \in SUBSET R
        PROVE  SumStep(f, g, T) = IF T = {} THEN 0
                 ELSE (CHOOSE x \in T : TRUE).size + g[T \ {CHOOSE x \in T : TRUE}]
    <3>1. T # {} => f[Chosen(T)] = (CHOOSE x \in T : TRUE).size
      BY DEF Chosen
    <3> HIDE DEF f
    <3> QED
      BY <3>1 DEF SumStep, Chosen
  <2> HIDE DEF f
  <2> QED
    BY <2>1, Zenon DEF Sums
<1>3. MapThenSumSet(LAMBDA r : r.size, R) = (CHOOSE g : Rec(g))[R]
  BY Zenon DEF MapThenSumSet, MapThenFoldSet
<1> HIDE DEF f, Rec
<1>4. \E g : Sums(f, R, g)
  BY <1>1, SumExists
<1>5. Sums(f, R, CHOOSE g : Rec(g))
  <2>1. \E g : Rec(g)
    BY <1>2, <1>4
  <2>2. Rec(CHOOSE g : Rec(g))
    BY <2>1
  <2> QED
    BY <1>2, <2>2
<1>6. (CHOOSE g : Rec(g))[R] = EntrySize * Cardinality(R)
  BY <1>1, <1>5, SumCovers
<1> QED
  BY <1>3, <1>6 DEF Units

\* In a clean book every entry belongs to a row or to the task that records it.
LEMMA CleanIsOwned ==
  ASSUME Typed, Clean
  PROVE  LegsOwned
<1> SUFFICES ASSUME NEW l \in Leg PROVE leg[l] <= OwnedSize(l)
  BY DEF LegsOwned
<1> DEFINE R == {r \in rows : r.sym = l[1] /\ r.side = l[2]}
           sizes == MapThenSumSet(LAMBDA r : r.size, R)
           flying == IF InFlight(l) THEN EntrySize ELSE 0
<1>1. R \in SUBSET Row /\ \A r \in R : r.size = EntrySize
  BY DEF Typed, BookTyped, Clean, BookClean, RowsClean
<1>2. OwnedSize(l) = sizes + flying
  BY Zenon DEF OwnedSize, InFlight
<1>3. sizes = Units(Cardinality(R))
  <2> HIDE DEF R
  <2> QED
    BY <1>1, RowSizes
<1>4. Cardinality(LegRows(l)) <= Cardinality(R) /\ Cardinality(R) \in Nat
  <2>1. LegRows(l) \subseteq R
    BY DEF LegRows
  <2> HIDE DEF R
  <2> QED
    BY <1>1, <2>1, FiniteRows, FS_Subset
<1>5. Units(Backed(l)) = Units(Cardinality(LegRows(l))) + flying
  <2> DEFINE n == Cardinality(LegRows(l))
  <2>1. n \in Nat /\ Backed(l) = n + (IF InFlight(l) THEN 1 ELSE 0)
    BY LegRowsFinite DEF Backed
  <2>2. flying = IF InFlight(l) THEN EntrySize ELSE 0
    OBVIOUS
  <2> HIDE DEF n, flying
  <2>3. Units(n) \in Nat /\ Units(n + 1) = Units(n) + EntrySize
    BY <2>1, UnitsFacts
  <2>4. Units(Backed(l)) = Units(n) + flying
    BY <2>1, <2>2, <2>3
  <2> QED
    BY <2>4 DEF n
<1>6. Units(Cardinality(LegRows(l))) <= Units(Cardinality(R))
  BY <1>4, LegRowsFinite, UnitsFacts
<1>7. /\ leg[l] <= Units(Backed(l)) /\ leg[l] \in Nat
      /\ Units(Cardinality(LegRows(l))) \in Nat /\ Units(Cardinality(R)) \in Nat
      /\ flying \in Nat
  <2>1. flying \in Nat
    BY AdmissionAssumption DEF AdmissionAssumption
  <2> HIDE DEF R, flying
  <2> QED
    BY <1>4, <2>1, LegRowsFinite, UnitsFacts, LegsAreNat DEF Clean, BookClean, LegsBacked
<1> HIDE DEF R, sizes, flying
<1> QED
  BY <1>2, <1>3, <1>5, <1>6, <1>7

\* Until the first failure every entry on the exchange belongs to an open row,
\* or to a fill that its task has still to record.
THEOREM EntriesOwned == Separate => (Spec => [](faults = 0 => LegsOwned))
<1> SUFFICES ASSUME Separate PROVE Spec => [](faults = 0 => LegsOwned)
  OBVIOUS
<1>1. Typed /\ (faults = 0 => Clean) => (faults = 0 => LegsOwned)
  BY CleanIsOwned
<1> QED
  BY <1>1, CleanInvariant, TypedInvariant, PTL

\* A clean leg has its base row, and the adds that its counter allows.
LEMMA CleanIsBounded ==
  ASSUME Typed, Separate, Clean, NEW l \in Leg
  PROVE  Backed(l) <= 1 + MaxLayers
<1> DEFINE s == l[1]
           bases == {r \in LegRows(l) : r.layer = 0}
<1>1. RowsClean /\ s \in Symbol
  BY LegParts DEF Clean, BookClean
<1>2. /\ Cardinality(Adds(s)) = layers[s] /\ layers[s] <= MaxLayers
      /\ layers[s] \in Nat /\ MaxLayers \in Nat /\ Adds(s) \in SUBSET Row
  BY <1>1, AdmissionAssumption
     DEF AdmissionAssumption, Clean, BookClean, LayersKept, Typed, BookTyped, Adds
<1>3. bases \in SUBSET Row /\ IsFiniteSet(bases) /\ Cardinality(bases) \in Nat
  BY LegRowsFinite, FiniteRows
<1>4. Cardinality(bases) <= 1
  <2>1. CASE bases = {}
    BY <2>1, FS_EmptySet
  <2>2. CASE bases # {}
    <3>1. PICK b \in bases : TRUE
      BY <2>2
    <3>2. bases = {b}
      BY <1>1, <3>1 DEF RowsClean, LegRows
    <3> HIDE DEF bases
    <3>3. Cardinality({b}) = 1
      BY FS_Singleton
    <3> QED
      BY <3>2, <3>3
  <2> QED
    BY <2>1, <2>2
<1>5. Cardinality(LegRows(l)) <= Cardinality(bases) + Cardinality(Adds(s))
  <2>1. LegRows(l) \subseteq bases \cup Adds(s)
    BY DEF LegRows, Adds, Typed, BookTyped, Row
  <2>2. bases \cap Adds(s) = {}
    BY DEF Adds
  <2> HIDE DEF bases
  <2>3. IsFiniteSet(Adds(s)) /\ IsFiniteSet(bases \cup Adds(s))
    BY <1>2, <1>3, FiniteRows, FS_Union
  <2>4. Cardinality(bases \cup Adds(s)) = Cardinality(bases) + Cardinality(Adds(s)) - Cardinality(bases \cap Adds(s))
    BY <1>3, <2>3, FS_Union
  <2>5. Cardinality(bases \cap Adds(s)) = 0
    BY <2>2, FS_EmptySet
  <2>6. Cardinality(LegRows(l)) <= Cardinality(bases \cup Adds(s))
    BY <2>1, <2>3, FS_Subset
  <2>7. Cardinality(Adds(s)) \in Nat
    BY <1>2
  <2> QED
    BY <1>3, <2>4, <2>5, <2>6, <2>7
<1>6. CASE ~InFlight(l)
  <2>1. Backed(l) = Cardinality(LegRows(l)) + 0
    BY <1>6 DEF Backed
  <2> HIDE DEF bases
  <2> QED
    BY <1>2, <1>3, <1>4, <1>5, <2>1, LegRowsFinite
<1>7. CASE InFlight(l)
  <2>1. pc[s] \in InOrder /\ plan[s].act # "flatten"
    BY <1>7 DEF InFlight, InOrder
  <2>2. Backed(l) = Cardinality(LegRows(l)) + 1
    BY <1>7 DEF Backed
  <2>3. CASE plan[s].act = "enter"
    <3>1. LegRows(l) = {}
      BY <1>1, <2>1, <2>3, RowsOnItsSide DEF LegRows
    <3> QED
      BY <1>2, <2>2, <3>1, FS_EmptySet
  <2>4. CASE plan[s].act = "pyramid"
    <3>1. layers[s] < MaxLayers
      <4>1. pc[s] = "executed"
        BY <1>7 DEF InFlight
      <4> QED
        BY <1>1, <2>4, <4>1 DEF Clean, TaskClean, Decided, Busy
    <3> HIDE DEF bases
    <3> QED
      BY <1>2, <1>3, <1>4, <1>5, <2>2, <3>1, LegRowsFinite
  <2> QED
    BY <1>1, <2>1, <2>3, <2>4, RowsOnItsSide
<1> QED
  BY <1>6, <1>7

\* PYRAMID_MAX_LAYERS bounds the adds to one leg until the first failure.
THEOREM AddsBounded == Separate => (Spec => [](faults = 0 => LayersBounded))
<1> SUFFICES ASSUME Separate PROVE Spec => [](faults = 0 => LayersBounded)
  OBVIOUS
<1>1. Typed /\ (faults = 0 => Clean) => (faults = 0 => LayersBounded)
  <2> SUFFICES ASSUME Typed, Clean, faults = 0, NEW l \in Leg
               PROVE  leg[l] <= EntrySize * (1 + MaxLayers + faults)
    BY DEF LayersBounded
  <2>1. MaxLayers \in Nat /\ 1 + MaxLayers + faults = 1 + MaxLayers
    BY AdmissionAssumption DEF AdmissionAssumption
  <2>2. Units(Backed(l)) <= Units(1 + MaxLayers)
    BY <2>1, CleanIsBounded, LegRowsFinite, UnitsFacts
  <2>3. leg[l] <= Units(Backed(l)) /\ leg[l] \in Nat /\ Units(Backed(l)) \in Nat
        /\ Units(1 + MaxLayers) \in Nat
    BY <2>1, LegRowsFinite, UnitsFacts, LegsAreNat DEF Clean, BookClean, LegsBacked
  <2>4. leg[l] <= Units(1 + MaxLayers)
    BY <2>2, <2>3
  <2> QED
    BY <2>1, <2>4 DEF Units
<1> QED
  BY <1>1, CleanInvariant, TypedInvariant, PTL
-----------------------------------------------------------------------------
(***************************************************************************)
(* The caps of the scan.  They count symbols with a row, so they bound the *)
(* legs only as long as every leg has one, and only without pyramid adds:  *)
(* an add may open again a leg whose stop has just filled, beside a symbol *)
(* that has taken its place in the count.                                  *)
(***************************************************************************)

\* The cap's count is that of the symbols with a row.
Counted ==
  phase \in {"cache", "exits", "scan"} => openCount = Cardinality(OpenSymbols(rows))
Vacant ==
  \A s \in Symbol : pc[s] = "ordering" /\ plan[s].act = "enter" => openCount < MaxPositions
Capped == Counted /\ Vacant /\ CapHolds

\* The direction of an entry has room beside the symbols of its gather.
Room(s) ==
  pc[s] \in {"queued", "ordering"} /\ plan[s].act = "enter" =>
    Cardinality(HeldOutside(plan[s].side)) < MaxSameDirection
Roomy == \A s \in Symbol : Room(s)

\* Sets of symbols are finite.
LEMMA SymbolSets ==
  \A S, T \in SUBSET Symbol :
    /\ IsFiniteSet(S) /\ Cardinality(S) \in Nat
    /\ S \subseteq T => Cardinality(S) <= Cardinality(T)
<1>1. \A S \in SUBSET Symbol : IsFiniteSet(S) /\ Cardinality(S) \in Nat
  BY AdmissionAssumption, FS_Subset, FS_CardinalityType DEF AdmissionAssumption
<1>2. ASSUME NEW S \in SUBSET Symbol, NEW T \in SUBSET Symbol, S \subseteq T
      PROVE  Cardinality(S) <= Cardinality(T)
  BY <1>1, <1>2, FS_Subset
<1> QED
  BY <1>1, <1>2

\* A symbol more, or less, in a set of symbols.
LEMMA OneSymbol ==
  ASSUME NEW S \in SUBSET Symbol, NEW s \in Symbol
  PROVE  /\ s \notin S => Cardinality(S \cup {s}) = Cardinality(S) + 1
         /\ s \in S => Cardinality(S \ {s}) = Cardinality(S) - 1 /\ Cardinality(S) >= 1
         /\ Cardinality(S \cup {s}) <= Cardinality(S) + 1
<1>1. IsFiniteSet(S) /\ Cardinality(S) \in Nat /\ IsFiniteSet(S \ {s}) /\ Cardinality(S \ {s}) \in Nat
  BY SymbolSets
<1>2. s \notin S => Cardinality(S \cup {s}) = Cardinality(S) + 1
  BY <1>1, FS_AddElement
<1>3. s \in S => Cardinality(S \ {s}) = Cardinality(S) - 1
  BY <1>1, FS_RemoveElement
<1>4. s \in S => S \cup {s} = S
  OBVIOUS
<1> QED
  BY <1>1, <1>2, <1>3, <1>4

\* A leg that no order is making has a row.
LEMMA LiveHasRow ==
  ASSUME Typed, Clean, NEW l \in Leg, leg[l] > 0, pc[l[1]] # "executed"
  PROVE  \E r \in rows : r.sym = l[1] /\ r.side = l[2]
<1>1. ~InFlight(l)
  BY DEF InFlight
<1> QED
  BY <1>1, LegHasRow DEF Clean, BookClean

\* Without pyramid adds a task enters or flattens.
LEMMA NoAdds ==
  ASSUME Typed, Clean, MaxLayers = 0, NEW s \in Symbol, pc[s] \in Busy \ {"begun"}
  PROVE  plan[s].act \in {"enter", "flatten"}
<1>1. layers[s] \in Nat /\ plan[s].act \in Act /\ Decided(s)
  BY DEF Typed, BookTyped, TaskTyped, Plans, Clean, TaskClean
<1>2. plan[s].act # "pyramid" /\ plan[s].act # "none"
  BY <1>1 DEF Decided
<1> QED
  BY <1>1, <1>2 DEF Act

\* Legs that shrink live in no more symbols.
LEMMA ShrunkLive ==
  ASSUME Typed, Typed', \A l \in Leg : leg'[l] <= leg[l]
  PROVE  /\ LiveSymbols' \subseteq LiveSymbols
         /\ UNCHANGED batch => \A side \in Side : HeldOutside(side)' \subseteq HeldOutside(side)
<1>1. \A l \in Leg : leg[l] \in Int /\ leg'[l] \in Int
  BY DEF Typed, CycleTyped
<1>2. \A l \in Leg : leg'[l] > 0 => leg[l] > 0
  BY <1>1
<1>3. \A s \in Symbol, side \in Side : <<s, side>> \in Leg
  BY DEF Leg
<1> QED
  BY <1>2, <1>3 DEF LiveSymbols, HeldOutside

\* A task opens at most its own leg, when it enters, and none with a flatten.
LEMMA OnlyEntriesOpen ==
  ASSUME Typed, Typed', LockInv, Clean, MaxLayers = 0, NEW s \in Symbol, Execute(s),
         faults = 0, faults' = 0
  PROVE  \/ \A l \in Leg : leg'[l] <= leg[l]
         \/ /\ plan[s].act = "enter" /\ <<s, plan[s].side>> \in Leg
            /\ \A l \in Leg \ {<<s, plan[s].side>>} : leg'[l] = leg[l]
<1>1. pc[s] = "ordering" /\ plan[s].act \in {"enter", "flatten"}
  BY NoAdds DEF Execute, Busy
<1>2. \A l \in Leg : leg[l] \in Nat
  BY LegsAreNat
<1>3. Separate
  BY DEF Separate
<1>4. \/ UNCHANGED leg
      \/ \A l \in Leg : leg'[l] <= leg[l]
      \/ plan[s].act = "enter" /\ leg' = [leg EXCEPT ![<<s, plan[s].side>>] = @ + EntrySize]
  BY <1>1, <1>3, WhatIsOrdered
<1>5. CASE plan[s].act = "enter" /\ leg' = [leg EXCEPT ![<<s, plan[s].side>>] = @ + EntrySize]
  BY <1>5 DEF Typed, CycleTyped, TaskTyped, Plans, Leg
<1> QED
  BY <1>2, <1>4, <1>5

\* An entry finds the symbols with a leg below the cap, and takes one more.
LEMMA CapKept ==
  ASSUME Typed, Typed', LockInv, Clean, MaxLayers = 0, Capped, [Next]_vars,
         faults = 0, faults' = 0
  PROVE  CapHolds'
<1>1. ~\E o \in stray : StrayOrder(o)
  BY DEF Clean
<1>2. LiveSymbols \in SUBSET Symbol /\ LiveSymbols' \in SUBSET Symbol
  BY DEF LiveSymbols
<1>3. CapHolds /\ Cardinality(LiveSymbols) \in Nat /\ Cardinality(LiveSymbols') \in Nat
  BY <1>2, SymbolSets DEF Capped
<1>4. ASSUME \A l \in Leg : leg'[l] <= leg[l] PROVE CapHolds'
  <2>1. Cardinality(LiveSymbols') <= Cardinality(LiveSymbols)
    BY <1>2, <1>4, ShrunkLive, SymbolSets
  <2> QED
    BY <1>3, <2>1, AdmissionAssumption DEF CapHolds, AdmissionAssumption
<1>5. ASSUME NEW s \in Symbol, Execute(s), plan[s].act = "enter",
             \A l \in Leg \ {<<s, plan[s].side>>} : leg'[l] = leg[l]
      PROVE  CapHolds'
  <2>1. pc[s] = "ordering" /\ phase = "scan"
    BY <1>5 DEF Execute, Typed, TaskTyped
  <2> DEFINE open == OpenSymbols(rows)
  <2>2. openCount < MaxPositions /\ openCount = Cardinality(open) /\ openCount \in Nat
    BY <1>5, <2>1 DEF Capped, Vacant, Counted, Typed, CycleTyped
  <2>3. open \in SUBSET Symbol
    BY CountsTyped DEF Typed, BookTyped
  <2>4. ASSUME NEW t \in Symbol \ {s}, NEW side \in Side, leg'[t, side] > 0 PROVE t \in open
    <3>1. <<t, side>> \in Leg /\ leg[t, side] > 0 /\ pc[t] # "executed"
      BY <1>5, <2>1, <2>4 DEF Leg, LockInv, InOrder
    <3>2. \E r \in rows : r.sym = t
      BY <3>1, LiveHasRow
    <3> QED
      BY <3>2 DEF OpenSymbols
  <2>5. LiveSymbols' \subseteq open \cup {s}
    BY <2>4 DEF LiveSymbols
  <2> HIDE DEF open
  <2>6. Cardinality(LiveSymbols') <= Cardinality(open \cup {s})
    BY <1>2, <2>3, <2>5, SymbolSets
  <2>7. Cardinality(open \cup {s}) <= openCount + 1 /\ Cardinality(open \cup {s}) \in Nat
    BY <2>2, <2>3, OneSymbol, SymbolSets
  <2> QED
    BY <1>3, <2>2, <2>6, <2>7, AdmissionAssumption DEF CapHolds, AdmissionAssumption
<1> QED
  BY <1>1, <1>4, <1>5, LegsShrink, OnlyEntriesOpen

\* The count follows the rows.
LEMMA CountKept ==
  ASSUME Typed, Typed', LockInv, Clean, MaxLayers = 0, Counted, [Next]_vars,
         faults = 0, faults' = 0
  PROVE  Counted'
<1>0. ~Fault
  BY DEF Fault
<1>1. CASE UNCHANGED <<phase, rows, openCount>>
  BY <1>1 DEF Counted
<1>2. CASE Cycle
  <2>1. CASE StartCycle \/ EndEmergency \/ SyncFails \/ EndCycle
    BY <2>1 DEF StartCycle, EndEmergency, SyncFails, EndCycle, Counted
  <2>2. CASE Sync
    BY <2>2 DEF Sync, Counted
  <2>3. CASE CachePositions
    BY <2>3 DEF CachePositions, Counted, bookVars
  <2>4. CASE BeginScan
    BY <2>4 DEF BeginScan, Counted
  <2>5. CASE NextBatch
    BY <1>1, <2>5 DEF NextBatch, bookVars, cycleVars
  <2> QED
    BY <1>2, <2>1, <2>2, <2>3, <2>4, <2>5 DEF Cycle
<1>3. CASE Exits
  BY <1>1, <1>3, ExitSteps DEF Exits, CloseInSession, cycleVars
<1>4. ASSUME NEW s \in Symbol, Settle(s) PROVE Counted'
  <2> DEFINE open == OpenSymbols(rows)
  <2>1. pc[s] = "executed" /\ phase = "scan" /\ phase' = "scan"
    BY <1>4 DEF Settle, Typed, TaskTyped
  <2>2. openCount = Cardinality(open) /\ open \in SUBSET Symbol /\ openCount \in Nat
    BY <2>1, CountsTyped DEF Counted, Typed, BookTyped, CycleTyped
  <2>3. plan[s].act \in {"enter", "flatten"} /\ TaskClean(s)
    BY <2>1, NoAdds DEF Busy, Clean
  <2>4. CASE plan[s].act = "enter"
    <3>1. rows' = rows \cup {NewRow(s, 0)} /\ openCount' = openCount + 1
      BY <1>4, <2>4, WhatIsRecorded
    <3>2. \A r \in rows : r.sym # s
      BY <2>1, <2>3, <2>4 DEF TaskClean, Found, Decided, Busy
    <3>3. OpenSymbols(rows') = open \cup {s} /\ s \notin open
      <4> DEFINE new == NewRow(s, 0)
      <4>1. new.sym = s /\ rows' = rows \cup {new}
        BY <3>1 DEF NewRow
      <4> HIDE DEF new
      <4> QED
        BY <3>2, <4>1 DEF OpenSymbols
    <3> HIDE DEF open
    <3>4. Cardinality(OpenSymbols(rows')) = Cardinality(open) + 1
      BY <2>2, <3>3, OneSymbol
    <3> QED
      BY <2>2, <3>1, <3>4 DEF Counted
  <2>5. CASE plan[s].act = "flatten"
    <3> DEFINE r == plan[s].row
    <3>1. rows' = rows \ {r} /\ openCount' = Lowered(openCount)
      BY <1>4, <2>5, WhatIsRecorded
    <3>2. r \in rows
      BY <2>1, <2>3, <2>5 DEF TaskClean, Ordered, InOrder
    <3>3. \A q \in rows : q.sym = r.sym => q = r
      BY <3>2 DEF Clean, BookClean, RowsClean
    <3> HIDE DEF r
    <3>4. OpenSymbols(rows') = open \ {r.sym} /\ r.sym \in open
      BY <3>1, <3>2, <3>3 DEF OpenSymbols
    <3> HIDE DEF open
    <3>5. Cardinality(OpenSymbols(rows')) = openCount - 1 /\ openCount >= 1
      BY <2>2, <3>4, OneSymbol
    <3> QED
      BY <2>2, <3>1, <3>5 DEF Counted, Lowered
  <2> QED
    BY <2>3, <2>4, <2>5
<1>5. ASSUME NEW s \in Symbol, Task(s), ~Settle(s) PROVE UNCHANGED <<phase, rows, openCount>>
  BY <1>5, GuardSteps
     DEF Task, Begin, Evaluate, CheckDirection, TakeLock, Execute, bookVars, cycleVars
<1>6. CASE ExchangeReduces
  BY <1>1, <1>6 DEF ExchangeReduces, bookVars, cycleVars
<1>7. ~Stop /\ ~Crash /\ stray = {}
  BY <1>0 DEF Stop, Crash, Clean
<1>8. CASE UNCHANGED vars
  BY <1>1, <1>8 DEF vars, bookVars, cycleVars
<1> QED
  BY <1>1, <1>2, <1>3, <1>4, <1>5, <1>6, <1>7, <1>8 DEF Next

\* What a task found vacant under the lock stays so until its order is done.
LEMMA VacantKept ==
  ASSUME Typed, Typed', LockInv, Clean, Vacant, [Next]_vars, faults = 0, faults' = 0
  PROVE  Vacant'
<1>0. ~Stop /\ ~Crash /\ stray = {}
  BY DEF Stop, Crash, Fault, Clean
<1>1. CASE UNCHANGED <<pc, plan, openCount>>
  BY <1>1 DEF Vacant
<1>2. ASSUME \A s \in Symbol : pc'[s] # "ordering" PROVE Vacant'
  BY <1>2 DEF Vacant
<1>3. phase' # "scan" => Vacant'
  BY <1>2 DEF Typed, TaskTyped
<1>4. CASE Cycle
  <2>1. CASE BeginScan
    BY <1>2, <2>1 DEF BeginScan
  <2>2. CASE NextBatch
    BY <1>1, <2>2 DEF NextBatch, cycleVars
  <2>3. CASE ~BeginScan /\ ~NextBatch
    BY <1>3, <1>4, <2>3 DEF Cycle, StartCycle, EndEmergency, Sync, SyncFails, CachePositions, EndCycle
  <2> QED
    BY <2>1, <2>2, <2>3
<1>5. CASE Exits
  BY <1>1, <1>5, ExitSteps DEF Exits, cycleVars, taskVars
<1>6. ASSUME NEW s \in Symbol, Task(s) PROVE Vacant'
  <2>0. pc \in [Symbol -> Phases] /\ plan \in [Symbol -> Plans]
    BY DEF Typed, TaskTyped
  <2>1. ASSUME NEW x, pc' = [pc EXCEPT ![s] = x], x # "ordering", UNCHANGED openCount,
               \A t \in Symbol \ {s} : plan'[t] = plan[t]
        PROVE  Vacant'
    BY <2>0, <2>1 DEF Vacant
  <2>2. ASSUME Return(s), UNCHANGED openCount PROVE Vacant'
    BY <2>0, <2>1, <2>2 DEF Return
  <2>3. CASE Begin(s) \/ Evaluate(s) \/ CheckDirection(s)
    <3>1. UNCHANGED openCount
      BY <2>3 DEF Begin, Evaluate, CheckDirection, cycleVars
    <3>2. \/ Return(s)
          \/ \E x \in {"begun", "evaluated", "queued"} :
               pc' = [pc EXCEPT ![s] = x] /\ \A t \in Symbol \ {s} : plan'[t] = plan[t]
      BY <2>0, <2>3 DEF Begin, Evaluate, CheckDirection
    <3> QED
      BY <2>1, <2>2, <3>1, <3>2
  <2>4. CASE TakeLock(s)
    <3>1. UNCHANGED openCount
      BY <2>4 DEF TakeLock, cycleVars
    <3>2. CASE Admitted(s) /\ pc' = [pc EXCEPT ![s] = "ordering"]
      <4> DEFINE p == Plan(plan[s].act, plan[s].side, plan[s].row, OrderSize(s))
      <4>1. plan' = [plan EXCEPT ![s] = p] \/ Return(s)
        BY <2>4, Zenon DEF TakeLock, Typed, TaskTyped
      <4>2. p.act = plan[s].act
        BY DEF Plan
      <4> HIDE DEF p
      <4>3. CASE plan' = [plan EXCEPT ![s] = p]
        BY <2>0, <3>1, <3>2, <4>2, <4>3 DEF Vacant, Admitted
      <4> QED
        BY <2>2, <3>1, <4>1, <4>3
    <3> QED
      BY <2>2, <2>4, <3>1, <3>2 DEF TakeLock
  <2>5. CASE Execute(s)
    <3>1. UNCHANGED openCount
      BY <2>5 DEF Execute, cycleVars
    <3>2. Return(s) \/ (pc' = [pc EXCEPT ![s] = "executed"] /\ UNCHANGED plan)
      BY <2>5 DEF Execute
    <3> QED
      BY <2>1, <2>2, <3>1, <3>2
  <2>6. CASE Settle(s)
    <3>1. pc[s] = "executed" /\ pc' = [pc EXCEPT ![s] = "done"]
      BY <2>6 DEF Settle, Return
    <3>2. \A t \in Symbol : pc'[t] # "ordering"
      BY <2>0, <3>1 DEF LockInv, InOrder
    <3> QED
      BY <1>2, <3>2
  <2>7. CASE Guard(s)
    BY <1>1, <2>7, GuardSteps
  <2> QED
    BY <1>6, <2>3, <2>4, <2>5, <2>6, <2>7 DEF Task
<1>7. CASE ExchangeReduces \/ UNCHANGED vars
  BY <1>1, <1>7 DEF ExchangeReduces, vars, cycleVars, taskVars
<1> QED
  BY <1>0, <1>4, <1>5, <1>6, <1>7 DEF Next

\* "so concurrent BUYs can't both pass the max-positions check and overshoot the
\* cap": without pyramid adds, and until the first failure, the tasks of a scan
\* never hold more symbols than the cap (its second test under the lock).
THEOREM CapNeverOvershot == MaxLayers = 0 => (Spec => [](faults = 0 => CapHolds))
<1> SUFFICES ASSUME MaxLayers = 0 PROVE Spec => [](faults = 0 => CapHolds)
  OBVIOUS
<1>1. Init => Capped
  <2> SUFFICES ASSUME Init PROVE Capped
    OBVIOUS
  <2>1. LiveSymbols = {}
    <3>1. \A s \in Symbol, side \in Side : <<s, side>> \in Leg
      BY DEF Leg
    <3>2. \A l \in Leg : leg[l] = 0
      BY DEF Init, NoLegs
    <3>3. \A s \in Symbol, side \in Side : leg[s, side] = 0
      BY <3>1, <3>2
    <3>4. ASSUME NEW s \in Symbol, NEW side \in Side PROVE ~(leg[s, side] > 0)
      <4>1. leg[s, side] = 0
        BY <3>3
      <4>2. ~(0 > 0)
        OBVIOUS
      <4> QED
        BY <4>1, <4>2, Zenon
    <3> QED
      BY <3>4 DEF LiveSymbols
  <2>2. CapHolds
    BY <2>1, FS_EmptySet, AdmissionAssumption DEF CapHolds, AdmissionAssumption
  <2> QED
    BY <2>2 DEF Init, Capped, Counted, Vacant
<1>2. Separate
  BY DEF Separate
<1>3. /\ Typed /\ Typed' /\ LockInv /\ (faults = 0 => Clean) /\ [Next]_vars
      /\ (faults = 0 => Capped)
      => (faults = 0 => Capped)'
  <2> SUFFICES ASSUME Typed, Typed', LockInv, faults = 0 => Clean, [Next]_vars,
                      faults = 0 => Capped, faults' = 0
               PROVE  Capped'
    OBVIOUS
  <2>1. faults = 0
    <3>1. faults \in Nat
      BY AdmissionAssumption DEF AdmissionAssumption, Typed, CycleTyped
    <3> QED
      BY <3>1, FaultsGrow
  <2>2. Clean /\ Capped
    BY <2>1
  <2> QED
    BY <2>1, <2>2, CapKept, CountKept, VacantKept DEF Capped
<1>4. Capped => CapHolds
  BY DEF Capped
<1> QED
  BY <1>1, <1>2, <1>3, <1>4, CleanInvariant, TypedInvariant, LockInvariant, PTL DEF Spec

\* The room of a task's entry, for the side it is on.
LEMMA RoomHeld ==
  ASSUME NEW s \in Symbol, NEW side \in Side, plan'[s].side = side,
         Cardinality(HeldOutside(side)') < MaxSameDirection
  PROVE  Room(s)'
  BY DEF Room, HeldOutside

\* While a task has an entry to place, the symbols outside its gather open
\* nothing.
LEMMA RoomyKept ==
  ASSUME Typed, Typed', LockInv, Clean, MaxLayers = 0, Roomy, [Next]_vars,
         faults = 0, faults' = 0
  PROVE  Roomy'
<1>0. ~Stop /\ ~Crash /\ stray = {}
  BY DEF Stop, Crash, Fault, Clean
<1> DEFINE Bound(s) == pc[s] \in {"queued", "ordering"} /\ plan[s].act = "enter"
<1>1. \A side \in Side : HeldOutside(side) \in SUBSET Symbol
  BY DEF HeldOutside
<1>2. ASSUME \A s \in Symbol : ~Bound(s)' PROVE Roomy'
  BY <1>2 DEF Roomy, Room
<1>3. CASE Cycle
  <2>1. CASE phase' # "scan"
    BY <1>2, <2>1 DEF Typed, TaskTyped
  <2>2. CASE BeginScan
    BY <1>2, <2>2 DEF BeginScan
  <2>3. CASE NextBatch
    <3>1. \A s \in Symbol : pc[s] \notin Busy
      BY <2>3 DEF NextBatch, Clean, TaskClean, Found, Busy
    <3>2. \A s \in Symbol : ~Bound(s)'
      BY <2>3, <3>1 DEF NextBatch, Busy
    <3> QED
      BY <1>2, <3>2
  <2> QED
    BY <1>3, <2>1, <2>2, <2>3 DEF Cycle, StartCycle, EndEmergency, Sync, SyncFails, CachePositions,
                                  EndCycle
<1>4. ASSUME UNCHANGED batch,
             \A side \in Side : HeldOutside(side)' \subseteq HeldOutside(side),
             NEW s \in Symbol, Bound(s)', Bound(s), plan'[s].side = plan[s].side
      PROVE  Room(s)'
  <2>1. PICK side \in Side : side = plan[s].side
    BY DEF Typed, TaskTyped, Plans
  <2>2. Cardinality(HeldOutside(side)) < MaxSameDirection
    BY <1>4, <2>1 DEF Roomy, Room
  <2>3. HeldOutside(side)' \in SUBSET Symbol /\ HeldOutside(side)' \subseteq HeldOutside(side)
    BY <1>4 DEF HeldOutside
  <2>4. /\ Cardinality(HeldOutside(side)') <= Cardinality(HeldOutside(side))
        /\ Cardinality(HeldOutside(side)') \in Nat /\ Cardinality(HeldOutside(side)) \in Nat
    BY <1>1, <2>3, SymbolSets
  <2>5. Cardinality(HeldOutside(side)') < MaxSameDirection
    BY <2>2, <2>4, AdmissionAssumption DEF AdmissionAssumption
  <2> QED
    BY <1>4, <2>1, <2>5, RoomHeld
<1>5. ASSUME UNCHANGED <<pc, plan, batch>>, \A l \in Leg : leg'[l] <= leg[l] PROVE Roomy'
  <2>1. \A side \in Side : HeldOutside(side)' \subseteq HeldOutside(side)
    BY <1>5, ShrunkLive
  <2> SUFFICES ASSUME NEW s \in Symbol, Bound(s)' PROVE Room(s)'
    BY DEF Roomy, Room
  <2> QED
    BY <1>4, <1>5, <2>1
<1>6. CASE Exits \/ ExchangeReduces \/ UNCHANGED vars
  <2>1. UNCHANGED <<pc, plan, batch>>
    BY <1>6, ExitSteps DEF Exits, ExchangeReduces, vars, taskVars
  <2>2. ~\E s \in Symbol : Execute(s)
    BY <2>1 DEF Execute, Return, Typed, TaskTyped
  <2> QED
    BY <1>0, <1>5, <2>1, <2>2, LegsShrink
<1>7. ASSUME NEW s \in Symbol, Task(s) PROVE Roomy'
  <2>0. pc \in [Symbol -> Phases] /\ plan \in [Symbol -> Plans] /\ UNCHANGED batch
    BY <1>7, GuardSteps
       DEF Typed, TaskTyped, Task, Begin, Evaluate, CheckDirection, TakeLock, Execute, Settle
  <2>1. \A side \in Side : HeldOutside(side)' \subseteq HeldOutside(side)
    <3>1. CASE \A l \in Leg : leg'[l] <= leg[l]
      BY <2>0, <3>1, ShrunkLive
    <3>2. CASE Execute(s) /\ \A l \in Leg \ {<<s, plan[s].side>>} : leg'[l] = leg[l]
      <4>1. s \in batch
        BY <3>2 DEF Execute, Clean, TaskClean, Found, Busy
      <4> QED
        BY <2>0, <3>2, <4>1 DEF HeldOutside, Leg
    <3>3. ~Execute(s) => UNCHANGED leg
      BY <1>7, GuardSteps DEF Task, Begin, Evaluate, CheckDirection, TakeLock, Settle
    <3>4. UNCHANGED leg => \A l \in Leg : leg'[l] <= leg[l]
      BY LegsAreNat
    <3> QED
      BY <3>1, <3>2, <3>3, <3>4, OnlyEntriesOpen
  <2>2. ASSUME NEW t \in Symbol \ {s} PROVE Room(t)'
    <3>1. pc'[t] = pc[t] /\ plan'[t] = plan[t]
      BY <1>7, <2>0, GuardSteps
         DEF Task, Begin, Evaluate, CheckDirection, TakeLock, Execute, Settle, Return
    <3>2. CASE Bound(t)
      BY <1>4, <2>0, <2>1, <3>1, <3>2
    <3>3. CASE ~Bound(t)
      BY <3>1, <3>3 DEF Room
    <3> QED
      BY <3>2, <3>3
  <2>3. Room(s)'
    <3>1. CASE pc'[s] \notin {"queued", "ordering"}
      BY <3>1 DEF Room
    <3>2. CASE pc'[s] \in {"queued", "ordering"}
      <4>1. pc'[s] # "done" /\ ~Return(s)
        BY <2>0, <3>2 DEF Return
      <4>2. CheckDirection(s) \/ TakeLock(s) \/ Guard(s)
        BY <1>7, <2>0, <3>2, <4>1 DEF Task, Begin, Evaluate, Execute, Settle
      <4>3. CASE TakeLock(s)
        <5> DEFINE p == Plan(plan[s].act, plan[s].side, plan[s].row, OrderSize(s))
        <5>1. plan' = [plan EXCEPT ![s] = p] /\ pc[s] = "queued"
          BY <4>1, <4>3, Zenon DEF TakeLock, Typed, TaskTyped
        <5>2. p.act = plan[s].act /\ p.side = plan[s].side
          BY DEF Plan
        <5> HIDE DEF p
        <5>3. plan'[s] = p
          BY <2>0, <5>1
        <5>4. Bound(s)' => Bound(s)
          BY <5>1, <5>2, <5>3
        <5>5. ~Bound(s)' => Room(s)'
          BY DEF Room
        <5> QED
          BY <1>4, <2>0, <2>1, <5>2, <5>3, <5>4, <5>5
      <4>4. CASE CheckDirection(s)
        <5>1. /\ UNCHANGED <<leg, plan>> /\ pc[s] = "evaluated"
              /\ plan[s].act = "enter" => Cardinality(SameDirection(plan[s].side)) < MaxSameDirection
          BY <4>1, <4>4 DEF CheckDirection
        <5>2. PICK side \in Side : side = plan[s].side
          BY <2>0 DEF Plans
        <5>3. HeldOutside(side) \subseteq SameDirection(side)
          <6> SUFFICES ASSUME NEW t \in Symbol \ batch, leg[t, side] > 0 PROVE t \in SameDirection(side)
            BY DEF HeldOutside
          <6>1. <<t, side>> \in Leg /\ pc[t] # "executed"
            BY <5>2 DEF Leg, Clean, TaskClean, Found, Busy
          <6>2. \E r \in rows : r.sym = t /\ r.side = side
            BY <6>1, LiveHasRow
          <6> QED
            BY <6>2 DEF SameDirection, OpenSymbols
        <5>4. SameDirection(side) \in SUBSET Symbol
          BY DEF SameDirection, OpenSymbols, Typed, BookTyped, Row
        <5>5. HeldOutside(side)' = HeldOutside(side)
          BY <2>0, <5>1 DEF HeldOutside
        <5>7. /\ Cardinality(HeldOutside(side)) <= Cardinality(SameDirection(side))
              /\ Cardinality(HeldOutside(side)) \in Nat /\ Cardinality(SameDirection(side)) \in Nat
          BY <1>1, <5>2, <5>3, <5>4, SymbolSets
        <5>8. plan[s].act = "enter" => Cardinality(HeldOutside(side)) < MaxSameDirection
          BY <5>1, <5>2, <5>7, AdmissionAssumption DEF AdmissionAssumption
        <5>9. CASE plan[s].act = "enter"
          <6>1. Cardinality(HeldOutside(side)') < MaxSameDirection
            BY <5>5, <5>8, <5>9
          <6> QED
            BY <5>1, <5>2, <6>1, RoomHeld
        <5>10. CASE plan[s].act # "enter"
          BY <5>1, <5>10 DEF Room
        <5> QED
          BY <5>9, <5>10
      <4>5. CASE Guard(s)
        <5>1. UNCHANGED <<pc, plan>>
          BY <4>5, GuardSteps
        <5>2. ~Bound(s)' => Room(s)'
          BY DEF Room
        <5> QED
          BY <1>4, <2>0, <2>1, <5>1, <5>2
      <4> QED
        BY <4>2, <4>3, <4>4, <4>5
    <3> QED
      BY <3>1, <3>2
  <2> QED
    BY <2>2, <2>3 DEF Roomy
<1> QED
  BY <1>0, <1>3, <1>6, <1>7 DEF Next

\* "Correlation cap": while nothing fails and without pyramid adds, a task that
\* opens a leg finds room in its direction beside the symbols of its gather
\* (MAX_SAME_DIRECTION_POSITIONS, tested before the lock).
THEOREM DirectionHasRoom == MaxLayers = 0 /\ MaxFaults = 0 => (Spec => DirectionCap)
<1> SUFFICES ASSUME MaxLayers = 0, MaxFaults = 0 PROVE Spec => DirectionCap
  OBVIOUS
<1>1. Separate
  BY DEF Separate
<1>2. Typed => faults = 0
  BY DEF Typed, CycleTyped
<1>3. Init => Roomy
  BY DEF Init, Roomy, Room
<1>4. /\ Typed /\ Typed' /\ LockInv /\ Clean /\ Roomy /\ [Next]_vars
      => Roomy'
  <2> SUFFICES ASSUME Typed, Typed', LockInv, Clean, Roomy, [Next]_vars PROVE Roomy'
    OBVIOUS
  <2>1. faults = 0 /\ faults' = 0
    BY DEF Typed, CycleTyped
  <2> QED
    BY <2>1, RoomyKept
<1>5. /\ Typed /\ Typed' /\ LockInv /\ Clean /\ Roomy /\ [Next]_vars
      => [\A l \in Leg : Opens(l) => Cardinality(HeldOutside(l[2])) < MaxSameDirection]_vars
  <2> SUFFICES ASSUME Typed, Typed', LockInv, Clean, Roomy, [Next]_vars,
                      NEW l \in Leg, Opens(l)
               PROVE  Cardinality(HeldOutside(l[2])) < MaxSameDirection
    OBVIOUS
  <2>1. faults = 0 /\ faults' = 0
    BY DEF Typed, CycleTyped
  <2>2. ~ leg'[l] <= leg[l]
    <3>1. leg[l] = 0 /\ leg'[l] > 0
      BY DEF Opens
    <3>2. leg'[l] \in 0..MaxUnits
      BY DEF Typed, CycleTyped
    <3> QED
      BY <3>1, <3>2
  <2>3. PICK s \in Symbol : Execute(s)
    BY <2>2, LegsShrink DEF Clean
  <2>4. plan[s].act = "enter" /\ l = <<s, plan[s].side>>
    <3>1. leg'[l] # leg[l]
      BY <2>2, LegsAreNat
    <3> QED
      BY <2>1, <2>2, <2>3, <3>1, OnlyEntriesOpen
  <2>5. pc[s] = "ordering"
    BY <2>3 DEF Execute
  <2> QED
    BY <2>4, <2>5 DEF Roomy, Room
<1>6. (faults = 0 => Clean) /\ Typed => Clean
  BY <1>2
<1> QED
  BY <1>1, <1>3, <1>4, <1>5, <1>6, CleanInvariant, TypedInvariant, LockInvariant, PTL
     DEF Spec, DirectionCap
=============================================================================
