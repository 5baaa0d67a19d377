-------------------------- MODULE ProtectionProofs --------------------------
(***************************************************************************)
(* A leg never loses its stop unaccounted for, whatever the levels, the    *)
(* number of order ids and the number of failed or unanswered requests.    *)
(***************************************************************************)
EXTENDS Protection, TLAPS

\* A stop is only placed when there is none, so the exchange finds a number for
\* it that neither thread remembers.
LEMMA Fresh ==
  ASSUME ProtectionAssumption, Ranges, ~HasStop
  PROVE  FreshId \in OrderId
<1>1. stop.id = "none"
  BY DEF HasStop, NoOrder
<1>2. job["loop"].id \in OrderId \cup {"none"} /\ job["executor"].id \in OrderId \cup {"none"}
  BY DEF Ranges, JobType, Thread
<1>3. PICK id \in OrderId : id # job["loop"].id /\ id # job["executor"].id
  BY <1>2 DEF ProtectionAssumption
<1>4. id # stop.id /\ \A t \in Thread : job[t].id # id
  BY <1>1, <1>3 DEF Thread, ProtectionAssumption
<1> QED
  BY <1>4 DEF FreshId

\* The exchange has a whole stop once it took one.
LEMMA Placed ==
  ASSUME ProtectionAssumption, Ranges, NEW level \in Level, Placeable(level)
  PROVE  stop' \in Order /\ HasStop' /\ open /\ armed' = TRUE
<1>1. ~HasStop /\ open /\ stop' = [id |-> FreshId, level |-> level] /\ armed' = TRUE
  BY DEF Placeable, Accepts, StopPlaced
<1>2. FreshId \in OrderId
  BY <1>1, Fresh
<1>3. stop' \in Order
  BY <1>1, <1>2 DEF Order
<1>4. stop'.level # 0
  BY <1>1 DEF Level, ProtectionAssumption
<1> QED
  BY <1>1, <1>3, <1>4 DEF HasStop, NoOrder

\* The threads: the level wanted by a call that goes on is a stop level, and
\* only replace_stop_loss cancels, restores or gives up for the halt.
Threads ==
  /\ pc \in [Thread -> Stage]
  /\ job \in [Thread -> JobType]
  /\ \A t \in Thread : pc[t] # "idle" => job[t].want \in Level
  /\ \A t \in Thread : pc[t] \in {"look", "cancel", "restore", "halt"} => job[t].op \in Replacing

\* The rest of the state.
Book ==
  /\ stop \in Order \cup {NoOrder} /\ price \in Price
  /\ rows \subseteq Level /\ faults \in 0..MaxFaults

\* What beginning and ending a call do to the threads.
LEMMA BeginKeeps ==
  ASSUME Threads, NEW t \in Thread, NEW stage \in Stage, NEW j \in JobType, j.want \in Level,
         stage \in {"look", "cancel", "restore", "halt"} => j.op \in Replacing,
         Begin(t, stage, j)
  PROVE  Threads'
  BY DEF Threads, Begin

\* Stop levels are the positive numbers up to MaxLevel.
LEMMA LevelTypes ==
  ASSUME ProtectionAssumption
  PROVE  Level \subseteq 0..MaxLevel /\ 0 \notin Level /\ 0 \in 0..MaxLevel
  BY DEF ProtectionAssumption, Level

\* The calls that threads begin, when idle or after the cancel.
LEMMA BeginJob ==
  ASSUME ProtectionAssumption, Threads, NEW t \in Thread, NEW stage \in {"look", "cancel", "place"},
         NEW op \in Op, stage = "place" \/ op \in Replacing,
         NEW want \in Level, NEW row \in 0..MaxLevel,
         NEW old \in 0..MaxLevel, NEW id \in OrderId \cup {"none"},
         Begin(t, stage, Job(op, want, row, old, id))
  PROVE  Threads'
<1> DEFINE j == Job(op, want, row, old, id)
<1>1. want \in 0..MaxLevel
  BY LevelTypes
<1>2. j \in JobType /\ j.op = op /\ j.want = want
  BY <1>1 DEF Job, JobType
<1>3. stage \in Stage /\ (stage \in {"look", "cancel", "restore", "halt"} => j.op \in Replacing)
  BY <1>2 DEF Stage
<1> HIDE DEF j
<1> QED
  BY <1>2, <1>3, BeginKeeps DEF j

\* A call that ends leaves its thread idle and the rows it was to leave.
LEMMA EndKeeps ==
  ASSUME ProtectionAssumption, Threads, NEW t \in Thread, NEW R, End(t, R)
  PROVE  Threads' /\ rows' = R
<1>1. NoJob \in JobType
  BY DEF NoJob, Job, JobType, Op, Ensuring, ProtectionAssumption
<1> QED
  BY <1>1 DEF Threads, End, Stage

\* The rows after a call hold stop levels.
LEMMA RowsTypes ==
  ASSUME Book, NEW j \in JobType, j.want \in Level
  PROVE  RowsAfter(j) \subseteq Level /\ RowsAfterFailure(j) \subseteq Level
  BY DEF Book, RowsAfter, RowsAfterFailure

\* The bound on faults is never passed.
LEMMA FaultTypes ==
  ASSUME ProtectionAssumption, Book, Fault \/ Works
  PROVE  faults' \in 0..MaxFaults
<1>1. MaxFaults \in Nat /\ faults \in 0..MaxFaults
  BY DEF ProtectionAssumption, Book
<1>2. CASE Fault
  BY <1>1, <1>2 DEF Fault
<1>3. CASE Works
  BY <1>1, <1>3 DEF Works
<1> QED
  BY <1>2, <1>3

\* A call that begins keeps the types.
LEMMA StartKeeps ==
  ASSUME ProtectionAssumption, Threads, Book, Start
  PROVE  Threads' /\ Book'
<1> USE LevelTypes DEF exchangeVars
<1>n. "none" \in OrderId \cup {"none"}
  OBVIOUS
<1>t. "loop" \in Thread /\ "executor" \in Thread /\ "look" \in Stage /\ "place" \in Stage
  BY DEF Thread, Stage
<1>o. /\ \A op \in {"ensure", "adopt", "trail", "modify", "tighten", "enter", "add"} : op \in Op
      /\ \A op \in {"trail", "modify", "tighten"} : op \in Replacing
  BY DEF Op, Ensuring, Replacing, Ordering
<1>1. ASSUME NEW r \in rows, Ensure(r) PROVE Threads' /\ Book'
  <2>1. r \in Level
    BY DEF Book
  <2>2. Begin("loop", "place", Job("ensure", r, r, 0, "none"))
    BY <1>1 DEF Ensure
  <2>3. Threads'
    BY <1>t, <1>n, <1>o, <2>1, <2>2, BeginJob
  <2> QED
    BY <1>1, <2>3 DEF Ensure, Book
<1>2. CASE Adopt
  <2>1. CASE ~HasStop /\ Fallback < price
    <3>1. Begin("loop", "place", Job("adopt", Fallback, 0, 0, "none")) /\ UNCHANGED rows
      BY <1>2, <2>1 DEF Adopt
    <3>2. Fallback \in Level
      BY DEF ProtectionAssumption
    <3>3. Threads'
      BY <1>t, <1>n, <1>o, <3>1, <3>2, BeginJob
    <3> QED
      BY <1>2, <3>1, <3>3 DEF Adopt, Book
  <2>2. CASE ~(~HasStop /\ Fallback < price)
    <3>1. rows' = {IF HasStop THEN stop.level ELSE Fallback} /\ UNCHANGED <<pc, job>>
      BY <1>2, <2>2 DEF Adopt
    <3>2. Threads'
      BY <3>1 DEF Threads
    <3>3. rows' \subseteq Level
      BY <3>1 DEF Book, HasStop, Order, ProtectionAssumption
    <3> QED
      BY <1>2, <3>2, <3>3 DEF Adopt, Book
  <2> QED
    BY <2>1, <2>2
<1>3. CASE DropRows
  BY <1>3 DEF DropRows, Threads, Book
<1>4. ASSUME NEW r \in rows, NEW level \in Level, Trail(r, level) PROVE Threads' /\ Book'
  <2>1. r \in Level
    BY DEF Book
  <2>2. Begin("loop", "look", Job("trail", level, r, 0, "none"))
    BY <1>4 DEF Trail
  <2>3. Threads'
    BY <1>t, <1>n, <1>o, <2>1, <2>2, BeginJob
  <2> QED
    BY <1>4, <2>3 DEF Trail, Book
<1>5. ASSUME NEW r \in rows, NEW level \in Level, Modify(r, level) PROVE Threads' /\ Book'
  <2>1. r \in Level
    BY DEF Book
  <2>2. Begin("loop", "look", Job("modify", level, r, 0, "none"))
    BY <1>5 DEF Modify
  <2>3. Threads'
    BY <1>t, <1>n, <1>o, <2>1, <2>2, BeginJob
  <2> QED
    BY <1>5, <2>3 DEF Modify, Book
<1>6. ASSUME NEW level \in Level, Enter(level) PROVE Threads' /\ Book'
  <2>1. Threads'
    <3>1. CASE level < price
      <4>1. Begin("executor", "place", Job("enter", level, 0, 0, "none"))
        BY <1>6, <3>1 DEF Enter
      <4> QED
        BY <1>t, <1>n, <1>o, <4>1, BeginJob
    <3>2. CASE ~(level < price)
      BY <1>6, <3>2 DEF Enter, Threads
    <3> QED
      BY <3>1, <3>2
  <2> QED
    BY <1>6, <2>1 DEF Enter, Book
<1>7. ASSUME NEW level \in Level, Add(level) PROVE Threads' /\ Book'
  <2>1. Threads'
    <3>1. CASE UNCHANGED <<pc, job>>
      BY <3>1 DEF Threads
    <3>2. CASE Begin("executor", "look", Job("tighten", level, 0, 0, "none"))
      BY <1>t, <1>n, <1>o, <3>2, BeginJob
    <3>3. CASE Begin("executor", "place", Job("add", level, 0, 0, "none"))
      BY <1>t, <1>n, <1>o, <3>3, BeginJob
    <3> QED
      BY <1>7, <3>1, <3>2, <3>3 DEF Add
  <2>2. rows' \subseteq Level
    BY <1>7 DEF Add, Book
  <2>3. faults' \in 0..MaxFaults
    BY <1>7, FaultTypes DEF Add
  <2> QED
    BY <1>7, <2>1, <2>2, <2>3 DEF Add, Book
<1> QED
  BY <1>1, <1>2, <1>3, <1>4, <1>5, <1>6, <1>7 DEF Start, EnsureRows

\* A call that goes on keeps the types.
LEMMA StepKeeps ==
  ASSUME ProtectionAssumption, Threads, Book, NEW t \in Thread, Step(t)
  PROVE  Threads' /\ Book'
<1> DEFINE j == job[t]
<1> USE DEF exchangeVars
<1>r. Ranges
  BY DEF Threads, Book, Ranges
<1>j. pc[t] # "idle" => j \in JobType /\ j.want \in Level
  BY DEF Threads
<1>e. ASSUME NEW R \in SUBSET Level, End(t, R) PROVE Threads' /\ rows' \subseteq Level
  BY <1>e, EndKeeps
<1>k. /\ \A k \in JobType : k.want \in Level => RowsAfterFailure(k) \in SUBSET Level /\ RowsAfter(k) \in SUBSET Level
      /\ rows \in SUBSET Level
  BY RowsTypes DEF Book
<1>s. {"look", "cancel", "place", "restore", "halt", "verify", "close"} \subseteq Stage
  BY DEF Stage
<1>b. ASSUME NEW stage \in {"place", "verify", "close"}, j \in JobType, j.want \in Level, Begin(t, stage, j)
      PROVE  Threads'
  BY <1>b, <1>s, BeginKeeps
<1>c. ASSUME NEW stage \in {"restore", "halt"}, j \in JobType, j.want \in Level, j.op \in Replacing,
             Begin(t, stage, j)
      PROVE  Threads'
  BY <1>c, <1>s, BeginKeeps
<1>n. "none" \in OrderId \cup {"none"}
  OBVIOUS
<1> HIDE DEF j
<1>1. CASE Look(t)
  <2>1. j \in JobType /\ j.want \in Level /\ j.op \in Replacing
    BY <1>1 DEF Look, Threads, j
  <2>2. CASE End(t, RowsAfterFailure(j))
    BY <1>1, <1>e, <1>k, <2>1, <2>2, FaultTypes DEF Look, Book, j
  <2>3. CASE HasStop /\ Begin(t, "cancel", Job(j.op, j.want, j.row, OldLevel, stop.id)) /\ UNCHANGED rows
    <3>1. j.op \in Op /\ j.row \in 0..MaxLevel
      BY <2>1 DEF JobType
    <3>2. OldLevel \in 0..MaxLevel /\ stop.id \in OrderId \cup {"none"}
      BY <2>3, LevelTypes DEF Book, HasStop, OldLevel, Order
    <3>3. Threads'
      BY <2>1, <2>3, <3>1, <3>2, BeginJob
    <3>4. Fault \/ Works
      BY <1>1 DEF Look
    <3> QED
      BY <1>1, <2>3, <3>3, <3>4, FaultTypes DEF Look, Book
  <2>4. CASE Begin(t, "place", j) /\ UNCHANGED rows
    <3>1. Threads'
      BY <1>b, <2>1, <2>4
    <3>2. Fault \/ Works
      BY <1>1 DEF Look
    <3> QED
      BY <1>1, <2>4, <3>1, <3>2, FaultTypes DEF Look, Book
  <2> QED
    BY <1>1, <2>2, <2>3, <2>4 DEF Look, j
<1>2. CASE Cancel(t)
  <2>1. j \in JobType /\ j.want \in Level
    BY <1>2 DEF Cancel, Threads, j
  <2>2. Fault \/ Works
    BY <1>2 DEF Cancel
  <2>3. stop' \in Order \cup {NoOrder}
    BY <1>2 DEF Cancel, Book, StopKept
  <2>4. CASE End(t, RowsAfterFailure(j))
    BY <1>2, <1>e, <1>k, <2>1, <2>2, <2>3, <2>4, FaultTypes DEF Cancel, Book
  <2>5. CASE Begin(t, "place", Job(j.op, j.want, j.row, j.old, "none")) /\ UNCHANGED rows
    <3>1. j.op \in Op /\ j.row \in 0..MaxLevel /\ j.old \in 0..MaxLevel
      BY <2>1 DEF JobType
    <3>2. Threads'
      BY <1>n, <2>1, <2>5, <3>1, BeginJob
    <3> QED
      BY <1>2, <2>2, <2>3, <2>5, <3>2, FaultTypes DEF Cancel, Book
  <2> QED
    BY <1>2, <2>4, <2>5 DEF Cancel, j
<1>3. CASE Place(t)
  <2>1. j \in JobType /\ j.want \in Level
    BY <1>3 DEF Place, Threads, j
  <2>2. Fault \/ Works
    BY <1>3 DEF Place
  <2>3. stop' \in Order \cup {NoOrder}
    <3>1. CASE Placeable(j.want)
      BY <1>3, <1>r, <2>1, <3>1, Placed DEF Place
    <3>2. CASE StopKept
      BY <1>3, <3>2 DEF Place, Book, StopKept
    <3> QED
      BY <1>3, <3>1, <3>2 DEF Place, j
  <2>4. CASE End(t, RowsAfter(j)) \/ End(t, RowsAfterFailure(j))
    BY <1>3, <1>e, <1>k, <2>1, <2>2, <2>3, <2>4, FaultTypes DEF Place, Book
  <2>5. CASE AfterRefusal(j.op) # "idle" /\ Begin(t, AfterRefusal(j.op), j) /\ UNCHANGED rows
    <3>1. Threads'
      <4>1. CASE j.op \in Replacing
        BY <1>c, <2>1, <2>5, <4>1 DEF AfterRefusal
      <4>2. CASE j.op \notin Replacing
        BY <1>b, <2>1, <2>5, <4>2 DEF AfterRefusal
      <4> QED
        BY <4>1, <4>2
    <3> QED
      BY <1>3, <2>2, <2>3, <2>5, <3>1, FaultTypes DEF Place, Book
  <2>6. CASE UNCHANGED <<pc, job, rows>>
    BY <1>3, <2>2, <2>3, <2>6, FaultTypes DEF Place, Book, Threads
  <2> QED
    BY <1>3, <2>4, <2>5, <2>6 DEF Place, j
<1>4. CASE Restore(t)
  <2>1. j \in JobType /\ j.want \in Level /\ j.op \in Replacing
    BY <1>4 DEF Restore, Threads, j
  <2>2. Fault \/ Works
    BY <1>4 DEF Restore
  <2>3. stop' \in Order \cup {NoOrder}
    <3>1. CASE j.old # 0 /\ Placeable(j.old)
      <4>1. j.old \in Level
        BY <2>1, <3>1 DEF JobType, Level, ProtectionAssumption
      <4> QED
        BY <1>4, <1>r, <3>1, <4>1, Placed DEF Restore
    <3>2. CASE StopKept
      BY <1>4, <3>2 DEF Restore, Book, StopKept
    <3> QED
      BY <1>4, <3>1, <3>2 DEF Restore, j
  <2>4. CASE End(t, RowsAfterFailure(j))
    BY <1>4, <1>e, <1>k, <2>1, <2>2, <2>3, <2>4, FaultTypes DEF Restore, Book
  <2>5. CASE Begin(t, "halt", j) /\ UNCHANGED rows
    BY <1>4, <1>c, <2>1, <2>2, <2>3, <2>5, FaultTypes DEF Restore, Book
  <2>6. CASE UNCHANGED <<pc, job, rows>>
    BY <1>4, <2>2, <2>3, <2>6, FaultTypes DEF Restore, Book, Threads
  <2> QED
    BY <1>4, <2>4, <2>5, <2>6 DEF Restore, j
<1>5. CASE Halt(t)
  <2>1. j \in JobType /\ j.want \in Level
    BY <1>5 DEF Halt, Threads, j
  <2>2. Fault \/ Works
    BY <1>5 DEF Halt
  <2>3. End(t, RowsAfterFailure(j))
    BY <1>5 DEF Halt, j
  <2> QED
    BY <1>5, <1>e, <1>k, <2>1, <2>2, <2>3, FaultTypes DEF Halt, LegGone, Book
<1>6. CASE Verify(t)
  <2>1. j \in JobType /\ j.want \in Level
    BY <1>6 DEF Verify, Threads, j
  <2>2. Fault \/ Works
    BY <1>6 DEF Verify
  <2>3. CASE End(t, RowsAfter(j)) \/ End(t, rows)
    BY <1>6, <1>e, <1>k, <2>1, <2>2, <2>3, FaultTypes DEF Verify, Book
  <2>4. CASE Begin(t, "close", j) /\ UNCHANGED rows
    BY <1>6, <1>b, <2>1, <2>2, <2>4, FaultTypes DEF Verify, Book
  <2> QED
    BY <1>6, <2>3, <2>4 DEF Verify, j
<1>7. CASE Close(t)
  <2>1. Fault \/ Works
    BY <1>7 DEF Close
  <2>2. End(t, rows)
    BY <1>7 DEF Close
  <2> QED
    BY <1>7, <1>e, <1>k, <2>1, <2>2, FaultTypes DEF Close, LegGone, Book
<1> QED
  BY <1>1, <1>2, <1>3, <1>4, <1>5, <1>6, <1>7 DEF Step

\* The Boolean variables keep their type.
Flags == open \in BOOLEAN /\ alarmed \in BOOLEAN /\ armed \in BOOLEAN

\* Every step keeps the Boolean variables Boolean.
LEMMA FlagsKept ==
  ASSUME Flags, [Next]_vars
  PROVE  Flags'
<1> USE DEF Flags, exchangeVars, LegGone, StopKept
<1>1. CASE PriceMoves
  BY <1>1, Zenon DEF PriceMoves
<1>2. CASE LegCloses
  BY <1>2, Zenon DEF LegCloses
<1>3. CASE Start
  BY <1>3, Zenon DEF Start, EnsureRows, Ensure, Adopt, DropRows, Trail, Modify, Enter, Add
<1>4. ASSUME NEW t \in Thread, Step(t) PROVE Flags'
  <2>1. CASE Look(t) \/ Verify(t)
    BY <2>1, Zenon DEF Look, Verify
  <2>2. CASE Cancel(t)
    BY <2>2, Zenon DEF Cancel
  <2>3. CASE Place(t)
    BY <2>3, Zenon DEF Place, Placeable, StopPlaced
  <2>4. CASE Restore(t)
    BY <2>4, Zenon DEF Restore, Placeable, StopPlaced
  <2>5. CASE Halt(t) \/ Close(t)
    BY <2>5, Zenon DEF Halt, Close
  <2> QED
    BY <1>4, <2>1, <2>2, <2>3, <2>4, <2>5 DEF Step
<1>5. CASE Crash
  BY <1>5, Zenon DEF Crash, HasStop
<1>6. CASE UNCHANGED vars
  BY <1>6, Zenon DEF vars
<1> QED
  BY <1>1, <1>2, <1>3, <1>4, <1>5, <1>6 DEF Next

\* Every step keeps the types of the other variables.
LEMMA ThreadsBookKept ==
  ASSUME ProtectionAssumption, Threads, Book, [Next]_vars
  PROVE  Threads' /\ Book'
<1> USE DEF exchangeVars
<1>1. CASE PriceMoves
  BY <1>1 DEF PriceMoves, LegGone, Threads, Book
<1>2. CASE LegCloses
  BY <1>2 DEF LegCloses, LegGone, Threads, Book
<1>3. CASE Start
  BY <1>3, StartKeeps
<1>4. ASSUME NEW t \in Thread, Step(t) PROVE Threads' /\ Book'
  BY <1>4, StepKeeps
<1>5. CASE Crash
  <2>1. Threads'
    <3>1. NoJob \in JobType
      BY DEF NoJob, Job, JobType, Op, Ensuring, ProtectionAssumption
    <3> QED
      BY <1>5, <3>1 DEF Crash, Threads, Stage
  <2> QED
    BY <1>5, <2>1, FaultTypes DEF Crash, Book
<1>6. CASE UNCHANGED vars
  BY <1>6 DEF vars, Threads, Book
<1> QED
  BY <1>1, <1>2, <1>3, <1>4, <1>5, <1>6 DEF Next

\* The types hold at the start.
LEMMA InitTypes ==
  ASSUME ProtectionAssumption, Init
  PROVE  Threads /\ Book /\ Flags
<1>1. NoJob \in JobType
  BY DEF NoJob, Job, JobType, Op, Ensuring, ProtectionAssumption
<1>2. Threads
  BY <1>1 DEF Init, Threads, Stage
<1>3. Book
  BY DEF Init, Book, ProtectionAssumption
<1>4. Flags
  BY Zenon DEF Init, Flags
<1> QED
  BY <1>2, <1>3, <1>4

\* Typing is an invariant of the protection of a leg.
THEOREM ProtectionTyping == Spec => []TypeOK
<1>1. Init => Threads /\ Book /\ Flags
  BY ProtectionAssumption, InitTypes
<1>2. Threads /\ Book /\ Flags /\ [Next]_vars => (Threads /\ Book /\ Flags)'
  BY ProtectionAssumption, ThreadsBookKept, FlagsKept
<1>3. Threads /\ Book /\ Flags => TypeOK
  BY DEF Threads, Book, Flags, TypeOK, Ranges
<1> QED
  BY <1>1, <1>2, <1>3, PTL DEF Spec

-----------------------------------------------------------------------------
\* A lost stop is accounted for.

\* A stop, and the memory of one, belong to an open leg.
OfOpenLeg == (HasStop => open) /\ (armed => open)

\* The thread that moves on owes a stop or not by where it goes, the other
\* thread as before.
LEMMA OwingAfterBegin ==
  ASSUME Threads, NEW t \in Thread, NEW stage, NEW j, Begin(t, stage, j)
  PROVE  /\ \A u \in Thread : u # t /\ Owing(u) => Owing(u)'
         /\ j.op \in Replacing /\ stage \in {"place", "restore", "halt"} => Owing(t)'
  BY DEF Threads, Begin, Owing

\* A call that ends leaves the other thread's debt as it was.
LEMMA OwingAfterEnd ==
  ASSUME Threads, NEW t \in Thread, NEW R, End(t, R)
  PROVE  \A u \in Thread : u # t /\ Owing(u) => Owing(u)'
  BY DEF Threads, End, Owing

\* The ways in which a step accounts for a lost stop: there is one, the leg is
\* gone, the loss is noted, the halt is called, a thread owes one, or nothing
\* changes and the threads that owed one still do.
Carries ==
  /\ UNCHANGED <<stop, armed, alarmed>> /\ (armed => open)
  /\ \A u \in Thread : Owing(u) => Owing(u)'
Accounts ==
  \/ HasStop' \/ ~open' \/ ~armed' \/ alarmed' \/ (\E u \in Thread : Owing(u)')
  \/ Carries

\* Each of the ways keeps the accounting.
LEMMA AccountsKeeps ==
  ASSUME NakedAccounted, Accounts
  PROVE  NakedAccounted'
<1>1. CASE HasStop' \/ ~open' \/ ~armed' \/ alarmed'
  BY <1>1, Zenon DEF NakedAccounted
<1>2. CASE \E u \in Thread : Owing(u)'
  BY <1>2, Zenon DEF NakedAccounted
<1>3. CASE Carries
  BY <1>3, Zenon DEF Carries, NakedAccounted, HasStop
<1> QED
  BY <1>1, <1>2, <1>3 DEF Accounts

\* A thread that owes nothing moves on.
LEMMA MovesOn ==
  ASSUME Threads, NEW t \in Thread, ~Owing(t), NEW stage, NEW j, NEW R,
         Begin(t, stage, j) \/ End(t, R) \/ UNCHANGED <<pc, job>>
  PROVE  \A u \in Thread : Owing(u) => Owing(u)'
<1>1. CASE Begin(t, stage, j)
  BY <1>1, OwingAfterBegin
<1>2. CASE End(t, R)
  BY <1>2, OwingAfterEnd
<1>3. CASE UNCHANGED <<pc, job>>
  BY <1>3 DEF Owing
<1> QED
  BY <1>1, <1>2, <1>3

\* A call that begins accounts for the stop.
LEMMA StartAccounts ==
  ASSUME Threads, OfOpenLeg, Start
  PROVE  Accounts /\ OfOpenLeg'
<1> USE DEF exchangeVars
<1>1. UNCHANGED <<stop, armed, alarmed>>
  BY DEF Start, EnsureRows, Ensure, Adopt, DropRows, Trail, Modify, Enter, Add
<1>6. open => open'
  BY Zenon DEF Start, EnsureRows, Ensure, Adopt, DropRows, Trail, Modify, Enter, Add
<1>2. armed => open
  BY Zenon DEF OfOpenLeg
<1>3. \A t \in Thread : pc[t] = "idle" => ~Owing(t)
  BY DEF Owing
<1>4. \A u \in Thread : Owing(u) => Owing(u)'
  <2>1. ASSUME NEW t \in Thread, pc[t] = "idle", NEW stage, NEW j, NEW R,
               Begin(t, stage, j) \/ End(t, R) \/ UNCHANGED <<pc, job>>
        PROVE  \A u \in Thread : Owing(u) => Owing(u)'
    BY <1>3, <2>1, MovesOn
  <2>2. "loop" \in Thread /\ "executor" \in Thread
    BY DEF Thread
  <2>3. CASE EnsureRows
    BY <2>1, <2>2, <2>3 DEF EnsureRows, Ensure
  <2>4. CASE Adopt \/ DropRows
    BY <2>1, <2>2, <2>4 DEF Adopt, DropRows
  <2>5. ASSUME NEW r \in rows, NEW level \in Level, Trail(r, level) \/ Modify(r, level)
        PROVE  \A u \in Thread : Owing(u) => Owing(u)'
    BY <2>1, <2>2, <2>5 DEF Trail, Modify
  <2>6. ASSUME NEW level \in Level, Enter(level) \/ Add(level)
        PROVE  \A u \in Thread : Owing(u) => Owing(u)'
    BY <2>1, <2>2, <2>6 DEF Enter, Add
  <2> QED
    BY <2>3, <2>4, <2>5, <2>6 DEF Start
<1>5. OfOpenLeg'
  BY <1>1, <1>6, Zenon DEF OfOpenLeg, HasStop
<1> QED
  BY <1>1, <1>2, <1>4, <1>5, Zenon DEF Accounts, Carries

\* A call that goes on accounts for the stop.
LEMMA StepAccounts ==
  ASSUME ProtectionAssumption, Threads, Book, OfOpenLeg, NEW t \in Thread, Step(t)
  PROVE  Accounts /\ OfOpenLeg'
<1> DEFINE j == job[t]
<1> USE DEF exchangeVars
<1>r. Ranges
  BY DEF Threads, Book, Ranges
<1>j. pc[t] # "idle" => j \in JobType /\ j.want \in Level
  BY DEF Threads
<1>c. ASSUME UNCHANGED <<open, stop, armed, alarmed>>, ~Owing(t), NEW stage, NEW k, NEW R,
             Begin(t, stage, k) \/ End(t, R) \/ UNCHANGED <<pc, job>>
      PROVE  Accounts /\ OfOpenLeg'
  <2>1. \A u \in Thread : Owing(u) => Owing(u)'
    BY <1>c, MovesOn
  <2>2. armed => open
    BY Zenon DEF OfOpenLeg
  <2>3. OfOpenLeg'
    BY <1>c, Zenon DEF OfOpenLeg, HasStop
  <2> QED
    BY <1>c, <2>1, <2>2, <2>3, Zenon DEF Accounts, Carries
<1>o. ASSUME UNCHANGED <<open, stop, armed>>, \E u \in Thread : Owing(u)' PROVE Accounts /\ OfOpenLeg'
  BY <1>o, Zenon DEF Accounts, OfOpenLeg, HasStop
<1>p. ASSUME NEW level \in Level, Placeable(level), UNCHANGED open PROVE Accounts /\ OfOpenLeg'
  <2>1. HasStop' /\ open
    BY <1>p, <1>r, Placed
  <2> QED
    BY <1>p, <2>1, Zenon DEF Accounts, OfOpenLeg
<1>g. ASSUME LegGone PROVE Accounts /\ OfOpenLeg'
  BY <1>g, Zenon DEF LegGone, Accounts, OfOpenLeg, HasStop
<1>1. CASE Look(t) \/ Verify(t)
  <2>1. ~Owing(t)
    BY <1>1 DEF Look, Verify, Owing
  <2> QED
    BY <1>1, <1>c, <2>1 DEF Look, Verify
<1>2. CASE Cancel(t)
  <2>1. ~Owing(t) /\ j.op \in Replacing
    BY <1>2 DEF Cancel, Owing, Threads
  <2>2. CASE StopKept
    BY <1>2, <1>c, <2>1, <2>2 DEF Cancel, StopKept
  <2>3. CASE stop' = NoOrder /\ UNCHANGED armed
              /\ Begin(t, "place", Job(j.op, j.want, j.row, j.old, "none"))
    <3>1. Owing(t)'
      <4>1. Job(j.op, j.want, j.row, j.old, "none").op \in Replacing
        BY <2>1 DEF Job
      <4> QED
        BY <2>3, <4>1, OwingAfterBegin
    <3>2. OfOpenLeg'
      BY <1>2, <2>3, Zenon DEF Cancel, OfOpenLeg, HasStop
    <3> QED
      BY <3>1, <3>2, Zenon DEF Accounts
  <2>4. CASE stop' = NoOrder /\ armed' = FALSE
    BY <1>2, <2>4, Zenon DEF Cancel, Accounts, OfOpenLeg, HasStop
  <2> QED
    BY <1>2, <2>2, <2>3, <2>4 DEF Cancel
<1>3. CASE Place(t)
  <2>1. pc[t] = "place" /\ UNCHANGED <<open, alarmed>> /\ j.want \in Level
    BY <1>3, <1>j DEF Place
  <2>2. CASE Placeable(j.want)
    BY <1>p, <2>1, <2>2
  <2>3. CASE StopKept /\ UNCHANGED <<pc, job>>
    <3>1. CASE Owing(t)
      <4>1. Owing(t)'
        BY <2>3, <3>1 DEF Owing
      <4> QED
        BY <1>o, <2>1, <2>3, <4>1 DEF StopKept
    <3>2. CASE ~Owing(t)
      BY <1>c, <2>1, <2>3, <3>2 DEF StopKept
    <3> QED
      BY <3>1, <3>2
  <2>4. CASE StopKept /\ IF AfterRefusal(j.op) = "idle" THEN End(t, RowsAfterFailure(j))
                         ELSE Begin(t, AfterRefusal(j.op), j) /\ UNCHANGED rows
    <3>1. CASE j.op \in Replacing
      <4>1. Begin(t, "restore", j)
        BY <2>4, <3>1 DEF AfterRefusal
      <4>2. Owing(t)'
        BY <3>1, <4>1, OwingAfterBegin
      <4> QED
        BY <1>o, <2>1, <2>4, <4>2 DEF StopKept
    <3>2. CASE j.op \notin Replacing
      <4>1. ~Owing(t)
        BY <3>2 DEF Owing
      <4> QED
        BY <1>c, <2>1, <2>4, <4>1 DEF StopKept
    <3> QED
      BY <3>1, <3>2
  <2> QED
    BY <1>3, <2>2, <2>3, <2>4 DEF Place
<1>4. CASE Restore(t)
  <2>1. pc[t] = "restore" /\ UNCHANGED <<open, alarmed>> /\ Owing(t) /\ j.op \in Replacing
    BY <1>4 DEF Restore, Owing, Threads
  <2>2. CASE j.old # 0 /\ Placeable(j.old)
    <3>1. j.old \in Level
      <4>1. j.old \in 0..MaxLevel
        BY <1>j, <2>1 DEF JobType
      <4>2. \A n \in 0..MaxLevel : n # 0 => n \in Level
        BY DEF Level, ProtectionAssumption
      <4> QED
        BY <2>2, <4>1, <4>2
    <3> QED
      BY <1>p, <2>1, <2>2, <3>1
  <2>3. CASE StopKept /\ UNCHANGED <<pc, job>>
    <3>1. Owing(t)'
      BY <2>1, <2>3 DEF Owing
    <3> QED
      BY <1>o, <2>1, <2>3, <3>1 DEF StopKept
  <2>4. CASE StopKept /\ Begin(t, "halt", j)
    <3>1. Owing(t)'
      BY <2>1, <2>4, OwingAfterBegin
    <3> QED
      BY <1>o, <2>1, <2>4, <3>1 DEF StopKept
  <2> QED
    BY <1>4, <2>2, <2>3, <2>4 DEF Restore
<1>5. CASE Halt(t)
  <2>1. alarmed' = TRUE
    BY <1>5 DEF Halt
  <2>2. LegGone \/ UNCHANGED <<open, stop, armed>>
    BY <1>5 DEF Halt
  <2>3. OfOpenLeg'
    <3>1. CASE LegGone
      BY <1>g, <3>1
    <3>2. CASE UNCHANGED <<open, stop, armed>>
      BY <3>2, Zenon DEF OfOpenLeg, HasStop
    <3> QED
      BY <2>2, <3>1, <3>2
  <2> QED
    BY <2>1, <2>3, Zenon DEF Accounts
<1>6. CASE Close(t)
  <2>1. ~Owing(t)
    BY <1>6 DEF Close, Owing
  <2> QED
    BY <1>6, <1>c, <1>g, <2>1 DEF Close
<1> QED
  BY <1>1, <1>2, <1>3, <1>4, <1>5, <1>6 DEF Step

\* When a leg has lost its stop, a replacement under way owes it one or the
\* emergency halt has been called, unless a crash or a lost answer to the cancel
\* took it (replace_stop_loss: "rather than leave it naked").
THEOREM LostStopsAccounted == Spec => []NakedAccounted
<1> DEFINE IInv == Threads /\ Book /\ OfOpenLeg /\ NakedAccounted
<1>1. Init => IInv
  <2> SUFFICES ASSUME Init PROVE IInv
    OBVIOUS
  <2>1. Threads /\ Book
    BY ProtectionAssumption, InitTypes
  <2>2. OfOpenLeg /\ NakedAccounted
    BY Zenon DEF Init, OfOpenLeg, NakedAccounted, HasStop
  <2> QED
    BY <2>1, <2>2
<1>2. IInv /\ [Next]_vars => IInv'
  <2> SUFFICES ASSUME IInv, [Next]_vars PROVE IInv'
    OBVIOUS
  <2> USE DEF exchangeVars
  <2>1. Threads' /\ Book'
    BY ProtectionAssumption, ThreadsBookKept
  <2>2. ASSUME UNCHANGED <<open, stop, armed, alarmed, pc, job>> PROVE Accounts /\ OfOpenLeg'
    <3>1. OfOpenLeg'
      BY <2>2, Zenon DEF OfOpenLeg, HasStop
    <3>2. \A u \in Thread : Owing(u) => Owing(u)'
      BY <2>2 DEF Owing
    <3>3. armed => open
      BY Zenon DEF OfOpenLeg
    <3> QED
      BY <2>2, <3>1, <3>2, <3>3, Zenon DEF Accounts, Carries
  <2>3. ASSUME LegGone PROVE Accounts /\ OfOpenLeg'
    BY <2>3, Zenon DEF LegGone, Accounts, OfOpenLeg, HasStop
  <2>4. Accounts /\ OfOpenLeg'
    <3>1. CASE PriceMoves
      BY <2>2, <2>3, <3>1 DEF PriceMoves
    <3>2. CASE LegCloses
      BY <2>3, <3>2 DEF LegCloses
    <3>3. CASE Start
      BY <3>3, StartAccounts
    <3>4. ASSUME NEW t \in Thread, Step(t) PROVE Accounts /\ OfOpenLeg'
      BY <3>4, ProtectionAssumption, StepAccounts
    <3>5. CASE Crash
      <4>1. UNCHANGED <<open, stop>> /\ armed' = HasStop
        BY <3>5 DEF Crash
      <4> QED
        BY <4>1, Zenon DEF Accounts, OfOpenLeg, HasStop
    <3>6. CASE UNCHANGED vars
      BY <2>2, <3>6 DEF vars
    <3> QED
      BY <3>1, <3>2, <3>3, <3>4, <3>5, <3>6 DEF Next
  <2>5. NakedAccounted'
    BY <2>4, AccountsKeeps
  <2> QED
    BY <2>1, <2>4, <2>5
<1> QED
  BY <1>1, <1>2, PTL DEF Spec
=============================================================================
