--------------------------- MODULE EntriesProofs ---------------------------
(***************************************************************************)
(* Theorems about the two ways to an entry: the store of candidates, for   *)
(* every number of candidates, legs and executions under way, every        *)
(* window, budget and size of the store; and the orders and rows of a leg, *)
(* for every size of an entry and every number of entries and faults.      *)
(***************************************************************************)
EXTENDS Candidates, Orders, Sums

-----------------------------------------------------------------------------
\* The store of candidates.

\* The values of an object, and what a step may make of the objects in memory
\* without arming or executing any: the rest of the module cites these two.
Object == [leg : Leg \cup {None}, st : LiveStatuses \cup Terminal, risk : {Part * e : e \in Equities} \cup {0},
           early : 0 .. MaxTime + 1, late : 0 .. MaxTime + 1 + Window, at : 0 .. MaxTime]

Passive(c) ==
  \A i \in Id : /\ c[i].leg = cand[i].leg
                /\ c[i].st \in LiveStatuses => cand[i].st \in LiveStatuses
                /\ c[i].st = "EXECUTED" => cand[i].st = "EXECUTED" /\ c[i].at = cand[i].at

Inv == EngineTypeOK /\ OneArmedPerLeg /\ BrakeHolds

\* Trimming keeps every executed candidate and adds none.
LEMMA TrimmedKeeps ==
  ASSUME NEW kept, NEW S \in Trimmed(kept)
  PROVE  S \subseteq kept /\ {i \in kept : cand[i].st = "EXECUTED"} \subseteq S
  BY DEF Trimmed

\* An update of typed objects that forgets the leg of none in use keeps the types.
LEMMA UpdateType ==
  ASSUME EngineTypeOK, NEW c \in [Id -> Object], NEW S \in SUBSET Id, NEW j \in [Caller -> Id \cup {None}],
         \A i \in Id : i \in S \/ (\E k \in Caller : j[k] = i) => c[i].leg # None,
         Update(c, S, j), UNCHANGED <<seen, equity, now>>
  PROVE  EngineTypeOK'
<1> USE CandidatesAssumption
<1>1. NoCand \in Object
  BY DEF NoCand, Object, LiveStatuses, Terminal
<1>2. cand' \in [Id -> Object]
  BY <1>1 DEF Update
<1>3. \A i \in Id : i \in Busy' <=> \E k \in Caller : j[k] = i
  BY DEF Update, Busy, None
<1>4. \A i \in Id : i \in store' \cup Busy' <=> cand'[i].leg # None
  BY <1>3 DEF Update, NoCand
<1> QED
  BY <1>2, <1>4 DEF EngineTypeOK, Update, Object

\* A passive update of a store that only shrinks, with executions of stored
\* candidates only, keeps the whole invariant.
LEMMA PassiveKeeps ==
  ASSUME Inv, NEW c \in [Id -> Object], NEW S \in SUBSET store, NEW j \in [Caller -> Id \cup {None}], Passive(c),
         \A k \in Caller : j[k] # None => j[k] \in store \cup Busy,
         Update(c, S, j), UNCHANGED <<seen, equity, now>>
  PROVE  Inv'
<1> USE CandidatesAssumption DEF Inv
<1>1. EngineTypeOK'
  <2>1. S \in SUBSET Id
    BY DEF EngineTypeOK
  <2>2. \A i \in Id : i \in S \/ (\E k \in Caller : j[k] = i) => c[i].leg # None
    BY DEF EngineTypeOK, Passive, None
  <2> QED
    BY <2>1, <2>2, UpdateType
<1>2. \A i \in store' : i \in store /\ cand'[i] = c[i]
  BY DEF Update, EngineTypeOK
<1>3. Armed' \subseteq Armed /\ \A i \in store' : cand'[i].leg = cand[i].leg
  BY <1>2 DEF Armed, Passive, EngineTypeOK
<1>4. OneArmedPerLeg'
  BY <1>2, <1>3 DEF OneArmedPerLeg, Armed
<1>5. ASSUME NEW i \in Armed' PROVE ~RecentTwin(cand[i].leg)'
  <2>1. i \in Armed /\ ~RecentTwin(cand[i].leg)
    BY <1>3, <1>5 DEF BrakeHolds
  <2> QED
    BY <1>2, <1>3, <1>5, <2>1 DEF RecentTwin, Passive, EngineTypeOK, Armed
<1> QED
  BY <1>1, <1>4, <1>5 DEF BrakeHolds

\* Before any scan the store is empty.
LEMMA InitInv == EngineInit => Inv
<1> SUFFICES ASSUME EngineInit PROVE Inv
  OBVIOUS
<1> USE CandidatesAssumption DEF EngineInit
<1>1. NoCand \in Object
  BY DEF NoCand, Object, LiveStatuses, Terminal
<1>2. Busy = {}
  BY DEF Busy
<1>3. EngineTypeOK
  BY <1>1, <1>2 DEF EngineTypeOK, Object, NoCand
<1>4. Armed = {}
  BY DEF Armed
<1> QED
  BY <1>3, <1>4 DEF Inv, OneArmedPerLeg, BrakeHolds

\* The two prunings.
LEMMA PruneKeeps == Inv /\ (Prune \/ GetReady) => Inv'
<1> SUFFICES ASSUME Inv, Prune \/ GetReady PROVE Inv'
  OBVIOUS
<1> USE DEF Inv, EngineTypeOK
<1>1. job \in [Caller -> Id \cup {None}] /\ \A k \in Caller : job[k] # None => job[k] \in store \cup Busy
  BY DEF Busy
<1>2. cand \in [Id -> Object]
  BY DEF Object
<1>3. CASE Prune
  <2>1. PICK S \in Trimmed({i \in store : ~Old(i) /\ ~Lapsed(cand, i)}) : Update(cand, S, job)
    BY <1>3 DEF Prune
  <2>2. S \in SUBSET store
    BY TrimmedKeeps
  <2>3. Passive(cand)
    BY DEF Passive
  <2> QED
    BY <1>1, <1>2, <1>3, <2>1, <2>2, <2>3, PassiveKeeps DEF Prune
<1>4. CASE GetReady
  <2> DEFINE c == [i \in Id |-> IF i \in store /\ ~Old(i) THEN [cand[i] EXCEPT !.st = Moved(i)] ELSE cand[i]]
  <2>1. PICK S \in Trimmed({i \in store : ~Old(i) /\ ~Lapsed(c, i)}) : Update(c, S, job)
    BY <1>4 DEF GetReady
  <2>2. S \in SUBSET store
    BY TrimmedKeeps
  <2>3. ASSUME NEW i \in Id
        PROVE /\ Moved(i) \in LiveStatuses \cup Terminal
              /\ Moved(i) \in LiveStatuses => cand[i].st \in LiveStatuses
              /\ Moved(i) = "EXECUTED" => cand[i].st = "EXECUTED"
    BY DEF Moved, LiveStatuses, Terminal
  <2>4. c \in [Id -> Object] /\ Passive(c)
    BY <1>2, <2>3 DEF Passive, Object
  <2> HIDE DEF c
  <2> QED
    BY <1>1, <1>4, <2>1, <2>2, <2>4, PassiveKeeps DEF GetReady
<1> QED
  BY <1>3, <1>4

\* Cancels, the clearing of the store, and executions that come too late.
LEMMA RemovalKeeps ==
  ASSUME Inv,
         \/ \E S \in SUBSET Armed : CancelLive(S)
         \/ \E all \in BOOLEAN : Clear(all)
         \/ \E i \in Id : ExecuteLate(i)
  PROVE  Inv'
<1> USE DEF Inv, EngineTypeOK
<1>1. job \in [Caller -> Id \cup {None}] /\ \A k \in Caller : job[k] # None => job[k] \in store \cup Busy
  BY DEF Busy
<1>2. cand \in [Id -> Object]
  BY DEF Object
<1>3. ASSUME NEW S \in SUBSET Armed, CancelLive(S) PROVE Inv'
  <2> DEFINE c == [i \in Id |-> IF i \in S THEN [cand[i] EXCEPT !.st = "CANCELLED"] ELSE cand[i]]
  <2>1. c \in [Id -> Object] /\ Passive(c)
    BY <1>2 DEF Passive, Object, LiveStatuses, Terminal
  <2>2. Update(c, store, job) /\ UNCHANGED <<seen, equity, now>>
    BY <1>3 DEF CancelLive
  <2> HIDE DEF c
  <2> QED
    BY <1>1, <2>1, <2>2, PassiveKeeps
<1>4. ASSUME NEW all \in BOOLEAN, Clear(all) PROVE Inv'
  <2>1. Passive(cand)
    BY DEF Passive
  <2> QED
    BY <1>1, <1>2, <1>4, <2>1, PassiveKeeps DEF Clear
<1>5. ASSUME NEW i \in Id, ExecuteLate(i) PROVE Inv'
  <2> DEFINE c == [cand EXCEPT ![i].st = "EXPIRED"]
  <2>1. c \in [Id -> Object] /\ Passive(c)
    BY <1>2 DEF Passive, Object, LiveStatuses, Terminal
  <2>2. Update(c, store, job) /\ UNCHANGED <<seen, equity, now>>
    BY <1>5 DEF ExecuteLate
  <2> HIDE DEF c
  <2> QED
    BY <1>1, <2>1, <2>2, PassiveKeeps
<1> QED
  BY <1>3, <1>4, <1>5

\* An execution that starts, and one that ends without an order.
LEMMA ExecuteKeeps ==
  ASSUME Inv, NEW k \in Caller, Failure(k) \/ \E i \in Id, f \in BOOLEAN : Execute(k, i, f)
  PROVE  Inv'
<1> USE DEF Inv, EngineTypeOK
<1>1. cand \in [Id -> Object]
  BY DEF Object
<1>2. ASSUME NEW i \in Id, NEW f \in BOOLEAN, Execute(k, i, f) PROVE Inv'
  <2>1. PICK r \in {cand[i].risk, Part * equity} :
             Update([cand EXCEPT ![i].risk = r], store, [job EXCEPT ![k] = i])
    BY <1>2 DEF Execute
  <2>2. [cand EXCEPT ![i].risk = r] \in [Id -> Object] /\ Passive([cand EXCEPT ![i].risk = r])
    BY <1>1 DEF Passive, Object
  <2>3. [job EXCEPT ![k] = i] \in [Caller -> Id \cup {None}]
    OBVIOUS
  <2>4. \A m \in Caller : [job EXCEPT ![k] = i][m] # None => [job EXCEPT ![k] = i][m] \in store \cup Busy
    BY <1>2 DEF Execute, Busy
  <2> QED
    BY <1>2, <2>1, <2>2, <2>3, <2>4, PassiveKeeps DEF Execute
<1>3. CASE Failure(k)
  <2> DEFINE i == job[k]
  <2> DEFINE c == [cand EXCEPT ![i].st = "CANCELLED"]
  <2>1. i \in Id /\ UNCHANGED <<seen, equity, now>>
    BY <1>3 DEF Failure
  <2>2. Done(k) \in [Caller -> Id \cup {None}]
    BY DEF Done
  <2>3. \A m \in Caller : Done(k)[m] # None => Done(k)[m] \in store \cup Busy
    BY DEF Done, Busy
  <2>4. Passive(cand)
    BY DEF Passive
  <2>5. c \in [Id -> Object] /\ Passive(c)
    BY <1>1, <2>1 DEF Passive, Object, LiveStatuses, Terminal
  <2>6. Update(cand, store, Done(k)) \/ Update(c, store, Done(k))
    BY <1>3 DEF Failure
  <2> HIDE DEF c
  <2> QED
    BY <1>1, <2>1, <2>2, <2>3, <2>4, <2>5, <2>6, PassiveKeeps
<1> QED
  BY <1>2, <1>3

\* A new candidate: no other of its leg is armed, or was executed within the day.
LEMMA InsertKeeps ==
  ASSUME Inv, NEW i \in Id, NEW l \in Leg, NEW e \in {now, now + 1}, NEW q \in Equities, Insert(i, l, e, Part * q)
  PROVE  Inv'
<1> USE CandidatesAssumption DEF Inv
<1> DEFINE new == [leg |-> l, st |-> IF e > now THEN "PENDING" ELSE "READY",
                   risk |-> Part * q, early |-> e, late |-> e + Window, at |-> now]
<1> DEFINE c == [cand EXCEPT ![i] = new]
<1>1. Update(c, store \cup {i}, job) /\ UNCHANGED <<seen, equity, now>> /\ i \notin store /\ i \notin Busy
  BY DEF Insert
<1>2. new \in Object /\ new.leg = l /\ l # None /\ new.st # "EXECUTED" /\ new.st \in LiveStatuses
  <2>1. e \in 0 .. MaxTime + 1 /\ e + Window \in 0 .. MaxTime + 1 + Window /\ now \in 0 .. MaxTime
    BY DEF EngineTypeOK
  <2>2. Part * q \in {Part * x : x \in Equities}
    OBVIOUS
  <2> QED
    BY <2>1, <2>2 DEF Object, LiveStatuses, Terminal, None
<1> HIDE DEF new
<1>3. c \in [Id -> Object]
  BY <1>2 DEF EngineTypeOK, Object
<1> HIDE DEF c
<1>4. \A k \in Id : c[k] = IF k = i THEN new ELSE cand[k]
  BY DEF c, EngineTypeOK
<1>5. EngineTypeOK'
  <2>1. \A k \in Id : k \in store \cup {i} \/ (\E m \in Caller : job[m] = k) => c[k].leg # None
    BY <1>2, <1>4 DEF EngineTypeOK, Busy, None
  <2>2. store \cup {i} \in SUBSET Id /\ job \in [Caller -> Id \cup {None}]
    BY DEF EngineTypeOK
  <2> QED
    BY <1>1, <1>3, <2>1, <2>2, UpdateType
<1>6. store' = store \cup {i} /\ \A k \in store' : cand'[k] = c[k]
  BY <1>1 DEF Update, EngineTypeOK
<1>7. Armed' = Armed \cup {i}
  BY <1>2, <1>4, <1>6 DEF Armed, EngineTypeOK
<1>8. \A k \in Armed : cand[k].leg # l /\ k # i
  BY <1>1 DEF Insert, LiveTwin, Armed
<1>9. OneArmedPerLeg'
  BY <1>2, <1>4, <1>6, <1>7, <1>8 DEF OneArmedPerLeg, Armed, EngineTypeOK
<1>10. ASSUME NEW k \in Armed' PROVE ~RecentTwin(cand[k].leg)'
  <2>1. ~RecentTwin(cand'[k].leg)
    BY <1>2, <1>4, <1>6, <1>7, <1>8 DEF BrakeHolds, Insert, Armed, EngineTypeOK
  <2> QED
    BY <1>1, <1>2, <1>4, <1>6, <2>1 DEF RecentTwin, EngineTypeOK
<1> QED
  BY <1>5, <1>9, <1>10 DEF BrakeHolds

\* A candidate is executed: its twins in the store are disarmed in the same step,
\* also when it has itself left the store while it was being placed.
LEMMA SuccessKeeps ==
  ASSUME Inv, NEW k \in Caller, Success(k)
  PROVE  Inv'
<1> USE CandidatesAssumption DEF Inv
<1> DEFINE i == job[k]
<1>1. i \in Id /\ Update(Executed(i), store, Done(k)) /\ UNCHANGED <<seen, equity, now>>
  BY DEF Success, EngineTypeOK
<1> HIDE DEF i
<1>2. Executed(i) \in [Id -> Object]
  <2>1. \A n \in Id : cand[n] \in Object
    BY DEF EngineTypeOK, Object
  <2>2. [cand[i] EXCEPT !.st = "EXECUTED", !.at = now] \in Object
    <3>1. cand[i] \in Object
      BY <1>1, <2>1
    <3>2. now \in 0 .. MaxTime
      BY DEF EngineTypeOK
    <3> QED
      BY <3>1, <3>2 DEF Object, Terminal
  <2>3. \A n \in Id : [cand[n] EXCEPT !.st = "CANCELLED"] \in Object
    BY <2>1 DEF Object, Terminal
  <2> QED
    BY <2>1, <2>2, <2>3, Zenon DEF Executed
<1>3. EngineTypeOK'
  <2>1. Done(k) \in [Caller -> Id \cup {None}]
    BY DEF Done, EngineTypeOK
  <2>2. \A n \in Id : n \in store \/ (\E m \in Caller : Done(k)[m] = n) => Executed(i)[n].leg # None
    <3>1. \A n \in Id : Executed(i)[n].leg = cand[n].leg
      BY DEF Executed, EngineTypeOK
    <3>2. \A n \in Id : (\E m \in Caller : Done(k)[m] = n) => n \in Busy
      BY DEF Done, Busy, EngineTypeOK, None
    <3> QED
      BY <3>1, <3>2 DEF EngineTypeOK
  <2> QED
    <3>1. store \in SUBSET Id /\ EngineTypeOK
      BY DEF EngineTypeOK
    <3> HIDE DEF Inv
    <3> QED
      BY <1>1, <1>2, <2>1, <2>2, <3>1, UpdateType
<1>4. store' = store /\ \A n \in store : cand'[n] = Executed(i)[n]
  BY <1>1 DEF Update, EngineTypeOK
<1>5. ASSUME NEW n \in Armed'
      PROVE n \in Armed /\ n # i /\ cand'[n] = cand[n] /\ cand[n].leg # cand[i].leg
  <2>1. n \in store /\ n \in Id /\ cand'[n].st \in LiveStatuses /\ cand'[n] = Executed(i)[n]
    BY <1>4, <1>5 DEF Armed, EngineTypeOK
  <2>2. n # i
    BY <1>1, <2>1 DEF Executed, LiveStatuses, EngineTypeOK
  <2>3. ~(n \in Armed /\ cand[n].leg = cand[i].leg)
    BY <2>1, <2>2 DEF Executed, LiveStatuses, EngineTypeOK
  <2>4. cand'[n] = cand[n]
    BY <2>1, <2>2, <2>3 DEF Executed
  <2> QED
    BY <2>1, <2>2, <2>3, <2>4 DEF Armed
<1>6. OneArmedPerLeg'
  BY <1>5 DEF OneArmedPerLeg
<1>7. ASSUME NEW n \in Armed' PROVE ~RecentTwin(cand[n].leg)'
  <2>1. ~RecentTwin(cand[n].leg)
    BY <1>5, <1>7 DEF BrakeHolds
  <2>2. \A m \in store : cand'[m].st = "EXECUTED" /\ m # i => cand'[m] = cand[m]
    BY <1>4 DEF Executed, EngineTypeOK
  <2>3. i \in store => cand'[i].leg = cand[i].leg
    BY <1>4 DEF Executed, EngineTypeOK
  <2> QED
    BY <1>1, <1>4, <1>5, <1>7, <2>1, <2>2, <2>3 DEF RecentTwin
<1> QED
  BY <1>3, <1>6, <1>7 DEF BrakeHolds

\* The book, the account and the clock: an executed row only grows older.
LEMMA WorldKeeps ==
  ASSUME Inv, Tick \/ (\E S \in SUBSET Leg : SeeLegs(S)) \/ \E e \in Equities : Revalue(e)
  PROVE  Inv'
<1> USE CandidatesAssumption DEF Inv
<1>1. UNCHANGED <<cand, store, job>>
  BY DEF Tick, SeeLegs, Revalue
<1>2. now' \in {now, now + 1} /\ now' \in 0 .. MaxTime
  BY DEF Tick, SeeLegs, Revalue, EngineTypeOK
<1>3. seen' \subseteq Leg /\ equity' \in Equities
  BY DEF Tick, SeeLegs, Revalue, EngineTypeOK
<1>4. Armed' = Armed /\ Busy' = Busy
  BY <1>1 DEF Armed, Busy
<1>5. EngineTypeOK'
  BY <1>1, <1>2, <1>3, <1>4 DEF EngineTypeOK
<1>6. OneArmedPerLeg'
  BY <1>1, <1>4 DEF OneArmedPerLeg
<1>7. ASSUME NEW n \in Armed' PROVE ~RecentTwin(cand[n].leg)'
  <2>1. ~RecentTwin(cand[n].leg)
    BY <1>4, <1>7 DEF BrakeHolds
  <2>2. \A m \in store : cand[m].at \in 0 .. MaxTime
    BY DEF EngineTypeOK
  <2>3. \A m \in store : now' - cand[m].at < Ttl => now - cand[m].at < Ttl
    BY <1>2, <2>2 DEF EngineTypeOK
  <2> QED
    BY <1>1, <2>1, <2>3 DEF RecentTwin
<1> QED
  BY <1>5, <1>6, <1>7 DEF BrakeHolds

\* Whatever scans, polls, cancels and executions run in between: the types, one
\* live candidate of a leg, and none on a leg executed within the day.
THEOREM Invariance == EngineSpec => []Inv
<1>1. Inv /\ [EngineNext]_engineVars => Inv'
  <2> SUFFICES ASSUME Inv, [EngineNext]_engineVars PROVE Inv'
    OBVIOUS
  <2>1. CASE UNCHANGED engineVars
    BY <2>1 DEF engineVars, Inv, EngineTypeOK, OneArmedPerLeg, BrakeHolds, RecentTwin, Armed, Busy
  <2>2. ASSUME NEW i \in Id, CancelLive({i}) PROVE Inv'
    <3>1. {i} \in SUBSET Armed
      BY <2>2 DEF CancelLive
    <3> QED
      BY <2>2, <3>1, RemovalKeeps
  <2>3. ASSUME NEW l \in Leg, CancelLive({i \in Armed : cand[i].leg = l}) PROVE Inv'
    <3>1. {i \in Armed : cand[i].leg = l} \in SUBSET Armed
      OBVIOUS
    <3> QED
      BY <2>3, <3>1, RemovalKeeps
  <2>4. ASSUME \/ \E all \in BOOLEAN : Clear(all)
               \/ \E i \in Id : ExecuteLate(i) PROVE Inv'
    BY <2>4, RemovalKeeps
  <2>5. ASSUME NEW k \in Caller, Failure(k) \/ \E i \in Id, f \in BOOLEAN : Execute(k, i, f) PROVE Inv'
    BY <2>5, ExecuteKeeps
  <2>6. ASSUME NEW k \in Caller, Success(k) PROVE Inv'
    BY <2>6, SuccessKeeps
  <2>7. ASSUME NEW i \in Id, NEW l \in Leg, NEW e \in {now, now + 1}, NEW q \in Equities, Insert(i, l, e, Part * q)
        PROVE Inv'
    BY <2>7, InsertKeeps
  <2>8. CASE Prune \/ GetReady
    BY <2>8, PruneKeeps
  <2>9. CASE Tick \/ (\E S \in SUBSET Leg : SeeLegs(S)) \/ \E e \in Equities : Revalue(e)
    BY <2>9, WorldKeeps
  <2> QED
    BY <2>1, <2>2, <2>3, <2>4, <2>5, <2>6, <2>7, <2>8, <2>9 DEF EngineNext
<1> QED
  BY InitInv, <1>1, PTL DEF EngineSpec

\* Types, for every instance.
THEOREM EngineTyping == EngineSpec => []EngineTypeOK
<1>1. Inv => EngineTypeOK
  BY DEF Inv
<1> QED
  BY <1>1, Invariance, PTL

\* No two live candidates of a leg.
THEOREM OneArmed == EngineSpec => []OneArmedPerLeg
<1>1. Inv => OneArmedPerLeg
  BY DEF Inv
<1> QED
  BY <1>1, Invariance, PTL

\* No live candidate on a leg executed within the day.
THEOREM Braked == EngineSpec => []BrakeHolds
<1>1. Inv => BrakeHolds
  BY DEF Inv
<1> QED
  BY <1>1, Invariance, PTL

\* A step that is neither the full clearing nor a late execution of the row keeps
\* an executed row of the day that nobody is executing again.
LEMMA RowKept ==
  ASSUME EngineTypeOK, EngineNext, ~Clear(TRUE), NEW i \in store \ Busy,
         cand[i].st = "EXECUTED", now - cand[i].at < Ttl, ~ExecuteLate(i)
  PROVE  i \in store' /\ cand'[i].st = "EXECUTED"
<1> USE CandidatesAssumption DEF EngineTypeOK
<1>1. ASSUME NEW c, NEW S, NEW j, Update(c, S, j), i \in S, c[i].st = "EXECUTED"
      PROVE i \in store' /\ cand'[i].st = "EXECUTED"
  BY <1>1 DEF Update
<1>2. i \in Id /\ i \notin Armed /\ ~Old(i) /\ ~Lapsed(cand, i)
  BY DEF Armed, Old, Lapsed, LiveStatuses
<1>3. CASE Prune
  <2>1. PICK S \in Trimmed({k \in store : ~Old(k) /\ ~Lapsed(cand, k)}) : Update(cand, S, job)
    BY <1>3 DEF Prune
  <2> QED
    BY <1>1, <1>2, <2>1, TrimmedKeeps
<1>4. CASE GetReady
  <2> DEFINE c == [k \in Id |-> IF k \in store /\ ~Old(k) THEN [cand[k] EXCEPT !.st = Moved(k)] ELSE cand[k]]
  <2>1. PICK S \in Trimmed({k \in store : ~Old(k) /\ ~Lapsed(c, k)}) : Update(c, S, job)
    BY <1>4 DEF GetReady
  <2>2. c[i].st = "EXECUTED"
    BY <1>2 DEF Moved, LiveStatuses
  <2>3. ~Lapsed(c, i)
    BY <2>2 DEF Lapsed
  <2> HIDE DEF c
  <2> QED
    BY <1>1, <1>2, <2>1, <2>2, <2>3, TrimmedKeeps
<1>5. ASSUME NEW k \in Id, NEW l \in Leg, NEW e \in {now, now + 1}, NEW q \in Equities, Insert(k, l, e, Part * q)
      PROVE i \in store' /\ cand'[i].st = "EXECUTED"
  <2>1. k # i
    BY <1>5 DEF Insert
  <2> QED
    BY <1>2, <1>5, <2>1 DEF Insert, Update
<1>6. ASSUME NEW S, CancelLive(S) PROVE i \in store' /\ cand'[i].st = "EXECUTED"
  BY <1>2, <1>6 DEF CancelLive, Update
<1>7. ASSUME NEW all \in BOOLEAN, Clear(all) PROVE i \in store' /\ cand'[i].st = "EXECUTED"
  <2>1. ~all
    BY <1>7
  <2> QED
    BY <1>1, <1>7, <2>1 DEF Clear
<1>8. ASSUME NEW k \in Id, ExecuteLate(k) PROVE i \in store' /\ cand'[i].st = "EXECUTED"
  BY <1>2, <1>8 DEF ExecuteLate, Update
<1>9. ASSUME NEW m \in Caller, NEW k \in Id, NEW f \in BOOLEAN, Execute(m, k, f)
      PROVE i \in store' /\ cand'[i].st = "EXECUTED"
  BY <1>2, <1>9 DEF Execute, Update
<1>10. ASSUME NEW m \in Caller, Success(m) PROVE i \in store' /\ cand'[i].st = "EXECUTED"
  <2>1. job[m] # i
    BY <1>10, <1>2 DEF Success, Busy, None
  <2>2. Executed(job[m])[i] = cand[i]
    BY <1>2, <2>1 DEF Executed
  <2> QED
    BY <1>1, <1>10, <2>2 DEF Success
<1>11. ASSUME NEW m \in Caller, Failure(m) PROVE i \in store' /\ cand'[i].st = "EXECUTED"
  <2>1. job[m] # i
    BY <1>11, <1>2 DEF Failure, Busy, None
  <2> QED
    BY <1>2, <1>11, <2>1 DEF Failure, Update
<1>12. CASE Tick \/ (\E S \in SUBSET Leg : SeeLegs(S)) \/ \E e \in Equities : Revalue(e)
  BY <1>12 DEF Tick, SeeLegs, Revalue
<1> QED
  <2> DEFINE Q == i \in store' /\ cand'[i].st = "EXECUTED"
  <2> HIDE DEF Q, EngineTypeOK
  <2>1. (\E k \in Id : CancelLive({k})) \/ (\E l \in Leg : CancelLive({k \in Armed : cand[k].leg = l})) => Q
    BY <1>6 DEF Q
  <2>2. (\E m \in Caller : Success(m) \/ Failure(m) \/ \E k \in Id, f \in BOOLEAN : Execute(m, k, f)) => Q
    BY <1>9, <1>10, <1>11 DEF Q
  <2>3. (\E k \in Id : ExecuteLate(k)) \/ (\E all \in BOOLEAN : Clear(all)) => Q
    BY <1>7, <1>8 DEF Q
  <2>4. (\E k \in Id, l \in Leg, e \in {now, now + 1}, q \in Equities : Insert(k, l, e, Part * q)) => Q
    BY <1>5 DEF Q
  <2>5. Prune \/ GetReady \/ Tick \/ (\E S \in SUBSET Leg : SeeLegs(S)) \/ (\E e \in Equities : Revalue(e)) => Q
    BY <1>3, <1>4, <1>12 DEF Q
  <2>6. Q
    BY <2>1, <2>2, <2>3, <2>4, <2>5 DEF EngineNext
  <2> QED
    BY <2>6 DEF Q

\* The brake on arming again: an executed row of the day stays, with its status,
\* until all is cleared or somebody executes it once more.
THEOREM BrakeKept == EngineSpec => ExecutedKept
<1>1. EngineTypeOK /\ [EngineNext]_engineVars
      => [~Clear(TRUE) => \A i \in store \ Busy :
           /\ cand[i].st = "EXECUTED" /\ now - cand[i].at < Ttl
           /\ ~ExecuteLate(i)
           => i \in store' /\ cand'[i].st = "EXECUTED"]_engineVars
  BY RowKept
<1> QED
  BY <1>1, EngineTyping, PTL DEF EngineSpec, ExecutedKept

-----------------------------------------------------------------------------
\* What each candidate risks.
Risks == [i \in Id |-> cand[i].risk]

\* The fold of the model is a sum over the armed candidates.
LEMMA CommittedSum == EngineTypeOK => Committed(None) = SumOf(Risks, Armed)
<1> SUFFICES ASSUME EngineTypeOK PROVE Committed(None) = SumOf(Risks, Armed)
  OBVIOUS
<1> DEFINE A == Armed \ {None}
           Rec(g) == g = [T \in SUBSET A |-> IF T = {} THEN 0
                            ELSE cand[CHOOSE x \in T : TRUE].risk + g[T \ {CHOOSE x \in T : TRUE}]]
<1>1. A = Armed /\ A \subseteq Id /\ IsFiniteSet(A)
  <2>1. Armed \subseteq Id /\ None \notin Armed
    BY CandidatesAssumption DEF EngineTypeOK, Armed, None
  <2> QED
    BY <2>1, CandidatesAssumption, FS_Subset
<1>2. ASSUME NEW g PROVE Rec(g) <=> Sums(Risks, A, g)
  <2>1. ASSUME NEW T \in SUBSET A
        PROVE  SumStep(Risks, g, T) = IF T = {} THEN 0
                 ELSE cand[CHOOSE x \in T : TRUE].risk + g[T \ {CHOOSE x \in T : TRUE}]
    <3> HIDE DEF A
    <3>1. T # {} => Risks[Chosen(T)] = cand[CHOOSE x \in T : TRUE].risk
      BY <1>1 DEF Chosen, Risks
    <3> QED
      BY <3>1 DEF SumStep, Chosen
  <2> HIDE DEF A
  <2> QED
    BY <2>1, Zenon DEF Sums
<1>3. Committed(None) = (CHOOSE g : Rec(g))[A]
  BY Zenon DEF Committed, FoldSet, MapThenFoldSet
<1> HIDE DEF A, Rec
<1>4. PICK k : Sums(Risks, A, k) /\ SumOf(Risks, A) = k[A]
  BY <1>1, SumOfSums
<1>5. Sums(Risks, A, CHOOSE g : Rec(g))
  <2>1. \E g : Rec(g)
    BY <1>2, <1>4
  <2>2. Rec(CHOOSE g : Rec(g))
    BY <2>1
  <2> QED
    BY <1>2, <2>2
<1>6. (CHOOSE g : Rec(g))[A] = k[A]
  BY <1>1, <1>4, <1>5, SumsAgree
<1> QED
  BY <1>1, <1>3, <1>4, <1>6

\* Risks are naturals, and finitely many are armed.
RisksSummable == IsFiniteSet(Id) /\ Armed \subseteq Id /\ \A k \in Id : Risks[k] \in Nat

\* So a sum over the armed candidates exists.
LEMMA RisksAreNat == EngineTypeOK => RisksSummable
<1> SUFFICES ASSUME EngineTypeOK, NEW i \in Id PROVE cand[i].risk \in Nat
  BY CandidatesAssumption DEF EngineTypeOK, Armed, Risks, RisksSummable
<1>1. PICK r \in {Part * e : e \in Equities} \cup {0} : cand[i].risk = r
  BY DEF EngineTypeOK
<1>2. ASSUME NEW e \in Equities PROVE Part * e \in Nat
  <2>1. e \in Nat /\ Part \in Nat
    BY CandidatesAssumption
  <2> QED
    BY <2>1
<1> QED
  BY <1>1, <1>2

\* A step that arms none and sizes no armed candidate again commits no more.
LEMMA CommitsNoMore ==
  ASSUME EngineTypeOK, EngineTypeOK', Armed' \subseteq Armed, \A i \in Armed' : cand'[i].risk = cand[i].risk
  PROVE  /\ Committed(None)' \in Nat /\ Committed(None) \in Nat
         /\ Committed(None)' <= Committed(None)
<1> DEFINE f == Risks
           h == Risks'
<1>1. Committed(None) = SumOf(f, Armed)
  BY CommittedSum
<1>2. Committed(None)' = SumOf(h, Armed')
  <2>1. (Committed(None) = SumOf(Risks, Armed))'
    BY CommittedSum, PTL
  <2> QED
    BY <2>1
<1>3. IsFiniteSet(Armed) /\ IsFiniteSet(Armed') /\ \A i \in Armed : f[i] \in Nat
  BY RisksAreNat, FS_Subset DEF RisksSummable
<1>4. \A i \in Armed' : h[i] = f[i]
  BY RisksAreNat DEF Risks, RisksSummable
<1> HIDE DEF f, h
<1>5. SumOf(h, Armed') = SumOf(f, Armed')
  BY <1>3, <1>4, SumOfAgree
<1>6. SumOf(f, Armed') <= SumOf(f, Armed)
  BY <1>3, SumOfSubset
<1>7. SumOf(f, Armed) \in Nat /\ SumOf(f, Armed') \in Nat
  BY <1>3, SumOfFacts
<1> QED
  BY <1>1, <1>2, <1>5, <1>6, <1>7

\* While the account is worth the same, such a step takes nobody over the budget.
LEMMA NotOverAgain ==
  ASSUME EngineTypeOK, EngineTypeOK', Armed' \subseteq Armed, \A i \in Armed' : cand'[i].risk = cand[i].risk,
         UNCHANGED equity, Over'
  PROVE  Over /\ Armed' \subseteq Armed
<1> DEFINE x == Committed(None)
           y == Committed(None)'
           cap == Share * equity
<1>1. x \in Nat /\ y \in Nat /\ y <= x
  BY CommitsNoMore
<1>2. cap \in Nat /\ Share * equity' = cap
  <2>1. Share \in Nat /\ equity \in Nat
    BY CandidatesAssumption DEF EngineTypeOK
  <2> QED
    BY <2>1
<1>3. y > cap
  BY <1>2 DEF Over
<1> HIDE DEF x, y, cap
<1>4. x > cap
  BY <1>1, <1>2, <1>3
<1> QED
  BY <1>4 DEF Over, x, cap

\* Updates of a store that only shrinks, with every risk as before.
LEMMA PassiveCommits ==
  ASSUME EngineTypeOK, EngineTypeOK', NEW c, NEW S \in SUBSET store, NEW j, Update(c, S, j), UNCHANGED equity,
         \A i \in Id : c[i].risk = cand[i].risk /\ (c[i].st \in LiveStatuses => cand[i].st \in LiveStatuses), Over'
  PROVE  Over /\ Armed' \subseteq Armed
<1>1. \A i \in store' : i \in store /\ i \in Id /\ cand'[i] = c[i]
  BY DEF Update, EngineTypeOK
<1>2. Armed' \subseteq Armed /\ \A i \in Armed' : cand'[i].risk = cand[i].risk
  BY <1>1 DEF Armed
<1> QED
  BY <1>2, NotOverAgain

\* A candidate that comes in was checked together with those that are armed.
LEMMA InsertFits ==
  ASSUME EngineTypeOK, EngineTypeOK', NEW i \in Id, NEW l \in Leg, NEW e \in {now, now + 1}, NEW q \in Equities,
         Insert(i, l, e, Part * q)
  PROVE  ~Over'
<1> DEFINE
  risk == Part * q
  new == [leg |-> l, st |-> IF e > now THEN "PENDING" ELSE "READY",
          risk |-> risk, early |-> e, late |-> e + Window, at |-> now]
  c == [cand EXCEPT ![i] = new]
<1>1. Update(c, store \cup {i}, job) /\ UNCHANGED <<seen, equity, now>> /\ i \notin store
      /\ WithinRisk(risk, None)
  BY DEF Insert
<1>2. new.st \in LiveStatuses /\ new.risk = risk
  BY DEF LiveStatuses
<1> HIDE DEF new, risk
<1>3. \A k \in Id : c[k] = IF k = i THEN new ELSE cand[k]
  BY DEF EngineTypeOK
<1> HIDE DEF c
<1>4. store' = store \cup {i} /\ \A k \in store' : cand'[k] = c[k]
  BY <1>1 DEF Update, EngineTypeOK
<1>5. Armed' = Armed \cup {i} /\ i \notin Armed
  BY <1>1, <1>2, <1>3, <1>4 DEF Armed, EngineTypeOK
<1> DEFINE f == Risks
           h == Risks'
<1>6. h[i] = risk /\ \A k \in Armed : h[k] = f[k]
  <2>1. \A k \in Id : h[k] = cand'[k].risk /\ f[k] = cand[k].risk
    BY DEF Risks
  <2>2. cand'[i] = new /\ \A k \in Armed : k \in Id /\ k # i /\ cand'[k] = cand[k]
    BY <1>1, <1>3, <1>4, <1>5 DEF Armed, EngineTypeOK
  <2> QED
    BY <1>2, <2>1, <2>2
<1>7. RisksSummable /\ RisksSummable'
  BY RisksAreNat, PTL
<1>8. IsFiniteSet(Armed') /\ (\A k \in Armed' : h[k] \in Nat) /\ IsFiniteSet(Armed)
  <2>1. Armed' \subseteq Id /\ Armed \subseteq Id /\ IsFiniteSet(Id)
    BY <1>7 DEF RisksSummable
  <2>2. \A k \in Armed' : h[k] \in Nat
    BY <1>7, <2>1 DEF RisksSummable
  <2> HIDE DEF h
  <2> QED
    BY <2>1, <2>2, FS_Subset
<1>9. Committed(None) = SumOf(f, Armed)
  BY CommittedSum
<1>10. Committed(None)' = SumOf(h, Armed')
  <2>1. (EngineTypeOK => Committed(None) = SumOf(Risks, Armed))'
    BY CommittedSum, PTL
  <2> QED
    BY <2>1
<1> HIDE DEF f, h
<1>11. SumOf(h, Armed') = risk + SumOf(h, Armed)
  <2>1. Armed' \ {i} = Armed
    BY <1>5
  <2>2. i \in Armed'
    BY <1>5
  <2> QED
    BY <1>6, <1>8, <2>1, <2>2, SumOfRemove
<1>12. SumOf(h, Armed) = SumOf(f, Armed)
  BY <1>6, <1>8, SumOfAgree
<1>13. Committed(None)' = risk + Committed(None) /\ Committed(None) + risk <= Share * equity'
  BY <1>1, <1>9, <1>10, <1>11, <1>12 DEF WithinRisk
<1>14. risk \in Nat /\ SumOf(h, Armed) \in Nat
  BY <1>5, <1>6, <1>8, SumOfFacts
<1>15. SumOf(h, Armed') <= Share * equity'
  BY <1>9, <1>10, <1>11, <1>12, <1>13, <1>14
<1>16. SumOf(h, Armed') \in Nat /\ Share * equity' \in Nat
  <2>1. Share \in Nat /\ equity \in Nat /\ equity' = equity
    BY <1>1, CandidatesAssumption DEF EngineTypeOK
  <2>2. Share * equity' \in Nat
    BY <2>1
  <2> QED
    BY <1>11, <1>12, <1>14, <2>2
<1> DEFINE y == Committed(None)'
           cap == Share * equity'
<1>17. y <= cap /\ y \in Nat /\ cap \in Nat
  BY <1>10, <1>15, <1>16
<1> HIDE DEF y, cap
<1>18. ~(y > cap)
  BY <1>17
<1> QED
  BY <1>18 DEF Over, y, cap

\* What a step may do about the budget.
BudgetKept == Over' => equity' < equity \/ SizedAgain \/ (Over /\ Armed' \subseteq Armed)

\* Prunings, cancels, clearing and the ends of executions change no risk.
LEMMA ShrinkingKeepsBudget ==
  ASSUME EngineTypeOK, EngineTypeOK',
         \/ Prune \/ GetReady
         \/ \E S \in SUBSET Armed : CancelLive(S)
         \/ \E all \in BOOLEAN : Clear(all)
         \/ \E i \in Id : ExecuteLate(i)
         \/ \E k \in Caller : Success(k) \/ Failure(k)
  PROVE  BudgetKept
<1> DEFINE Tame(c) == \A i \in Id : c[i].risk = cand[i].risk /\ (c[i].st \in LiveStatuses => cand[i].st \in LiveStatuses)
<1>1. ASSUME NEW c, Tame(c), NEW S \in SUBSET store, NEW j, Update(c, S, j), UNCHANGED equity
      PROVE  BudgetKept
  BY <1>1, PassiveCommits DEF BudgetKept
<1>2. store \in SUBSET store /\ cand \in [Id -> [leg : Leg \cup {None}, st : LiveStatuses \cup Terminal,
         risk : {Part * e : e \in Equities} \cup {0}, early : 0 .. MaxTime + 1,
         late : 0 .. MaxTime + 1 + Window, at : 0 .. MaxTime]]
  BY DEF EngineTypeOK
<1>3. Tame(cand)
  OBVIOUS
<1> HIDE DEF Tame
<1>4. CASE Prune
  <2>1. PICK S \in Trimmed({i \in store : ~Old(i) /\ ~Lapsed(cand, i)}) : Update(cand, S, job)
    BY <1>4 DEF Prune
  <2> QED
    BY <1>1, <1>3, <1>4, <2>1, TrimmedKeeps DEF Prune
<1>5. CASE GetReady
  <2> DEFINE c == [i \in Id |-> IF i \in store /\ ~Old(i) THEN [cand[i] EXCEPT !.st = Moved(i)] ELSE cand[i]]
  <2>1. PICK S \in Trimmed({i \in store : ~Old(i) /\ ~Lapsed(c, i)}) : Update(c, S, job)
    BY <1>5 DEF GetReady
  <2>2. Tame(c)
    BY <1>2 DEF Tame, Moved, LiveStatuses
  <2>3. S \in SUBSET store /\ UNCHANGED equity
    BY <1>5, TrimmedKeeps DEF GetReady
  <2> HIDE DEF c
  <2> QED
    BY <1>1, <2>1, <2>2, <2>3
<1>6. ASSUME NEW S \in SUBSET Armed, CancelLive(S) PROVE BudgetKept
  <2> DEFINE c == [i \in Id |-> IF i \in S THEN [cand[i] EXCEPT !.st = "CANCELLED"] ELSE cand[i]]
  <2>1. Tame(c)
    BY <1>2 DEF Tame, LiveStatuses
  <2>2. Update(c, store, job) /\ UNCHANGED equity
    BY <1>6 DEF CancelLive
  <2> HIDE DEF c
  <2> QED
    BY <1>1, <1>2, <2>1, <2>2
<1>7. ASSUME NEW all \in BOOLEAN, Clear(all) PROVE BudgetKept
  BY <1>1, <1>3, <1>7 DEF Clear
<1>8. ASSUME NEW i \in Id, ExecuteLate(i) PROVE BudgetKept
  <2> DEFINE c == [cand EXCEPT ![i].st = "EXPIRED"]
  <2>1. Tame(c)
    BY <1>2 DEF Tame, LiveStatuses
  <2>2. Update(c, store, job) /\ UNCHANGED equity
    BY <1>8 DEF ExecuteLate
  <2> HIDE DEF c
  <2> QED
    BY <1>1, <1>2, <2>1, <2>2
<1>9. ASSUME NEW k \in Caller, Success(k) PROVE BudgetKept
  <2>1. Tame(Executed(job[k]))
    BY <1>2 DEF Tame, Executed, LiveStatuses
  <2>2. Update(Executed(job[k]), store, Done(k)) /\ UNCHANGED equity
    BY <1>9 DEF Success
  <2> QED
    BY <1>1, <1>2, <2>1, <2>2
<1>10. ASSUME NEW k \in Caller, Failure(k) PROVE BudgetKept
  <2> DEFINE i == job[k]
             c == [cand EXCEPT ![i].st = "CANCELLED"]
  <2>1. Tame(c)
    BY <1>2 DEF Tame, LiveStatuses
  <2>2. Update(cand, store, Done(k)) \/ Update(c, store, Done(k))
    BY <1>10 DEF Failure
  <2>3. UNCHANGED equity
    BY <1>10 DEF Failure
  <2> HIDE DEF c
  <2> QED
    BY <1>1, <1>2, <1>3, <2>1, <2>2, <2>3
<1> QED
  BY <1>4, <1>5, <1>6, <1>7, <1>8, <1>9, <1>10

\* An execution that sizes its candidate as before changes no risk; one that sizes
\* it again says so, unless the candidate is not live any more.
LEMMA ExecuteKeepsBudget ==
  ASSUME EngineTypeOK, EngineTypeOK', NEW k \in Caller, NEW i \in Id, NEW force \in BOOLEAN, Execute(k, i, force)
  PROVE  BudgetKept
<1> SUFFICES ASSUME Over', ~SizedAgain PROVE Over /\ Armed' \subseteq Armed
  BY DEF BudgetKept
<1>1. PICK r \in {cand[i].risk, Part * equity} : Update([cand EXCEPT ![i].risk = r], store, [job EXCEPT ![k] = i])
  BY DEF Execute
<1>2. UNCHANGED equity /\ i \in store
  BY DEF Execute
<1>3. i \in Busy' /\ cand'[i].risk = r
  <2>1. job'[k] = i /\ i # None
    BY <1>1, CandidatesAssumption DEF Update, EngineTypeOK, None
  <2>2. cand'[i] = [cand EXCEPT ![i].risk = r][i]
    BY <1>1, <1>2 DEF Update
  <2> QED
    BY <2>1, <2>2 DEF Busy, EngineTypeOK
<1>4. i \in Armed => r = cand[i].risk
  BY <1>3 DEF SizedAgain
<1>5. store' = store /\ \A n \in store : n \in Id /\ cand'[n] = [cand EXCEPT ![i].risk = r][n]
  BY <1>1 DEF Update, EngineTypeOK
<1>6. \A n \in store : cand'[n].st = cand[n].st /\ (n # i => cand'[n].risk = cand[n].risk)
  BY <1>5 DEF EngineTypeOK
<1>7. Armed' = Armed /\ \A n \in Armed' : cand'[n].risk = cand[n].risk
  BY <1>3, <1>4, <1>5, <1>6 DEF Armed
<1> QED
  BY <1>2, <1>7, NotOverAgain

\* Positions, the clock, and an account that gains.
LEMMA WorldKeepsBudget ==
  ASSUME EngineTypeOK, EngineTypeOK', UNCHANGED engineVars \/ Tick \/ (\E S \in SUBSET Leg : SeeLegs(S)) \/ \E e \in Equities : Revalue(e)
  PROVE  BudgetKept
<1>1. UNCHANGED <<cand, store>>
  BY DEF Tick, SeeLegs, Revalue, engineVars
<1>2. Armed' = Armed /\ \A n \in Armed' : cand'[n].risk = cand[n].risk
  BY <1>1 DEF Armed
<1>3. CASE UNCHANGED equity
  BY <1>2, <1>3, NotOverAgain DEF BudgetKept
<1>4. CASE equity' # equity /\ ~(equity' < equity)
  <2> DEFINE x == Committed(None)
             y == Committed(None)'
             a == Share * equity
             b == Share * equity'
  <2>1. x \in Nat /\ y \in Nat /\ y <= x
    BY <1>2, CommitsNoMore
  <2>2. Share \in Nat /\ equity \in Nat /\ equity' \in Nat
    BY CandidatesAssumption DEF EngineTypeOK
  <2>3. a \in Nat /\ b \in Nat /\ a <= b
    <3>1. PICK d \in Nat : equity' = equity + d
      BY <1>4, <2>2
    <3>2. Share * (equity + d) = Share * equity + Share * d /\ Share * d \in Nat /\ Share * equity \in Nat
      BY <2>2
    <3> QED
      BY <3>1, <3>2
  <2>4. Over' => y > b
    BY DEF Over
  <2>5. x > a => Over
    BY DEF Over
  <2> HIDE DEF x, y, a, b
  <2>6. Over' => Over
    BY <2>1, <2>3, <2>4, <2>5
  <2> QED
    BY <1>2, <2>6 DEF BudgetKept
<1>5. CASE equity' < equity
  BY <1>5 DEF BudgetKept
<1> QED
  BY <1>3, <1>4, <1>5

\* Every step keeps to the budget.
LEMMA NextKeepsBudget == EngineTypeOK /\ EngineTypeOK' /\ [EngineNext]_engineVars => BudgetKept
<1> SUFFICES ASSUME EngineTypeOK, EngineTypeOK', [EngineNext]_engineVars PROVE BudgetKept
  OBVIOUS
<1>1. ASSUME NEW i \in Id, CancelLive({i}) PROVE BudgetKept
  <2>1. {i} \in SUBSET Armed
    BY <1>1 DEF CancelLive
  <2> QED
    BY <1>1, <2>1, ShrinkingKeepsBudget
<1>2. ASSUME NEW l \in Leg, CancelLive({i \in Armed : cand[i].leg = l}) PROVE BudgetKept
  <2>1. {i \in Armed : cand[i].leg = l} \in SUBSET Armed
    OBVIOUS
  <2> QED
    BY <1>2, <2>1, ShrinkingKeepsBudget
<1>3. ASSUME \/ Prune \/ GetReady
             \/ \E all \in BOOLEAN : Clear(all)
             \/ \E i \in Id : ExecuteLate(i)
             \/ \E k \in Caller : Success(k) \/ Failure(k)
      PROVE  BudgetKept
  BY <1>3, ShrinkingKeepsBudget
<1>4. ASSUME NEW k \in Caller, NEW i \in Id, NEW f \in BOOLEAN, Execute(k, i, f) PROVE BudgetKept
  BY <1>4, ExecuteKeepsBudget
<1>5. ASSUME NEW i \in Id, NEW l \in Leg, NEW e \in {now, now + 1}, NEW q \in Equities, Insert(i, l, e, Part * q)
      PROVE BudgetKept
  BY <1>5, InsertFits DEF BudgetKept
<1>6. ASSUME UNCHANGED engineVars \/ Tick \/ (\E S \in SUBSET Leg : SeeLegs(S)) \/ \E e \in Equities : Revalue(e)
      PROVE BudgetKept
  BY <1>6, WorldKeepsBudget
<1> QED
  BY <1>1, <1>2, <1>3, <1>4, <1>5, <1>6 DEF EngineNext

\* The live candidates go over their risk budget only when the account loses or an
\* execution sizes its candidate again, and while they are over it none is added.
THEOREM BudgetHolds == EngineSpec => WithinBudget
<1>1. EngineTypeOK /\ EngineTypeOK' /\ [EngineNext]_engineVars
      => [Over' => equity' < equity \/ SizedAgain \/ (Over /\ Armed' \subseteq Armed)]_engineVars
  BY NextKeepsBudget DEF BudgetKept
<1> QED
  BY <1>1, EngineTyping, PTL DEF EngineSpec, WithinBudget

-----------------------------------------------------------------------------
\* The orders and rows of a leg: types.

Statuses == {"none", "live", "filled", "gone"}
RowType == [st : {"open", "filled", "failed", "closed"}, ref : 0..AtMarket, levels : BOOLEAN]
Answers == {"asked", "same", "filled", "failed"}
Waiting == {"wait", "cancel", "check"}

\* What the exchange and the entry know of the maker orders: how much of one is
\* done fits its status, none is ahead of its entry, and whoever waits for one has
\* entered.
Booked ==
  /\ \A e \in Entry : order[e].st = "filled" => order[e].done = Qty
  /\ \A e \in Entry : order[e].st = "live" => order[e].done < Qty
  /\ \A e \in Entry : e > entries => order[e].st = "none"
  /\ pc \in Waiting => entries \in Entry

\* The types, with the answers of the poller and the orders' bookkeeping.
Typed == TypeOK /\ Booked /\ \A i \in DOMAIN answer : answer[i] \in Answers

\* Whoever rewrites the rows in place still has rows.
LEMMA RowsInPlace ==
  ASSUME rows \in Seq(RowType), NEW f \in [DOMAIN rows -> RowType]
  PROVE  f \in Seq(RowType) /\ DOMAIN f = DOMAIN rows
<1>1. DOMAIN rows = 1 .. Len(rows) /\ Len(rows) \in Nat
  OBVIOUS
<1>2. f \in [1 .. Len(rows) -> RowType]
  BY <1>1
<1> QED
  BY <1>1, <1>2

\* Marking rows with a status leaves rows.
LEMMA MarkedRows ==
  ASSUME rows \in Seq(RowType), NEW I, NEW st \in {"open", "filled", "failed", "closed"}
  PROVE  Marked(I, st) \in Seq(RowType) /\ DOMAIN Marked(I, st) = DOMAIN rows
<1>1. \A i \in DOMAIN rows : rows[i] \in RowType
  OBVIOUS
<1>2. Marked(I, st) \in [DOMAIN rows -> RowType]
  BY <1>1 DEF Marked, RowType
<1> QED
  BY <1>2, RowsInPlace

\* Another row leaves rows, and each row its place.
LEMMA AppendedRows ==
  ASSUME rows \in Seq(RowType), NEW r \in RowType
  PROVE  Append(rows, r) \in Seq(RowType) /\ DOMAIN rows \subseteq DOMAIN Append(rows, r)
<1>1. DOMAIN rows = 1 .. Len(rows) /\ Len(rows) \in Nat
  OBVIOUS
<1>2. Append(rows, r) \in Seq(RowType) /\ Len(Append(rows, r)) = Len(rows) + 1
  OBVIOUS
<1>3. DOMAIN Append(rows, r) = 1 .. Len(rows) + 1
  BY <1>2
<1> QED
  BY <1>1, <1>2, <1>3

\* Nothing has been entered.
LEMMA InitTyped == Init => Typed
<1> SUFFICES ASSUME Init PROVE Typed
  OBVIOUS
<1> USE OrdersAssumption DEF Init
<1>1. rows \in Seq(RowType) /\ DOMAIN answer = {} /\ gone = {}
  BY DEF NoAnswer
<1>2. \A e \in Entry : order[e] = [st |-> "none", done |-> 0]
  BY DEF NoOrder
<1>3. order \in [Entry -> [st : {"none", "live", "filled", "gone"}, done : 0 .. Qty]]
  BY DEF NoOrder
<1>4. Booked
  BY <1>2 DEF Booked, Waiting
<1>5. TypeOK
  BY <1>1, <1>3 DEF TypeOK, RowType, Flat, NoRef, AtMarket
<1> QED
  BY <1>1, <1>4, <1>5 DEF Typed

\* Cancelling takes orders from the book and fills nothing.
LEMMA CancelledOrders ==
  ASSUME Typed, NEW E \in SUBSET Entry,
         \A e \in E : order[e].st = "live"
  PROVE  /\ Cancelled(E) \in [Entry -> [st : Statuses, done : 0 .. Qty]]
         /\ \A e \in Entry : /\ Cancelled(E)[e].st = "filled" => Cancelled(E)[e].done = Qty
                             /\ Cancelled(E)[e].st = "live" => Cancelled(E)[e].done < Qty
                             /\ e > entries => Cancelled(E)[e].st = "none"
<1>1. order \in [Entry -> [st : Statuses, done : 0 .. Qty]]
  BY DEF Typed, TypeOK, Statuses
<1>2. ASSUME NEW e \in Entry PROVE Cancelled(E)[e] = IF e \in E THEN [order[e] EXCEPT !.st = "gone"] ELSE order[e]
  BY DEF Cancelled
<1>3. \A e \in Entry : [order[e] EXCEPT !.st = "gone"] = [st |-> "gone", done |-> order[e].done]
  BY <1>1
<1>4. \A e \in Entry : order[e] \in [st : Statuses, done : 0 .. Qty]
  BY <1>1
<1>5. Cancelled(E) \in [Entry -> [st : Statuses, done : 0 .. Qty]]
  <2>1. \A e \in Entry : Cancelled(E)[e] \in [st : Statuses, done : 0 .. Qty]
    BY <1>2, <1>3, <1>4 DEF Statuses
  <2>2. Cancelled(E) = [e \in Entry |-> Cancelled(E)[e]]
    BY DEF Cancelled
  <2> QED
    BY <2>1, <2>2
<1> QED
  BY <1>2, <1>3, <1>5 DEF Typed, Booked

\* Faults are bounded.
LEMMA FaultsTyped == Typed /\ (Works \/ Fault) => faults' \in 0 .. MaxFaults /\ faults' \in {faults, faults + 1}
  BY OrdersAssumption DEF Typed, TypeOK, Works, Fault

\* The exchange.
LEMMA ExchangeTyped ==
  ASSUME Typed, MakerFills \/ LegCloses \/ OthersCancel \/ OtherLegs
  PROVE  Typed'
<1> USE OrdersAssumption
<1>1. CASE MakerFills
  <2>1. PICK e \in Resting : order' = [order EXCEPT ![e] = Filled(order[e])]
    BY <1>1 DEF MakerFills
  <2>2. e \in Entry /\ order[e].st = "live" /\ order[e].done \in 0 .. Qty /\ order[e].done < Qty
    BY DEF Resting, Typed, TypeOK, Booked
  <2>3. Filled(order[e]) \in [st : Statuses, done : 0 .. Qty]
        /\ (Filled(order[e]).st = "filled" => Filled(order[e]).done = Qty)
        /\ (Filled(order[e]).st = "live" => Filled(order[e]).done < Qty)
        /\ Filled(order[e]).st \in {"filled", "live"}
    BY <2>2 DEF Filled, Statuses
  <2>4. ~(e > entries)
    BY <2>2 DEF Typed, Booked
  <2>5. UNCHANGED <<stops, others, loopVars, rows, poll, answer, dash, faults>> /\ leg' = leg + 1
    BY <1>1 DEF MakerFills
  <2> HIDE DEF Filled
  <2>6. order' \in [Entry -> [st : Statuses, done : 0 .. Qty]]
    BY <2>1, <2>2, <2>3 DEF Typed, TypeOK, Statuses
  <2>7. Booked'
    BY <2>1, <2>2, <2>3, <2>4, <2>5 DEF Booked, Typed, TypeOK, loopVars
  <2>8. TypeOK'
    BY <2>5, <2>6 DEF Typed, TypeOK, loopVars, Statuses
  <2> QED
    BY <2>5, <2>7, <2>8 DEF Typed
<1>2. CASE LegCloses
  BY <1>2 DEF LegCloses, Typed, TypeOK, Booked, loopVars
<1>3. CASE OthersCancel
  <2>1. order' = Cancelled(Resting) /\ Fault /\ UNCHANGED <<leg, stops, others, loopVars, rows, poll, answer, dash>>
    BY <1>3 DEF OthersCancel
  <2>2. Resting \in SUBSET Entry /\ \A e \in Resting : order[e].st = "live"
    BY DEF Resting
  <2>3. TypeOK'
    <3>1. order' \in [Entry -> [st : Statuses, done : 0 .. Qty]]
      BY <2>1, <2>2, CancelledOrders
    <3>2. faults' \in 0 .. MaxFaults
      BY <2>1, FaultsTyped
    <3> QED
      BY <2>1, <3>1, <3>2 DEF Typed, TypeOK, loopVars, Statuses
  <2>4. Booked'
    BY <2>1, <2>2, CancelledOrders DEF Typed, Booked, loopVars
  <2> QED
    BY <2>1, <2>3, <2>4 DEF Typed
<1>4. CASE OtherLegs
  BY <1>4 DEF OtherLegs, Typed, TypeOK, Booked, loopVars
<1> QED
  BY <1>1, <1>2, <1>3, <1>4

\* A cycle of the loop, up to its entries.
LEMMA CycleTyped ==
  ASSUME Typed, SyncFetch \/ Sync \/ SyncClose \/ Cache \/ Exit \/ EndCycle
  PROVE  Typed'
<1> USE OrdersAssumption
<1>0. Live \subseteq DOMAIN rows /\ rows \in Seq(RowType) /\ Ensured \subseteq Both
  BY DEF Live, Typed, TypeOK, RowType, Ensured, Both
<1>1. Resting \in SUBSET Entry /\ \A e \in Resting : order[e].st = "live"
  BY DEF Resting
<1>2. CASE SyncFetch
  BY <1>2 DEF SyncFetch, Positions, exchangeVars, Typed, TypeOK, Booked, Waiting
<1>3. CASE Sync
  <2>1. rows' \in Seq(RowType) /\ DOMAIN rows \subseteq DOMAIN rows'
    <3>1. Row("filled", NoRef, TRUE) \in RowType
      BY DEF Row, NoRef, RowType, AtMarket
    <3> QED
      BY <1>0, <1>3, <3>1, AppendedRows DEF Sync, Adopt
  <2>2. gone' \subseteq DOMAIN rows'
    BY <1>0, <1>3, <2>1 DEF Sync, Adopt, Typed, TypeOK
  <2>3. stops' \subseteq Both /\ faults' \in 0 .. MaxFaults
    <3>1. stops' \in {stops, Ensured} /\ (Works \/ Fault)
      BY <1>3 DEF Sync, Adopt
    <3> QED
      BY <1>0, <3>1, FaultsTyped DEF Typed, TypeOK
  <2>4. pc' \in {"cache", "price"} /\ UNCHANGED <<leg, order, others, entries, left, ref, poll, answer, dash>>
        /\ snap' = Flat
    BY <1>3 DEF Sync, Adopt
  <2>5. TypeOK'
    BY <2>1, <2>2, <2>3, <2>4 DEF Typed, TypeOK, RowType, Flat
  <2>6. Booked'
    BY <2>4 DEF Typed, Booked, Waiting
  <2> QED
    BY <2>4, <2>5, <2>6 DEF Typed
<1>4. CASE SyncClose
  <2>1. rows' \in {rows, Marked(gone, "closed")} /\ stops' \in {stops, {}} /\ order' \in {order, Cancelled(Resting)}
        /\ faults' \in 0 .. MaxFaults
    BY <1>4 DEF SyncClose, Works, Fault, Typed, TypeOK
  <2>2. pc' = "cache" /\ gone' = {} /\ UNCHANGED <<leg, others, snap, entries, left, ref, poll, answer, dash>>
    BY <1>4 DEF SyncClose
  <2>3. rows' \in Seq(RowType) /\ DOMAIN rows' = DOMAIN rows
    BY <1>0, <2>1, MarkedRows
  <2>4. TypeOK'
    BY <1>1, <2>1, <2>2, <2>3, CancelledOrders DEF Typed, TypeOK, RowType, Statuses
  <2>5. Booked'
    BY <1>1, <2>1, <2>2, CancelledOrders DEF Typed, Booked, Waiting
  <2> QED
    BY <2>2, <2>4, <2>5 DEF Typed
<1>5. CASE Cache
  <2>1. snap' \in {Positions, Flat} /\ (Works \/ Fault) /\ pc' = "ready"
        /\ UNCHANGED <<exchangeVars, gone, entries, left, ref, rows, poll, answer, dash>>
    BY <1>5 DEF Cache
  <2>2. Positions \in [leg : Nat, empty : BOOLEAN] /\ Flat \in [leg : Nat, empty : BOOLEAN]
    BY DEF Positions, Flat, Typed, TypeOK
  <2>3. TypeOK'
    BY <2>1, <2>2, FaultsTyped DEF exchangeVars, Typed, TypeOK
  <2>4. Booked'
    BY <2>1 DEF Typed, Booked, Waiting, exchangeVars
  <2> QED
    BY <2>1, <2>3, <2>4 DEF Typed
<1>6. CASE Exit
  <2>1. rows' \in Seq(RowType) /\ DOMAIN rows' = DOMAIN rows
    BY <1>0, <1>6, MarkedRows DEF Exit
  <2>2. order' = Cancelled(Resting) /\ leg' = 0 /\ stops' = {} /\ UNCHANGED <<others, loopVars, poll, answer, dash, faults>>
    BY <1>6 DEF Exit
  <2>3. TypeOK'
    BY <1>1, <2>1, <2>2, CancelledOrders DEF Typed, TypeOK, RowType, Statuses, loopVars
  <2>4. Booked'
    BY <1>1, <2>2, CancelledOrders DEF Typed, Booked, loopVars
  <2> QED
    BY <2>2, <2>3, <2>4 DEF Typed
<1>7. CASE EndCycle
  BY <1>0, <1>7 DEF EndCycle, Flat, Works, Fault, Typed, TypeOK, Booked, Waiting
<1> QED
  BY <1>2, <1>3, <1>4, <1>5, <1>6, <1>7

\* What an entry may post: nothing, or its maker order, which is new.
LEMMA EnterPosts ==
  ASSUME Typed, Enter
  PROVE  /\ entries + 1 \in Entry /\ entries' = entries + 1
         /\ \/ /\ pc' = "wait" /\ Works
               /\ \E st \in {"live", "gone"} : order' = [order EXCEPT ![entries + 1] = [st |-> st, done |-> 0]]
            \/ pc' = "market" /\ Works /\ UNCHANGED order
            \/ /\ pc' = "market" /\ Fault
               /\ order' = [order EXCEPT ![entries + 1] = [st |-> "live", done |-> 0]]
<1>1. entries \in Nat /\ entries < MaxEntries /\ entries' = entries + 1
  BY OrdersAssumption DEF Enter, Typed, TypeOK
<1>2. entries + 1 \in Entry
  BY <1>1, OrdersAssumption DEF Entry
<1> QED
  BY <1>1, <1>2 DEF Enter

\* An entry, from its order to its row.
LEMMA EntryTyped ==
  ASSUME Typed, Enter \/ Wait \/ Cancel \/ Check \/ TopUp \/ Market \/ Protect \/ Record
  PROVE  Typed'
<1> USE OrdersAssumption
<1>0. rows \in Seq(RowType) /\ Ensured \subseteq Both /\ entries \in 0 .. AtMarket /\ AtMarket \in Nat
  BY DEF Typed, TypeOK, RowType, Ensured, Both, AtMarket
<1>1. CASE Enter
  <2> DEFINE n == entries + 1
  <2>1. n \in Entry /\ entries' = n /\ (Works \/ Fault) /\ pc' \in {"wait", "market"}
    BY <1>1, EnterPosts
  <2>2. order' = order \/ \E st \in {"live", "gone"} : order' = [order EXCEPT ![n] = [st |-> st, done |-> 0]]
    BY <1>1, EnterPosts
  <2>3. snap' = Flat /\ UNCHANGED <<leg, stops, others, gone, left, ref, rows, poll, answer, dash>>
    BY <1>1 DEF Enter
  <2>4. n \in Nat /\ entries \in Nat /\ n > entries /\ n \in 0 .. MaxEntries
    BY <2>1 DEF Typed, TypeOK, Entry
  <2> HIDE DEF n
  <2>5. order' \in [Entry -> [st : Statuses, done : 0 .. Qty]]
        /\ \A e \in Entry : /\ order'[e].st = "filled" => order'[e].done = Qty
                            /\ order'[e].st = "live" => order'[e].done < Qty
                            /\ e > n => order'[e].st = "none"
    <3>1. CASE order' = order
      BY <2>4, <3>1 DEF Typed, TypeOK, Booked, Statuses, Entry
    <3>2. ASSUME NEW st \in {"live", "gone"}, order' = [order EXCEPT ![n] = [st |-> st, done |-> 0]]
          PROVE  /\ order' \in [Entry -> [st : Statuses, done : 0 .. Qty]]
                 /\ \A e \in Entry : /\ order'[e].st = "filled" => order'[e].done = Qty
                                     /\ order'[e].st = "live" => order'[e].done < Qty
                                     /\ e > n => order'[e].st = "none"
      <4>1. [st |-> st, done |-> 0] \in [st : Statuses, done : 0 .. Qty]
        BY DEF Statuses
      <4>2. order' \in [Entry -> [st : Statuses, done : 0 .. Qty]]
        BY <3>2, <4>1 DEF Typed, TypeOK, Statuses
      <4>3. \A e \in Entry : order'[e] = IF e = n THEN [st |-> st, done |-> 0] ELSE order[e]
        BY <3>2 DEF Typed, TypeOK
      <4>4. \A e \in Entry : e > n => e > entries /\ e # n
        BY <2>4 DEF Entry
      <4> QED
        BY <4>2, <4>3, <4>4 DEF Typed, Booked
    <3> QED
      BY <2>2, <3>1, <3>2
  <2>6. TypeOK'
    BY <2>1, <2>3, <2>4, <2>5, FaultsTyped DEF Typed, TypeOK, Flat, Statuses
  <2>7. Booked'
    BY <2>1, <2>5 DEF Booked
  <2> QED
    BY <2>3, <2>6, <2>7 DEF Typed
<1>2. CASE Wait
  <2>1. pc' \in {"protect", "market", "cancel"} /\ ref' \in {ref, entries} /\ pc = "wait"
        /\ UNCHANGED <<exchangeVars, snap, gone, entries, left, rows, poll, answer, dash, faults>>
    BY <1>2 DEF Wait, Won
  <2>2. TypeOK'
    BY <1>0, <2>1 DEF Typed, TypeOK, exchangeVars
  <2> QED
    BY <2>1, <2>2 DEF Typed, Booked, Waiting, exchangeVars
<1>3. CASE Cancel
  <2>1. pc = "cancel" /\ pc' = "check" /\ (Works \/ Fault)
        /\ UNCHANGED <<leg, stops, others, snap, gone, entries, left, ref, rows, poll, answer, dash>>
        /\ (order' = order \/ (Mine.st = "live" /\ order' = Cancelled({entries})))
    BY <1>3 DEF Cancel
  <2>2. entries \in Entry
    BY <2>1 DEF Typed, Booked, Waiting
  <2>3. Mine.st = "live" => {entries} \in SUBSET Entry /\ \A e \in {entries} : order[e].st = "live"
    BY <2>2 DEF Mine
  <2>4. TypeOK'
    <3>1. order \in [Entry -> [st : Statuses, done : 0 .. Qty]]
      BY DEF Typed, TypeOK, Statuses
    <3>2. order' \in [Entry -> [st : Statuses, done : 0 .. Qty]]
      <4>1. CASE order' = order
        BY <3>1, <4>1
      <4>2. CASE Mine.st = "live" /\ order' = Cancelled({entries})
        BY <2>3, <4>2, CancelledOrders
      <4> QED
        BY <2>1, <4>1, <4>2
    <3>3. faults' \in 0 .. MaxFaults
      BY <2>1, FaultsTyped
    <3> QED
      BY <2>1, <3>2, <3>3 DEF Typed, TypeOK, Statuses
  <2>5. Booked'
    BY <2>1, <2>2, <2>3, CancelledOrders DEF Typed, Booked
  <2> QED
    BY <2>1, <2>4, <2>5 DEF Typed
<1>4. CASE Check
  <2>1. pc = "check" /\ pc' \in {"protect", "topup", "market", "idle"} /\ ref' \in {ref, entries}
        /\ left' \in {left, Lacking(Mine.done)} /\ (Works \/ Fault)
        /\ UNCHANGED <<exchangeVars, snap, gone, entries, rows, poll, answer, dash>>
    BY <1>4 DEF Check, Won
  <2>2. Lacking(Mine.done) \in 0 .. Qty
    <3>1. entries \in Entry
      BY <2>1 DEF Typed, Booked, Waiting
    <3>2. Mine.done \in 0 .. Qty
      BY <3>1 DEF Mine, Typed, TypeOK
    <3> QED
      BY <3>2 DEF Lacking
  <2>3. TypeOK'
    BY <1>0, <2>1, <2>2, FaultsTyped DEF Typed, TypeOK, exchangeVars
  <2> QED
    BY <2>1, <2>3 DEF Typed, Booked, Waiting, exchangeVars
<1>5. CASE TopUp \/ Market
  <2>1. PICK size \in 0 .. Qty, to \in 0 .. AtMarket : Buy(size, to)
    BY <1>0, <1>5 DEF TopUp, Market, Typed, TypeOK
  <2>2. leg' \in {leg, leg + size} /\ pc' \in {"protect", "idle"} /\ ref' \in {ref, to} /\ left' = 0 /\ (Works \/ Fault)
        /\ UNCHANGED <<stops, order, others, snap, gone, entries, rows, poll, answer, dash>>
    BY <2>1 DEF Buy, Won
  <2>3. TypeOK'
    BY <2>2, FaultsTyped DEF Typed, TypeOK
  <2> QED
    BY <2>2, <2>3 DEF Typed, Booked, Waiting
<1>6. CASE Protect
  <2>1. stops' \in {stops, Ensured} /\ pc' \in {"record", "idle"} /\ leg' \in {0, leg} /\ ref' \in {ref, NoRef}
        /\ (Works \/ Fault)
        /\ UNCHANGED <<order, others, snap, gone, entries, left, rows, poll, answer, dash>>
    BY <1>6 DEF Protect
  <2>2. TypeOK'
    BY <1>0, <2>1, FaultsTyped DEF Typed, TypeOK, NoRef
  <2> QED
    BY <2>1, <2>2 DEF Typed, Booked, Waiting
<1>7. CASE Record
  <2>1. rows' \in {rows, Append(rows, Row("open", ref, TRUE))} /\ pc' = "idle" /\ ref' = NoRef /\ (Works \/ Fault)
        /\ UNCHANGED <<exchangeVars, snap, gone, entries, left, poll, answer, dash>>
    BY <1>7 DEF Record
  <2>2. Row("open", ref, TRUE) \in RowType
    BY DEF Row, RowType, Typed, TypeOK
  <2>3. rows' \in Seq(RowType) /\ DOMAIN rows \subseteq DOMAIN rows'
    BY <1>0, <2>1, <2>2, AppendedRows
  <2>4. TypeOK'
    BY <1>0, <2>1, <2>3, FaultsTyped DEF Typed, TypeOK, RowType, NoRef, exchangeVars
  <2> QED
    BY <2>1, <2>4 DEF Typed, Booked, Waiting, exchangeVars
<1> QED
  BY <1>1, <1>2, <1>3, <1>4, <1>5, <1>6, <1>7

\* The poller, the dashboard, and a crash: they touch no order.
LEMMA BesideTyped ==
  ASSUME Typed, Poller \/ DashFetch \/ DashUpsert \/ Crash
  PROVE  Typed'
<1> USE OrdersAssumption
<1>0. rows \in Seq(RowType)
  BY DEF Typed, TypeOK, RowType
<1>1. ASSUME UNCHANGED <<leg, order, others, loopVars>>, stops' \in {stops, {}},
             rows' \in Seq(RowType), DOMAIN rows \subseteq DOMAIN rows',
             DOMAIN answer' \subseteq DOMAIN rows', \A i \in DOMAIN answer' : answer'[i] \in Answers,
             Works \/ Fault
      PROVE  Typed'
  <2>1. TypeOK'
    BY <1>1, FaultsTyped DEF Typed, TypeOK, loopVars, RowType
  <2>2. Booked'
    BY <1>1 DEF Typed, Booked, loopVars
  <2> QED
    BY <1>1, <2>1, <2>2 DEF Typed
<1>2. DOMAIN answer \subseteq DOMAIN rows /\ \A i \in DOMAIN answer : answer[i] \in Answers
  BY DEF Typed, TypeOK
<1>3. CASE PollLoad
  BY <1>0, <1>1, <1>3 DEF PollLoad, Polled, Answers, exchangeVars, Works
<1>4. ASSUME NEW i \in DOMAIN answer, PollAsk(i) PROVE Typed'
  <2>1. \E v \in Answers : answer' = [answer EXCEPT ![i] = v]
    BY <1>4 DEF PollAsk, Verdict, Answers
  <2>2. DOMAIN answer' = DOMAIN answer /\ \A j \in DOMAIN answer : answer'[j] \in Answers
    BY <1>2, <2>1
  <2>3. UNCHANGED <<exchangeVars, loopVars, rows, poll, dash>> /\ (Works \/ Fault)
    BY <1>4 DEF PollAsk
  <2> QED
    BY <1>0, <1>1, <1>2, <2>2, <2>3 DEF exchangeVars
<1>5. CASE PollCommit
  <2> DEFINE settled == [i \in DOMAIN rows |->
               IF i \in {k \in DOMAIN answer : answer[k] = "filled"} \cup {k \in DOMAIN answer : answer[k] = "failed"}
               THEN [rows[i] EXCEPT !.st = answer[i]] ELSE rows[i]]
  <2>1. (rows' = rows \/ rows' = settled) /\ answer' = NoAnswer /\ (Works \/ Fault) /\ UNCHANGED <<exchangeVars, loopVars, dash>>
    BY <1>5 DEF PollCommit
  <2>2. settled \in [DOMAIN rows -> RowType]
    <3>1. \A i \in DOMAIN rows : rows[i] \in RowType
      BY <1>0
    <3> QED
      BY <3>1 DEF RowType
  <2> HIDE DEF settled
  <2>3. rows' \in Seq(RowType) /\ DOMAIN rows' = DOMAIN rows
    BY <1>0, <2>1, <2>2, RowsInPlace
  <2>4. DOMAIN answer' = {}
    BY <2>1 DEF NoAnswer
  <2> QED
    BY <1>1, <2>1, <2>3, <2>4 DEF exchangeVars
<1>6. CASE PollPositions
  BY <1>0, <1>1, <1>2, <1>6 DEF PollPositions, exchangeVars, Works
<1>7. CASE PollOrphans
  BY <1>0, <1>1, <1>2, <1>7 DEF PollOrphans
<1>8. CASE DashFetch
  BY <1>0, <1>1, <1>2, <1>8 DEF DashFetch, exchangeVars, Works
<1>9. CASE DashUpsert
  <2>1. Row("open", NoRef, FALSE) \in RowType
    BY DEF Row, RowType, NoRef, AtMarket
  <2>2. rows' \in Seq(RowType) /\ DOMAIN rows \subseteq DOMAIN rows'
    BY <1>0, <1>9, <2>1, MarkedRows, AppendedRows DEF DashUpsert
  <2>3. UNCHANGED <<exchangeVars, loopVars, poll, answer, faults>>
    BY <1>9 DEF DashUpsert
  <2> QED
    BY <1>1, <1>2, <2>2, <2>3 DEF exchangeVars, Works
<1>10. CASE Crash
  <2>1. DOMAIN answer' = {} /\ pc' = "idle" /\ snap' = Flat /\ gone' = {} /\ left' = 0 /\ ref' = NoRef /\ Fault
        /\ UNCHANGED <<exchangeVars, entries, rows>>
    BY <1>10 DEF Crash, NoAnswer
  <2>2. TypeOK'
    BY <2>1, FaultsTyped DEF Typed, TypeOK, Flat, NoRef, AtMarket, exchangeVars
  <2> QED
    BY <2>1, <2>2 DEF Typed, Booked, Waiting, exchangeVars
<1> QED
  BY <1>3, <1>4, <1>5, <1>6, <1>7, <1>8, <1>9, <1>10 DEF Poller

\* The types, the bookkeeping of the orders and the answers, for every instance.
LEMMA TypedInvariant == Spec => []Typed
<1>1. Typed /\ [Next]_vars => Typed'
  <2> SUFFICES ASSUME Typed, [Next]_vars PROVE Typed'
    OBVIOUS
  <2>1. CASE UNCHANGED vars
    BY <2>1 DEF vars, exchangeVars, loopVars, Typed, TypeOK, Booked
  <2> QED
    BY <2>1, ExchangeTyped, CycleTyped, EntryTyped, BesideTyped DEF Next, Loop
<1> QED
  BY <1>1, InitTyped, PTL DEF Spec

\* Every variable stays in its range, for every size and number of entries and any
\* number of faults.
THEOREM OrdersTyping == Spec => []TypeOK
<1>1. Typed => TypeOK
  BY DEF Typed
<1> QED
  BY <1>1, TypedInvariant, PTL

-----------------------------------------------------------------------------
\* What is held and what rests.

\* What each maker order still lacks, and what all that rest lack together.
Lack == [e \in Entry |-> Qty - order[e].done]
Outstanding == SumOf(Lack, Resting)

\* What rests without an entry that waits for it: an order whose answer was lost or
\* whose cancel failed.
Strays == IF pc \in {"wait", "cancel"} THEN Resting \ {entries} ELSE Resting
Stray == SumOf(Lack, Strays)

\* What the entry may yet buy at the market.
Pending ==
  IF pc \in {"wait", "cancel"} THEN IF Mine.st \in {"live", "filled"} THEN 0 ELSE Qty
  ELSE IF pc = "check" THEN Qty - Mine.done
  ELSE IF pc = "topup" THEN left
  ELSE IF pc = "market" THEN Qty ELSE 0

\* One entry for each fault.
Forfeit == Qty * faults

\* Every stray was paid for by a fault; a cycle that sees no leg may enter, so that
\* what it does not see was paid for too; and what is held, rests and may yet be
\* bought is one entry more.
Covered ==
  /\ Stray <= Forfeit
  /\ pc = "ready" /\ snap.leg = 0 => leg + Outstanding <= Forfeit
  /\ leg + Outstanding + Pending <= Qty + Forfeit

\* The orders that rest are finitely many, and each lacks a natural number.
Summable ==
  /\ IsFiniteSet(Entry) /\ Resting \subseteq Entry /\ IsFiniteSet(Resting)
  /\ Strays \subseteq Resting /\ IsFiniteSet(Strays)
  /\ \A e \in Entry : Lack[e] \in 0 .. Qty

\* What a maker order has filled.
LEMMA Dones == Typed => \A e \in Entry : order[e].done \in 0 .. Qty /\ order[e].done \in Int /\ Qty \in Nat
  BY OrdersAssumption DEF Typed, TypeOK

\* So the sums exist.
LEMMA LackSums == Typed => Summable
<1> SUFFICES ASSUME Typed PROVE Summable
  OBVIOUS
<1>1. IsFiniteSet(Entry)
  BY OrdersAssumption, FS_Interval DEF Entry
<1>2. Resting \subseteq Entry /\ Strays \subseteq Resting
  BY DEF Resting, Strays
<1>3. \A e \in Entry : Lack[e] \in 0 .. Qty
  BY OrdersAssumption DEF Typed, TypeOK, Lack
<1>4. IsFiniteSet(Resting)
  BY <1>1, <1>2, FS_Subset
<1>5. IsFiniteSet(Strays)
  BY <1>2, <1>4, FS_Subset
<1> QED
  BY <1>1, <1>2, <1>3, <1>4, <1>5 DEF Summable

\* The numbers that Covered compares are naturals.
Numbers == /\ leg \in Nat /\ Outstanding \in Nat /\ Stray \in Nat /\ Pending \in Nat /\ Forfeit \in Nat
           /\ Stray <= Outstanding /\ Qty \in Nat /\ Pending <= Qty

\* They are.
LEMMA TypedNumbers == Typed => Numbers
<1> SUFFICES ASSUME Typed PROVE Numbers
  OBVIOUS
<1> USE OrdersAssumption
<1>1. Summable
  BY LackSums
<1>2. Outstanding \in Nat /\ Stray \in Nat
  <2>1. \A e \in Entry : Lack[e] \in Nat
    BY <1>1 DEF Summable
  <2> QED
    BY <1>1, <2>1, SumOfFacts DEF Summable, Outstanding, Stray
<1>3. Stray <= Outstanding
  <2>1. \A e \in Resting : Lack[e] \in Nat
    BY <1>1 DEF Summable
  <2> QED
    BY <1>1, <2>1, SumOfSubset DEF Summable, Outstanding, Stray
<1>4. Pending \in Nat /\ Pending <= Qty
  <2>1. pc = "check" => Mine.done \in 0 .. Qty
    BY DEF Typed, TypeOK, Booked, Waiting, Mine
  <2> QED
    BY <2>1 DEF Pending, Typed, TypeOK
<1>5. Forfeit \in Nat
  <2>1. faults \in Nat
    BY DEF Typed, TypeOK
  <2> QED
    BY <2>1 DEF Forfeit
<1> QED
  BY <1>2, <1>3, <1>4, <1>5 DEF Numbers, Typed, TypeOK

\* A fault adds an entry to what is forfeited.
LEMMA Forfeits ==
  ASSUME Typed
  PROVE  (Works => Forfeit' = Forfeit) /\ (Fault => Forfeit' = Forfeit + Qty)
<1>1. faults \in Nat /\ Qty \in Nat
  BY OrdersAssumption DEF Typed, TypeOK
<1>2. Qty * (faults + 1) = Qty * faults + Qty
  BY <1>1
<1> QED
  BY <1>2 DEF Forfeit, Works, Fault

\* When one order changes, the sum over those that rest changes by what it lacks.
LEMMA OneChanges ==
  ASSUME Typed, Typed', NEW n \in Entry, \A e \in Entry \ {n} : order'[e] = order[e]
  PROVE  \E base \in Nat : /\ Outstanding = base + (IF n \in Resting THEN Lack[n] ELSE 0)
                           /\ Outstanding' = base + (IF n \in Resting' THEN Lack'[n] ELSE 0)
<1> DEFINE f == Lack
           h == Lack'
           R == Resting
           T == Resting'
           base == SumOf(f, R \ {n})
<1>1. Summable /\ Summable'
  BY LackSums, PTL
<1>2. /\ IsFiniteSet(R) /\ IsFiniteSet(T) /\ IsFiniteSet(R \ {n}) /\ R \subseteq Entry /\ T \subseteq Entry
      /\ \A e \in Entry : f[e] \in Nat /\ h[e] \in Nat
  <2>1. IsFiniteSet(R) /\ IsFiniteSet(T) /\ R \subseteq Entry /\ T \subseteq Entry
        /\ \A e \in Entry : f[e] \in Nat /\ h[e] \in Nat
    BY <1>1, OrdersAssumption DEF Summable
  <2> HIDE DEF R, T
  <2> QED
    BY <2>1, FS_RemoveElement
<1>3. R \ {n} = T \ {n}
  BY DEF Resting
<1>4. \A e \in R \ {n} : f[e] = h[e]
  BY <1>2 DEF Lack
<1>5. Outstanding = SumOf(f, R) /\ Outstanding' = SumOf(h, T)
  BY DEF Outstanding
<1> HIDE DEF f, h, R, T
<1>6. base \in Nat
  BY <1>2, SumOfFacts
<1>7. SumOf(h, T \ {n}) = base
  BY <1>2, <1>3, <1>4, SumOfAgree
<1>8. n \in R => SumOf(f, R) = f[n] + base
  BY <1>2, SumOfRemove
<1>9. n \notin R => SumOf(f, R) = base
  <2>1. n \notin R => R \ {n} = R
    OBVIOUS
  <2> QED
    BY <2>1
<1>10. n \in T => SumOf(h, T) = h[n] + SumOf(h, T \ {n})
  BY <1>2, SumOfRemove
<1>11. n \notin T => SumOf(h, T) = SumOf(h, T \ {n})
  <2>1. n \notin T => T \ {n} = T
    OBVIOUS
  <2> QED
    BY <2>1
<1>12. f[n] \in Nat /\ h[n] \in Nat
  BY <1>2
<1> HIDE DEF base
<1>13. SumOf(f, R) = base + (IF n \in R THEN f[n] ELSE 0)
  BY <1>6, <1>8, <1>9, <1>12
<1>14. SumOf(h, T) = base + (IF n \in T THEN h[n] ELSE 0)
  BY <1>6, <1>7, <1>10, <1>11, <1>12
<1> QED
  BY <1>5, <1>6, <1>13, <1>14 DEF f, h, R, T

\* Strays that shrink, each order lacking no more than before.
LEMMA FewerStrays ==
  ASSUME Typed, Typed', Strays' \subseteq Strays, \A e \in Strays' : order'[e].done >= order[e].done
  PROVE  Stray' <= Stray
<1> DEFINE f == Lack
           h == Lack'
           R == Strays
           T == Strays'
<1>1. Summable /\ Summable'
  BY LackSums, PTL
<1>2. /\ IsFiniteSet(R) /\ IsFiniteSet(T) /\ T \subseteq R /\ R \subseteq Entry
      /\ \A e \in Entry : f[e] \in Nat /\ h[e] \in Nat
  BY <1>1, OrdersAssumption DEF Summable
<1>3. \A e \in T : h[e] <= f[e]
  <2>1. \A e \in Entry : f[e] = Qty - order[e].done /\ h[e] = Qty - order'[e].done
    BY DEF Lack
  <2>2. \A e \in Entry : order[e].done \in Int /\ order'[e].done \in Int /\ Qty \in Int
    <3>1. Qty \in Nat
      BY OrdersAssumption
    <3>2. \A e \in Entry : order[e].done \in 0 .. Qty
      BY DEF Typed, TypeOK
    <3>3. \A e \in Entry : order'[e].done \in 0 .. Qty
      BY DEF Typed, TypeOK
    <3> QED
      BY <3>1, <3>2, <3>3
  <2> QED
    BY <1>2, <2>1, <2>2
<1>4. Stray = SumOf(f, R) /\ Stray' = SumOf(h, T)
  BY DEF Stray
<1> HIDE DEF f, h, R, T
<1>5. SumOf(h, T) <= SumOf(f, T)
  BY <1>2, <1>3, SumOfLess
<1>6. SumOf(f, T) <= SumOf(f, R)
  BY <1>2, SumOfSubset
<1>7. SumOf(h, T) \in Nat /\ SumOf(f, T) \in Nat /\ SumOf(f, R) \in Nat
  BY <1>2, SumOfFacts
<1> QED
  BY <1>4, <1>5, <1>6, <1>7

\* At most one order rests that is no stray.
LEMMA OneIsMine ==
  ASSUME Typed
  PROVE  /\ Outstanding <= Stray + Qty
         /\ pc \notin {"wait", "cancel"} => Stray = Outstanding
<1> DEFINE f == Lack
           R == Resting
<1>1. pc \notin {"wait", "cancel"} => Stray = Outstanding
  BY DEF Stray, Outstanding, Strays
<1>2. Numbers
  BY TypedNumbers
<1>3. ASSUME pc \in {"wait", "cancel"} PROVE Outstanding <= Stray + Qty
  <2>1. Stray = SumOf(f, R \ {entries}) /\ Outstanding = SumOf(f, R)
    BY <1>3 DEF Stray, Outstanding, Strays
  <2>2. entries \notin R => R \ {entries} = R
    OBVIOUS
  <2>3. IsFiniteSet(R) /\ (\A e \in R : f[e] \in Nat) /\ (entries \in R => f[entries] <= Qty)
    BY LackSums, OrdersAssumption DEF Summable
  <2> HIDE DEF f, R
  <2>4. entries \in R => SumOf(f, R) = f[entries] + SumOf(f, R \ {entries}) /\ f[entries] \in Nat
    BY <2>3, SumOfRemove
  <2>5. PICK s \in Nat : s = SumOf(f, R \ {entries})
    BY <1>2, <2>1 DEF Numbers
  <2>6. CASE entries \in R
    <3>1. PICK x \in Nat : x = f[entries]
      BY <2>4, <2>6
    <3>2. x <= Qty /\ Qty \in Nat
      BY <1>2, <2>3, <2>6, <3>1 DEF Numbers
    <3>3. x + s <= s + Qty
      BY <3>2
    <3> QED
      BY <2>1, <2>4, <2>5, <2>6, <3>1, <3>3
  <2>7. CASE entries \notin R
    <3>1. s <= s + Qty
      BY <1>2 DEF Numbers
    <3> QED
      BY <2>1, <2>2, <2>5, <2>7, <3>1
  <2> QED
    BY <2>6, <2>7
<1> QED
  BY <1>1, <1>2, <1>3 DEF Numbers

\* Orders that stay as they are lack the same.
LEMMA SameOrders == Typed /\ UNCHANGED order => Outstanding' = Outstanding
<1>1. UNCHANGED order => Lack' = Lack /\ Resting' = Resting
  BY DEF Lack, Resting
<1> QED
  BY <1>1 DEF Outstanding

\* The sums before and after a step, and what it forfeits.
LEMMA Before ==
  ASSUME Typed, Typed', Covered, Works \/ Fault
  PROVE  /\ Numbers /\ Numbers' /\ Qty' = Qty
         /\ Works => Forfeit' = Forfeit
         /\ Fault => Forfeit' = Forfeit + Qty
         /\ Forfeit <= Forfeit'
<1>1. Numbers /\ Numbers'
  BY TypedNumbers, PTL
<1>2. (Works => Forfeit' = Forfeit) /\ (Fault => Forfeit' = Forfeit + Qty)
  BY Forfeits
<1> QED
  BY <1>1, <1>2 DEF Numbers

\* A step that leaves the orders alone, adds no stray, and buys only what it might.
LEMMA Quiet ==
  ASSUME Typed, Typed', Covered, Works \/ Fault,
         UNCHANGED order, Strays' \subseteq Strays, leg' + Pending' <= leg + Pending,
         pc' = "ready" => pc = "ready" /\ snap' = snap /\ leg' <= leg
  PROVE  Covered'
<1>1. Numbers /\ Numbers' /\ Forfeit <= Forfeit'
  BY Before
<1>2. Outstanding' = Outstanding
  BY SameOrders
<1>3. Stray' <= Stray
  <2>1. \A e \in Strays' : order[e].done \in Int /\ order'[e].done = order[e].done
    <3>1. Strays' \subseteq Entry
      BY DEF Strays, Resting
    <3> QED
      BY <3>1, Dones
  <2>2. \A e \in Strays' : order'[e].done >= order[e].done
    BY <2>1
  <2> QED
    BY <2>2, FewerStrays
<1>4. PICK l \in Nat, m \in Nat, o \in Nat, p \in Nat, q \in Nat, e \in Nat, f \in Nat :
        l = leg /\ m = leg' /\ o = Outstanding /\ p = Pending /\ q = Pending' /\ e = Forfeit /\ f = Forfeit'
  BY <1>1 DEF Numbers
<1>5. pc' = "ready" /\ snap'.leg = 0 => leg' + Outstanding' <= Forfeit'
  <2>1. pc' = "ready" /\ snap'.leg = 0 => m <= l /\ l + o <= e /\ e <= f
    BY <1>1, <1>4 DEF Covered
  <2>2. pc' = "ready" /\ snap'.leg = 0 => m + o <= f
    BY <2>1
  <2> QED
    BY <1>2, <1>4, <2>2
<1>6. leg' + Outstanding' + Pending' <= Qty + Forfeit'
  <2>1. m + q <= l + p /\ l + o + p <= Qty + e /\ e <= f /\ Qty \in Nat
    BY <1>1, <1>4 DEF Covered, Numbers
  <2>2. m + o + q <= Qty + f
    BY <2>1
  <2> QED
    BY <1>2, <1>4, <2>2
<1>7. Stray' <= Forfeit'
  BY <1>1, <1>3 DEF Covered, Numbers
<1> QED
  BY <1>5, <1>6, <1>7 DEF Covered

\* A fault pays for an entry that the loop forgets.
LEMMA Paid ==
  ASSUME Typed, Typed', Covered, Fault, UNCHANGED order, leg' <= leg, pc' # "ready"
  PROVE  Covered'
<1>1. Numbers /\ Numbers' /\ Forfeit' = Forfeit + Qty
  BY Before
<1>2. Outstanding' = Outstanding
  BY SameOrders
<1>3. Outstanding <= Stray + Qty
  BY OneIsMine
<1>4. Stray' <= Forfeit'
  BY <1>1, <1>2, <1>3 DEF Covered, Numbers
<1>5. leg' + Outstanding' + Pending' <= Qty + Forfeit'
  <2>1. PICK l \in Nat, m \in Nat, o \in Nat, p \in Nat, q \in Nat, e \in Nat :
          l = leg /\ m = leg' /\ o = Outstanding /\ p = Pending /\ q = Pending' /\ e = Forfeit
    BY <1>1 DEF Numbers
  <2>2. m <= l /\ l + o + p <= Qty + e /\ q <= Qty /\ Qty \in Nat
    BY <1>1, <2>1 DEF Covered, Numbers
  <2>3. m + o + q <= Qty + (e + Qty)
    BY <2>2
  <2> QED
    BY <1>1, <1>2, <2>1, <2>3
<1> QED
  BY <1>4, <1>5 DEF Covered

\* Once every order that rests is cancelled, nothing is outstanding.
LEMMA Swept ==
  ASSUME Typed, Typed', Covered, order' = Cancelled(Resting), leg' <= leg,
         (Works /\ Pending' = 0) \/ Fault,
         pc' = "ready" => pc = "ready" /\ snap' = snap
  PROVE  Covered'
<1>1. Numbers /\ Numbers' /\ Forfeit <= Forfeit' /\ (Fault => Forfeit' = Forfeit + Qty)
  BY Before
<1>2. Outstanding' = 0
  <2>1. Resting' = {}
    <3>1. \A e \in Entry : order'[e].st # "live"
      BY DEF Cancelled, Resting, Typed, TypeOK
    <3> QED
      BY <3>1 DEF Resting
  <2>2. Outstanding' = SumOf(Lack', {})
    BY <2>1 DEF Outstanding
  <2> QED
    BY <2>2, FS_EmptySet, SumOfFacts
<1>3. Stray' <= Forfeit'
  BY <1>1, <1>2 DEF Numbers
<1>4. PICK l \in Nat, m \in Nat, o \in Nat, p \in Nat, q \in Nat, e \in Nat, f \in Nat :
        l = leg /\ m = leg' /\ o = Outstanding /\ p = Pending /\ q = Pending' /\ e = Forfeit /\ f = Forfeit'
  BY <1>1 DEF Numbers
<1>5. pc' = "ready" /\ snap'.leg = 0 => leg' + Outstanding' <= Forfeit'
  <2>1. pc' = "ready" /\ snap'.leg = 0 => m <= l /\ l + o <= e /\ e <= f
    BY <1>1, <1>4 DEF Covered
  <2>2. pc' = "ready" /\ snap'.leg = 0 => m + 0 <= f
    BY <2>1
  <2> QED
    BY <1>2, <1>4, <2>2
<1>6. leg' + Outstanding' + Pending' <= Qty + Forfeit'
  <2>1. m <= l /\ l + o + p <= Qty + e /\ e <= f /\ q <= Qty /\ Qty \in Nat /\ (q = 0 \/ f = e + Qty)
    BY <1>1, <1>4 DEF Covered, Numbers
  <2>2. m + 0 + q <= Qty + f
    BY <2>1
  <2> QED
    BY <1>2, <1>4, <2>2
<1> QED
  BY <1>3, <1>5, <1>6 DEF Covered

\* What fills moves from what rests to what is held.
LEMMA FillsCovered == Typed /\ Typed' /\ Covered /\ MakerFills => Covered'
<1> SUFFICES ASSUME Typed, Typed', Covered, MakerFills PROVE Covered'
  OBVIOUS
<1>1. PICK n \in Resting : order' = [order EXCEPT ![n] = Filled(order[n])]
  BY DEF MakerFills
<1>2. n \in Entry /\ order[n].st = "live" /\ order[n].done \in Nat /\ Qty \in Nat /\ order[n].done < Qty
  <2>1. n \in Entry /\ order[n].st = "live"
    BY DEF Resting
  <2>2. order[n].done \in 0 .. Qty /\ Qty \in Nat
    BY <2>1, Dones
  <2>3. order[n].done < Qty
    BY <2>1 DEF Typed, Booked
  <2> QED
    BY <2>1, <2>2, <2>3
<1>3. leg' = leg + 1 /\ UNCHANGED <<pc, snap, entries, left, faults>> /\ Works
  BY DEF MakerFills, loopVars, Works
<1>4. Filled(order[n]).done = order[n].done + 1 /\ Filled(order[n]).st \in {"live", "filled"}
      /\ (Filled(order[n]).st = "live" <=> order[n].done + 1 # Qty)
  BY <1>2 DEF Filled
<1> HIDE DEF Filled
<1>5. order'[n] = Filled(order[n]) /\ \A e \in Entry \ {n} : order'[e] = order[e]
  BY <1>1, <1>2 DEF Typed, TypeOK
<1>6. Numbers /\ Numbers' /\ Forfeit' = Forfeit
  BY <1>3, Before
<1>7. PICK base \in Nat : /\ Outstanding = base + (IF n \in Resting THEN Lack[n] ELSE 0)
                          /\ Outstanding' = base + (IF n \in Resting' THEN Lack'[n] ELSE 0)
  BY <1>2, <1>5, OneChanges
<1>8. Outstanding = base + (Qty - order[n].done) /\ Outstanding' = base + (Qty - (order[n].done + 1))
  <2>1. Lack[n] = Qty - order[n].done /\ Lack'[n] = Qty - (order[n].done + 1)
    BY <1>2, <1>4, <1>5 DEF Lack
  <2>2. n \in Resting /\ (n \in Resting' <=> order[n].done + 1 # Qty)
    BY <1>2, <1>4, <1>5 DEF Resting
  <2>3. order[n].done + 1 = Qty => Qty - (order[n].done + 1) = 0
    BY <1>2
  <2> QED
    BY <1>7, <2>1, <2>2, <2>3
<1>9. PICK l \in Nat, o \in Nat, d \in Nat : l = leg /\ o = Outstanding /\ d = order[n].done
  BY <1>2, <1>6 DEF Numbers
<1>0. d \in Nat /\ Qty \in Nat
  BY <1>2
<1>10. leg' + Outstanding' = leg + Outstanding
  <2>1. o = base + (Qty - d) /\ Outstanding' = base + (Qty - (d + 1))
    BY <1>8, <1>9
  <2>2. (l + 1) + (base + (Qty - (d + 1))) = l + (base + (Qty - d))
    BY <1>0
  <2> QED
    BY <1>3, <1>9, <2>1, <2>2
<1>11. Pending' <= Pending
  <2>1. CASE entries = n
    <3>1. Mine = order[n] /\ Mine' = Filled(order[n])
      BY <1>3, <1>5, <2>1 DEF Mine
    <3>2. Qty - (d + 1) <= Qty - d
      BY <1>0
    <3>3. Pending = IF pc \in {"wait", "cancel"} THEN 0
                    ELSE IF pc = "check" THEN Qty - d
                    ELSE IF pc = "topup" THEN left ELSE IF pc = "market" THEN Qty ELSE 0
      BY <1>2, <1>9, <3>1 DEF Pending
    <3>4. Pending' = IF pc \in {"wait", "cancel"} THEN 0
                     ELSE IF pc = "check" THEN Qty - (d + 1)
                     ELSE IF pc = "topup" THEN left ELSE IF pc = "market" THEN Qty ELSE 0
      BY <1>3, <1>4, <1>9, <3>1 DEF Pending
    <3>5. left \in Nat
      BY DEF Typed, TypeOK
    <3> QED
      BY <1>2, <3>2, <3>3, <3>4, <3>5
  <2>2. CASE entries # n
    <3>1. pc \in Waiting => Mine' = Mine
      BY <1>3, <1>5, <2>2 DEF Mine, Typed, Booked
    <3>2. Pending' = Pending
      BY <1>3, <3>1 DEF Pending, Waiting
    <3> QED
      BY <1>6, <3>2 DEF Numbers
  <2> QED
    BY <2>1, <2>2
<1>12. Stray' <= Stray
  <2>1. Strays' \subseteq Strays
    <3>1. Resting' \subseteq Resting
      BY <1>2, <1>5 DEF Resting
    <3> QED
      BY <1>3, <3>1 DEF Strays
  <2>2. \A e \in Entry : order[e].done \in Int
    BY OrdersAssumption DEF Typed, TypeOK
  <2>3. \A e \in Entry : order'[e].done >= order[e].done
    BY <1>4, <1>5, <2>2
  <2> QED
    BY <2>1, <2>3, FewerStrays DEF Strays, Resting
<1>13. leg' + Outstanding' + Pending' <= Qty + Forfeit'
  <2>1. PICK t \in Nat, p \in Nat, q \in Nat, f \in Nat :
          t = leg + Outstanding /\ p = Pending /\ q = Pending' /\ f = Forfeit
    <3>1. leg + Outstanding \in Nat
      BY <1>6 DEF Numbers
    <3> QED
      BY <1>6, <3>1 DEF Numbers
  <2>2. t + p <= Qty + f /\ q <= p
    BY <1>11, <2>1 DEF Covered
  <2>3. t + q <= Qty + f
    BY <1>2, <2>2
  <2> QED
    BY <1>6, <1>10, <2>1, <2>3
<1>14. Stray' <= Forfeit'
  BY <1>6, <1>12 DEF Covered, Numbers
<1>15. pc' = "ready" /\ snap'.leg = 0 => leg' + Outstanding' <= Forfeit'
  <2>1. pc' = "ready" /\ snap'.leg = 0 => pc = "ready" /\ snap.leg = 0
    BY <1>3
  <2> QED
    BY <1>6, <1>10, <2>1 DEF Covered
<1> QED
  BY <1>13, <1>14, <1>15 DEF Covered

\* Positions that show no leg leave what the loop forgot; so does a fetch that
\* fails, with one entry more.
LEMMA CacheCovered == Typed /\ Typed' /\ Covered /\ Cache => Covered'
<1> SUFFICES ASSUME Typed, Typed', Covered, Cache PROVE Covered'
  OBVIOUS
<1>1. pc = "cache" /\ pc' = "ready" /\ UNCHANGED <<leg, order, entries, left>>
      /\ ((snap'.leg = leg /\ Works) \/ Fault)
  BY DEF Cache, Positions, exchangeVars
<1>2. Numbers /\ Numbers' /\ Forfeit <= Forfeit' /\ (Fault => Forfeit' = Forfeit + Qty)
  BY <1>1, Before
<1>3. Outstanding' = Outstanding /\ Stray = Outstanding /\ Stray' = Outstanding'
  <2>1. Stray' = Outstanding'
    BY <1>1 DEF Strays, Stray, Outstanding
  <2> QED
    BY <1>1, <2>1, SameOrders, OneIsMine
<1>4. Pending' = 0
  BY <1>1 DEF Pending
<1>5. PICK l \in Nat, o \in Nat, p \in Nat, e \in Nat, f \in Nat :
        l = leg /\ o = Outstanding /\ p = Pending /\ e = Forfeit /\ f = Forfeit'
  BY <1>2 DEF Numbers
<1>6. o <= e /\ l + o + p <= Qty + e /\ e <= f /\ Qty \in Nat
  BY <1>2, <1>3, <1>5 DEF Covered, Numbers
<1>7. l + o + 0 <= Qty + f /\ o <= f
  BY <1>6
<1>8. snap'.leg = 0 => leg' + Outstanding' <= Forfeit'
  <2>1. CASE snap'.leg = leg
    <3>1. l = 0 => l + o <= f
      BY <1>7
    <3> QED
      BY <1>1, <1>3, <1>5, <2>1, <3>1
  <2>2. CASE Fault
    <3>1. f = e + Qty
      BY <1>2, <1>5, <2>2
    <3>2. l + o <= f
      BY <1>6, <3>1
    <3> QED
      BY <1>1, <1>3, <1>5, <3>2
  <2> QED
    BY <1>1, <2>1, <2>2
<1> QED
  BY <1>1, <1>3, <1>4, <1>5, <1>7, <1>8 DEF Covered

\* Cancelling the order of the entry leaves what it lacks to be bought.
LEMMA CancelCovered == Typed /\ Typed' /\ Covered /\ Cancel => Covered'
<1> SUFFICES ASSUME Typed, Typed', Covered, Cancel PROVE Covered'
  OBVIOUS
<1>1. pc = "cancel" /\ pc' = "check" /\ UNCHANGED <<leg, snap, entries, left>> /\ entries \in Entry
  BY DEF Cancel, Typed, Booked, Waiting
<1>2. Mine.done \in 0 .. Qty /\ leg \in Nat /\ Qty \in Nat
  BY <1>1, OrdersAssumption DEF Mine, Typed, TypeOK
<1>3. CASE Fault /\ UNCHANGED order
  <2>1. leg' <= leg
    BY <1>1, <1>2
  <2> QED
    BY <1>1, <1>3, <2>1, Paid
<1>4. CASE Works /\ UNCHANGED order /\ Mine.st # "live"
  <2>1. Strays' \subseteq Strays
    BY <1>1, <1>4 DEF Strays, Resting, Mine
  <2>2. Pending' = Qty - Mine.done /\ Pending = IF Mine.st = "filled" THEN 0 ELSE Qty
    BY <1>1, <1>4 DEF Pending, Mine
  <2>3. Mine.st = "filled" => Mine.done = Qty
    BY <1>1 DEF Mine, Typed, Booked
  <2>4. leg' + Pending' <= leg + Pending
    <3>1. PICK l \in Nat, d \in 0 .. Qty : l = leg /\ d = Mine.done
      BY <1>2
    <3>2. l + (Qty - d) <= l + Qty /\ (d = Qty => l + (Qty - d) <= l + 0)
      BY <1>2
    <3> QED
      BY <1>1, <2>2, <2>3, <3>1, <3>2
  <2> QED
    BY <1>1, <1>4, <2>1, <2>4, Quiet
<1>5. CASE Works /\ Mine.st = "live" /\ order' = Cancelled({entries})
  <2> DEFINE n == entries
  <2>1. n \in Entry /\ order'[n].st = "gone" /\ order'[n].done = Mine.done
        /\ \A e \in Entry \ {n} : order'[e] = order[e]
    <3>1. order[n] \in [st : Statuses, done : 0 .. Qty]
      BY <1>1 DEF Typed, TypeOK, Statuses
    <3>2. order' = [e \in Entry |-> IF e = n THEN [order[e] EXCEPT !.st = "gone"] ELSE order[e]]
      BY <1>5 DEF Cancelled
    <3>3. order'[n] = [order[n] EXCEPT !.st = "gone"] /\ \A e \in Entry \ {n} : order'[e] = order[e]
      BY <1>1, <3>2
    <3> QED
      BY <1>1, <3>1, <3>3 DEF Mine
  <2>2. Mine = order[n] /\ Mine' = order'[n] /\ n \in Resting
    BY <1>1, <1>5 DEF Mine, Resting
  <2>3. Pending = 0 /\ Pending' = Qty - Mine.done
    BY <1>1, <1>5, <2>1, <2>2 DEF Pending
  <2>4. Resting' = Resting \ {n} /\ Strays' = Resting' /\ Strays = Resting \ {n}
    BY <1>1, <2>1 DEF Resting, Strays
  <2>5. Stray' <= Stray
    <3>1. Strays' \subseteq Entry \ {n}
      BY <2>4 DEF Resting
    <3>2. \A e \in Strays' : order[e].done \in Int /\ order'[e].done = order[e].done
      BY <2>1, <3>1, Dones
    <3>3. \A e \in Strays' : order'[e].done >= order[e].done
      BY <3>2
    <3> QED
      BY <2>4, <3>3, FewerStrays
  <2>6. Numbers /\ Numbers' /\ Forfeit' = Forfeit
    BY <1>5, Before
  <2>7. Lack[n] = Qty - Mine.done
    BY <2>1, <2>2 DEF Lack
  <2> HIDE DEF n
  <2>8. PICK base \in Nat : /\ Outstanding = base + (IF n \in Resting THEN Lack[n] ELSE 0)
                            /\ Outstanding' = base + (IF n \in Resting' THEN Lack'[n] ELSE 0)
    BY <2>1, OneChanges
  <2>9. PICK l \in Nat, d \in 0 .. Qty, f \in Nat : l = leg /\ d = Mine.done /\ f = Forfeit
    BY <1>2, <2>6 DEF Numbers
  <2>10. Outstanding = base + (Qty - d) /\ Outstanding' = base
    <3>1. n \in Resting /\ n \notin Resting'
      BY <2>2, <2>4
    <3>2. Outstanding = base + (Qty - d) /\ Outstanding' = base + 0
      BY <2>7, <2>8, <2>9, <3>1
    <3> QED
      BY <3>2
  <2>11. l + base + (Qty - d) <= Qty + f
    <3>1. l + (base + (Qty - d)) + 0 <= Qty + f
      BY <2>3, <2>9, <2>10 DEF Covered
    <3> QED
      BY <1>2, <3>1
  <2>12. leg' + Outstanding' + Pending' <= Qty + Forfeit'
    BY <1>1, <2>3, <2>6, <2>9, <2>10, <2>11
  <2>13. Stray' <= Forfeit'
    BY <2>5, <2>6 DEF Covered, Numbers
  <2> QED
    BY <1>1, <2>12, <2>13 DEF Covered
<1>6. \/ Works /\ Mine.st = "live" /\ order' = Cancelled({entries})
      \/ Fault /\ UNCHANGED order
      \/ Works /\ UNCHANGED order /\ Mine.st # "live"
  BY DEF Cancel
<1> QED
  BY <1>3, <1>4, <1>5, <1>6, Zenon

\* An entry asks for its quantity once, and once more when the answer is lost.
LEMMA EnterCovered == Typed /\ Typed' /\ Covered /\ Enter => Covered'
<1> SUFFICES ASSUME Typed, Typed', Covered, Enter PROVE Covered'
  OBVIOUS
<1> DEFINE n == entries + 1
<1>1. pc = "ready" /\ snap.leg = 0 /\ leg' = leg
  BY DEF Enter
<1>2. n \in Entry /\ entries' = n /\ n # entries
  <2>1. n \in Entry /\ entries' = n
    BY EnterPosts
  <2>2. entries \in 0 .. MaxEntries
    BY DEF Typed, TypeOK
  <2> QED
    BY <2>1, <2>2
<1>3. Works \/ Fault
  BY EnterPosts
<1>4. Numbers /\ Numbers' /\ (Works => Forfeit' = Forfeit) /\ (Fault => Forfeit' = Forfeit + Qty)
  BY <1>3, Before
<1>5. order[n].st = "none"
  <2>1. entries \in Nat
    BY DEF Typed, TypeOK
  <2>2. n > entries
    BY <2>1
  <2> QED
    BY <1>2, <2>2 DEF Typed, Booked
<1>6. PICK l \in Nat, o \in Nat, f \in Nat : l = leg /\ o = Outstanding /\ f = Forfeit
  BY <1>4 DEF Numbers
<1>7. l + o <= f /\ Qty \in Nat /\ Stray <= Forfeit /\ Stray = Outstanding
  BY <1>1, <1>4, <1>6, OneIsMine DEF Covered, Numbers
<1>8. ASSUME NEW st \in {"live", "gone"}, order' = [order EXCEPT ![n] = [st |-> st, done |-> 0]]
      PROVE  /\ Outstanding' = o + (IF st = "live" THEN Qty ELSE 0)
             /\ Mine'.st = st
             /\ pc' = "wait" => Stray' <= Stray
  <2>1. order'[n] = [st |-> st, done |-> 0] /\ \A e \in Entry \ {n} : order'[e] = order[e]
    BY <1>2, <1>8 DEF Typed, TypeOK
  <2>2. n \notin Resting /\ (n \in Resting' <=> st = "live") /\ Resting' \ {n} = Resting
    BY <1>2, <1>5, <2>1 DEF Resting
  <2>3. Lack'[n] = Qty
    <3>1. Lack'[n] = Qty - 0
      BY <1>2, <2>1 DEF Lack
    <3> QED
      BY <1>7, <3>1
  <2>4. Mine'.st = st
    BY <1>2, <2>1 DEF Mine
  <2>5. pc' = "wait" => Stray' <= Stray
    <3>1. pc' = "wait" => Strays' = Resting /\ Strays = Resting
      BY <1>1, <1>2, <2>2 DEF Strays
    <3>2. \A e \in Resting : order[e].done \in Int /\ order'[e].done = order[e].done
      <4>1. Resting \subseteq Entry \ {n}
        BY <2>2 DEF Resting
      <4> QED
        BY <2>1, <4>1, Dones
    <3>3. \A e \in Resting : order'[e].done >= order[e].done
      BY <3>2
    <3> QED
      BY <3>1, <3>3, FewerStrays
  <2> HIDE DEF n
  <2>6. PICK base \in Nat : /\ Outstanding = base + (IF n \in Resting THEN Lack[n] ELSE 0)
                            /\ Outstanding' = base + (IF n \in Resting' THEN Lack'[n] ELSE 0)
    BY <1>2, <2>1, OneChanges
  <2>7. Outstanding = base + 0 /\ Outstanding' = base + (IF st = "live" THEN Qty ELSE 0)
    BY <2>2, <2>3, <2>6
  <2>8. base = o
    BY <1>6, <2>7
  <2> QED
    BY <2>4, <2>5, <2>7, <2>8
<1>9. CASE pc' = "wait" /\ Works /\ \E st \in {"live", "gone"} : order' = [order EXCEPT ![n] = [st |-> st, done |-> 0]]
  <2>1. PICK st \in {"live", "gone"} : order' = [order EXCEPT ![n] = [st |-> st, done |-> 0]]
    BY <1>9
  <2>2. /\ Outstanding' = o + (IF st = "live" THEN Qty ELSE 0)
        /\ Pending' = IF st = "live" THEN 0 ELSE Qty
        /\ Stray' <= Stray
    <3>1. /\ Outstanding' = o + (IF st = "live" THEN Qty ELSE 0)
          /\ Mine'.st = st
          /\ Stray' <= Stray
      BY <1>8, <1>9, <2>1
    <3>2. st = "live" \/ st = "gone"
      OBVIOUS
    <3>3. Pending' = IF st = "live" THEN 0 ELSE Qty
      BY <1>9, <3>1, <3>2 DEF Pending
    <3> QED
      BY <3>1, <3>3
  <2>3. leg' + Outstanding' + Pending' <= Qty + Forfeit'
    <3>1. (l + (o + Qty)) + 0 <= Qty + f /\ (l + (o + 0)) + Qty <= Qty + f
      BY <1>7
    <3> QED
      BY <1>1, <1>4, <1>6, <1>9, <2>2, <3>1
  <2>4. Stray' <= Forfeit'
    BY <1>4, <1>7, <1>9, <2>2 DEF Numbers
  <2> QED
    BY <1>9, <2>3, <2>4 DEF Covered
<1>10. CASE pc' = "market" /\ Works /\ UNCHANGED order
  <2>1. Outstanding' = o /\ Pending' = Qty /\ Stray' = Outstanding'
    BY <1>6, <1>10, SameOrders DEF Pending, Strays, Stray, Outstanding
  <2>2. l + o + Qty <= Qty + f /\ o <= f
    BY <1>7
  <2> QED
    BY <1>1, <1>4, <1>6, <1>10, <2>1, <2>2 DEF Covered
<1>11. CASE pc' = "market" /\ Fault /\ order' = [order EXCEPT ![n] = [st |-> "live", done |-> 0]]
  <2>1. Outstanding' = o + Qty /\ Pending' = Qty /\ Stray' = Outstanding'
    BY <1>8, <1>11 DEF Pending, Strays, Stray, Outstanding
  <2>2. l + (o + Qty) + Qty <= Qty + (f + Qty) /\ o + Qty <= f + Qty
    BY <1>7
  <2> QED
    BY <1>1, <1>4, <1>6, <1>11, <2>1, <2>2 DEF Covered
<1> HIDE DEF n
<1>12. \/ pc' = "wait" /\ Works /\ \E st \in {"live", "gone"} : order' = [order EXCEPT ![n] = [st |-> st, done |-> 0]]
       \/ pc' = "market" /\ Works /\ UNCHANGED order
       \/ pc' = "market" /\ Fault /\ order' = [order EXCEPT ![n] = [st |-> "live", done |-> 0]]
  BY EnterPosts, Zenon DEF n
<1> QED
  BY <1>9, <1>10, <1>11, <1>12, Zenon

\* The exchange otherwise, the poller, the dashboard and a crash.
LEMMA OutsideCovered ==
  ASSUME Typed, Typed', Covered, LegCloses \/ OthersCancel \/ OtherLegs \/ Poller \/ DashFetch \/ DashUpsert \/ Crash
  PROVE  Covered'
<1>0. leg \in Nat
  BY DEF Typed, TypeOK
<1>1. CASE OthersCancel
  BY <1>0, <1>1, Swept DEF OthersCancel, loopVars
<1>2. CASE Crash
  BY <1>0, <1>2, Paid DEF Crash, exchangeVars
<1>3. CASE LegCloses \/ OtherLegs \/ Poller \/ DashFetch \/ DashUpsert
  <2>1. UNCHANGED <<order, loopVars>> /\ leg' \in {leg, 0} /\ (Works \/ Fault)
    <3>1. CASE LegCloses \/ OtherLegs \/ DashFetch \/ DashUpsert
      BY <3>1 DEF LegCloses, OtherLegs, DashFetch, DashUpsert, exchangeVars, Works
    <3>2. CASE PollLoad \/ PollPositions \/ PollOrphans
      BY <3>2 DEF PollLoad, PollPositions, PollOrphans, exchangeVars, Works
    <3>3. CASE PollCommit \/ \E i \in DOMAIN answer : PollAsk(i)
      <4>1. UNCHANGED <<exchangeVars, loopVars>> /\ (Works \/ Fault)
        BY <3>3 DEF PollCommit, PollAsk
      <4> QED
        BY <4>1 DEF exchangeVars
    <3> QED
      BY <1>3, <3>1, <3>2, <3>3 DEF Poller
  <2>2. Pending' = Pending /\ Strays' = Strays
    BY <2>1 DEF loopVars, Pending, Mine, Strays, Resting
  <2>3. leg' <= leg /\ leg' + Pending' <= leg + Pending
    <3>1. PICK l \in Nat, p \in Nat : l = leg /\ p = Pending
      BY <1>0, TypedNumbers DEF Numbers
    <3>2. l <= l /\ 0 <= l /\ l + p <= l + p /\ 0 + p <= l + p
      OBVIOUS
    <3> QED
      BY <2>1, <2>2, <3>1, <3>2
  <2> QED
    BY <2>1, <2>2, <2>3, Quiet DEF loopVars
<1> QED
  BY <1>1, <1>2, <1>3

\* A cycle of the loop, up to its entries.
LEMMA CycleCovered ==
  ASSUME Typed, Typed', Covered, SyncFetch \/ Sync \/ SyncClose \/ Exit \/ EndCycle
  PROVE  Covered'
<1>0. leg \in Nat /\ Pending \in Nat
  BY TypedNumbers DEF Numbers
<1>1. CASE SyncFetch \/ Sync \/ EndCycle
  <2>1. UNCHANGED <<leg, order>> /\ (Works \/ Fault)
    <3>1. CASE SyncFetch
      BY <3>1 DEF SyncFetch, exchangeVars, Works
    <3>2. CASE Sync
      BY <3>2 DEF Sync, Adopt
    <3>3. CASE EndCycle
      BY <3>3 DEF EndCycle
    <3> QED
      BY <1>1, <3>1, <3>2, <3>3
  <2>2. pc \in {"idle", "sync", "ready"} /\ pc' \in {"sync", "cache", "price", "idle"}
    BY <1>1 DEF SyncFetch, Sync, Adopt, EndCycle
  <2>3. Pending' = 0 /\ Strays' = Strays
    BY <2>1, <2>2 DEF Pending, Strays, Resting
  <2>4. leg' + Pending' <= leg + Pending
    <3>1. PICK l \in Nat, p \in Nat : l = leg /\ p = Pending
      BY <1>0
    <3>2. l + 0 <= l + p
      OBVIOUS
    <3> QED
      BY <2>1, <2>3, <3>1, <3>2
  <2> QED
    BY <2>1, <2>2, <2>3, <2>4, Quiet
<1>2. CASE SyncClose
  <2>1. leg' = leg /\ pc = "price" /\ pc' = "cache"
    BY <1>2 DEF SyncClose
  <2>2. Pending = 0 /\ Pending' = 0
    BY <2>1 DEF Pending
  <2>3. CASE order' = Cancelled(Resting) /\ (Works \/ Fault)
    BY <1>0, <2>1, <2>2, <2>3, Swept
  <2>4. CASE order' = order /\ Fault
    BY <1>0, <2>1, <2>4, Paid
  <2> QED
    BY <1>2, <2>3, <2>4 DEF SyncClose
<1>3. CASE Exit
  <2>1. leg' = 0 /\ pc = "ready" /\ order' = Cancelled(Resting) /\ UNCHANGED <<loopVars, faults>>
    BY <1>3 DEF Exit
  <2>2. Pending' = 0
    BY <2>1 DEF Pending, loopVars
  <2>3. leg' <= leg
    BY <1>0, <2>1
  <2> QED
    BY <2>1, <2>2, <2>3, Swept DEF loopVars, Works
<1> QED
  BY <1>1, <1>2, <1>3

\* The rest of an entry: what it buys at the market is what it might.
LEMMA EntryCovered ==
  ASSUME Typed, Typed', Covered, Wait \/ Check \/ TopUp \/ Market \/ Protect \/ Record
  PROVE  Covered'
<1>0. leg \in Nat /\ Pending \in Nat /\ Qty \in Nat
  BY TypedNumbers DEF Numbers
<1>1. CASE Wait
  <2>1. pc = "wait" /\ pc' \in {"protect", "market", "cancel"} /\ UNCHANGED <<leg, order, entries, faults>>
        /\ (pc' = "protect" => Mine.st = "filled") /\ (pc' = "market" => Mine.st = "gone")
    BY <1>1 DEF Wait, Won, exchangeVars
  <2>2. Mine' = Mine /\ Resting' = Resting /\ (Mine.st # "live" => entries \notin Resting)
    BY <2>1 DEF Mine, Resting
  <2>3. Strays' \subseteq Strays /\ Pending' = Pending
    BY <2>1, <2>2 DEF Strays, Pending
  <2>4. leg' + Pending' <= leg + Pending
    <3>1. leg + Pending \in Nat
      BY <1>0
    <3> QED
      BY <2>1, <2>3, <3>1
  <2> QED
    BY <2>1, <2>3, <2>4, Quiet DEF Works
<1>2. CASE Check
  <2>1. pc = "check" /\ UNCHANGED <<leg, order, entries>> /\ pc' \in {"protect", "topup", "market", "idle"}
        /\ (Works \/ Fault)
    BY <1>2 DEF Check, Won, exchangeVars
  <2>2. Mine.done \in 0 .. Qty
    BY <2>1 DEF Typed, TypeOK, Booked, Waiting, Mine
  <2>3. Pending = Qty - Mine.done
    BY <2>1 DEF Pending
  <2>4. (pc' = "topup" => left' = Qty - Mine.done) /\ (pc' = "market" => Mine.done = 0)
    BY <1>2 DEF Check, Won, Lacking
  <2>5. Pending' <= Pending
    <3>1. pc' = "topup" => Pending' = Pending
      BY <2>3, <2>4 DEF Pending
    <3>2. pc' = "market" => Pending' = Qty /\ Pending = Qty
      BY <1>0, <2>3, <2>4 DEF Pending
    <3>3. pc' \notin {"topup", "market"} => Pending' = 0
      BY <2>1 DEF Pending
    <3> QED
      BY <1>0, <3>1, <3>2, <3>3
  <2>6. leg' + Pending' <= leg + Pending
    <3>1. PICK l \in Nat, p \in Nat, q \in Nat : l = leg /\ p = Pending /\ q = Pending'
      <4>1. Numbers'
        BY TypedNumbers, PTL
      <4> QED
        BY <1>0, <4>1 DEF Numbers
    <3>2. q <= p
      BY <2>5, <3>1
    <3>3. l + q <= l + p
      BY <3>2
    <3> QED
      BY <2>1, <3>1, <3>3
  <2>7. Strays' \subseteq Strays
    BY <2>1 DEF Strays, Resting
  <2> QED
    BY <2>1, <2>6, <2>7, Quiet
<1>3. CASE TopUp \/ Market
  <2>1. PICK size \in Nat : size = Pending /\ \E to \in {entries, AtMarket} : Buy(size, to)
    BY <1>0, <1>3 DEF TopUp, Market, Pending
  <2>2. leg' \in {leg, leg + size} /\ pc' \in {"protect", "idle"} /\ (Works \/ Fault) /\ UNCHANGED <<order, entries>>
    BY <2>1 DEF Buy, Won
  <2>3. pc \in {"topup", "market"}
    BY <1>3 DEF TopUp, Market
  <2>4. Pending' = 0 /\ Strays' \subseteq Strays
    BY <2>2, <2>3 DEF Pending, Strays, Resting
  <2>5. leg' + Pending' <= leg + Pending
    <3>1. PICK l \in Nat : l = leg
      BY <1>0
    <3>2. l + 0 <= l + size /\ (l + size) + 0 <= l + size
      OBVIOUS
    <3> QED
      BY <2>1, <2>2, <2>4, <3>1, <3>2
  <2> QED
    BY <2>2, <2>4, <2>5, Quiet
<1>4. CASE Protect \/ Record
  <2>1. leg' \in {leg, 0} /\ pc \in {"protect", "record"} /\ pc' \in {"record", "idle"} /\ (Works \/ Fault)
        /\ UNCHANGED <<order, entries>>
    BY <1>4 DEF Protect, Record, exchangeVars
  <2>2. Pending' = 0 /\ Strays' \subseteq Strays
    BY <2>1 DEF Pending, Strays, Resting
  <2>3. leg' + Pending' <= leg + Pending
    <3>1. PICK l \in Nat, p \in Nat : l = leg /\ p = Pending
      BY <1>0
    <3>2. l + 0 <= l + p /\ 0 + 0 <= l + p
      OBVIOUS
    <3> QED
      BY <2>1, <2>2, <3>1, <3>2
  <2> QED
    BY <2>1, <2>2, <2>3, Quiet
<1> QED
  BY <1>1, <1>2, <1>3, <1>4

\* Every step keeps the exposure covered.
LEMMA NextCovered == Typed /\ Typed' /\ Covered /\ [Next]_vars => Covered'
<1> SUFFICES ASSUME Typed, Typed', Covered, [Next]_vars PROVE Covered'
  OBVIOUS
<1>1. CASE UNCHANGED vars
  <2>1. UNCHANGED <<leg, order, pc, snap, entries, left, faults>>
    BY <1>1 DEF vars, exchangeVars, loopVars
  <2>2. Pending' = Pending /\ Strays' = Strays
    BY <2>1 DEF Pending, Mine, Strays, Resting
  <2>3. leg \in Nat /\ leg + Pending \in Nat
    BY TypedNumbers DEF Numbers
  <2>4. leg' <= leg /\ leg' + Pending' <= leg + Pending
    BY <2>1, <2>2, <2>3
  <2> QED
    BY <2>1, <2>2, <2>4, Quiet DEF Works
<1> QED
  BY <1>1, FillsCovered, CacheCovered, CancelCovered, EnterCovered, OutsideCovered, CycleCovered, EntryCovered
     DEF Next, Loop

\* Nothing is held and nothing rests.
LEMMA InitCovered == Init => Covered
<1> SUFFICES ASSUME Init PROVE Covered
  OBVIOUS
<1>1. Resting = {} /\ Strays = {}
  BY DEF Init, NoOrder, Resting, Strays
<1>2. Outstanding = SumOf(Lack, {}) /\ Stray = SumOf(Lack, {})
  BY <1>1 DEF Outstanding, Stray
<1>3. SumOf(Lack, {}) = 0
  BY FS_EmptySet, SumOfFacts
<1>4. leg = 0 /\ pc = "idle" /\ Pending = 0
  BY DEF Init, Pending
<1>5. Qty \in Nat /\ Forfeit = 0
  <2>1. Qty \in Nat /\ faults = 0
    BY OrdersAssumption DEF Init
  <2>2. Qty * 0 = 0
    BY <2>1
  <2> QED
    BY <2>1, <2>2 DEF Forfeit
<1>6. 0 <= 0 /\ 0 + 0 + 0 <= Qty + 0
  BY <1>5
<1> QED
  BY <1>2, <1>3, <1>4, <1>5, <1>6 DEF Covered

\* The exposure is what is held and what rests.
LEMMA ExposureSum == Typed => Exposure = leg + Outstanding
<1> SUFFICES ASSUME Typed PROVE Exposure = leg + Outstanding
  OBVIOUS
<1> DEFINE A == Resting
           Rec(g) == g = [T \in SUBSET A |-> IF T = {} THEN 0
                            ELSE (Qty - order[CHOOSE x \in T : TRUE].done) + g[T \ {CHOOSE x \in T : TRUE}]]
<1>1. A \subseteq Entry /\ IsFiniteSet(A)
  BY LackSums DEF Summable
<1>2. ASSUME NEW g PROVE Rec(g) <=> Sums(Lack, A, g)
  <2>1. ASSUME NEW T \in SUBSET A
        PROVE  SumStep(Lack, g, T) = IF T = {} THEN 0
                 ELSE (Qty - order[CHOOSE x \in T : TRUE].done) + g[T \ {CHOOSE x \in T : TRUE}]
    <3> HIDE DEF A
    <3>1. T # {} => Lack[Chosen(T)] = Qty - order[CHOOSE x \in T : TRUE].done
      BY <1>1 DEF Chosen, Lack
    <3> QED
      BY <3>1 DEF SumStep, Chosen
  <2> HIDE DEF A
  <2> QED
    BY <2>1, Zenon DEF Sums
<1>3. MapThenSumSet(LAMBDA e : Qty - order[e].done, Resting) = (CHOOSE g : Rec(g))[A]
  BY Zenon DEF MapThenSumSet, MapThenFoldSet
<1> HIDE DEF A, Rec
<1>4. PICK k : Sums(Lack, A, k) /\ SumOf(Lack, A) = k[A]
  BY <1>1, SumOfSums
<1>5. Sums(Lack, A, CHOOSE g : Rec(g))
  <2>1. \E g : Rec(g)
    BY <1>2, <1>4
  <2>2. Rec(CHOOSE g : Rec(g))
    BY <2>1
  <2> QED
    BY <1>2, <2>2
<1>6. (CHOOSE g : Rec(g))[A] = k[A]
  BY <1>1, <1>4, <1>5, SumsAgree
<1> QED
  BY <1>3, <1>4, <1>6 DEF A, Exposure, Outstanding

\* What is held and what still rests never exceed one entry, and one more for each
\* fault: however the maker order fills while it is polled and cancelled, whatever
\* is cancelled beside it, and across crashes.
THEOREM ExposureBounded == Spec => []EntryBounded
<1>1. Typed /\ Covered => EntryBounded
  <2> SUFFICES ASSUME Typed, Covered PROVE EntryBounded
    OBVIOUS
  <2>1. Numbers /\ Exposure = leg + Outstanding
    BY TypedNumbers, ExposureSum
  <2>2. Qty * (1 + faults) = Qty + Forfeit
    <3>1. faults \in Nat /\ Qty \in Nat
      BY OrdersAssumption DEF Typed, TypeOK
    <3>2. Qty * (1 + faults) = Qty + Qty * faults
      BY <3>1
    <3> QED
      BY <3>2 DEF Forfeit
  <2>3. PICK t \in Nat, p \in Nat, f \in Nat : t = leg + Outstanding /\ p = Pending /\ f = Forfeit
    <3>1. leg + Outstanding \in Nat
      BY <2>1 DEF Numbers
    <3> QED
      BY <2>1, <3>1 DEF Numbers
  <2>4. t + p <= Qty + f /\ Qty \in Nat
    BY <2>1, <2>3 DEF Covered, Numbers
  <2>5. t <= Qty + f
    BY <2>4
  <2> QED
    BY <2>1, <2>2, <2>3, <2>5 DEF EntryBounded
<1> QED
  BY <1>1, TypedInvariant, InitCovered, NextCovered, PTL DEF Spec
=============================================================================
