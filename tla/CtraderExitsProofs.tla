------------------------- MODULE CtraderExitsProofs -------------------------
(***************************************************************************)
(* What the exit manager measures and what it sends, for every distance,   *)
(* price, stop of the desk, lag and number of faults.                      *)
(*                                                                         *)
(* R on record never changes.  It is the entry's if nobody's amend came    *)
(* first: while R is on no record and no amend has gone out, every stop    *)
(* anybody knows of is the entry's or none: the broker's, the cache's, the *)
(* poller's, the row's and those in messages on their way.  The first      *)
(* amend of the manager ends this before R is committed, and then the      *)
(* session still holds it.                                                 *)
(*                                                                         *)
(* A stop the manager sends is at or above the entry whenever the R it was *)
(* measured in is no less than the broker's stop level.                    *)
(***************************************************************************)
EXTENDS CtraderExits, SequenceTheorems, TLAPS

First(sl) == sl \in {-R0, NoStop}

\* Nothing that changes a stop has been sent.
Books == \A i \in 1 .. Len(asked) : asked[i].by = "book"
Firsts == \A i \in 1 .. Len(wire) : First(wire[i].sl)
Untouched ==
  First(stop) /\ First(row.sl) /\ First(cache.sl) /\ First(snap.sl) /\ Books /\ Firsts

\* R is on record, or in the session that amended, or still to be measured.
Measured ==
  \/ Known /\ row.r = R0
  \/ row.r = NoR /\ row.in /\ session.sent
  \/ row.r = NoR /\ Untouched

InSession == pc = "commit" => session.r = R0
Sessions ==
  /\ (~row.in => row.r = NoR) /\ (session.sent => pc = "commit") /\ (pc = "commit" => row.in)
  /\ (pc = "commit" /\ row.r # NoR => session.r = row.r)

\* The manager's amends protect a profit.
Profits == \A i \in 1 .. Len(asked) : asked[i].by = "manager" => asked[i].sl >= 0

Recorded == Measured /\ InSession
Inv == TypeOK /\ Sessions /\ (tight \/ Profits) /\ (early \/ Recorded)

\* What is assumed of each constant.
LEMMA Bounds ==
  /\ R0 \in Nat \ {0} /\ MinDist \in Nat \ {0} /\ MaxDist \in Nat \ {0}
  /\ MinDist <= R0 /\ R0 <= MaxDist /\ MaxAmends \in Nat /\ MaxFaults \in Nat
  /\ Marks \subseteq Int /\ DeskStops \subseteq Int
  BY ExitsAssumption DEF ExitsAssumption

\* The absence of a stop is a price, and the absence of a row is one without R.
LEMMA Absent ==
  /\ NoStop \in Int /\ NoR \in Nat
  /\ NoRow \in [in : BOOLEAN, sl : Int, r : Nat] /\ NoRow.r = NoR /\ NoRow.sl = NoStop
<1>1. NoStop \in Int
  BY SMT DEF NoStop
<1> QED
  BY <1>1 DEF NoRow, NoR

\* The levels of the manager and of the poller are whole numbers.
LEMMA Levels ==
  ASSUME TypeOK, NEW r \in Nat
  PROVE  /\ Target(r) \in Int /\ \A t \in Int : Clamped(t) \in Int
         /\ MissingStop \in Int /\ Original \in Nat
<1>1. mark \in Int /\ row.sl \in Int /\ cache.sl \in Int /\ row.r \in Nat
  BY Bounds DEF TypeOK
<1>2. Target(r) \in Int
  BY <1>1, Bounds DEF Target, Low, High
<1>3. \A t \in Int : Clamped(t) \in Int
  BY <1>1, Bounds DEF Clamped, Low, High
<1>4. MissingStop \in Int
  BY <1>1, Bounds DEF MissingStop, Low, High, Distance
<1>5. Original \in Nat
  BY <1>1, Absent DEF Original, Distance, High
<1> QED
  BY <1>2, <1>3, <1>4, <1>5

\* An amend of a known kind is a message.
LEMMA Amends ==
  ASSUME TypeOK, NEW by \in {"book", "manager", "restore", "desk"}, NEW sl \in Int, Send(by, sl)
  PROVE  asked' \in Seq(Messages)
<1>1. Amend(by, sl) \in Messages /\ asked \in Seq(Messages)
  BY DEF TypeOK, Amend, Messages
<1> QED
  BY <1>1 DEF Send

\* A row that is reconciled stays a row, with its R.
LEMMA Rows ==
  ASSUME TypeOK, NEW pos \in [in : BOOLEAN, sl : Int]
  PROVE  /\ Reconciled(pos) \in [in : BOOLEAN, sl : Int, r : Nat] /\ Reconciled(pos).in
         /\ Reconciled(pos).r = IF row.in THEN row.r ELSE NoR
         /\ Reconciled(pos).sl \in {row.sl, pos.sl, NoStop}
<1>0. row \in [in : BOOLEAN, sl : Int, r : Nat]
  BY DEF TypeOK
<1>1. CASE ~row.in
  <2>1. Reconciled(pos) = [NoRow EXCEPT !.in = TRUE]
    BY <1>1 DEF Reconciled
  <2> QED
    BY <1>1, <2>1, Absent
<1>2. CASE row.in /\ pos.sl # NoStop
  <2>1. Reconciled(pos) = [row EXCEPT !.sl = pos.sl]
    BY <1>2 DEF Reconciled
  <2> QED
    BY <1>0, <1>2, <2>1
<1>3. CASE row.in /\ pos.sl = NoStop
  <2>1. Reconciled(pos) = row
    BY <1>3 DEF Reconciled
  <2> QED
    BY <1>0, <1>3, <2>1
<1> QED
  BY <1>0, <1>1, <1>2, <1>3

-----------------------------------------------------------------------------
\* Every step keeps every variable in its range.
LEMMA StepKeepsTypes ==
  ASSUME TypeOK, [Next]_vars
  PROVE  TypeOK'
<1> USE Absent
<1>1. CASE Receive
  <2>1. wire # <<>> /\ wire \in Seq([list : BOOLEAN, sl : Int]) /\ asked \in Seq(Messages)
    BY <1>1 DEF Receive, TypeOK
  <2>2. wire' \in Seq([list : BOOLEAN, sl : Int]) /\ Head(wire) \in [list : BOOLEAN, sl : Int]
    BY <1>1, <2>1, HeadTailProperties DEF Receive
  <2>3. CASE Head(wire).list
    <3>1. cache' = [in |-> TRUE, sl |-> Head(wire).sl] /\ row' = Reconciled(cache') /\ asked' = asked
      BY <1>1, <2>3, Zenon DEF Receive
    <3>3. cache' \in [in : BOOLEAN, sl : Int]
      BY <2>2, <3>1
    <3>2. row' \in [in : BOOLEAN, sl : Int, r : Nat]
      BY <3>1, <3>3, Rows
    <3> QED
      BY <1>1, <2>1, <2>2, <3>1, <3>2, <3>3 DEF Receive, TypeOK, broker, poller, past
  <2>4. CASE ~Head(wire).list
    <3>1. asked' = Append(asked, Book) /\ Book \in Messages /\ UNCHANGED <<cache, row>>
      BY <1>1, <2>4 DEF Receive, book, Book, Amend, Messages
    <3>2. asked' \in Seq(Messages)
      BY <2>1, <3>1
    <3> QED
      BY <1>1, <2>2, <3>1, <3>2 DEF Receive, TypeOK, broker, poller, past
  <2> QED
    BY <2>3, <2>4
<1>2. CASE Answer
  <2>1. asked # <<>> /\ asked \in Seq(Messages) /\ Head(asked) \in Messages /\ asked' \in Seq(Messages)
    BY <1>2, HeadTailProperties DEF Answer, TypeOK
  <2>2. stop' \in Int
    BY <1>2, <2>1 DEF Answer, TypeOK, Messages
  <2>3. wire' \in Seq([list : BOOLEAN, sl : Int])
    <3>1. wire \in Seq([list : BOOLEAN, sl : Int]) /\ stop \in Int
      BY DEF TypeOK
    <3>2. \/ wire' = wire
          \/ wire' = Append(wire, [list |-> TRUE, sl |-> stop])
          \/ wire' = Append(wire, [list |-> FALSE, sl |-> NoStop])
      BY <1>2, Zenon DEF Answer, Say
    <3>3. [list |-> TRUE, sl |-> stop] \in [list : BOOLEAN, sl : Int]
          /\ [list |-> FALSE, sl |-> NoStop] \in [list : BOOLEAN, sl : Int]
      BY <3>1
    <3> QED
      <4> DEFINE L == [list : BOOLEAN, sl : Int]
      <4>1. wire \in Seq(L) /\ [list |-> TRUE, sl |-> stop] \in L /\ [list |-> FALSE, sl |-> NoStop] \in L
        BY <3>1, <3>3
      <4> HIDE DEF L
      <4>2. wire' \in Seq(L)
        <5>1. \A m \in L : Append(wire, m) \in Seq(L)
          BY <4>1, AppendProperties
        <5> QED
          BY <3>2, <4>1, <5>1, Zenon
      <4> QED
        BY <4>2 DEF L
  <2> QED
    BY <1>2, <2>1, <2>2, <2>3 DEF Answer, TypeOK, book, poller, past
<1>3. CASE Reconnect
  <2>1. asked' \in Seq(Messages)
    BY <1>3 DEF Reconnect, Book, Amend, Messages
  <2> QED
    BY <1>3, <2>1 DEF Reconnect, TypeOK, broker, book, poller, past
<1>4. CASE Poll \/ Again
  BY <1>4 DEF Poll, Again, TypeOK, broker, book, past
<1>5. CASE Restore
  <2>1. asked' \in Seq(Messages)
    BY <1>5, Levels, Amends DEF Restore, TypeOK
  <2>2. early' \in BOOLEAN
    BY <1>5, Zenon DEF Restore, TypeOK
  <2>3. snap' \in [in : BOOLEAN, sl : Int]
    <3>1. snap' = snap \/ snap' = Away
      <4>1. CASE Restoring
        BY <1>5, <4>1, Zenon DEF Restore
      <4>2. CASE ~Restoring
        BY <1>5, <4>2, Zenon DEF Restore
      <4> QED
        BY <4>1, <4>2
    <3>2. Away \in [in : BOOLEAN, sl : Int]
      BY Absent DEF Away
    <3> QED
      BY <3>1, <3>2 DEF TypeOK
  <2> QED
    BY <1>5, <2>1, <2>2, <2>3 DEF Restore, TypeOK, broker, book
<1>6. CASE Reconcile
  <2>1. row' \in [in : BOOLEAN, sl : Int, r : Nat]
    BY <1>6, Rows DEF Reconcile, TypeOK
  <2> QED
    BY <1>6, <2>1 DEF Reconcile, TypeOK, broker, past, Away
<1>7. CASE Exits
  <2>1. asked' \in Seq(Messages)
    BY <1>7, Levels, Amends DEF Exits, TypeOK
  <2>2. session' \in [r : Nat, sent : BOOLEAN]
    <3>1. CASE UNCHANGED session
      BY <3>1 DEF TypeOK
    <3>2. CASE \E a \in BOOLEAN : session' = [r |-> Original, sent |-> a]
      BY <3>2, Levels
    <3>3. up /\ cache.in /\ row.in /\ Original # NoR =>
            session' = [r |-> Original, sent |-> Managed(Original) /\ Sent(Clamped(Target(Original)))]
      BY <1>7, Zenon DEF Exits
    <3> QED
      BY <1>7, <3>1, <3>2, <3>3 DEF Exits
  <2>3. tight' \in BOOLEAN
    BY <1>7, Zenon DEF Exits, TypeOK
  <2> QED
    BY <1>7, <2>1, <2>2, <2>3 DEF Exits, TypeOK, broker, book
<1>8. CASE Commit
  <2>1. early' \in BOOLEAN
    BY <1>8, Zenon DEF Commit, TypeOK
  <2>2. faults' \in 0 .. MaxFaults
    <3>1. faults' = faults \/ (faults < MaxFaults /\ faults' = faults + 1)
      BY <1>8, Zenon DEF Commit, Fault
    <3>2. faults \in 0 .. MaxFaults /\ MaxFaults \in Nat
      BY Bounds DEF TypeOK
    <3> QED
      BY <3>1, <3>2
  <2>4. row' \in [in : BOOLEAN, sl : Int, r : Nat]
    <3>1. row' = row \/ row' = [row EXCEPT !.r = session.r]
      BY <1>8 DEF Commit
    <3> QED
      BY <3>1 DEF TypeOK
  <2>3. session' \in [r : Nat, sent : BOOLEAN]
    BY <1>8 DEF Commit, NoWork, NoR
  <2>5. /\ pc' = "idle"
        /\ UNCHANGED <<mark, stop, asked, wire, up, dry, cache, snap, resting, amends, tight>>
    BY <1>8 DEF Commit, broker
  <2> QED
    BY <2>1, <2>2, <2>3, <2>4, <2>5 DEF TypeOK
<1>9. CASE Rested
  <2>1. /\ resting' = FALSE
        /\ UNCHANGED <<mark, stop, asked, wire, up, dry, cache, row, pc, snap, session, amends,
                       early, tight, faults>>
    BY <1>9 DEF Rested, broker, book, past
  <2>2. resting' \in BOOLEAN
    BY <2>1
  <2>3. UNCHANGED <<mark, stop, asked, wire, up, dry, cache, row, pc, snap, session, amends,
                    early, tight, faults>>
    BY <2>1
  <2> QED
    BY <2>2, <2>3 DEF TypeOK
<1>10. ASSUME NEW m \in Marks, Move(m) PROVE TypeOK'
  BY <1>10 DEF Move, TypeOK, book, poller, past
<1>11. ASSUME NEW sl \in DeskStops \cup {NoStop}, Desk(sl) PROVE TypeOK'
  <2>1. sl \in Int
    BY Bounds
  <2>2. asked' \in Seq(Messages)
    BY <1>11, <2>1, Amends DEF Desk
  <2> QED
    <3>1. early' \in BOOLEAN
      BY <1>11, Zenon DEF Desk, TypeOK
    <3>2. amends' \in 0 .. MaxAmends
      BY <1>11, Bounds DEF Desk, TypeOK
    <3> QED
      BY <1>11, <2>2, <3>1, <3>2 DEF Desk, TypeOK, broker, book, poller
<1>12. CASE Redial
  <2>1. <<>> \in Seq(Messages) /\ <<>> \in Seq([list : BOOLEAN, sl : Int])
    OBVIOUS
  <2> QED
    BY <1>12, <2>1 DEF Redial, TypeOK, broker, book, poller, past
<1>13. CASE Lost \/ Restart
  <2>1. early' \in BOOLEAN
    BY <1>13, Zenon DEF Lost, Restart, TypeOK, past
  <2>2. faults' \in 0 .. MaxFaults
    <3>1. faults < MaxFaults /\ faults' = faults + 1
      BY <1>13, Zenon DEF Lost, Restart, Fault
    <3> QED
      BY <3>1, Bounds DEF TypeOK
  <2>3. NoWork \in [r : Nat, sent : BOOLEAN] /\ Away \in [in : BOOLEAN, sl : Int]
        /\ <<>> \in Seq(Messages) /\ <<>> \in Seq([list : BOOLEAN, sl : Int])
    BY DEF NoWork, Away
  <2>4. CASE Lost
    BY <2>1, <2>2, <2>3, <2>4 DEF Lost, TypeOK, broker, book, poller, past
  <2>5. CASE Restart
    BY <2>1, <2>2, <2>3, <2>5 DEF Restart, TypeOK, broker
  <2> QED
    BY <1>13, <2>4, <2>5
<1>14. CASE UNCHANGED vars
  BY <1>14 DEF vars, broker, book, poller, past, TypeOK
<1> QED
  BY <1>1, <1>2, <1>3, <1>4, <1>5, <1>6, <1>7, <1>8, <1>9, <1>10, <1>11, <1>12, <1>13, <1>14
     DEF Next, Socket, Poller

-----------------------------------------------------------------------------
\* R as it is measured while nobody has changed the stop.
LEMMA MeasuredIsFirst ==
  ASSUME TypeOK, Sessions, Measured, pc # "commit", row.in, Original # NoR
  PROVE  Original = R0
<1>1. row.r \in Nat /\ row.sl \in Int /\ cache.sl \in Int
  BY DEF TypeOK
<1>2. CASE Known /\ row.r = R0
  BY <1>2 DEF Known, Original
<1>3. CASE row.r = NoR /\ Untouched
  <2>1. \A sl \in {-R0, NoStop} : sl \notin {0, NoStop} => Distance(sl) = R0
    BY Bounds DEF Distance, High
  <2> QED
    BY <1>3, <2>1 DEF Original, Untouched, First
<1> QED
  BY <1>2, <1>3 DEF Measured, Sessions

\* From 1 R on the manager asks for a stop at or above the entry, if R is no less
\* than the stop level.
LEMMA AboveEntry ==
  ASSUME TypeOK, NEW r \in Nat, r >= MinDist, Managed(r)
  PROVE  Clamped(Target(r)) >= 0
<1>1. mark \in Int /\ mark >= r
  BY Bounds DEF TypeOK, Managed
<1>2. Target(r) \in Int /\ Target(r) >= 0 /\ Target(r) <= mark - MinDist
  <2>1. r \div 10 \in Nat
    BY Bounds
  <2> QED
    BY <1>1, <2>1, Bounds DEF Target, Low, High
<1> QED
  BY <1>1, <1>2, Bounds DEF Clamped, Low, High

\* A request answered: what was true of all on their way stays true.
LEMMA AskedShrinks ==
  ASSUME TypeOK, asked # <<>>, asked' = Tail(asked)
  PROVE  (Profits => Profits') /\ (Books => Books' /\ Head(asked).by = "book")
         /\ (Profits /\ Head(asked).by = "manager" => Head(asked).sl >= 0)
<1>1. asked \in Seq(Messages) /\ Len(asked) \in Nat \ {0} /\ Head(asked) = asked[1]
  BY DEF TypeOK
<1>2. Len(asked') = Len(asked) - 1 /\ \A i \in 1 .. Len(asked') : asked'[i] = asked[i + 1]
  BY <1>1, HeadTailProperties
<1> QED
  BY <1>1, <1>2 DEF Profits, Books

\* A request sent: what is true of it and of the others is true of all.
LEMMA AskedGrows ==
  ASSUME TypeOK, NEW m \in Messages, asked' = Append(asked, m)
  PROVE  /\ Profits /\ (m.by = "manager" => m.sl >= 0) => Profits'
         /\ Books /\ m.by = "book" => Books'
<1>1. asked \in Seq(Messages) /\ Len(asked) \in Nat
  BY DEF TypeOK
<1>2. /\ Len(asked') = Len(asked) + 1 /\ asked'[Len(asked) + 1] = m
      /\ \A i \in 1 .. Len(asked) : asked'[i] = asked[i]
  BY <1>1, AppendProperties
<1> QED
  BY <1>1, <1>2 DEF Profits, Books

\* An amend by anybody but the manager needs no level.
LEMMA Sends ==
  ASSUME TypeOK, NEW by \in {"manager", "restore", "desk"}, NEW sl \in Int, Send(by, sl),
         Profits, by = "manager" => sl >= 0
  PROVE  Profits'
<1>1. Amend(by, sl) \in Messages /\ Amend(by, sl).by = by /\ Amend(by, sl).sl = sl
  BY DEF Amend, Messages
<1>2. CASE asked' = asked
  BY <1>2 DEF Profits
<1>3. CASE asked' = Append(asked, Amend(by, sl))
  BY <1>1, <1>3, AskedGrows
<1> QED
  BY <1>2, <1>3 DEF Send

\* A message received.
LEMMA WireShrinks ==
  ASSUME TypeOK, wire # <<>>, wire' = Tail(wire), Firsts
  PROVE  Firsts' /\ First(Head(wire).sl)
<1> DEFINE L == [list : BOOLEAN, sl : Int]
<1>1. wire \in Seq(L) /\ Len(wire) \in Nat \ {0} /\ Head(wire) = wire[1]
  BY DEF TypeOK
<1> HIDE DEF L
<1>2. Len(wire') = Len(wire) - 1 /\ \A i \in 1 .. Len(wire') : wire'[i] = wire[i + 1]
  BY <1>1, HeadTailProperties
<1> QED
  BY <1>1, <1>2 DEF Firsts, First

\* A message sent by the broker.
LEMMA WireGrows ==
  ASSUME TypeOK, NEW m \in [list : BOOLEAN, sl : Int], First(m.sl), Say(m), Firsts
  PROVE  Firsts'
<1> DEFINE L == [list : BOOLEAN, sl : Int]
<1>1. wire \in Seq(L) /\ Len(wire) \in Nat /\ m \in L
  BY DEF TypeOK
<1> HIDE DEF L
<1>2. CASE wire' = wire
  BY <1>2 DEF Firsts, First
<1>3. CASE wire' = Append(wire, m)
  <2>1. /\ Len(wire') = Len(wire) + 1 /\ wire'[Len(wire) + 1] = m
        /\ \A i \in 1 .. Len(wire) : wire'[i] = wire[i]
    BY <1>1, <1>3, AppendProperties
  <2> QED
    BY <1>1, <2>1 DEF Firsts, First
<1> QED
  BY <1>2, <1>3 DEF Say

-----------------------------------------------------------------------------
\* A session that amended is the one being committed.
LEMMA StepKeepsSessions ==
  ASSUME TypeOK, Sessions, [Next]_vars
  PROVE  Sessions'
<1>1. CASE Receive
  <2>1. row' = row \/ \E pos \in [in : BOOLEAN, sl : Int] : row' = Reconciled(pos)
    <3>1. CASE ~Head(wire).list
      BY <1>1, <3>1 DEF Receive, book
    <3>2. CASE Head(wire).list
      <4>1. row' = Reconciled(cache') /\ cache' \in [in : BOOLEAN, sl : Int]
        BY <1>1, <3>2, StepKeepsTypes DEF Receive, TypeOK
      <4> QED
        BY <4>1
    <3> QED
      BY <3>1, <3>2
  <2> QED
    BY <1>1, <2>1, Rows DEF Receive, Sessions, poller
<1>2. CASE Reconcile
  <2>1. (row' = row \/ row' = Reconciled(snap)) /\ pc' = "exits"
    BY <1>2 DEF Reconcile
  <2>2. snap \in [in : BOOLEAN, sl : Int] /\ ~session.sent /\ session' = session
    BY <1>2 DEF Reconcile, TypeOK, Sessions
  <2> QED
    BY <2>1, <2>2, Rows DEF Sessions
<1>3. CASE Exits
  <2>1. CASE up /\ cache.in /\ row.in /\ Original # NoR
    <3> DEFINE act == Managed(Original) /\ Sent(Clamped(Target(Original)))
    <3>1. session' = [r |-> Original, sent |-> act] /\ pc' = "commit" /\ row' = row
      BY <1>3, <2>1, Zenon DEF Exits, book
    <3> HIDE DEF act
    <3>2. session'.r = Original
      BY <3>1
    <3>3. row.r # NoR => Original = row.r
      BY DEF Original
    <3> QED
      BY <2>1, <3>1, <3>2, <3>3, Zenon DEF Sessions
  <2>2. CASE ~(up /\ cache.in /\ row.in /\ Original # NoR)
    BY <1>3, <2>2, Zenon DEF Exits, Sessions, book
  <2> QED
    BY <2>1, <2>2
<1>4. CASE Commit
  <2>1. session' = NoWork /\ ~NoWork.sent /\ pc' = "idle"
    BY <1>4 DEF Commit, NoWork
  <2>2. CASE row' = row
    BY <2>1, <2>2 DEF Sessions
  <2>3. CASE row' = [row EXCEPT !.r = session.r]
    <3>1. row.in
      BY <1>4 DEF Commit, Sessions
    <3>2. row'.in
      BY <2>3, <3>1 DEF TypeOK
    <3> QED
      BY <2>1, <3>2 DEF Sessions
  <2> QED
    BY <1>4, <2>2, <2>3 DEF Commit
<1>5. CASE Restart
  BY <1>5 DEF Restart, Sessions, NoWork
<1>6. CASE Poll \/ Again \/ Restore
  BY <1>6 DEF Poll, Again, Restore, Sessions, book
<1>7. CASE Answer \/ Reconnect \/ Redial \/ Rested \/ Lost \/ (\E m \in Marks : Move(m))
           \/ (\E sl \in DeskStops \cup {NoStop} : Desk(sl)) \/ UNCHANGED vars
  BY <1>7 DEF Answer, Reconnect, Redial, Rested, Lost, Move, Desk, Sessions, book, poller, vars
<1> QED
  BY <1>1, <1>2, <1>3, <1>4, <1>5, <1>6, <1>7 DEF Next, Socket, Poller

\* A row keeps the R it has.
LEMMA StepKeepsR ==
  ASSUME TypeOK, Sessions, [Next]_vars, Known
  PROVE  row'.r = row.r
<1>1. CASE Receive
  <2>1. CASE ~Head(wire).list
    BY <1>1, <2>1 DEF Receive, book
  <2>2. CASE Head(wire).list
    <3>1. row' = Reconciled(cache') /\ cache' \in [in : BOOLEAN, sl : Int]
      BY <1>1, <2>2, StepKeepsTypes DEF Receive, TypeOK
    <3> QED
      BY <3>1, Rows DEF Known
  <2> QED
    BY <2>1, <2>2
<1>2. CASE Reconcile
  <2>1. (row' = row \/ row' = Reconciled(snap)) /\ snap \in [in : BOOLEAN, sl : Int]
    BY <1>2 DEF Reconcile, TypeOK
  <2> QED
    BY <2>1, Rows DEF Known
<1>3. CASE Commit
  <2>1. session.r = row.r /\ (row' = row \/ row' = [row EXCEPT !.r = session.r])
    BY <1>3 DEF Commit, Sessions, Known
  <2> QED
    BY <2>1 DEF TypeOK
<1>4. CASE UNCHANGED row
  BY <1>4
<1> QED
  BY <1>1, <1>2, <1>3, <1>4 DEF Next, Socket, Poller, Answer, Reconnect, Poll, Restore, Again, Exits, Rested, Move,
     Desk, Lost, Restart, Redial, vars, book

\* What the manager sends protects a profit, until it measures an R inside the
\* stop level.
LEMMA StepKeepsProfits ==
  ASSUME TypeOK, Profits, [Next]_vars, ~tight'
  PROVE  Profits'
<1>1. CASE Exits
  <2>1. CASE up /\ cache.in /\ row.in /\ Original # NoR
    <3>1. Original \in Nat /\ Original >= MinDist
      <4>1. tight' = (tight \/ Original < MinDist)
        BY <1>1, <2>1, Zenon DEF Exits
      <4>2. Original \in Nat
        BY Levels, Absent
      <4>3. ~(Original < MinDist)
        BY <4>1, Zenon
      <4> QED
        BY <4>2, <4>3, Bounds
    <3>2. CASE Managed(Original) /\ Sent(Clamped(Target(Original)))
      <4>1. Send("manager", Clamped(Target(Original)))
        BY <1>1, <2>1, <3>2, Zenon DEF Exits
      <4>2. Clamped(Target(Original)) \in Int /\ Clamped(Target(Original)) >= 0
        BY <3>1, <3>2, Levels, AboveEntry
      <4> QED
        BY <4>1, <4>2, Sends
    <3>3. CASE ~(Managed(Original) /\ Sent(Clamped(Target(Original))))
      <4>1. asked' = asked
        BY <1>1, <2>1, <3>3, Zenon DEF Exits
      <4> QED
        BY <4>1 DEF Profits
    <3> QED
      BY <3>2, <3>3
  <2>2. CASE ~(up /\ cache.in /\ row.in /\ Original # NoR)
    <3>1. asked' = asked
      BY <1>1, <2>2, Zenon DEF Exits
    <3> QED
      BY <3>1 DEF Profits
  <2> QED
    BY <2>1, <2>2
<1>2. CASE Restore
  <2>1. CASE Send("restore", MissingStop)
    BY <2>1, Levels, Sends, Absent
  <2>2. CASE asked' = asked
    BY <2>2 DEF Profits
  <2> QED
    BY <1>2, <2>1, <2>2 DEF Restore
<1>3. ASSUME NEW sl \in DeskStops \cup {NoStop}, Desk(sl) PROVE Profits'
  <2>1. sl \in Int /\ Send("desk", sl)
    BY <1>3, Bounds, Absent DEF Desk
  <2> QED
    BY <2>1, Sends
<1>4. CASE Receive
  <2>1. asked' = asked \/ asked' = Append(asked, Book)
    BY <1>4 DEF Receive
  <2>2. Book \in Messages /\ Book.by = "book"
    BY Absent DEF Book, Amend, Messages
  <2>3. CASE asked' = asked
    BY <2>3 DEF Profits
  <2>4. CASE asked' = Append(asked, Book)
    BY <2>2, <2>4, AskedGrows
  <2> QED
    BY <2>1, <2>3, <2>4
<1>5. CASE Answer
  BY <1>5, AskedShrinks DEF Answer
<1>6. CASE Reconnect
  BY <1>6 DEF Reconnect, Profits, Book, Amend
<1>7. CASE Lost \/ Restart \/ Redial
  BY <1>7 DEF Lost, Restart, Redial, Profits
<1>8. CASE UNCHANGED asked
  BY <1>8 DEF Profits
<1> QED
  BY <1>1, <1>2, <1>3, <1>4, <1>5, <1>6, <1>7, <1>8 DEF Next, Socket, Poller, Poll, Again, Reconcile, Commit, Rested,
     Move, vars

\* What is measured, or was, is the entry's R.
LEMMA StepKeepsRecord ==
  ASSUME Inv, [Next]_vars, ~early'
  PROVE  Recorded'
<1> USE Bounds, Absent
<1>1. TypeOK /\ TypeOK' /\ Sessions /\ Sessions'
  BY StepKeepsTypes, StepKeepsSessions DEF Inv
<1>2. ~early
  BY DEF Next, Socket, Poller, Answer, Receive, Reconnect, Poll, Restore, Again, Reconcile, Exits,
     Commit, Rested, Move, Desk, Lost, Restart, Redial, past, vars
<1>3. Measured /\ InSession
  BY <1>2 DEF Inv, Recorded
<1>4. CASE Receive
  <2>1. wire # <<>> /\ wire' = Tail(wire)
    BY <1>4 DEF Receive
  <2>2. CASE Head(wire).list
    <3>1. /\ cache' = [in |-> TRUE, sl |-> Head(wire).sl] /\ row' = Reconciled(cache')
          /\ asked' = asked /\ UNCHANGED <<stop, snap, pc, session>>
      BY <1>4, <2>2, Zenon DEF Receive, broker, poller
    <3>2. cache' \in [in : BOOLEAN, sl : Int] /\ cache'.sl = Head(wire).sl
      BY <1>1, <3>1 DEF TypeOK
    <3>3. /\ row'.r = (IF row.in THEN row.r ELSE NoR) /\ row'.in
          /\ row'.sl \in {row.sl, cache'.sl, NoStop}
      BY <1>1, <3>1, <3>2, Rows
    <3>4. Untouched => Untouched'
      BY <1>1, <2>1, <3>1, <3>2, <3>3, WireShrinks DEF Untouched, First, Books
    <3>5. Measured'
      BY <1>1, <1>3, <3>1, <3>3, <3>4 DEF Measured, Known, Sessions
    <3> QED
      BY <1>3, <3>1, <3>5 DEF Recorded, InSession
  <2>3. CASE ~Head(wire).list
    <3>1. asked' = Append(asked, Book) /\ UNCHANGED <<stop, cache, row, snap, pc, session>>
      BY <1>4, <2>3 DEF Receive, book, broker, poller
    <3>2. Book \in Messages /\ Book.by = "book"
      BY DEF Book, Amend, Messages
    <3>3. Untouched => Untouched'
      BY <1>1, <1>3, <2>1, <3>1, <3>2, AskedGrows, WireShrinks DEF Untouched, First
    <3> QED
      BY <1>3, <3>1, <3>3 DEF Recorded, Measured, Known, InSession
  <2> QED
    BY <2>2, <2>3
<1>5. CASE Answer
  <2>1. /\ asked # <<>> /\ asked' = Tail(asked)
        /\ UNCHANGED <<row, cache, snap, pc, session>>
    BY <1>5 DEF Answer, book, poller
  <2>2. ASSUME Untouched PROVE Untouched'
    <3>1. Books' /\ Head(asked).by = "book"
      BY <1>1, <2>1, <2>2, AskedShrinks DEF Untouched
    <3>2. stop' = stop /\ Say([list |-> TRUE, sl |-> stop])
      BY <1>5, <3>1 DEF Answer
    <3>3. Firsts'
      BY <1>1, <2>2, <3>2, WireGrows DEF Untouched, TypeOK
    <3> QED
      BY <2>1, <2>2, <3>1, <3>2, <3>3 DEF Untouched, First
  <2> QED
    BY <1>3, <2>1, <2>2 DEF Recorded, Measured, Known, InSession
<1>6. CASE Reconnect
  <2>1. asked' = <<Book>> /\ UNCHANGED <<wire, stop, row, cache, snap, pc, session>>
    BY <1>6 DEF Reconnect, broker, book, poller
  <2>2. Books'
    BY <2>1 DEF Books, Book, Amend
  <2> QED
    BY <1>3, <2>1, <2>2 DEF Recorded, Measured, Untouched, First, Firsts, Known, InSession
<1>7. CASE Poll \/ Again
  BY <1>1, <1>3, <1>7 DEF Poll, Again, broker, book, Recorded, Measured, Untouched, First, Books,
     Firsts, Known, InSession
<1>8. CASE Restore
  <2>1. CASE Restoring /\ Known
    <3>1. UNCHANGED <<row, session>> /\ pc' = "again"
      BY <1>8, <2>1 DEF Restore, book
    <3> QED
      BY <1>3, <2>1, <3>1 DEF Recorded, Measured, Known, InSession
  <2>2. CASE ~(Restoring /\ Known)
    <3>1. asked' = asked /\ (snap' = snap \/ snap' = Away) /\ pc' # "commit"
      <4>1. CASE Restoring
        <5>1. Send("restore", MissingStop) /\ ~Sent(MissingStop) /\ snap' = Away /\ pc' = "again"
          BY <1>2, <1>8, <2>2, <4>1, Zenon DEF Restore
        <5> QED
          BY <5>1 DEF Send
      <4>2. CASE ~Restoring
        BY <1>8, <4>2 DEF Restore
      <4> QED
        BY <4>1, <4>2
    <3>2. UNCHANGED <<stop, wire, cache, row, session>>
      BY <1>8 DEF Restore, broker, book
    <3>3. Away.sl = NoStop
      BY DEF Away
    <3> QED
      BY <1>3, <3>1, <3>2, <3>3 DEF Recorded, Measured, Untouched, First, Books, Firsts, Known, InSession
  <2> QED
    BY <2>1, <2>2
<1>9. CASE Reconcile
  <2>1. /\ row' = (IF snap.in THEN Reconciled(snap) ELSE row) /\ pc = "reconcile" /\ pc' = "exits"
        /\ snap' = Away /\ UNCHANGED <<stop, asked, wire, cache, session>>
    BY <1>9 DEF Reconcile, broker
  <2>2. /\ row'.r = (IF row.in THEN row.r ELSE NoR) /\ (row.in => row'.in)
        /\ row'.sl \in {row.sl, snap.sl, NoStop}
    BY <1>1, <2>1, Rows DEF TypeOK, Sessions
  <2>3. ~session.sent /\ Away.sl = NoStop
    BY <1>1, <2>1 DEF Sessions, Away
  <2> QED
    BY <1>1, <1>3, <2>1, <2>2, <2>3 DEF Recorded, Measured, Untouched, First, Books, Firsts, Known,
       InSession, Sessions
<1>10. CASE Exits
  <2>1. pc = "exits" /\ ~session.sent /\ UNCHANGED <<stop, wire, row, cache, snap>>
    BY <1>1, <1>10 DEF Exits, broker, book, Sessions
  <2>2. CASE up /\ cache.in /\ row.in /\ Original # NoR
    <3>1. Original = R0
      BY <1>1, <1>3, <2>1, <2>2, MeasuredIsFirst
    <3> DEFINE act == Managed(R0) /\ Sent(Clamped(Target(R0)))
    <3>2. /\ IF act THEN Send("manager", Clamped(Target(R0))) ELSE UNCHANGED asked
          /\ session' = [r |-> R0, sent |-> act] /\ pc' = "commit"
      BY <1>10, <2>2, <3>1, Zenon DEF Exits
    <3> HIDE DEF act
    <3>3. session'.r = R0 /\ session'.sent = act
      BY <3>2
    <3>4. CASE act
      <4>1. Measured'
        BY <1>3, <2>1, <2>2, <3>3, <3>4 DEF Measured, Known, Sessions
      <4> QED
        BY <3>2, <3>3, <4>1 DEF Recorded, InSession
    <3>5. CASE ~act
      BY <1>3, <2>1, <3>2, <3>3, <3>5 DEF Recorded, Measured, Untouched, First, Books, Firsts,
         Known, InSession
    <3> QED
      BY <3>4, <3>5
  <2>3. CASE ~(up /\ cache.in /\ row.in /\ Original # NoR)
    <3>1. pc' = "idle" /\ UNCHANGED <<asked, session>>
      BY <1>10, <2>3, Zenon DEF Exits
    <3> QED
      BY <1>3, <2>1, <3>1 DEF Recorded, Measured, Untouched, First, Books, Firsts, Known, InSession,
         Profits
  <2> QED
    BY <2>2, <2>3
<1>11. CASE Commit
  <2>1. /\ pc = "commit" /\ pc' = "idle" /\ row.in /\ session.r = R0
        /\ UNCHANGED <<stop, asked, wire, cache, snap>>
    BY <1>1, <1>3, <1>11 DEF Commit, broker, Sessions, InSession
  <2>2. CASE row' = [row EXCEPT !.r = session.r]
    <3>1. row'.r = R0 /\ row'.in
      BY <1>1, <2>1, <2>2 DEF TypeOK
    <3> QED
      BY <1>3, <2>1, <3>1 DEF Recorded, Measured, Known, InSession, NoR
  <2>3. CASE row' = row /\ early' = (early \/ (session.sent /\ ~Known))
    <3>1. ~session.sent \/ Known
      BY <2>3
    <3> QED
      BY <1>3, <2>1, <2>3, <3>1 DEF Recorded, Measured, Untouched, First, Books, Firsts, Known,
         InSession
  <2> QED
    BY <1>11, <2>2, <2>3 DEF Commit
<1>12. ASSUME NEW sl \in DeskStops \cup {NoStop}, Desk(sl) PROVE Recorded'
  <2>1. Known /\ UNCHANGED <<row, pc, session>>
    BY <1>2, <1>12 DEF Desk, book, poller
  <2> QED
    BY <1>3, <2>1 DEF Recorded, Measured, Known, InSession
<1>13. CASE Lost \/ Redial
  <2>1. asked' = <<>> /\ wire' = <<>> /\ UNCHANGED <<stop, row, cache, snap, pc, session>>
    BY <1>13 DEF Lost, Redial, broker, book, poller
  <2> QED
    BY <1>3, <2>1 DEF Recorded, Measured, Untouched, First, Books, Firsts, Known, InSession
<1>14. CASE Restart
  <2>1. /\ asked' = <<>> /\ wire' = <<>> /\ cache' = Away /\ snap' = Away /\ pc' = "idle"
        /\ UNCHANGED <<stop, row>> /\ (~session.sent \/ Known)
    BY <1>14 DEF Restart, broker
  <2>2. Away.sl = NoStop
    BY DEF Away
  <2> QED
    BY <1>3, <2>1, <2>2 DEF Recorded, Measured, Untouched, First, Books, Firsts, Known, InSession
<1>15. CASE Rested \/ (\E m \in Marks : Move(m)) \/ UNCHANGED vars
  BY <1>3, <1>15 DEF Rested, Move, vars, broker, book, poller, Recorded, Measured, Untouched, First, Books, Firsts,
     Known, InSession
<1> QED
  BY <1>4, <1>5, <1>6, <1>7, <1>8, <1>9, <1>10, <1>11, <1>12, <1>13, <1>14, <1>15
     DEF Next, Socket, Poller

\* An R inside the stop level stays measured.
LEMMA StaysTight ==
  ASSUME [Next]_vars, ~tight'
  PROVE  ~tight
BY DEF Next, Socket, Poller, Answer, Receive, Reconnect, Poll, Restore, Again, Reconcile, Exits, Commit, Rested, Move,
   Desk, Lost, Restart, Redial, past, vars

\* The invariant at the start and after every step.
LEMMA Invariance == Spec => []Inv
<1>1. Init => Inv
  <2> SUFFICES ASSUME Init PROVE Inv
    OBVIOUS
  <2>1. TypeOK
    <3>1. stop \in Int /\ mark \in Marks /\ -R0 \in Int
      BY Bounds, Absent DEF Init
    <3>2. row \in [in : BOOLEAN, sl : Int, r : Nat] /\ cache \in [in : BOOLEAN, sl : Int]
      <4>1. cache = [in |-> TRUE, sl |-> stop] /\ row \in {NoRow, [in |-> TRUE, sl |-> -R0, r |-> NoR]}
        BY DEF Init
      <4>2. [in |-> TRUE, sl |-> -R0, r |-> NoR] \in [in : BOOLEAN, sl : Int, r : Nat]
        BY <3>1, Absent
      <4>3. [in |-> TRUE, sl |-> stop] \in [in : BOOLEAN, sl : Int]
        BY <3>1
      <4> QED
        BY <4>1, <4>2, <4>3, Absent, Zenon
    <3>3. Away \in [in : BOOLEAN, sl : Int] /\ NoWork \in [r : Nat, sent : BOOLEAN]
          /\ <<>> \in Seq(Messages) /\ <<>> \in Seq([list : BOOLEAN, sl : Int])
      BY Absent DEF Away, NoWork
    <3>4. {up, dry, resting, early, tight} \subseteq BOOLEAN
      BY DEF Init
    <3>5. 0 \in 0 .. MaxAmends /\ 0 \in 0 .. MaxFaults
      BY Bounds
    <3> QED
      BY <3>1, <3>2, <3>3, <3>4, <3>5 DEF Init, TypeOK
  <2>2. /\ First(stop) /\ First(row.sl) /\ First(cache.sl) /\ First(snap.sl) /\ row.r = NoR
        /\ ~session.sent
    BY Bounds, Absent DEF Init, First, Away, NoWork
  <2> QED
    BY <2>1, <2>2 DEF Init, Inv, Sessions, Recorded, Measured, Untouched, Books, Firsts, InSession,
       Profits
<1>2. Inv /\ [Next]_vars => Inv'
  BY StepKeepsTypes, StepKeepsSessions, StepKeepsProfits, StepKeepsRecord, StaysTight DEF Inv
<1> QED
  BY <1>1, <1>2, PTL DEF Spec

\* Every variable of the position and its exit manager stays in its range.
THEOREM TypeCorrect == Spec => []TypeOK
  BY Invariance, PTL DEF Inv

\* R on record is the distance of the entry's stop, unless an amend of the desk or a
\* restored stop went out before any R was recorded, or one of the manager whose
\* own session then failed to record it (_original_r_distance and the commit).
THEOREM RIsTheEntrys == Spec => []RIsOriginal
<1>1. Inv => RIsOriginal
  BY DEF Inv, Recorded, Measured, RIsOriginal, Known
<1> QED
  BY <1>1, Invariance, PTL

\* Whatever it is, R on record never changes: not by amends of anybody, lists of
\* positions, failed commits or restarts ("persisted so amends never shrink R").
THEOREM RNeverShrinks == Spec => [][Known => row'.r = row.r]_vars
<1>1. Inv /\ [Next]_vars => [Known => row'.r = row.r]_vars
  BY StepKeepsR DEF Inv
<1> QED
  BY <1>1, Invariance, PTL DEF Spec

\* The manager never takes a stop that protects a profit back to the losing side,
\* however stale the cache it compares with and whatever R it measured, as long as
\* that R is not inside the stop level.
THEOREM LocksProfit == Spec => LockKept
<1>1. Inv /\ [Next]_vars => [stop >= 0 /\ stop' < 0 => tight \/ Head(asked).by # "manager"]_vars
  <2> SUFFICES ASSUME Inv, Next, stop >= 0, stop' < 0, ~tight PROVE Head(asked).by # "manager"
    BY DEF vars
  <2>1. TypeOK /\ Profits
    BY DEF Inv
  <2>2. stop' # stop
    BY <2>1 DEF TypeOK
  <2>3. Answer
    BY <2>2 DEF Next, Socket, Poller, Receive, Reconnect, Poll, Restore, Again, Reconcile, Exits,
       Commit, Rested, Move, Desk, Lost, Restart, Redial, broker
  <2>4. asked # <<>> /\ asked' = Tail(asked) /\ stop' = Head(asked).sl
    BY <2>2, <2>3 DEF Answer
  <2> QED
    <3>1. stop' \in Int
      BY <2>1, StepKeepsTypes DEF TypeOK
    <3>2. Head(asked).by = "manager" => Head(asked).sl >= 0
      BY <2>1, <2>4, AskedShrinks
    <3> QED
      BY <2>4, <3>1, <3>2
<1> QED
  BY <1>1, Invariance, PTL DEF Spec, LockKept
=============================================================================
