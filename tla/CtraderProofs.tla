--------------------------- MODULE CtraderProofs ---------------------------
(***************************************************************************)
(* Theorems about the cTrader book and the cTrader session, for every      *)
(* number of orders, rows, sockets, reconnect threads and faults.          *)
(*                                                                         *)
(* The book: the cache follows the broker because every event asks for the *)
(* list again.  And lists and fills come in one order: behind a list that  *)
(* lacks an open position its fill is still on its way, so the reactor     *)
(* thread closes the only row of an open position at most for that long.   *)
(***************************************************************************)
EXTENDS CtraderBook, CtraderSession, SequenceTheorems, WellFoundedInduction, TLAPS

-----------------------------------------------------------------------------
\* The book.

Message == [t : {"accepted", "filled", "ended", "closed", "error", "list"}, of : Order \cup {NoId}, live : SUBSET Order]
TradeRow == [sym : Sym \cup {"none"}, pid : Order \cup {NoId}, young : BOOLEAN]
Kinds == {"none", "open", "closed"}

\* The types of the variables, by these names.
Typed ==
  /\ sym \in [Order -> Sym] /\ open \subseteq Order /\ working \subseteq Order /\ up \in BOOLEAN
  /\ cache \subseteq Order /\ asked \in Seq(Order \cup {Book}) /\ wire \in Seq(Message)
  /\ deals \in [Order \cup Sym -> Kinds] /\ call \in [Order -> {"new", "tried", "failed"}]
  /\ loop \in JobType /\ react \in JobType /\ react.pc \in {"idle", "commit"}
  /\ (loop.pid # NoId => loop.got = "ok")
  /\ (snap = NoSnap \/ snap \subseteq Order) /\ rows \in [RowId -> TradeRow] /\ mishaps \in 0 .. MaxMishaps


\* Numbers of orders and of rows begin at 1.
LEMMA Numbers ==
  /\ Order \subseteq Nat /\ RowId \subseteq Nat /\ 0 \notin Order /\ 0 \notin RowId /\ NoId = 0 /\ Book = 0
  /\ NoRow \in TradeRow /\ NoJob \in JobType /\ 1 .. Old \subseteq Order /\ 1 .. Old \subseteq RowId
<1>1. Orders \in Nat /\ Slots \in Nat /\ Old \in 0 .. Orders /\ Old <= Slots
  BY BookAssumption DEF BookAssumption
<1>2. NoId \in Order \cup {NoId}
  OBVIOUS
<1> QED
  BY <1>1, <1>2 DEF Order, RowId, NoId, Book, NoRow, TradeRow, NoJob, JobType

\* They are the type invariant.
LEMMA Types ==
  BookTypeOK <=> Typed
  BY Zenon DEF BookTypeOK, Typed, Message, TradeRow, Kinds

-----------------------------------------------------------------------------
\* A message to the client comes behind those on their way.
LEMMA Said ==
  ASSUME wire \in Seq(Message), NEW m \in Message, Say(m)
  PROVE  /\ wire' \in Seq(Message) /\ Len(wire) \in Nat /\ Len(wire') \in Nat
         /\ Len(wire) <= Len(wire') /\ \A i \in 1 .. Len(wire) : wire'[i] = wire[i]
         /\ \A i \in 1 .. Len(wire') : i > Len(wire) => wire'[i] = m
         /\ up => Len(wire') = Len(wire) + 1 /\ wire'[Len(wire')] = m
         /\ ~up => wire' = wire
<1>1. Len(wire) \in Nat
  BY LenProperties
<1>2. CASE up
  <2>1. wire' = Append(wire, m)
    BY <1>2 DEF Say
  <2>2. /\ Append(wire, m) \in Seq(Message) /\ Len(Append(wire, m)) = Len(wire) + 1
        /\ \A i \in 1 .. Len(wire) : Append(wire, m)[i] = wire[i]
    BY AppendProperties
  <2>3. Append(wire, m)[Len(wire) + 1] = m
    BY AppendProperties
  <2> QED
    BY <1>1, <1>2, <2>1, <2>2, <2>3
<1>3. CASE ~up
  BY <1>1, <1>3 DEF Say
<1> QED
  BY <1>2, <1>3

\* A message about an order, or a list.
LEMMA MessageTypes ==
  /\ \A t \in {"accepted", "filled", "ended", "closed", "error"}, o \in Order : Msg(t, o) \in Message /\ Msg(t, o).t = t
  /\ \A live \in SUBSET Order : List(live) \in Message
  BY DEF Msg, List, Message

\* The message that is handled.
LEMMA Taken ==
  ASSUME wire \in Seq(Message), wire # <<>>, wire' = Tail(wire)
  PROVE  /\ wire' \in Seq(Message) /\ Len(wire) \in Nat \ {0} /\ Len(wire') = Len(wire) - 1 /\ Head(wire) = wire[1]
         /\ Head(wire) \in Message /\ \A i \in 1 .. Len(wire') : wire'[i] = wire[i + 1]
<1>1. Len(wire) \in Nat \ {0}
  BY EmptySeq
<1> QED
  BY <1>1, HeadTailProperties

\* The list of positions is asked for, unless it is the last thing asked for.
LEMMA AsksList ==
  ASSUME asked \in Seq(Order \cup {Book})
  PROVE  /\ Asking \in Seq(Order \cup {Book}) /\ Len(asked) \in Nat
         /\ \E i \in 1 .. Len(Asking) : Asking[i] = Book
         /\ Len(asked) <= Len(Asking) /\ \A i \in 1 .. Len(asked) : Asking[i] = asked[i]
         /\ \A i \in 1 .. Len(Asking) : i > Len(asked) => Asking[i] = Book
<1>1. Len(asked) \in Nat /\ (asked # <<>> => Len(asked) \in Nat \ {0})
  BY LenProperties, EmptySeq
<1>2. CASE asked # <<>> /\ asked[Len(asked)] = Book
  BY <1>1, <1>2 DEF Asking
<1>3. CASE ~(asked # <<>> /\ asked[Len(asked)] = Book)
  <2>1. Asking = Append(asked, Book)
    BY <1>3, Zenon DEF Asking
  <2>2. /\ Append(asked, Book) \in Seq(Order \cup {Book}) /\ Len(Append(asked, Book)) = Len(asked) + 1
        /\ \A i \in 1 .. Len(asked) : Append(asked, Book)[i] = asked[i]
    BY <1>1
  <2>3. Append(asked, Book)[Len(asked) + 1] = Book
    BY <1>1
  <2> QED
    BY <1>1, <2>1, <2>2, <2>3
<1> QED
  BY <1>2, <1>3

-----------------------------------------------------------------------------
\* A plan commits, to the listed positions and the rows there are.
LEMMA Planned ==
  ASSUME rows \in [RowId -> TradeRow], NEW live \in SUBSET Order, NEW job \in Plans(live)
  PROVE  /\ job \in JobType /\ job.pc = "commit" /\ job.pid = NoId /\ job.got = "none"
         /\ job.new \subseteq live /\ \A r \in RowId, p \in Order : <<r, p>> \in job.adopt => p \in live
         /\ \E kept : Held(live) \subseteq kept /\ job.gone = Absent(live, kept)
<1>1. PICK f \in Adoptions(live) :
        job = LET kept == Held(live) \cup {f[p] : p \in DOMAIN f}
              IN [NoJob EXCEPT !.pc = "commit",
                   !.adopt = {<<f[p], p>> : p \in {q \in DOMAIN f : f[q] # 0}},
                   !.new = {p \in DOMAIN f : f[p] = 0},
                   !.gone = Absent(live, kept)]
  BY Zenon DEF Plans
<1> DEFINE kept == Held(live) \cup {f[p] : p \in DOMAIN f}
           adopt == {<<f[p], p>> : p \in {q \in DOMAIN f : f[q] # 0}}
           new == {p \in DOMAIN f : f[p] = 0}
           gone == Absent(live, kept)
<1>2. job = [NoJob EXCEPT !.pc = "commit", !.adopt = adopt, !.new = new, !.gone = gone]
  BY <1>1
<1>3. DOMAIN f \subseteq live /\ \A p \in DOMAIN f : f[p] \in OpenRows \cup {0}
  BY DEF Adoptions
<1>4. adopt \subseteq RowId \X Order /\ \A r \in RowId, p \in Order : <<r, p>> \in adopt => p \in live
  BY <1>3 DEF OpenRows
<1>5. new \subseteq live /\ gone \subseteq RowId /\ Held(live) \subseteq kept
  BY <1>3 DEF Absent, OpenRows
<1> HIDE DEF adopt, new, gone, kept
<1>6. /\ job.pc = "commit" /\ job.adopt = adopt /\ job.new = new /\ job.gone = gone /\ job.of = NoId /\ job.got = "none"
      /\ job.pid = NoId
      /\ job = [pc |-> "commit", of |-> NoId, got |-> "none", pid |-> NoId, adopt |-> adopt, new |-> new, gone |-> gone]
  BY <1>2, Zenon DEF NoJob
<1>7. job \in JobType
  BY <1>4, <1>5, <1>6 DEF JobType
<1> QED
  BY <1>4, <1>5, <1>6, <1>7 DEF gone

\* A job that goes on to its insertion keeps what it was answered.
LEMMA Inserting ==
  ASSUME NEW j \in JobType
  PROVE  LET k == [j EXCEPT !.pc = "insert"] IN k \in JobType /\ k.pid = j.pid /\ k.got = j.got
  BY DEF JobType

\* A commit leaves rows, with the position ids they had or the plan has for them.
LEMMA Committed ==
  ASSUME rows \in [RowId -> TradeRow], sym \in [Order -> Sym], NEW job \in JobType, Commit(job)
  PROVE  /\ rows' \in [RowId -> TradeRow]
         /\ \A r \in RowId, p \in Order : rows'[r].pid = p =>
              rows[r].pid = p \/ p \in job.new \/ \E s \in RowId : <<s, p>> \in job.adopt
<1>1. PICK at \in Placed(job.new) :
    rows' = [r \in RowId |->
      IF \E p \in job.new : at[p] = r
      THEN LET p == CHOOSE p \in job.new : at[p] = r IN [sym |-> sym[p], pid |-> p, young |-> FALSE]
      ELSE IF r \in job.gone \/ rows[r] = NoRow THEN NoRow
      ELSE IF \E p \in Order : <<r, p>> \in job.adopt
      THEN [rows[r] EXCEPT !.pid = CHOOSE p \in Order : <<r, p>> \in job.adopt, !.young = FALSE]
      ELSE rows[r]]
  BY DEF Commit
<1>2. job.new \subseteq Order
  BY DEF JobType
<1>3. ASSUME NEW r \in RowId
      PROVE  /\ rows'[r] \in TradeRow
             /\ \A p \in Order : rows'[r].pid = p =>
                  rows[r].pid = p \/ p \in job.new \/ \E s \in RowId : <<s, p>> \in job.adopt
  <2>1. CASE \E p \in job.new : at[p] = r
    <3> DEFINE q == CHOOSE p \in job.new : at[p] = r
    <3>1. q \in job.new
      BY <2>1
    <3>2. rows'[r] = [sym |-> sym[q], pid |-> q, young |-> FALSE]
      BY <1>1, <2>1
    <3> HIDE DEF q
    <3> QED
      BY <1>2, <3>1, <3>2 DEF TradeRow
  <2>2. CASE ~(\E p \in job.new : at[p] = r) /\ (r \in job.gone \/ rows[r] = NoRow)
    <3>1. rows'[r] = NoRow
      BY <1>1, <2>2
    <3> QED
      BY <3>1, Numbers DEF NoRow
  <2>3. CASE /\ ~(\E p \in job.new : at[p] = r) /\ ~(r \in job.gone \/ rows[r] = NoRow)
             /\ \E p \in Order : <<r, p>> \in job.adopt
    <3> DEFINE q == CHOOSE p \in Order : <<r, p>> \in job.adopt
    <3>1. q \in Order /\ <<r, q>> \in job.adopt
      BY <2>3
    <3>2. rows'[r] = [rows[r] EXCEPT !.pid = q, !.young = FALSE]
      BY <1>1, <2>3
    <3> HIDE DEF q
    <3>3. rows[r] \in TradeRow
      OBVIOUS
    <3>4. rows'[r] \in TradeRow /\ rows'[r].pid = q
      BY <3>1, <3>2, <3>3 DEF TradeRow
    <3> QED
      BY <3>1, <3>4
  <2>4. CASE /\ ~(\E p \in job.new : at[p] = r) /\ ~(r \in job.gone \/ rows[r] = NoRow)
             /\ ~(\E p \in Order : <<r, p>> \in job.adopt)
    BY <1>1, <2>4
  <2> QED
    BY <2>1, <2>2, <2>3, <2>4
<1> QED
  BY <1>1, <1>3

-----------------------------------------------------------------------------
\* Every action keeps the types: what a plan adopts and inserts are orders that
\* were listed, and only an answer that is no error has a position id.
THEOREM BookTyping == BookSpec => []BookTypeOK
<1>1. BookInit => BookTypeOK
  <2> SUFFICES ASSUME BookInit PROVE BookTypeOK
    OBVIOUS
  <2>1. /\ open = 1 .. Old /\ cache = open /\ sym \in [Order -> Sym] /\ up = TRUE /\ snap = NoSnap
        /\ deals = NoDeals /\ loop = NoJob /\ react = NoJob /\ mishaps = 0 /\ working = {}
    BY DEF BookInit
  <2>2. asked \in Seq(Order \cup {Book}) /\ wire \in Seq(Message)
    BY EmptySeq DEF BookInit
  <2>3. deals \in [Order \cup Sym -> Kinds]
    BY <2>1 DEF NoDeals, Kinds
  <2>4. call \in [Order -> {"new", "tried", "failed"}]
    BY DEF BookInit
  <2>5. rows \in [RowId -> TradeRow]
    <3>1. rows = [r \in RowId |-> IF r \in open THEN [sym |-> sym[r], pid |-> r, young |-> FALSE] ELSE NoRow]
      BY DEF BookInit
    <3>2. ASSUME NEW r \in RowId
          PROVE  (IF r \in open THEN [sym |-> sym[r], pid |-> r, young |-> FALSE] ELSE NoRow) \in TradeRow
      <4>1. CASE r \in open
        <5>1. r \in Order
          BY <2>1, <4>1, Numbers
        <5>2. sym[r] \in Sym
          BY <2>1, <5>1
        <5> QED
          BY <4>1, <5>1, <5>2 DEF TradeRow
      <4>2. CASE r \notin open
        BY <4>2, Numbers
      <4> QED
        BY <4>1, <4>2
    <3> QED
      BY <3>1, <3>2
  <2>6. mishaps \in 0 .. MaxMishaps
    BY <2>1, BookAssumption DEF BookAssumption
  <2>7. NoJob.pc = "idle" /\ NoJob.pid = NoId /\ NoJob \in JobType
    BY Numbers DEF NoJob
  <2>8. Typed
    BY <2>1, <2>2, <2>3, <2>4, <2>5, <2>6, <2>7, Numbers DEF Typed
  <2> QED
    BY <2>8, Types
<1>2. BookTypeOK /\ [BookNext]_bookVars => BookTypeOK'
  <2> SUFFICES ASSUME BookTypeOK, [BookNext]_bookVars PROVE BookTypeOK'
    OBVIOUS
  <2>1. Typed
    BY Types
  <2>2. Typed' => BookTypeOK'
    BY Types, PTL
  <2>3. SUFFICES Typed'
    BY <2>2
  <2> USE DEF Typed
  <2>4. ASSUME Mishap PROVE mishaps' \in 0 .. MaxMishaps
    BY <2>1, <2>4, BookAssumption DEF Mishap, BookAssumption
  <2>5. NoJob \in JobType /\ NoJob.pid = NoId /\ NoJob.pc = "idle"
    BY Numbers DEF NoJob
  <2>6. CASE Answer
    <3>1. asked' \in Seq(Order \cup {Book}) /\ Head(asked) \in Order \cup {Book}
      BY <2>1, <2>6, HeadTailProperties DEF Answer
    <3>2. wire' \in Seq(Message) /\ working' \subseteq Order
      <4>1. CASE Head(asked) = Book /\ Say(List(open)) /\ UNCHANGED working
        BY <2>1, <4>1, MessageTypes, Said
      <4>2. CASE Head(asked) # Book /\ Say(Msg("accepted", Head(asked))) /\ working' = working \cup {Head(asked)}
        BY <2>1, <3>1, <4>2, MessageTypes, Said
      <4>3. CASE Head(asked) # Book /\ Say(Msg("error", Head(asked))) /\ UNCHANGED working
        BY <2>1, <3>1, <4>3, MessageTypes, Said
      <4> QED
        BY <2>6, <4>1, <4>2, <4>3 DEF Answer
    <3> QED
      BY <2>1, <2>6, <3>1, <3>2 DEF Answer
  <2>22. ASSUME NEW o \in Order, Fill(o) PROVE Typed'
    <3>1. Msg("filled", o) \in Message /\ Msg("ended", o) \in Message
      BY MessageTypes
    <3>2. wire' \in Seq(Message) /\ open' \subseteq Order /\ working' \subseteq Order
      BY <2>1, <2>22, <3>1, Said DEF Fill
    <3> QED
      BY <2>1, <2>22, <3>2 DEF Fill
  <2>7. ASSUME NEW o \in Order, Close(o) PROVE Typed'
    <3>1. Msg("closed", o) \in Message
      BY MessageTypes
    <3>2. wire' \in Seq(Message)
      BY <2>1, <2>7, <3>1, Said DEF Close
    <3> QED
      BY <2>1, <2>7, <3>2 DEF Close
  <2>8. ASSUME NEW o \in Order, Place(o) PROVE Typed'
    <3>1. asked' \in Seq(Order \cup {Book})
      BY <2>1, <2>8 DEF Place
    <3>2. loop' = [NoJob EXCEPT !.pc = "wait", !.of = o]
      BY <2>8 DEF Place
    <3>3. loop' \in JobType /\ loop'.pid = NoId
      BY <3>2, Numbers DEF NoJob, JobType
    <3>4. call' \in [Order -> {"new", "tried", "failed"}]
      BY <2>1, <2>8 DEF Place
    <3> QED
      BY <2>1, <2>8, <3>1, <3>3, <3>4 DEF Place
  <2>9. ASSUME NEW o \in Order, Resume(o) PROVE Typed'
    <3>1. /\ call' \in [Order -> {"new", "tried", "failed"}]
          /\ loop' = NoJob \/ loop' = [loop EXCEPT !.pc = "insert"]
      BY <2>1, <2>9 DEF Resume
    <3>2. loop' \in JobType /\ (loop'.pid # NoId => loop'.got = "ok")
      <4>1. loop \in JobType /\ (loop.pid # NoId => loop.got = "ok")
        BY <2>1
      <4>2. CASE loop' = NoJob
        BY <2>5, <4>2
      <4>3. CASE loop' = [loop EXCEPT !.pc = "insert"]
        BY <4>1, <4>3, Inserting
      <4> QED
        BY <3>1, <4>2, <4>3
    <3> QED
      BY <2>1, <2>9, <3>1, <3>2 DEF Resume
  <2>10. ASSUME NEW o \in Order, Insert(o) PROVE Typed'
    <3>1. rows' \in [RowId -> TradeRow]
      <4>1. CASE UNCHANGED rows
        BY <2>1, <4>1
      <4>2. CASE ~UNCHANGED rows
        <5>1. PICK r \in RowId :
                rows' = [rows EXCEPT ![r] = [sym |-> sym[o], pid |-> loop.pid, young |-> loop.pid = NoId]]
          BY <2>10, <4>2 DEF Insert, Free
        <5> DEFINE y == loop.pid = NoId
        <5>2. [sym |-> sym[o], pid |-> loop.pid, young |-> y] \in TradeRow
          <6>1. y \in BOOLEAN /\ sym[o] \in Sym /\ loop.pid \in Order \cup {NoId}
            BY <2>1 DEF JobType
          <6> HIDE DEF y
          <6> QED
            BY <6>1 DEF TradeRow
        <5> HIDE DEF y
        <5>3. rows' = [rows EXCEPT ![r] = [sym |-> sym[o], pid |-> loop.pid, young |-> y]]
          BY <5>1 DEF y
        <5> QED
          BY <2>1, <5>2, <5>3
      <4> QED
        BY <4>1, <4>2
    <3>2. mishaps' \in 0 .. MaxMishaps
      BY <2>1, <2>4, <2>10 DEF Insert
    <3> QED
      BY <2>1, <2>5, <2>10, <3>1, <3>2 DEF Insert
  <2>11. ASSUME NEW r \in RowId, Age(r) PROVE Typed'
    <3>1. rows' = [rows EXCEPT ![r] = [rows[r] EXCEPT !.young = FALSE]]
      BY <2>11 DEF Age
    <3>2. [rows[r] EXCEPT !.young = FALSE] \in TradeRow
      BY <2>1 DEF TradeRow
    <3> QED
      BY <2>1, <2>11, <3>1, <3>2 DEF Age
  <2>12. CASE Event
    <3> DEFINE m == Head(wire)
    <3>1. wire' \in Seq(Message) /\ m \in Message
      BY <2>1, <2>12, Taken DEF Event
    <3>2. asked' \in Seq(Order \cup {Book})
      BY <2>1, <2>12, AsksList DEF Event, Refresh
    <3> HIDE DEF m
    <3>3. Ack(m) /\ deals' = CASE m.t = "filled" -> Deal(m.of, "open")
                             [] m.t = "closed" -> Deal(m.of, "closed")
                             [] OTHER -> deals
      BY <2>12, Zenon DEF Event, m
    <3>4. \A k \in Kinds : Deal(m.of, k) \in [Order \cup Sym -> Kinds]
      BY <2>1 DEF Deal
    <3>5. deals' \in [Order \cup Sym -> Kinds]
      BY <2>1, <3>3, <3>4 DEF Kinds
    <3>6. loop' \in JobType /\ (loop'.pid # NoId => loop'.got = "ok")
      <4>1. CASE UNCHANGED loop
        BY <2>1, <4>1
      <4>2. CASE loop.got = "none" /\ loop' = Heard(m)
        <5>1. loop' = [loop EXCEPT !.got = "error"] \/ loop' = [loop EXCEPT !.got = "ok", !.pid = m.of]
          BY <4>2 DEF Heard
        <5> QED
          BY <2>1, <3>1, <4>2, <5>1 DEF JobType, Message
      <4> QED
        BY <3>3, <4>1, <4>2 DEF Ack
    <3> QED
      BY <2>1, <2>12, <3>1, <3>2, <3>5, <3>6 DEF Event
  <2>13. CASE Reconcile
    <3>1. wire' \in Seq(Message) /\ Head(wire) \in Message
      BY <2>1, <2>13, Taken DEF Reconcile
    <3>2. Head(wire).live \in SUBSET Order /\ react' \in Plans(Head(wire).live) /\ cache' = Head(wire).live
      BY <2>13, <3>1 DEF Message, Reconcile, Listed
    <3>3. react' \in JobType /\ react'.pc = "commit"
      BY <2>1, <3>2, Planned
    <3> QED
      BY <2>1, <2>13, <3>1, <3>2, <3>3 DEF Reconcile
  <2>14. CASE ReactCommit
    BY <2>1, <2>5, <2>14, Committed DEF ReactCommit
  <2>15. CASE Snapshot
    BY <2>1, <2>15 DEF Snapshot
  <2>16. CASE Poll
    <3>1. snap \in SUBSET Order /\ loop' \in Plans(snap)
      BY <2>1, <2>16 DEF Poll
    <3>2. loop' \in JobType /\ loop'.pid = NoId
      BY <2>1, <3>1, Planned
    <3> QED
      BY <2>1, <2>16, <3>2 DEF Poll
  <2>17. CASE PollCommit
    BY <2>1, <2>5, <2>17, Committed DEF PollCommit
  <2>18. CASE Lose
    BY <2>1, <2>4, <2>18, EmptySeq DEF Lose
  <2>19. CASE Reconnect
    <3>1. <<Book>> \in Seq(Order \cup {Book})
      OBVIOUS
    <3> QED
      BY <2>1, <2>19, <3>1 DEF Reconnect
  <2>20. CASE Restart
    <3>1. NoDeals \in [Order \cup Sym -> Kinds]
      BY DEF NoDeals, Kinds
    <3> QED
      BY <2>1, <2>4, <2>5, <2>20, <3>1, EmptySeq DEF Restart
  <2>21. CASE UNCHANGED bookVars
    BY <2>1, <2>21 DEF bookVars
  <2> QED
    BY <2>6, <2>7, <2>8, <2>9, <2>10, <2>11, <2>12, <2>13, <2>14, <2>15, <2>16, <2>17, <2>18, <2>19, <2>20, <2>21, <2>22
       DEF BookNext
<1> QED
  BY <1>1, <1>2, PTL DEF BookSpec

-----------------------------------------------------------------------------
\* The cache follows the broker's book: unless a list is asked for or an event
\* that will ask for one is on its way, the last list on its way, or else the
\* cache, is the book.  Off line nothing is on its way.
Waiting == \E i \in 1 .. Len(asked) : asked[i] = Book
News == \E i \in 1 .. Len(wire) : wire[i].t \notin {"list", "error"}
LastList(i) == wire[i].t = "list" /\ \A j \in i + 1 .. Len(wire) : wire[j].t # "list"
Current ==
  /\ ~up => asked = <<>> /\ wire = <<>>
  /\ up /\ ~Waiting /\ ~News =>
       /\ \A i \in 1 .. Len(wire) : LastList(i) => wire[i].live = open
       /\ (\A i \in 1 .. Len(wire) : wire[i].t # "list") => cache = open

LEMMA CurrentSuffices == Current => CacheCurrent
  BY EmptySeq DEF Current, CacheCurrent, Waiting, News

\* Something is asked for, and nothing said of the book.
LEMMA CurrentStays ==
  ASSUME Current, UNCHANGED <<open, wire, cache, up>>, Waiting => Waiting', up \/ asked' = <<>>
  PROVE  Current'
  BY DEF Current, Waiting, News, LastList

\* A message that will ask for the list is news, whatever it is about.
LEMMA NewsCurrent ==
  ASSUME Typed, Current, NEW m \in Message, m.t \notin {"list", "error"}, Say(m), UNCHANGED <<up, cache>>,
         up \/ UNCHANGED asked
  PROVE  Current'
<1>1. wire \in Seq(Message)
  BY DEF Typed
<1>2. CASE up
  <2>1. Len(wire') \in 1 .. Len(wire') /\ wire'[Len(wire')].t \notin {"list", "error"}
    BY <1>1, <1>2, Said
  <2>2. News'
    BY <2>1 DEF News
  <2> QED
    BY <1>2, <2>2 DEF Current
<1>3. CASE ~up
  BY <1>1, <1>3, Said DEF Current
<1> QED
  BY <1>2, <1>3

\* The answer to a request.
LEMMA AnswerCurrent ==
  ASSUME Typed, Current, Answer
  PROVE  Current'
<1>1. /\ asked \in Seq(Order \cup {Book}) /\ asked # <<>> /\ wire \in Seq(Message) /\ open \subseteq Order
      /\ up /\ up' /\ cache' = cache /\ open' = open /\ asked' = Tail(asked)
  BY DEF Typed, Current, Answer
<1>2. /\ Len(asked) \in Nat \ {0} /\ Head(asked) \in Order \cup {Book} /\ Head(asked) = asked[1]
      /\ Len(asked') = Len(asked) - 1 /\ \A i \in 1 .. Len(asked') : asked'[i] = asked[i + 1]
  BY <1>1, EmptySeq, HeadTailProperties
<1>3. CASE Head(asked) = Book /\ Say(List(open))
  <2>1. /\ Len(wire) \in Nat /\ Len(wire') = Len(wire) + 1 /\ wire'[Len(wire')] = List(open)
        /\ \A i \in 1 .. Len(wire) : wire'[i] = wire[i]
    BY <1>1, <1>3, MessageTypes, Said
  <2>2. List(open).t = "list" /\ List(open).live = open
    BY DEF List
  <2>3. ASSUME NEW i \in 1 .. Len(wire'), LastList(i)' PROVE i = Len(wire) + 1
    <3>1. CASE i \in 1 .. Len(wire)
      <4>1. Len(wire) + 1 \in i + 1 .. Len(wire')
        BY <2>1, <3>1
      <4> QED
        BY <2>1, <2>2, <2>3, <4>1 DEF LastList
    <3> QED
      BY <2>1, <3>1
  <2>4. Len(wire) + 1 \in 1 .. Len(wire')
    BY <2>1
  <2> QED
    BY <1>1, <2>1, <2>2, <2>3, <2>4 DEF Current
<1>4. CASE Head(asked) # Book /\ Say(Msg("accepted", Head(asked)))
  <2>1. Msg("accepted", Head(asked)) \in Message /\ Msg("accepted", Head(asked)).t = "accepted"
    BY <1>2, <1>4, MessageTypes
  <2> QED
    BY <1>1, <1>4, <2>1, NewsCurrent
<1>5. CASE Head(asked) # Book /\ Say(Msg("error", Head(asked)))
  <2>1. /\ Len(wire) \in Nat /\ Len(wire') = Len(wire) + 1 /\ wire'[Len(wire')].t = "error"
        /\ \A i \in 1 .. Len(wire) : wire'[i] = wire[i]
    <3>1. Msg("error", Head(asked)) \in Message /\ Msg("error", Head(asked)).t = "error"
      BY <1>2, <1>5, MessageTypes
    <3> QED
      BY <1>1, <1>5, <3>1, Said
  <2>2. Waiting => Waiting'
    <3> SUFFICES ASSUME NEW i \in 1 .. Len(asked), asked[i] = Book PROVE Waiting'
      BY DEF Waiting
    <3>1. i - 1 \in 1 .. Len(asked') /\ asked'[i - 1] = Book
      BY <1>2, <1>5
    <3> QED
      BY <3>1 DEF Waiting
  <2>3. News => News'
    BY <2>1 DEF News
  <2>4. ASSUME NEW i \in 1 .. Len(wire'), LastList(i)' PROVE i \in 1 .. Len(wire) /\ LastList(i) /\ wire'[i] = wire[i]
    <3>1. i \in 1 .. Len(wire)
      BY <2>1, <2>4 DEF LastList
    <3> QED
      BY <2>1, <2>4, <3>1 DEF LastList
  <2>5. (\A i \in 1 .. Len(wire') : wire'[i].t # "list") => \A i \in 1 .. Len(wire) : wire[i].t # "list"
    BY <2>1
  <2> QED
    BY <1>1, <2>2, <2>3, <2>4, <2>5 DEF Current
<1> QED
  BY <1>3, <1>4, <1>5 DEF Answer

\* An order that fills or ends, and a position that closes, are news.
LEMMA BrokerCurrent ==
  ASSUME Typed, Current, NEW o \in Order, Fill(o) \/ Close(o)
  PROVE  Current'
<1>1. PICK t \in {"filled", "ended", "closed"} : Say(Msg(t, o))
  BY DEF Fill, Close
<1>2. UNCHANGED <<up, cache, asked>>
  BY DEF Fill, Close
<1> QED
  BY <1>1, <1>2, MessageTypes, NewsCurrent

\* An execution event asks for the list, an error says nothing of the book.
LEMMA EventCurrent ==
  ASSUME Typed, Current, Event
  PROVE  Current'
<1>1. /\ asked \in Seq(Order \cup {Book}) /\ wire \in Seq(Message) /\ wire # <<>> /\ wire' = Tail(wire)
      /\ Head(wire).t # "list" /\ asked' = Refresh(Head(wire)) /\ UNCHANGED <<open, up, cache>> /\ up
  BY DEF Typed, Current, Event
<1>2. /\ Len(wire) \in Nat \ {0} /\ Len(wire') = Len(wire) - 1 /\ Head(wire) = wire[1]
      /\ \A i \in 1 .. Len(wire') : wire'[i] = wire[i + 1]
  BY <1>1, Taken
<1>3. CASE Head(wire).t = "error"
  <2>1. asked' = asked
    BY <1>1, <1>3 DEF Refresh
  <2>2. News => News'
    <3> SUFFICES ASSUME NEW i \in 1 .. Len(wire), wire[i].t \notin {"list", "error"} PROVE News'
      BY DEF News
    <3>1. i - 1 \in 1 .. Len(wire') /\ wire'[i - 1] = wire[i]
      BY <1>2, <1>3
    <3> QED
      BY <3>1 DEF News
  <2>3. ASSUME NEW i \in 1 .. Len(wire'), LastList(i)'
        PROVE  i + 1 \in 1 .. Len(wire) /\ LastList(i + 1) /\ wire'[i] = wire[i + 1]
    <3>1. i + 1 \in 1 .. Len(wire) /\ wire'[i] = wire[i + 1]
      BY <1>2
    <3>2. ASSUME NEW j \in (i + 1) + 1 .. Len(wire) PROVE wire[j].t # "list"
      <4>1. j - 1 \in i + 1 .. Len(wire') /\ wire'[j - 1] = wire[j]
        BY <1>2
      <4> QED
        BY <2>3, <4>1 DEF LastList
    <3> QED
      BY <2>3, <3>1, <3>2 DEF LastList
  <2>4. ASSUME \A i \in 1 .. Len(wire') : wire'[i].t # "list", NEW i \in 1 .. Len(wire) PROVE wire[i].t # "list"
    <3>1. CASE i = 1
      BY <1>1, <1>2, <3>1
    <3>2. CASE i # 1
      <4>1. i - 1 \in 1 .. Len(wire') /\ wire'[i - 1] = wire[i]
        BY <1>2, <3>2
      <4> QED
        BY <2>4, <4>1
    <3> QED
      BY <3>1, <3>2
  <2> QED
    BY <1>1, <2>1, <2>2, <2>3, <2>4 DEF Current, Waiting
<1>4. CASE Head(wire).t # "error"
  <2>1. Waiting'
    BY <1>1, <1>4, AsksList DEF Refresh, Waiting
  <2> QED
    BY <1>1, <2>1 DEF Current
<1> QED
  BY <1>3, <1>4

\* The cache becomes the list that arrives.
LEMMA ReconcileCurrent ==
  ASSUME Typed, Current, Reconcile
  PROVE  Current'
<1>1. /\ wire \in Seq(Message) /\ wire # <<>> /\ wire' = Tail(wire) /\ Head(wire).t = "list"
      /\ cache' = Head(wire).live /\ UNCHANGED <<open, up, asked>> /\ up
  BY DEF Typed, Current, Reconcile
<1>2. /\ Len(wire) \in Nat \ {0} /\ Len(wire') = Len(wire) - 1 /\ Head(wire) = wire[1]
      /\ \A i \in 1 .. Len(wire') : wire'[i] = wire[i + 1]
  BY <1>1, Taken
<1>3. News => News'
  <2> SUFFICES ASSUME NEW i \in 1 .. Len(wire), wire[i].t \notin {"list", "error"} PROVE News'
    BY DEF News
  <2>1. i - 1 \in 1 .. Len(wire') /\ wire'[i - 1] = wire[i]
    BY <1>1, <1>2
  <2> QED
    BY <2>1 DEF News
<1>4. ASSUME NEW i \in 1 .. Len(wire'), LastList(i)'
      PROVE  i + 1 \in 1 .. Len(wire) /\ LastList(i + 1) /\ wire'[i] = wire[i + 1]
  <2>1. i + 1 \in 1 .. Len(wire) /\ wire'[i] = wire[i + 1]
    BY <1>2
  <2>2. ASSUME NEW j \in (i + 1) + 1 .. Len(wire) PROVE wire[j].t # "list"
    <3>1. j - 1 \in i + 1 .. Len(wire') /\ wire'[j - 1] = wire[j]
      BY <1>2
    <3> QED
      BY <1>4, <3>1 DEF LastList
  <2> QED
    BY <1>4, <2>1, <2>2 DEF LastList
<1>5. ASSUME \A i \in 1 .. Len(wire') : wire'[i].t # "list" PROVE 1 \in 1 .. Len(wire) /\ LastList(1)
  <2>1. ASSUME NEW j \in 1 + 1 .. Len(wire) PROVE wire[j].t # "list"
    <3>1. j - 1 \in 1 .. Len(wire') /\ wire'[j - 1] = wire[j]
      BY <1>2
    <3> QED
      BY <1>5, <3>1
  <2> QED
    BY <1>1, <1>2, <2>1 DEF LastList
<1> QED
  BY <1>1, <1>2, <1>3, <1>4, <1>5 DEF Current, Waiting

\* Once everything that is on its way has arrived, the cache is the broker's book,
\* for any number of orders, rows and lost connections.
THEOREM CacheFollows == BookSpec => []CacheCurrent
<1>1. BookInit => Current
  BY EmptySeq DEF BookInit, Current
<1>2. BookTypeOK /\ Current /\ [BookNext]_bookVars => Current'
  <2> SUFFICES ASSUME Typed, Current, [BookNext]_bookVars PROVE Current'
    BY Types
  <2>1. ASSUME UNCHANGED <<open, wire, cache, up, asked>> PROVE Current'
    BY <2>1 DEF Current, Waiting, News, LastList
  <2>2. ASSUME NEW o \in Order, Place(o) PROVE Current'
    <3>1. UNCHANGED <<open, wire, cache, up>> /\ up /\ asked' = Append(asked, o) /\ asked \in Seq(Order \cup {Book})
      BY <2>2 DEF Place, Typed
    <3>2. /\ Len(asked) \in Nat /\ Len(Append(asked, o)) = Len(asked) + 1
          /\ \A i \in 1 .. Len(asked) : Append(asked, o)[i] = asked[i]
      BY <3>1
    <3>3. Waiting => Waiting'
      BY <3>1, <3>2 DEF Waiting
    <3> QED
      BY <3>1, <3>3, CurrentStays
  <2>3. CASE Lose \/ Restart
    BY <2>3 DEF Lose, Restart, Current
  <2>4. CASE Reconnect
    <3>1. Len(asked') = 1 /\ asked'[1] = Book /\ up'
      BY <2>4 DEF Reconnect
    <3>2. Waiting'
      BY <3>1 DEF Waiting
    <3> QED
      BY <3>1, <3>2 DEF Current
  <2>5. ASSUME NEW o \in Order, Resume(o) \/ Insert(o) PROVE Current'
    BY <2>1, <2>5 DEF Resume, Insert
  <2>6. ASSUME NEW r \in RowId, Age(r) PROVE Current'
    BY <2>1, <2>6 DEF Age
  <2>7. CASE ReactCommit \/ Snapshot \/ Poll \/ PollCommit \/ UNCHANGED bookVars
    BY <2>1, <2>7 DEF ReactCommit, Snapshot, Poll, PollCommit, bookVars
  <2> QED
    BY <2>2, <2>3, <2>4, <2>5, <2>6, <2>7, AnswerCurrent, BrokerCurrent, EventCurrent, ReconcileCurrent DEF BookNext
<1> QED
  BY <1>1, <1>2, BookTyping, CurrentSuffices, PTL DEF BookSpec

-----------------------------------------------------------------------------
\* Behind every list on its way that lacks an open position its fill is on its way.
FillBehind(i, p) == \E j \in i + 1 .. Len(wire) : wire[j] = Msg("filled", p)
Later ==
  /\ ~up => wire = <<>>
  /\ \A i \in 1 .. Len(wire), p \in open : wire[i].t = "list" /\ p \notin wire[i].live => FillBehind(i, p)

\* A message behind the others: a list has every open position, and a position opens
\* with its fill.
LEMMA SaidLater ==
  ASSUME Typed, Later, NEW m \in Message, Say(m), up' = up,
         m.t = "list" => open' \subseteq m.live,
         \A p \in open' : p \in open \/ m = Msg("filled", p)
  PROVE  Later'
<1>1. wire \in Seq(Message)
  BY DEF Typed
<1>2. CASE up
  <2>1. /\ Len(wire) \in Nat /\ Len(wire') = Len(wire) + 1 /\ wire'[Len(wire')] = m
        /\ \A i \in 1 .. Len(wire) : wire'[i] = wire[i]
    BY <1>1, <1>2, Said
  <2>2. ASSUME NEW i \in 1 .. Len(wire'), NEW p \in open', wire'[i].t = "list", p \notin wire'[i].live
        PROVE  FillBehind(i, p)'
    <3>1. i \in 1 .. Len(wire) /\ wire'[i] = wire[i]
      <4>1. i # Len(wire')
        BY <2>1, <2>2
      <4> QED
        BY <2>1, <4>1
    <3>2. CASE p \in open
      <4>1. PICK j \in i + 1 .. Len(wire) : wire[j] = Msg("filled", p)
        BY <2>2, <3>1, <3>2 DEF Later, FillBehind
      <4>2. j \in i + 1 .. Len(wire') /\ wire'[j] = Msg("filled", p)
        BY <2>1, <3>1, <4>1
      <4> QED
        BY <4>2 DEF FillBehind
    <3>3. CASE m = Msg("filled", p)
      <4>1. Len(wire') \in i + 1 .. Len(wire')
        BY <2>1, <3>1
      <4>2. wire'[Len(wire')] = Msg("filled", p)
        BY <2>1, <3>3
      <4> QED
        BY <4>1, <4>2 DEF FillBehind
    <3> QED
      BY <3>2, <3>3
  <2> QED
    BY <1>2, <2>2 DEF Later
<1>3. CASE ~up
  <2>1. wire' = <<>>
    BY <1>1, <1>3, Said DEF Later
  <2> QED
    BY <1>3, <2>1 DEF Later
<1> QED
  BY <1>2, <1>3

\* A message is taken from the front.
LEMMA TakenLater ==
  ASSUME Typed, Later, wire # <<>>, wire' = Tail(wire), UNCHANGED <<up, open>>
  PROVE  Later'
<1>1. wire \in Seq(Message) /\ up
  BY DEF Typed, Later
<1>2. /\ Len(wire) \in Nat \ {0} /\ Len(wire') = Len(wire) - 1 /\ \A i \in 1 .. Len(wire') : wire'[i] = wire[i + 1]
  BY <1>1, Taken
<1>3. ASSUME NEW i \in 1 .. Len(wire'), NEW p \in open, wire'[i].t = "list", p \notin wire'[i].live
      PROVE  FillBehind(i, p)'
  <2>1. i + 1 \in 1 .. Len(wire) /\ wire'[i] = wire[i + 1]
    BY <1>2
  <2>2. PICK j \in (i + 1) + 1 .. Len(wire) : wire[j] = Msg("filled", p)
    BY <1>3, <2>1 DEF Later, FillBehind
  <2>3. j - 1 \in i + 1 .. Len(wire') /\ wire'[j - 1] = Msg("filled", p)
    BY <1>2, <2>1, <2>2
  <2> QED
    BY <2>3 DEF FillBehind
<1> QED
  BY <1>1, <1>3 DEF Later

\* No step drops a fill from behind such a list, or opens a position without a fill.
LEMMA LaterKept == BookTypeOK /\ Later /\ [BookNext]_bookVars => Later'
<1> SUFFICES ASSUME Typed, Later, [BookNext]_bookVars PROVE Later'
  BY Types
<1>1. ASSUME UNCHANGED <<open, wire, up>> PROVE Later'
  BY <1>1 DEF Later, FillBehind
<1>2. CASE Answer
  <2>1. open \subseteq Order /\ UNCHANGED <<open, up>>
    BY <1>2 DEF Typed, Answer
  <2>2. Head(asked) \in Order \cup {Book}
    BY <1>2, HeadTailProperties DEF Typed, Answer
  <2>3. CASE Say(List(open))
    BY <2>1, <2>3, MessageTypes, SaidLater DEF List
  <2>4. CASE Head(asked) # Book /\ \E t \in {"accepted", "error"} : Say(Msg(t, Head(asked)))
    BY <2>1, <2>2, <2>4, MessageTypes, SaidLater
  <2> QED
    BY <1>2, <2>3, <2>4 DEF Answer
<1>3. ASSUME NEW o \in Order, Fill(o) PROVE Later'
  <2>1. CASE open' = open \cup {o} /\ Say(Msg("filled", o))
    BY <1>3, <2>1, MessageTypes, SaidLater DEF Fill
  <2>2. CASE UNCHANGED open /\ Say(Msg("ended", o))
    BY <1>3, <2>2, MessageTypes, SaidLater DEF Fill
  <2> QED
    BY <1>3, <2>1, <2>2 DEF Fill
<1>4. ASSUME NEW o \in Order, Close(o) PROVE Later'
  BY <1>4, MessageTypes, SaidLater DEF Close
<1>5. CASE Event \/ Reconcile
  BY <1>5, TakenLater DEF Event, Reconcile
<1>6. CASE Lose \/ Restart
  BY <1>6 DEF Lose, Restart, Later
<1>7. CASE Reconnect
  BY <1>7 DEF Reconnect, Later
<1>8. ASSUME NEW o \in Order, Place(o) \/ Resume(o) \/ Insert(o) PROVE Later'
  BY <1>1, <1>8 DEF Place, Resume, Insert
<1>9. ASSUME NEW r \in RowId, Age(r) PROVE Later'
  BY <1>1, <1>9 DEF Age
<1>10. CASE ReactCommit \/ Snapshot \/ Poll \/ PollCommit \/ UNCHANGED bookVars
  BY <1>1, <1>10 DEF ReactCommit, Snapshot, Poll, PollCommit, bookVars
<1> QED
  BY <1>2, <1>3, <1>4, <1>5, <1>6, <1>7, <1>8, <1>9, <1>10 DEF BookNext

\* Of the rows of a position there is a last one.
LEMMA LastRow ==
  ASSUME NEW r \in OpenRows
  PROVE  ByPid(rows[r].pid) \in OpenRows /\ rows[ByPid(rows[r].pid)].pid = rows[r].pid
<1> DEFINE S == {s \in OpenRows : rows[s].pid = rows[r].pid}
<1>1. S \subseteq 1 .. Slots /\ S # {} /\ Slots \in Nat
  BY BookAssumption DEF BookAssumption, OpenRows, RowId
<1> HIDE DEF S
<1>2. \E k \in S : \A j \in S : j <= k
  <2> DEFINE D == {Slots - s : s \in S}
  <2>1. D \subseteq Nat /\ D # {}
    <3>1. \A s \in S : s \in Nat /\ Slots - s \in Nat
      BY <1>1
    <3> QED
      BY <1>1, <3>1
  <2>2. PICK d \in D : \A c \in D : ~(<<c, d>> \in OpToRel(<, Nat))
    BY <2>1, NatLessThanWellFounded, WFMin
  <2>3. PICK k \in S : d = Slots - k
    BY <2>2
  <2>4. ASSUME NEW j \in S PROVE j <= k
    <3>1. Slots - j \in D /\ Slots - j \in Nat /\ d \in Nat /\ j \in Nat /\ k \in Nat
      BY <1>1, <2>1
    <3>2. ~(Slots - j < d)
      BY <2>2, <3>1 DEF OpToRel
    <3> QED
      BY <1>1, <2>3, <3>1, <3>2
  <2> QED
    BY <2>4
<1>3. ByPid(rows[r].pid) = CHOOSE k \in S : \A j \in S : j <= k
  BY Zenon DEF ByPid, S
<1>4. ByPid(rows[r].pid) \in S
  BY <1>2, <1>3
<1> QED
  BY <1>4 DEF S

\* The reactor thread plans to close the only row of an open position only while the
\* fill of that position, behind the list it works on, is still on its way.
THEOREM ReactorIsCurrent == BookSpec => ReactorSees
<1> DEFINE Sees == Reconcile => \A r \in react'.gone :
             rows[r].pid \in open =>
               \/ \E q \in OpenRows \ react'.gone : rows[q].pid = rows[r].pid
               \/ \E i \in 1 .. Len(wire) : wire[i] = Msg("filled", rows[r].pid)
<1>1. BookInit => Later
  BY EmptySeq DEF BookInit, Later
<1>2. BookTypeOK /\ Later => Sees
  <2> SUFFICES ASSUME Typed, Later, Reconcile, NEW r \in react'.gone, rows[r].pid \in open
               PROVE  \/ \E q \in OpenRows \ react'.gone : rows[q].pid = rows[r].pid
                      \/ \E i \in 1 .. Len(wire) : wire[i] = Msg("filled", rows[r].pid)
    BY Types
  <2> DEFINE p == rows[r].pid
             live == Head(wire).live
  <2>1. /\ wire \in Seq(Message) /\ wire # <<>> /\ Head(wire).t = "list" /\ react' \in Plans(live)
        /\ rows \in [RowId -> TradeRow] /\ open \subseteq Order
    BY DEF Typed, Reconcile, Listed
  <2>2. Len(wire) \in Nat \ {0} /\ Head(wire) = wire[1] /\ Head(wire) \in Message /\ live \in SUBSET Order
    <3>1. Len(wire) \in Nat \ {0} /\ Head(wire) = wire[1] /\ Head(wire) \in Message
      BY <2>1, Taken DEF Reconcile
    <3> QED
      BY <3>1 DEF Message
  <2>3. PICK kept : Held(live) \subseteq kept /\ react'.gone = Absent(live, kept)
    BY <2>1, <2>2, Planned
  <2>4. r \in OpenRows /\ r \in RowId
    BY <2>3 DEF Absent, OpenRows
  <2>5. p \in Order
    BY <2>1
  <2>6. CASE p \notin live
    <3>1. 1 \in 1 .. Len(wire) /\ wire[1].t = "list" /\ live = wire[1].live
      BY <2>1, <2>2
    <3>2. FillBehind(1, p)
      BY <2>6, <3>1 DEF Later
    <3>3. \A j \in 1 + 1 .. Len(wire) : j \in 1 .. Len(wire)
      BY <2>2
    <3> QED
      BY <3>2, <3>3 DEF FillBehind
  <2>7. CASE p \in live
    <3>1. ByPid(p) \in Held(live)
      <4>1. p \in Pids
        BY <2>4, <2>5, Numbers DEF Pids
      <4> HIDE DEF p, live
      <4> QED
        BY <2>7, <4>1 DEF Held
    <3>2. ByPid(p) \in OpenRows /\ rows[ByPid(p)].pid = p
      BY <2>4, LastRow
    <3>3. ByPid(p) \notin react'.gone
      BY <2>3, <3>1 DEF Absent
    <3> QED
      BY <3>2, <3>3
  <2> QED
    BY <2>6, <2>7
<1>3. BookTypeOK /\ Later /\ [BookNext]_bookVars => [Sees]_bookVars
  BY <1>2
<1> QED
  BY <1>1, <1>3, LaterKept, BookTyping, PTL DEF BookSpec, ReactorSees

-----------------------------------------------------------------------------
\* The session.

\* HostIsLive never holds without the is_live gate: an override to the live host
\* is dropped when the gate is closed.
LEMMA LiveNeedsGate == HostIsLive => env.allowed
  BY DEF HostIsLive

\* No connection goes to the live host without the is_live gate, whatever host the
\* account list asks for and however many sockets are open.
THEOREM PaperDemo == Spec => []PaperStaysDemo
<1>1. Init => PaperStaysDemo
  BY DEF Init, PaperStaysDemo
<1>2. PaperStaysDemo /\ [Next]_vars => PaperStaysDemo'
  <2> SUFFICES ASSUME PaperStaysDemo, [Next]_vars PROVE PaperStaysDemo'
    OBVIOUS
  <2> USE DEF PaperStaysDemo
  <2>1. ASSUME NEW c \in Caller, NEW cleared, Dial(c, cleared), UNCHANGED env PROVE PaperStaysDemo'
    BY <2>1, LiveNeedsGate DEF Dial
  <2>2. ASSUME NEW c \in Caller, Call(c) PROVE PaperStaysDemo'
    <3>1. CASE Ensure(c)
      BY <3>1 DEF Ensure
    <3>2. CASE Connect(c)
      BY <3>2, <2>1 DEF Connect
    <3>3. CASE ConnectOk(c)
      BY <3>3 DEF ConnectOk
    <3>4. CASE ConnectRetry(c)
      BY <3>4, <2>1 DEF ConnectRetry
    <3>5. CASE ConnectFailed(c)
      BY <3>5 DEF ConnectFailed
    <3> QED
      BY <2>2, <3>1, <3>2, <3>3, <3>4, <3>5 DEF Call
  <2>3. ASSUME NEW w \in Workers, Wake(w) PROVE PaperStaysDemo'
    BY <2>3 DEF Wake
  <2>4. CASE Enable \/ Disable \/ CooledDown
    BY <2>4 DEF Enable, Disable, CooledDown
  <2>5. ASSUME NEW s \in Socket, Reactor(s) PROVE PaperStaysDemo'
    <3>1. CASE TcpUp(s) \/ NoAccounts(s) \/ WrongHost(s) \/ Authenticated(s) \/ ErrorRes(s)
      BY <3>1 DEF TcpUp, NoAccounts, WrongHost, Authenticated, ErrorRes
    <3>2. CASE Refused(s)
      BY <3>2 DEF Refused
    <3>3. CASE Lost(s)
      BY <3>3 DEF Lost
    <3> QED
      BY <2>5, <3>1, <3>2, <3>3 DEF Reactor
  <2>6. CASE UNCHANGED vars
    BY <2>6 DEF vars
  <2> QED
    BY <2>2, <2>3, <2>4, <2>5, <2>6 DEF Next
<1> QED
  BY <1>1, <1>2, PTL DEF Spec


\* Dial takes the lowest free socket: there is one whenever some socket is free.
LEMMA FreeSocket ==
  ASSUME NEW S \in SUBSET Socket, S # {}
  PROVE  (CHOOSE k \in S : \A j \in S : k <= j) \in S
<1>1. S \subseteq Nat
  BY SessionAssumption DEF Socket
<1>2. \E k \in S : \A j \in S : ~ (<<j, k>> \in OpToRel(<, Nat))
  BY <1>1, NatLessThanWellFounded, WFMin
<1>3. PICK k \in S : \A j \in S : ~ (<<j, k>> \in OpToRel(<, Nat))
  BY <1>2
<1>4. ASSUME NEW j \in S PROVE k <= j
  <2>1. ~ (j < k)
    BY <1>1, <1>3, <1>4 DEF OpToRel
  <2>2. j \in Nat /\ k \in Nat
    BY <1>1
  <2> QED
    BY <2>1, <2>2
<1> QED
  BY <1>4

\* A lost connection leaves flags, and the session not authenticated.
LEMMA DownFlags ==
  ASSUME svc \in Flags
  PROVE  Down(svc) \in Flags /\ ~Down(svc).authenticated
<1> DEFINE p == svc.pending \/ Reconnects
<1>1. p \in BOOLEAN
  OBVIOUS
<1>2. Down(svc) = [svc EXCEPT !.connected = FALSE, !.authenticated = FALSE, !.pending = p]
  BY Zenon DEF Down
<1> HIDE DEF p
<1> QED
  BY <1>1, <1>2 DEF Flags

\* The flags that a dialled connection clears stay flags.
LEMMA Dialled ==
  ASSUME NEW f \in Flags, NEW h \in {"none", "demo", "live"}
  PROVE  [f EXCEPT !.event = FALSE, !.connected = FALSE, !.authenticated = FALSE,
                   !.dry = FALSE, !.intentional = FALSE, !.host = h] \in Flags
<1> DEFINE g == [f EXCEPT !.event = FALSE, !.connected = FALSE, !.authenticated = FALSE]
<1>1. g \in Flags
  BY DEF Flags
<1> HIDE DEF g
<1>2. [g EXCEPT !.dry = FALSE, !.intentional = FALSE, !.host = h] \in Flags
  BY <1>1 DEF Flags
<1>3. [f EXCEPT !.event = FALSE, !.connected = FALSE, !.authenticated = FALSE,
                !.dry = FALSE, !.intentional = FALSE, !.host = h]
      = [g EXCEPT !.dry = FALSE, !.intentional = FALSE, !.host = h]
  BY DEF g, Flags
<1> QED
  BY <1>2, <1>3

\* Every action keeps the types: a socket number taken by CHOOSE is one of the
\* free sockets, and the flags stay flags whatever an attempt leaves of them.
THEOREM TypeCorrect == Spec => []TypeOK
<1> USE SessionAssumption
<1>1. Init => TypeOK
  BY DEF Init, TypeOK, Envs, Flags, Socket, None
<1>2. TypeOK /\ [Next]_vars => TypeOK'
  <2> SUFFICES ASSUME TypeOK, [Next]_vars PROVE TypeOK'
    OBVIOUS
  <2> USE DEF TypeOK, None, Caller, Fault
  <2>1. ASSUME NEW c \in Caller, NEW f \in Flags, Dial(c, f)
        PROVE /\ sock' \in [Socket -> {"free", "tcp", "auth", "mute", "live", "closing"}]
              /\ onLive' \subseteq Socket /\ svc' \in Flags
              /\ pc' \in [Caller -> {"idle", "sleep", "lock", "wait"}]
    <3> DEFINE s == CHOOSE k \in Socket \ Open : \A j \in Socket \ Open : k <= j
    <3>1. s \in Socket
      <4>1. Socket \ Open # {}
        BY <2>1 DEF Dial, Open
      <4> QED
        BY <4>1, FreeSocket
    <3>2. sock' = [sock EXCEPT ![s] = "tcp"] /\ onLive' \in {onLive \cup {s}, onLive \ {s}}
      BY <2>1 DEF Dial
    <3>3. svc' \in Flags /\ pc' = [pc EXCEPT ![c] = "wait"]
      <4>1. PICK h \in {f.host, "none"} :
              svc' = [f EXCEPT !.event = FALSE, !.connected = FALSE, !.authenticated = FALSE,
                               !.dry = FALSE, !.intentional = FALSE, !.host = h]
        BY <2>1, Zenon DEF Dial
      <4>2. pc' = [pc EXCEPT ![c] = "wait"]
        BY <2>1 DEF Dial
      <4>3. h \in {"none", "demo", "live"}
        BY <4>1 DEF Flags
      <4>4. svc' \in Flags
        BY <4>1, <4>3, Dialled, Zenon
      <4> QED
        BY <4>2, <4>4
    <3> HIDE DEF s
    <3> QED
      BY <3>1, <3>2, <3>3
  <2>2. ASSUME NEW c \in Caller, NEW f \in Flags PROVE Return(c, f) \in Flags
    BY DEF Return, Flags
  <2>3. ASSUME NEW c \in Caller, Call(c) PROVE TypeOK'
    <3>1. CASE Ensure(c)
      <4>1. svc' \in Flags
        BY <3>1 DEF Ensure, Flags
      <4> QED
        BY <3>1, <4>1 DEF Ensure
    <3>2. CASE Connect(c)
      <4>1. CASE Ready \/ svc.cooling
        <5>1. /\ pc' = [pc EXCEPT ![c] = "idle"] /\ svc' = Return(c, svc)
              /\ UNCHANGED <<sock, onLive, env, protocol, faults>>
          BY <3>2, <4>1, Zenon DEF Connect
        <5>2. svc' \in Flags
          BY <5>1, <2>2
        <5> QED
          BY <5>1, <5>2
      <4>2. CASE ~(Ready \/ svc.cooling)
        BY <3>2, <4>2, <2>1 DEF Connect
      <4> QED
        BY <4>1, <4>2
    <3>3. CASE ConnectOk(c)
      <4> DEFINE f == [svc EXCEPT !.pending = FALSE, !.cooling = FALSE, !.retry = FALSE]
      <4>1. f \in Flags
        BY DEF Flags
      <4>2. svc' = Return(c, f)
        BY <3>3, Zenon DEF ConnectOk
      <4>3. pc' = [pc EXCEPT ![c] = "idle"] /\ UNCHANGED <<env, sock, onLive, protocol>>
        BY <3>3, Zenon DEF ConnectOk
      <4>4. faults' \in 0 .. MaxFaults
        BY <3>3 DEF ConnectOk, Waited
      <4> HIDE DEF f
      <4> QED
        BY <4>1, <4>2, <4>3, <4>4, <2>2
    <3>4. CASE ConnectRetry(c)
      <4>1. [svc EXCEPT !.retry = FALSE, !.cooling = FALSE] \in Flags
        BY DEF Flags
      <4>2. faults' \in 0 .. MaxFaults
        BY <3>4 DEF ConnectRetry, Waited
      <4>3. UNCHANGED <<env, protocol>>
        BY <3>4 DEF ConnectRetry
      <4>4. Dial(c, [svc EXCEPT !.retry = FALSE, !.cooling = FALSE])
        BY <3>4, Zenon DEF ConnectRetry
      <4> QED
        BY <4>1, <4>2, <4>3, <4>4, <2>1
    <3>5. CASE ConnectFailed(c)
      <4> DEFINE f == [svc EXCEPT !.dry = TRUE, !.cooling = TRUE]
      <4>1. f \in Flags
        BY DEF Flags
      <4>2. svc' = Return(c, f)
        BY <3>5, Zenon DEF ConnectFailed
      <4>3. pc' = [pc EXCEPT ![c] = "idle"] /\ UNCHANGED <<env, sock, onLive, protocol>>
        BY <3>5, Zenon DEF ConnectFailed
      <4>4. faults' \in 0 .. MaxFaults
        BY <3>5 DEF ConnectFailed, Waited
      <4> HIDE DEF f
      <4> QED
        BY <4>1, <4>2, <4>3, <4>4, <2>2
    <3> QED
      BY <2>3, <3>1, <3>2, <3>3, <3>4, <3>5 DEF Call
  <2>4. ASSUME NEW w \in Workers, Wake(w) PROVE TypeOK'
    <3>1. svc' \in Flags
      <4>1. svc' = [svc EXCEPT !.dry = FALSE] \/ svc' = [svc EXCEPT !.pending = FALSE]
        BY <2>4, Zenon DEF Wake
      <4> QED
        BY <4>1 DEF Flags
    <3>2. pc' \in [Caller -> {"idle", "sleep", "lock", "wait"}]
      BY <2>4 DEF Wake
    <3> QED
      BY <2>4, <3>1, <3>2 DEF Wake
  <2>5. CASE Enable \/ Disable \/ CooledDown
    <3>1. CASE Enable
      BY <3>1 DEF Enable
    <3>2. CASE Disable
      <4>1. svc' \in Flags
        BY <3>2 DEF Disable, Flags
      <4> QED
        BY <3>2, <4>1 DEF Disable
    <3>3. CASE CooledDown
      <4>1. svc' \in Flags
        BY <3>3 DEF CooledDown, Flags
      <4> QED
        BY <3>3, <4>1 DEF CooledDown
    <3> QED
      BY <2>5, <3>1, <3>2, <3>3
  <2>6. ASSUME NEW s \in Socket, Reactor(s) PROVE TypeOK'
    <3>1. CASE TcpUp(s) \/ NoAccounts(s) \/ ErrorRes(s)
      <4>1. svc' \in Flags
        BY <3>1 DEF TcpUp, NoAccounts, ErrorRes, Flags
      <4>2. faults' \in 0 .. MaxFaults /\ env' = env /\ onLive' = onLive /\ protocol' = protocol /\ pc' = pc
        BY <3>1 DEF TcpUp, NoAccounts, ErrorRes
      <4>3. sock' \in [Socket -> {"free", "tcp", "auth", "mute", "live", "closing"}]
        BY <3>1 DEF TcpUp, NoAccounts, ErrorRes
      <4> QED
        BY <4>1, <4>2, <4>3
    <3>2. CASE Refused(s)
      <4>1. svc' \in Flags
        BY <3>2 DEF Refused, Flags
      <4>2. sock' \in [Socket -> {"free", "tcp", "auth", "mute", "live", "closing"}] /\ onLive' \subseteq Socket
        BY <3>2 DEF Refused
      <4>3. faults' \in 0 .. MaxFaults
        BY <3>2 DEF Refused
      <4> QED
        BY <3>2, <4>1, <4>2, <4>3 DEF Refused
    <3>3. CASE WrongHost(s)
      <4>1. svc' \in Flags
        BY <3>3 DEF WrongHost, AccountHost, Flags
      <4> QED
        BY <3>3, <4>1 DEF WrongHost
    <3>4. CASE Authenticated(s)
      <4>1. svc' \in Flags
        BY <3>4 DEF Authenticated, Flags
      <4> QED
        BY <3>4, <4>1 DEF Authenticated
    <3>5. CASE Lost(s)
      <4>1. svc' \in Flags
        BY <3>5, DownFlags DEF Lost
      <4>2. pc' \in [Caller -> {"idle", "sleep", "lock", "wait"}]
        BY <3>5 DEF Lost
      <4>3. faults' \in 0 .. MaxFaults
        BY <3>5 DEF Lost
      <4> QED
        BY <3>5, <4>1, <4>2, <4>3 DEF Lost
    <3> QED
      BY <2>6, <3>1, <3>2, <3>3, <3>4, <3>5 DEF Reactor
  <2>7. CASE UNCHANGED vars
    BY <2>7 DEF vars
  <2> QED
    BY <2>3, <2>4, <2>5, <2>6, <2>7 DEF Next
<1> QED
  BY <1>1, <1>2, PTL DEF Spec

\* What keeps OnlineIsReal: the flag of the handler of 2103, not the pair of flags,
\* stands for the connection, and the connection's own loss clears it.
Real ==
  svc.authenticated => protocol \in Socket /\ sock[protocol] \in {"live", "closing"}

\* Stale sockets share the session's flags; still, a session that reports itself
\* connected sends on a connection that was authenticated and is not yet lost.
THEOREM SessionIsReal == Spec => []OnlineIsReal
<1> USE SessionAssumption
<1>1. Init => Real
  BY DEF Init, Real
<1>2. TypeOK /\ Real /\ [Next]_vars => Real'
  <2> SUFFICES ASSUME TypeOK, Real, [Next]_vars PROVE Real'
    OBVIOUS
  <2> USE DEF TypeOK, Flags
  <2>1. ASSUME NEW c \in Caller, NEW f, Dial(c, f), f \in Flags PROVE ~svc'.authenticated
    BY <2>1 DEF Dial
  <2>2. ASSUME NEW c \in Caller, NEW f \in Flags PROVE Return(c, f).authenticated = f.authenticated
    BY DEF Return
  <2>3. ASSUME NEW c \in Caller, Call(c) PROVE Real'
    <3>1. CASE Ensure(c)
      BY <3>1 DEF Ensure, Real
    <3>2. CASE Connect(c)
      <4>1. CASE Ready \/ svc.cooling
        BY <3>2, <4>1, <2>2 DEF Connect, Real
      <4>2. CASE ~(Ready \/ svc.cooling)
        BY <3>2, <4>2, <2>1 DEF Connect, Real
      <4> QED
        BY <4>1, <4>2
    <3>3. CASE ConnectOk(c)
      BY <3>3, <2>2 DEF ConnectOk, Real
    <3>4. CASE ConnectRetry(c)
      <4> DEFINE f == [svc EXCEPT !.retry = FALSE, !.cooling = FALSE]
      <4>1. f \in Flags
        OBVIOUS
      <4>2. Dial(c, f)
        BY <3>4, Zenon DEF ConnectRetry
      <4> HIDE DEF f
      <4> QED
        BY <4>1, <4>2, <2>1 DEF Real
    <3>5. CASE ConnectFailed(c)
      <4> DEFINE f == [svc EXCEPT !.dry = TRUE, !.cooling = TRUE]
      <4>1. f \in Flags /\ ~f.authenticated
        BY <3>5 DEF ConnectFailed
      <4>2. svc' = Return(c, f)
        BY <3>5, Zenon DEF ConnectFailed
      <4> HIDE DEF f
      <4> QED
        BY <4>1, <4>2, <2>2 DEF Real
    <3> QED
      BY <2>3, <3>1, <3>2, <3>3, <3>4, <3>5 DEF Call
  <2>4. ASSUME NEW w \in Workers, Wake(w) PROVE Real'
    BY <2>4 DEF Wake, Real
  <2>5. CASE Enable \/ Disable \/ CooledDown
    BY <2>5 DEF Enable, Disable, CooledDown, Real
  <2>6. ASSUME NEW s \in Socket, Reactor(s) PROVE Real'
    <3>1. CASE TcpUp(s) \/ NoAccounts(s) \/ ErrorRes(s)
      <4>1. protocol' = protocol /\ svc'.authenticated = svc.authenticated
        BY <3>1 DEF TcpUp, NoAccounts, ErrorRes
      <4>2. sock[s] \in {"live", "closing"} => sock'[s] \in {"live", "closing"}
        BY <3>1 DEF TcpUp, NoAccounts, ErrorRes
      <4>3. \A k \in Socket \ {s} : sock'[k] = sock[k]
        BY <3>1 DEF TcpUp, NoAccounts, ErrorRes
      <4> QED
        BY <4>1, <4>2, <4>3 DEF Real
    <3>2. CASE Refused(s)
      BY <3>2 DEF Refused, Real
    <3>3. CASE WrongHost(s)
      BY <3>3 DEF WrongHost, Real
    <3>4. CASE Authenticated(s)
      BY <3>4 DEF Authenticated, Real
    <3>5. CASE Lost(s)
      BY <3>5, DownFlags DEF Lost, Real
    <3> QED
      BY <2>6, <3>1, <3>2, <3>3, <3>4, <3>5 DEF Reactor
  <2>7. CASE UNCHANGED vars
    BY <2>7 DEF vars, Real
  <2> QED
    BY <2>3, <2>4, <2>5, <2>6, <2>7 DEF Next
<1>3. Real /\ TypeOK => OnlineIsReal
  BY DEF Real, OnlineIsReal, IsConnected, TypeOK, Socket, None
<1> QED
  BY <1>1, <1>2, <1>3, TypeCorrect, PTL DEF Spec
=============================================================================
