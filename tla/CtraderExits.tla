---------------------------- MODULE CtraderExits ----------------------------
(***************************************************************************)
(* The stop of one cTrader position: the exit manager that moves it to     *)
(* break even and trails it, the poller that runs the manager, restores a  *)
(* missing stop and reconciles the Trade row, and the desk's amends.       *)
(*                                                                         *)
(* Nobody knows the stop the broker has: amends are sent without waiting,  *)
(* and the cache is whatever list of positions arrived last.  The manager  *)
(* measures in R, the distance from entry to the first stop, which it      *)
(* keeps in the row.                                                       *)
(*                                                                         *)
(* A long position; a short one is its mirror image.  Prices are relative  *)
(* to the entry, in ticks, and fractions of R are rounded down.  A close   *)
(* ends the position and the model with it: it is no action.               *)
(***************************************************************************)
EXTENDS Integers, Sequences

CONSTANTS
  R0,         \* the distance of the stop the entry asked for
  Marks,      \* bound: prices
  DeskStops,  \* bound: stops the desk asks for
  MinDist,    \* min_protective_distance: the broker's stop level
  MaxDist,    \* max_protective_distance
  Pip,        \* pip_size_for
  MaxLag,     \* bound: messages on their way when a poll begins
  MaxAmends,  \* bound: amends by the desk
  MaxFaults   \* bound: lost connections, restarts, failed commits

ASSUME ExitsAssumption ==
  /\ {R0, MinDist, MaxDist} \subseteq Nat \ {0} /\ {Pip, MaxLag, MaxAmends, MaxFaults} \subseteq Nat
  /\ MinDist <= R0 /\ R0 <= MaxDist /\ Marks \subseteq Int /\ DeskStops \subseteq Int

VARIABLES
  mark,     \* the market
  stop,     \* the broker: the stop of the position
  asked,    \* requests on their way to the broker
  wire,     \* messages on their way to the client
  up,       \* is_connected
  dry,      \* _dry_run of a session that is up: it authenticated too late
  cache,    \* the position in _positions
  row,      \* its Trade row: stop_loss, and r_distance in broker_metadata
  pc,       \* the poller: idle, restore, again, reconcile, exits, commit
  snap,     \* the position in the poller's live_positions, until it is used
  session,  \* the exit manager's session: the R it found, whether it amended
  resting,  \* _sl_restore_sent is less than a minute old
  amends,   \* amends by the desk so far
  early,    \* history: an amend went out while R was on no record, and the
            \* session that sent it, if it was the manager's, did not record R
  tight,    \* history: the manager measured an R inside the stop level
  faults

broker == <<mark, stop>>
book == <<cache, row>>
poller == <<pc, snap, session, resting>>
past == <<early, tight>>
vars == <<broker, asked, wire, up, dry, book, poller, amends, past, faults>>

NoStop == -1000000          \* below every price
NoR == 0
Away == [in |-> FALSE, sl |-> NoStop]
NoRow == [in |-> FALSE, sl |-> NoStop, r |-> NoR]
NoWork == [r |-> NoR, sent |-> FALSE]
Low(a, b) == IF a < b THEN a ELSE b
High(a, b) == IF a > b THEN a ELSE b
Distance(a) == High(a, -a)
Known == row.in /\ row.r # NoR
Fault == faults < MaxFaults /\ faults' = faults + 1

Amend(by, sl) == [by |-> by, sl |-> sl]
Book == Amend("book", NoStop)

\* The row of an entry with the stop it asked for, unless its insert failed; the
\* broker drops a stop inside its stop level without a word.
Init ==
  /\ mark \in {m \in Marks : m < R0 /\ m > -R0} /\ stop \in {-R0, NoStop}
  /\ asked = <<>> /\ wire = <<>> /\ up = TRUE /\ dry = FALSE
  /\ cache = [in |-> TRUE, sl |-> stop]
  /\ row \in {NoRow, [in |-> TRUE, sl |-> -R0, r |-> NoR]}
  /\ pc = "idle" /\ snap = Away /\ session = NoWork /\ resting = FALSE
  /\ amends = 0 /\ early = FALSE /\ tight = FALSE /\ faults = 0

-----------------------------------------------------------------------------
\* The broker.

Say(msg) == wire' = IF up THEN Append(wire, msg) ELSE wire

\* The market moves, not as far as the stop.
Move(m) ==
  /\ m # mark /\ stop < m /\ mark' = m
  /\ UNCHANGED <<stop, asked, wire, up, dry, book, poller, amends, past, faults>>

\* A stop at or past the market is refused, one inside the stop level may be.
\* What an amend does not name is cleared.  An error event changes nothing.
Answer ==
  /\ asked # <<>> /\ asked' = Tail(asked)
  /\ LET q == Head(asked)
         far == mark - q.sl
     IN \/ q.by = "book" /\ Say([list |-> TRUE, sl |-> stop]) /\ UNCHANGED stop
        \/ q.by # "book" /\ far > 0 /\ stop' = q.sl /\ Say([list |-> FALSE, sl |-> NoStop])
        \/ q.by # "book" /\ far < MinDist /\ UNCHANGED <<stop, wire>>
  /\ UNCHANGED <<mark, up, dry, book, poller, amends, past, faults>>

-----------------------------------------------------------------------------
\* The client's side of the socket.

\* reconcile_ctrader_positions for a position: the row takes the live stop over,
\* and a position without a row gets a bare one.
Reconciled(pos) ==
  IF ~row.in THEN [NoRow EXCEPT !.in = TRUE]
  ELSE IF pos.sl # NoStop THEN [row EXCEPT !.sl = pos.sl] ELSE row

\* An execution event makes the reactor thread ask for the book; a list becomes
\* the cache and the row is reconciled with it.
Receive ==
  /\ wire # <<>> /\ wire' = Tail(wire)
  /\ LET m == Head(wire)
     IN IF m.list
        THEN /\ cache' = [in |-> TRUE, sl |-> m.sl]
             /\ row' = Reconciled(cache')
             /\ UNCHANGED asked
        ELSE asked' = Append(asked, Book) /\ UNCHANGED book
  /\ UNCHANGED <<broker, up, dry, poller, amends, past, faults>>

\* is_plausible_stop, relative to the entry.
Plausible(sl) == 20 * Distance(sl) <= 21 * MaxDist

\* amend_position_sltp: nothing is sent off line, by a session in dry-run, for a
\* position that is not in the cache, or for an implausible stop.
Sent(sl) == up /\ ~dry /\ cache.in /\ (sl # NoStop => Plausible(sl))
Send(by, sl) == asked' = IF Sent(sl) THEN Append(asked, Amend(by, sl)) ELSE asked

\* The amend route, which refuses a stop at or above the mark.  The target alone
\* may be given, and then the stop is cleared.
Desk(sl) ==
  /\ amends < MaxAmends /\ amends' = amends + 1
  /\ sl < mark /\ Sent(sl) /\ Send("desk", sl)
  /\ early' = (early \/ ~Known)
  /\ UNCHANGED <<broker, wire, up, dry, book, poller, tight, faults>>

-----------------------------------------------------------------------------
\* sync_ctrader_once, one step per await.

Poll ==
  /\ pc = "idle" /\ up /\ Len(asked) + Len(wire) <= MaxLag
  /\ pc' = "restore" /\ snap' = cache
  /\ UNCHANGED <<broker, asked, wire, up, dry, book, session, resting, amends, past, faults>>

\* missing_stop_price.
MissingStop ==
  LET sl == Low(-MinDist, mark - MinDist)
  IN -Low(High(Distance(sl), MinDist), MaxDist)

\* Fault-seeded: the comparison with the last time is inverted.
Restoring_Inverted == cache.in /\ cache.sl = NoStop /\ resting

\* restore_missing_stops, for a position without a stop and not within a minute
\* of the last time, whether or not that amend went out.
Restoring == cache.in /\ cache.sl = NoStop /\ ~resting

Restore ==
  /\ pc = "restore"
  /\ IF Restoring
     THEN /\ Send("restore", MissingStop) /\ resting' = TRUE /\ pc' = "again" /\ snap' = Away
          /\ early' = (early \/ (~Known /\ Sent(MissingStop)))
     ELSE pc' = "reconcile" /\ UNCHANGED <<asked, snap, resting, early>>
  /\ UNCHANGED <<broker, wire, up, dry, book, session, amends, tight, faults>>

Again ==
  /\ pc = "again"
  /\ pc' = "reconcile" /\ snap' = cache
  /\ UNCHANGED <<broker, asked, wire, up, dry, book, session, resting, amends, past, faults>>

\* The minute is over.
Rested ==
  /\ resting /\ resting' = FALSE
  /\ UNCHANGED <<broker, asked, wire, up, dry, book, pc, snap, session, amends, past, faults>>

Reconcile ==
  /\ pc = "reconcile" /\ pc' = "exits" /\ snap' = Away
  /\ row' = IF snap.in THEN Reconciled(snap) ELSE row
  /\ UNCHANGED <<broker, asked, wire, up, dry, cache, session, resting, amends, past, faults>>

\* Fault-seeded: R is measured anew from the stop of the row.
Original_Measured ==
  IF row.sl \notin {0, NoStop} THEN Distance(row.sl)
  ELSE IF cache.sl \notin {0, NoStop} THEN Distance(cache.sl) ELSE row.r

\* _original_r_distance: R on record, else from the stop of the row, else from
\* the stop in the cache.
Original ==
  IF row.r # NoR THEN row.r
  ELSE IF row.sl \notin {0, NoStop} THEN Distance(row.sl)
  ELSE IF cache.sl \notin {0, NoStop} THEN Distance(cache.sl) ELSE NoR

\* The break-even level, the trail behind the mark from 1.5 R on, and the
\* broker's stop level before both.
Target(r) ==
  LET even == r \div 10
      trail == mark - High((3 * r) \div 4, MinDist)
      level == IF 2 * mark >= 3 * r THEN High(even, trail) ELSE even
  IN Low(level, mark - MinDist)

\* Fault-seeded: the level is clamped to the losing side of the entry.
Clamped_Entry(t) == -Low(High(Distance(t), MinDist), MaxDist)

\* clamp_protective_prices against the mark.
Clamped(t) == mark - Low(High(mark - t, MinDist), MaxDist)

Better(sl) == sl > cache.sl + Pip

\* _manage_position: whether an amend is tried for the cached position.
Managed(r) == mark >= r /\ Better(Target(r)) /\ Better(Clamped(Target(r)))

\* run_exit_manager_once up to its commit.
Exits ==
  /\ pc = "exits"
  /\ LET r == Original
     IN IF up /\ cache.in /\ row.in /\ r # NoR
        THEN LET act == Managed(r) /\ Sent(Clamped(Target(r)))
             IN /\ IF act THEN Send("manager", Clamped(Target(r))) ELSE UNCHANGED asked
                /\ session' = [r |-> r, sent |-> act] /\ pc' = "commit"
                /\ tight' = (tight \/ r < MinDist)
        ELSE pc' = "idle" /\ UNCHANGED <<asked, session, tight>>
  /\ UNCHANGED <<broker, wire, up, dry, book, snap, resting, amends, early, faults>>

\* A commit that fails loses the R found in this pass, and not the amend.
Commit ==
  /\ pc = "commit" /\ pc' = "idle" /\ session' = NoWork
  /\ \/ row' = [row EXCEPT !.r = session.r] /\ UNCHANGED <<early, faults>>
     \/ Fault /\ UNCHANGED row /\ early' = (early \/ (session.sent /\ ~Known))
  /\ UNCHANGED <<broker, asked, wire, up, dry, cache, snap, resting, amends, tight>>

-----------------------------------------------------------------------------
\* Lost connections and restarts.

Lost ==
  /\ up /\ Fault /\ up' = FALSE /\ dry' = FALSE /\ asked' = <<>> /\ wire' = <<>>
  /\ UNCHANGED <<broker, book, poller, amends, past>>

Restart ==
  /\ Fault /\ up' = FALSE /\ dry' = FALSE /\ asked' = <<>> /\ wire' = <<>>
  /\ cache' = Away /\ pc' = "idle" /\ snap' = Away /\ session' = NoWork /\ resting' = FALSE
  /\ early' = (early \/ (session.sent /\ ~Known))
  /\ UNCHANGED <<broker, row, amends, tight>>

\* The account is authenticated again and its book asked for; after the attempt
\* that waited for it has failed the session stays in dry-run.
Reconnect ==
  /\ ~up /\ up' = TRUE /\ dry' \in BOOLEAN /\ asked' = <<Book>>
  /\ UNCHANGED <<broker, wire, book, poller, amends, past, faults>>

\* An order (ensure_connected) or the desk (connect) takes a session in dry-run
\* for none and connects anew.
Redial ==
  /\ up /\ dry /\ up' = FALSE /\ dry' = FALSE /\ asked' = <<>> /\ wire' = <<>>
  /\ UNCHANGED <<broker, book, poller, amends, past, faults>>

-----------------------------------------------------------------------------
Socket == Answer \/ Receive \/ Reconnect
Poller == Poll \/ Restore \/ Again \/ Reconcile \/ Exits \/ Commit

Next ==
  \/ Socket \/ Poller \/ Rested
  \/ \E m \in Marks : Move(m)
  \/ \E sl \in DeskStops \cup {NoStop} : Desk(sl)
  \/ Lost \/ Restart \/ Redial

Spec == Init /\ [][Next]_vars

\* The poller polls forever, messages arrive, the session comes back (Online of
\* CtraderSession, maybe in dry-run, which nobody has to end) and a minute passes.
\* Market, desk and faults are free.
Fairness ==
  /\ WF_vars(Answer) /\ WF_vars(Receive) /\ WF_vars(Reconnect) /\ WF_vars(Poller) /\ WF_vars(Rested)

FairSpec == Spec /\ Fairness

-----------------------------------------------------------------------------
\* Properties.

Messages == [by : {"book", "manager", "restore", "desk"}, sl : Int]

\* Every variable stays in its range.
TypeOK ==
  /\ mark \in Marks /\ stop \in Int
  /\ asked \in Seq(Messages) /\ wire \in Seq([list : BOOLEAN, sl : Int]) /\ up \in BOOLEAN /\ dry \in BOOLEAN
  /\ cache \in [in : BOOLEAN, sl : Int] /\ snap \in [in : BOOLEAN, sl : Int]
  /\ row \in [in : BOOLEAN, sl : Int, r : Nat]
  /\ pc \in {"idle", "restore", "again", "reconcile", "exits", "commit"}
  /\ session \in [r : Nat, sent : BOOLEAN] /\ resting \in BOOLEAN
  /\ amends \in 0 .. MaxAmends /\ early \in BOOLEAN /\ tight \in BOOLEAN /\ faults \in 0 .. MaxFaults

\* "R is the ORIGINAL entry->stop distance, persisted ... so restarts and prior
\* amends can never shrink it": the R on record is the entry's, unless an amend
\* went out before any R was on record: one of the desk, a restored stop, or one
\* of the manager whose session then failed to record R or died.
RIsOriginal == row.r \in {NoR, R0} \/ early

\* "clamping back to the loss side of entry defeats break-even": however far the
\* cache lags behind, the manager never takes a stop that protects a profit back
\* to the losing side, as long as no R it measured was inside the stop level.
LockKept ==
  [][stop >= 0 /\ stop' < 0 => tight \/ Head(asked).by # "manager"]_vars

\* The market is calm, and amends are not merely simulated.
Settled(m) == <>[](mark = m /\ ~dry)

\* A position the broker left without a stop, at the entry or when the desk
\* amended its target alone, gets one, once the market is calm.  The stop is
\* clamped around the entry: further below it the market is inside or past the
\* clamped stop, which the broker may refuse for ever.
StopRestored == \A m \in {k \in Marks : k + MaxDist >= MinDist} : Settled(m) => <>[](stop # NoStop)

\* A winner's stop ends at or above the entry, once the market is calm at 1 R or
\* more and not so far that the stop would be refused as implausible.
BreaksEven ==
  \A m \in {k \in Marks : k >= MinDist /\ Plausible(k - MinDist)} :
    Settled(m) => <>[](Known /\ (m >= row.r => stop >= 0))
=============================================================================
