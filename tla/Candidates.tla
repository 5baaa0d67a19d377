----------------------------- MODULE Candidates -----------------------------
(***************************************************************************)
(* SignalCandidateEngine: trade candidates in memory from a scan to their  *)
(* end, and the execution that an outside scheduler asks for, possibly     *)
(* twice or late.                                                          *)
(*                                                                         *)
(* Everything runs on one event loop.  A scan awaits its data and then     *)
(* checks and inserts in one step; execute_candidate checks, awaits the    *)
(* connection in a thread, and places the order: that is the one cut.      *)
(* While it waits, its candidate may change or leave the store.            *)
(*                                                                         *)
(* A leg is a symbol and a direction, the quotes of one perpetual taken    *)
(* together.  Which legs the cache or a row shows a position of changes    *)
(* at any time: CtraderBook is how that view lags behind the broker.  A    *)
(* candidate is sized when it is made, and again when cTrader executes it, *)
(* so that it risks a fixed part of the equity at that time.  Prices,      *)
(* spreads, cooldowns and the caps on symbols and currencies only refuse:  *)
(* a refusal leaves everything as it is.                                   *)
(***************************************************************************)
EXTENDS Integers, FiniteSets, FiniteSetsExt

CONSTANTS
  Id,        \* bound: candidates in memory at a time
  Leg,       \* bound: legs
  Caller,    \* bound: executions under way at a time
  Equities,  \* bound: what the account is worth
  Part,      \* default_risk_pct
  Share,     \* max_portfolio_risk_pct
  Window,    \* length of an execution window
  Ttl,       \* CANDIDATE_TTL_SECONDS, also RECENT_EXECUTED_REARM_SECONDS
  MaxKeep,   \* max_candidates
  MaxTime    \* bound: clock

ASSUME CandidatesAssumption ==
  /\ IsFiniteSet(Id) /\ Equities \subseteq Nat /\ Part \in Nat /\ Share \in Nat /\ Window \in Nat /\ Ttl \in Nat \ {0}
  /\ MaxKeep \in Nat /\ MaxTime \in Nat
  /\ "none" \notin Id \cup Leg

VARIABLES
  cand,   \* the candidate objects
  store,  \* candidates: those the engine still has
  job,    \* the candidate each execution is placing
  seen,   \* legs the cache or a row shows a position of
  equity, \* what the account is worth
  now     \* the clock

engineVars == <<cand, store, job, seen, equity, now>>

None == "none"
LiveStatuses == {"PENDING", "READY"}
Terminal == {"EXECUTED", "EXPIRED", "CANCELLED"}
NoCand == [leg |-> None, st |-> "CANCELLED", risk |-> 0, early |-> 0, late |-> 0, at |-> 0]
Busy == {job[c] : c \in Caller} \ {None}
Armed == {i \in store : cand[i].st \in LiveStatuses}

\* The candidates become c, the store S and the executions j; an object nobody
\* has any more is forgotten.
Update(c, S, j) ==
  /\ store' = S /\ job' = j
  /\ cand' = [i \in Id |-> IF i \in S \/ (\E k \in Caller : j[k] = i) THEN c[i] ELSE NoCand]

EngineInit ==
  /\ cand = [i \in Id |-> NoCand] /\ store = {} /\ job = [c \in Caller |-> None]
  /\ seen = {} /\ equity \in Equities /\ now = 0

-----------------------------------------------------------------------------
\* Pruning.

\* _prune_terminal_candidates: terminal and a day old.
Old(i) == cand[i].st \in Terminal /\ now - cand[i].at >= Ttl

\* Fault-seeded: whatever is past its window goes.
Lapsed_Late(c, i) == \/ c[i].st \in {"EXPIRED", "CANCELLED"}
                     \/ now > c[i].late

\* prune_candidates: expired, cancelled, or past its window and not executed.
Lapsed(c, i) == \/ c[i].st \in {"EXPIRED", "CANCELLED"}
                \/ now > c[i].late /\ c[i].st # "EXECUTED"

\* What is kept when there are too many: every executed one, and the newest of
\* the others.
Trimmed(kept) ==
  LET executed == {i \in kept : cand[i].st = "EXECUTED"}
      others == kept \ executed
      room == IF MaxKeep > Cardinality(executed) THEN MaxKeep - Cardinality(executed) ELSE 0
  IN IF Cardinality(kept) <= MaxKeep THEN {kept}
     ELSE {executed \cup S : S \in {T \in SUBSET others :
             /\ Cardinality(T) = room
             /\ \A i \in T, j \in others \ T : cand[j].at <= cand[i].at}}

\* Both prunings, at the start of a scan.
Prune ==
  /\ \E S \in Trimmed({i \in store : ~Old(i) /\ ~Lapsed(cand, i)}) : Update(cand, S, job)
  /\ UNCHANGED <<seen, equity, now>>

\* get_ready_signals: prunes, moves every candidate along its window, prunes again.
\* What it returns is only a proposal: execute_candidate checks again.
Moved(i) ==
  IF now > cand[i].late THEN IF cand[i].st \in LiveStatuses THEN "EXPIRED" ELSE cand[i].st
  ELSE IF cand[i].early <= now /\ cand[i].st = "PENDING" THEN "READY" ELSE cand[i].st

GetReady ==
  /\ LET c == [i \in Id |-> IF i \in store /\ ~Old(i) THEN [cand[i] EXCEPT !.st = Moved(i)] ELSE cand[i]]
     IN \E S \in Trimmed({i \in store : ~Old(i) /\ ~Lapsed(c, i)}) : Update(c, S, job)
  /\ UNCHANGED <<seen, equity, now>>

-----------------------------------------------------------------------------
\* A scan admits a candidate.

\* _live_committed_risk_usd, without the candidate itself.
Committed(but) == FoldSet(LAMBDA i, n : cand[i].risk + n, 0, Armed \ {but})

\* Fault-seeded: the budget is checked before what comes in.
WithinRisk_Before(risk, but) == Committed(but) <= Share * equity

\* _portfolio_risk_breach.
WithinRisk(risk, but) == Committed(but) + risk <= Share * equity

\* Fault-seeded: a live candidate is looked for on the same side of READY only.
LiveTwin_Ready(l) == \E i \in store : cand[i].st = "READY" /\ cand[i].leg = l

\* _has_live_same_direction_candidate; a twin of the same strategy is one of these.
LiveTwin(l) == \E i \in Armed : cand[i].leg = l

\* _has_recent_executed_twin.
RecentTwin(l) == \E i \in store : cand[i].st = "EXECUTED" /\ cand[i].leg = l /\ now - cand[i].at < Ttl

\* _refuse_new_candidate_reason has none, and the candidate is stored.  It was
\* sized before the await of the timing gate.
Insert(i, l, early, risk) ==
  /\ i \notin store \cup Busy
  /\ ~LiveTwin(l) /\ ~RecentTwin(l) /\ l \notin seen /\ WithinRisk(risk, None)
  /\ Update([cand EXCEPT ![i] = [leg |-> l, st |-> IF early > now THEN "PENDING" ELSE "READY",
                                 risk |-> risk, early |-> early, late |-> early + Window, at |-> now]],
            store \cup {i}, job)
  /\ UNCHANGED <<seen, equity, now>>

\* POST /candidates/cancel: one, or those of a leg.
CancelLive(S) ==
  /\ S # {} /\ S \subseteq Armed
  /\ Update([i \in Id |-> IF i \in S THEN [cand[i] EXCEPT !.st = "CANCELLED"] ELSE cand[i]], store, job)
  /\ UNCHANGED <<seen, equity, now>>

\* POST /candidates/clear.
Clear(all) ==
  /\ Update(cand, {i \in store : ~all /\ cand[i].st = "EXECUTED"}, job)
  /\ UNCHANGED <<seen, equity, now>>

-----------------------------------------------------------------------------
\* execute_candidate.

\* Asked after the window: the candidate is expired, whatever it was.
ExecuteLate(i) ==
  /\ i \in store /\ now > cand[i].late
  /\ Update([cand EXCEPT ![i].st = "EXPIRED"], store, job)
  /\ UNCHANGED <<seen, equity, now>>

\* The checks up to the await; the status is not one of them, and a forced
\* execution leaves the window out.  cTrader sizes the candidate again.
Execute(c, i, force) ==
  /\ job[c] = None /\ i \in store
  /\ force \/ (cand[i].early <= now /\ now <= cand[i].late)
  /\ cand[i].leg \notin seen /\ WithinRisk(cand[i].risk, i)
  /\ \E r \in {cand[i].risk, Part * equity} : Update([cand EXCEPT ![i].risk = r], store, [job EXCEPT ![c] = i])
  /\ UNCHANGED <<seen, equity, now>>

\* Fault-seeded: the twins of an executed candidate stay armed.
Executed_Alone(i) == [cand EXCEPT ![i].st = "EXECUTED", ![i].at = now]

\* Executed: its twins still in the store are cancelled.
Executed(i) ==
  [k \in Id |-> IF k = i THEN [cand[i] EXCEPT !.st = "EXECUTED", !.at = now]
                ELSE IF k \in Armed /\ cand[k].leg = cand[i].leg THEN [cand[k] EXCEPT !.st = "CANCELLED"]
                ELSE cand[k]]

Done(c) == [job EXCEPT ![c] = None]

\* place_order after the await: taken for filled, sent or simulated; or answered
\* with an error, and the candidate is as before.
Success(c) ==
  /\ job[c] # None /\ Update(Executed(job[c]), store, Done(c))
  /\ UNCHANGED <<seen, equity, now>>

\* Not connected or refused, and the candidate is as before; a closed market cancels it.
Failure(c) ==
  LET i == job[c]
  IN /\ i # None
     /\ \/ Update(cand, store, Done(c))
        \/ Update([cand EXCEPT ![i].st = "CANCELLED"], store, Done(c))
     /\ UNCHANGED <<seen, equity, now>>

-----------------------------------------------------------------------------
\* The book, the account and the clock.

\* Positions open and close, and rows and cache follow or not.
SeeLegs(S) == S # seen /\ seen' = S /\ UNCHANGED <<cand, store, job, equity, now>>

Tick == now < MaxTime /\ now' = now + 1 /\ UNCHANGED <<cand, store, job, seen, equity>>

\* The account gains or loses.
Revalue(e) == e # equity /\ equity' = e /\ UNCHANGED <<cand, store, job, seen, now>>

EngineNext ==
  \/ Prune \/ GetReady
  \/ \E i \in Id, l \in Leg, e \in {now, now + 1}, q \in Equities : Insert(i, l, e, Part * q)
  \/ \E i \in Id : CancelLive({i}) \/ ExecuteLate(i)
  \/ \E l \in Leg : CancelLive({i \in Armed : cand[i].leg = l})
  \/ \E all \in BOOLEAN : Clear(all)
  \/ \E c \in Caller : Success(c) \/ Failure(c) \/ \E i \in Id, f \in BOOLEAN : Execute(c, i, f)
  \/ Tick \/ \E S \in SUBSET Leg : SeeLegs(S)
  \/ \E e \in Equities : Revalue(e)

EngineSpec == EngineInit /\ [][EngineNext]_engineVars

-----------------------------------------------------------------------------
\* Properties.

\* Types of the variables; an armed candidate is stored with its leg, and one that
\* is being placed is still an object.
EngineTypeOK ==
  /\ cand \in [Id -> [leg : Leg \cup {None}, st : LiveStatuses \cup Terminal, risk : {Part * e : e \in Equities} \cup {0},
                      early : 0 .. MaxTime + 1, late : 0 .. MaxTime + 1 + Window, at : 0 .. MaxTime]]
  /\ store \subseteq Id /\ job \in [Caller -> Id \cup {None}]
  /\ \A i \in Id : i \in store \cup Busy <=> cand[i].leg # None
  /\ seen \subseteq Leg /\ equity \in Equities /\ now \in 0 .. MaxTime

\* No two live candidates of a leg, whatever scans, polls, cancels and executions
\* run in between (the check and insert without an await).
OneArmedPerLeg == \A i, j \in Armed : i # j => cand[i].leg # cand[j].leg

\* No live candidate on a leg that was executed within the day, as long as the
\* executed row is in the store.
BrakeHolds == \A i \in Armed : ~RecentTwin(cand[i].leg)

\* Executed rows are the brake on arming again: none leaves the store or loses its
\* status within the day, unless all is cleared or somebody executes it once more.
ExecutedKept ==
  [][~Clear(TRUE) => \A i \in store \ Busy :
       /\ cand[i].st = "EXECUTED" /\ now - cand[i].at < Ttl
       /\ ~ExecuteLate(i)
       => i \in store' /\ cand'[i].st = "EXECUTED"]_engineVars

\* Whatever is admitted, moved or cancelled, the live candidates go over their
\* risk budget only when the account loses or an execution sizes its candidate
\* again after its check, and while they are over it none is added.
Over == Committed(None) > Share * equity
SizedAgain == \E i \in Armed \cap Busy' : cand'[i].risk # cand[i].risk

WithinBudget == [][Over' => equity' < equity \/ SizedAgain \/ (Over /\ Armed' \subseteq Armed)]_engineVars

=============================================================================
