------------------------------- MODULE Sentry -------------------------------
(***************************************************************************)
(* The trading halt: the status file shared by the backend and the         *)
(* sentry_watchdog container, the backend coroutines that halt and resume  *)
(* trading, the watchdog's polling loop, and the gate that the trading     *)
(* loop reads at the start of a cycle.                                     *)
(*                                                                         *)
(* A handler of the backend is cut at its await points: between two of its *)
(* steps any other handler, executor thread or the watchdog may run.  The  *)
(* status file is read and written in one step here; module SentryFile     *)
(* looks inside the write.                                                 *)
(***************************************************************************)
EXTENDS Integers, FiniteSets

CONSTANTS
  FailThreshold,    \* SENTRY_FAIL_THRESHOLD: failed polls before an emergency
  Cooldown,         \* SENTRY_EMERGENCY_COOLDOWN_SEC, in poll intervals
  ResumeAfter,      \* SENTRY_RESUME_AFTER_SEC, in poll intervals
  ResumeChecks,     \* SENTRY_RESUME_HEALTH_CHECKS: healthy polls before a resume
  Grace,            \* SENTRY_STARTUP_GRACE_SEC, in poll intervals
  RequireReconcile, \* SENTRY_RESUME_REQUIRE_RECONCILE
  AutoSlots,        \* bound: auto-resume requests the backend serves at once
  MaxLegs,          \* bound: positions the trading loop may open
  MaxFaults         \* bound: operator requests, outages and restarts

ASSUME SentryAssumption ==
  /\ FailThreshold \in Nat \ {0} /\ ResumeChecks \in Nat \ {0}
  /\ Cooldown \in Nat /\ ResumeAfter \in Nat /\ Grace \in Nat
  /\ MaxLegs \in Nat /\ MaxFaults \in Nat
  /\ RequireReconcile \in BOOLEAN
  /\ IsFiniteSet(AutoSlots) /\ "operator" \notin AutoSlots

VARIABLES
  status,      \* the "status" field of trading_status.json
  haltAge,     \* poll intervals since "halted_at", capped at ResumeAfter
  manual,      \* history: what became of the operator's last manual halt
  backend,     \* "up", "hung" (alive, /health does not answer) or "down"
  haltReq,     \* an emergency-halt request of the watchdog is queued
  flattening,  \* emergency halts whose flag is set and whose closes are running
  resume,      \* program counter of each safe_resume coroutine
  loopPc,      \* trading loop: "idle" or "cycle" (past the gate)
  legs,        \* positions open on the exchange
  wdPc,        \* program counter of the watchdog
  fails,       \* consecutive_failures, capped at FailThreshold
  healthy,     \* consecutive_healthy, capped at ResumeChecks
  sinceEmergency, \* poll intervals since last_emergency_at, capped at Cooldown
  uptime,      \* poll intervals since started_at, capped at Grace
  seenHealthy, \* seen_healthy
  faults       \* operator requests, outages and restarts so far

fileVars == <<status, haltAge, manual>>
backVars == <<backend, haltReq, flattening, resume>>
loopVars == <<loopPc, legs>>
wdCounts == <<fails, healthy, sinceEmergency, uptime, seenHealthy>>
vars == <<fileVars, backVars, loopVars, wdPc, wdCounts, faults>>

TradingStatus == {"ACTIVE", "HALTED_BY_SENTRY", "HALTED_MANUAL"}
HaltSource == {"watchdog", "operator", "stop"}
ResumeSlot == AutoSlots \cup {"operator"}
Least(a, b) == IF a < b THEN a ELSE b

-----------------------------------------------------------------------------
\* The status file.

ResumeInFlight == \E s \in ResumeSlot : resume[s] # "idle"

\* Fault-seeded: the name of the source gets into the status.
HaltTrading_BadStatus(src, isManual) ==
  /\ status' = IF isManual THEN "HALTED_MANUAL" ELSE src
  /\ haltAge' = 0
  /\ UNCHANGED manual

\* halt_trading: the flag and the time of the halt are written together.  The
\* history variable notes whether a manual halt found a resume in flight, and
\* whether a halt that no operator asked for was written over it.
HaltTrading(src, isManual) ==
  /\ status' = IF isManual THEN "HALTED_MANUAL" ELSE "HALTED_BY_SENTRY"
  /\ haltAge' = 0
  /\ manual' = IF isManual THEN IF ResumeInFlight THEN "raced" ELSE "held"
                ELSE IF src = "operator" THEN "none"
                ELSE IF manual = "held" THEN "overwritten" ELSE manual

\* resume_trading: halted_at is kept, so haltAge is too.
ResumeTrading ==
  /\ status' = "ACTIVE"
  /\ UNCHANGED haltAge

\* A step of the environment that the bound on faults allows.
Fault == faults < MaxFaults /\ faults' = faults + 1

\* From its last await to its end a resume keeps the event loop to itself; the
\* executor threads and the watchdog go on.
LoopFree == \A s \in ResumeSlot : resume[s] # "restoring"
Serving == backend # "down" /\ LoopFree

-----------------------------------------------------------------------------
\* Backend: halting.

\* POST /sentry/halt: the flag only, nothing is closed.
ManualHalt ==
  /\ Fault
  /\ Serving
  /\ HaltTrading("operator", TRUE)
  /\ UNCHANGED <<backVars, loopVars, wdPc, wdCounts>>

\* POST /sentry/emergency-halt by an operator, with or without manual=true.
OperatorEmergencyHalt ==
  /\ Fault
  /\ Serving /\ "operator" \notin flattening
  /\ \E isManual \in BOOLEAN : HaltTrading("operator", isManual)
  /\ flattening' = flattening \cup {"operator"}
  /\ UNCHANGED <<backend, haltReq, resume, loopVars, wdPc, wdCounts>>

\* replace_stop_loss could restore no stop: trigger_emergency_halt_sync runs in
\* its executor thread.
StopLossEmergencyHalt ==
  /\ Fault
  /\ backend # "down" /\ "stop" \notin flattening
  /\ HaltTrading("stop", FALSE)
  /\ flattening' = flattening \cup {"stop"}
  /\ UNCHANGED <<backend, haltReq, resume, loopVars, wdPc, wdCounts>>

\* The backend comes to the watchdog's request, however late.
HandleWatchdogHalt ==
  /\ haltReq /\ Serving /\ "watchdog" \notin flattening
  /\ haltReq' = FALSE
  /\ HaltTrading("watchdog", FALSE)
  /\ flattening' = flattening \cup {"watchdog"}
  /\ UNCHANGED <<backend, resume, loopVars, wdPc, wdCounts, faults>>

\* _close_all_positions_sync: every close is tried, a rejected one leaves its
\* position open.
FlattenAll(src) ==
  /\ src \in flattening /\ backend # "down"
  /\ legs' \in 0..legs
  /\ flattening' = flattening \ {src}
  /\ UNCHANGED <<fileVars, backend, haltReq, resume, loopPc, wdPc, wdCounts, faults>>

-----------------------------------------------------------------------------
\* Backend: resuming.

\* Fault-seeded: the manual halt is not told apart.
MayResume_IgnoresManual(slot, current) == current # "ACTIVE"

\* Fault-seeded: no early return for trading that is already active.
MayResume_NoActiveCheck(slot, current) == current # "HALTED_MANUAL" \/ slot = "operator"

\* The test safe_resume makes on the status it read at its start.
MayResume(slot, current) ==
  \/ current = "HALTED_BY_SENTRY"
  \/ current = "HALTED_MANUAL" /\ slot = "operator"

\* safe_resume up to its first await.  skipReconcile is the operator's
\* reconcile=False.
StartSafeResume(slot, skipReconcile) ==
  /\ resume[slot] = "idle"
  /\ resume' = [resume EXCEPT ![slot] =
       IF ~MayResume(slot, status) THEN "idle"
       ELSE IF skipReconcile THEN "restoring" ELSE "reconciling"]
  /\ manual' = IF slot = "operator" THEN "none" ELSE manual

\* POST /sentry/resume.
OperatorResume ==
  /\ Fault
  /\ Serving
  /\ \E skip \in BOOLEAN : StartSafeResume("operator", skip)
  /\ UNCHANGED <<status, haltAge, backend, haltReq, flattening, loopVars, wdPc, wdCounts>>

\* reconcile_positions returned; with an error the resume is given up when
\* SENTRY_RESUME_REQUIRE_RECONCILE is set.
Reconciled(slot, failed) ==
  /\ resume[slot] = "reconciling" /\ Serving
  /\ resume' = [resume EXCEPT ![slot] =
       IF failed /\ RequireReconcile THEN "idle" ELSE "restoring"]
  /\ UNCHANGED <<fileVars, backend, haltReq, flattening, loopVars, wdPc, wdCounts, faults>>

\* Protection is restored (a failure is only logged) and ACTIVE is written: the
\* status is not read again.
ResumeWrite(slot) ==
  /\ resume[slot] = "restoring" /\ backend # "down"
  /\ ResumeTrading
  /\ resume' = [resume EXCEPT ![slot] = "idle"]
  /\ manual' = IF slot = "operator" THEN "none" ELSE manual
  /\ UNCHANGED <<backend, haltReq, flattening, loopVars, wdPc, wdCounts, faults>>

-----------------------------------------------------------------------------
\* Trading loop.

\* Fault-seeded: the gate knows only the halts by the sentry.
GateOpen_IgnoresManual == status # "HALTED_BY_SENTRY"

\* is_trading_allowed, read at the start of a cycle and nowhere else in it.
GateOpen == status = "ACTIVE"

StartCycle ==
  /\ loopPc = "idle" /\ Serving
  /\ GateOpen
  /\ loopPc' = "cycle"
  /\ UNCHANGED <<fileVars, backVars, legs, wdPc, wdCounts, faults>>

\* A symbol of the running cycle sends its entry order.
PlaceEntry ==
  /\ loopPc = "cycle" /\ backend # "down"
  /\ legs < MaxLegs
  /\ legs' = legs + 1
  /\ UNCHANGED <<fileVars, backVars, loopPc, wdPc, wdCounts, faults>>

EndCycle ==
  /\ loopPc = "cycle" /\ Serving
  /\ loopPc' = "idle"
  /\ UNCHANGED <<fileVars, backVars, legs, wdPc, wdCounts, faults>>

-----------------------------------------------------------------------------
\* The backend process.

\* A crash or a deploy: coroutines, queued requests and the cycle are lost, the
\* status file and the exchange are not.
Crash ==
  /\ Fault
  /\ backend # "down"
  /\ backend' = "down"
  /\ haltReq' = FALSE
  /\ flattening' = {}
  /\ resume' = [s \in ResumeSlot |-> "idle"]
  /\ loopPc' = "idle"
  /\ UNCHANGED <<fileVars, legs, wdPc, wdCounts>>

\* The event loop is starved: health checks time out.
Hang ==
  /\ Fault
  /\ backend = "up"
  /\ backend' = "hung"
  /\ UNCHANGED <<fileVars, haltReq, flattening, resume, loopVars, wdPc, wdCounts>>

Recover ==
  /\ backend # "up"
  /\ backend' = "up"
  /\ UNCHANGED <<fileVars, haltReq, flattening, resume, loopVars, wdPc, wdCounts, faults>>

-----------------------------------------------------------------------------
\* The watchdog.

\* The poll found the backend healthy.
PollHealthy ==
  /\ wdPc = "poll" /\ backend = "up" /\ LoopFree
  /\ seenHealthy' = TRUE
  /\ fails' = 0
  /\ healthy' = Least(healthy + 1, ResumeChecks)
  /\ wdPc' = "resume"
  /\ UNCHANGED <<fileVars, backVars, loopVars, sinceEmergency, uptime, faults>>

\* Failures are not counted before the first healthy poll of the grace period.
InGrace == ~seenHealthy /\ uptime < Grace

\* Fault-seeded: the duplicate-halt cooldown never ends.
EmergencyDue_CooldownSticks(count) == count >= FailThreshold /\ sinceEmergency > Cooldown

EmergencyDue(count) == count >= FailThreshold /\ sinceEmergency >= Cooldown

PollUnhealthy ==
  /\ wdPc = "poll" /\ backend # "up"
  /\ healthy' = 0
  /\ fails' = IF InGrace THEN fails ELSE Least(fails + 1, FailThreshold)
  /\ wdPc' = IF ~InGrace /\ EmergencyDue(fails') THEN "halt" ELSE "sleep"
  /\ UNCHANGED <<fileVars, backVars, loopVars, sinceEmergency, uptime, seenHealthy, faults>>

\* _trigger_emergency posts to the backend.  A backend that is down refuses the
\* connection; a hung one may or may not have taken the request.
PostEmergencyHalt ==
  /\ wdPc = "halt"
  /\ \/ backend = "down" /\ haltReq' = haltReq /\ wdPc' = "local"
     \/ backend # "down" /\ haltReq' = TRUE /\ wdPc' = "haltSent"
     \/ backend = "hung" /\ haltReq' = haltReq /\ wdPc' = "local"
  /\ UNCHANGED <<fileVars, backend, flattening, resume, loopVars, wdCounts, faults>>

\* Fifteen seconds without an answer: the request may still be served later.
HaltPostTimeout ==
  /\ wdPc = "haltSent"
  /\ wdPc' = "local"
  /\ UNCHANGED <<fileVars, backVars, loopVars, wdCounts, faults>>

\* The counters the watchdog resets after an emergency, however it went.
EmergencyDone ==
  /\ sinceEmergency' = 0 /\ fails' = 0 /\ healthy' = 0
  /\ wdPc' = "sleep"
  /\ UNCHANGED <<uptime, seenHealthy>>

HaltPostAnswered ==
  /\ wdPc = "haltSent"
  /\ Serving /\ ~haltReq /\ "watchdog" \notin flattening
  /\ EmergencyDone
  /\ UNCHANGED <<fileVars, backVars, loopVars, faults>>

\* write_halt_file and cancel_binance_orders, in the watchdog's own container.
LocalHalt ==
  /\ wdPc = "local"
  /\ HaltTrading("watchdog", FALSE)
  /\ EmergencyDone
  /\ UNCHANGED <<backVars, loopVars, faults>>

\* Fault-seeded: the resume needs one healthy poll more than are ever counted.
AutoResumeDue_OffByOne ==
  /\ status = "HALTED_BY_SENTRY"
  /\ haltAge >= ResumeAfter
  /\ healthy > ResumeChecks

\* When _try_auto_resume asks the backend to resume.
AutoResumeDue ==
  /\ status = "HALTED_BY_SENTRY"
  /\ haltAge >= ResumeAfter
  /\ healthy >= ResumeChecks

TryAutoResume ==
  /\ wdPc = "resume"
  /\ wdPc' = IF AutoResumeDue THEN "resumePost" ELSE "recheck"
  /\ UNCHANGED <<fileVars, backVars, loopVars, wdCounts, faults>>

\* The backend serves the auto-resume request.
PostAutoResume ==
  /\ wdPc = "resumePost" /\ Serving
  /\ \E slot \in AutoSlots : StartSafeResume(slot, FALSE)
  /\ wdPc' = "recheck"
  /\ UNCHANGED <<status, haltAge, backend, haltReq, flattening, loopVars, wdCounts, faults>>

\* The request is refused or lost, or the answer to it is.
AutoResumeLost ==
  /\ wdPc = "resumePost"
  /\ \/ backend # "up" \/ ~LoopFree
     \/ \A slot \in AutoSlots : resume[slot] # "idle"
  /\ wdPc' = "recheck"
  /\ UNCHANGED <<fileVars, backVars, loopVars, wdCounts, faults>>

\* The second status request of a healthy poll, answered or not.  The 30 second
\* timeout lets the watchdog come here while its auto-resume is still in flight.
Recheck ==
  /\ wdPc = "recheck"
  /\ \/ Serving /\ healthy' = IF status = "ACTIVE" THEN 0 ELSE healthy
     \/ (backend # "up" \/ ~LoopFree) /\ UNCHANGED healthy
  /\ wdPc' = "sleep"
  /\ UNCHANGED <<fileVars, backVars, loopVars, fails, sinceEmergency, uptime, seenHealthy, faults>>

\* asyncio.sleep(poll_sec): the clocks advance by at least one interval.
Sleep ==
  /\ wdPc = "sleep"
  /\ haltAge' = Least(haltAge + 1, ResumeAfter)
  /\ sinceEmergency' = Least(sinceEmergency + 1, Cooldown)
  /\ uptime' = Least(uptime + 1, Grace)
  /\ wdPc' = "poll"
  /\ UNCHANGED <<status, manual, backVars, loopVars, fails, healthy, seenHealthy, faults>>

\* The watchdog container restarts: its counters live in memory.
\* last_emergency_at is None, so no cooldown is pending.
WatchdogRestart ==
  /\ Fault
  /\ wdPc' = "poll"
  /\ fails' = 0 /\ healthy' = 0 /\ uptime' = 0
  /\ sinceEmergency' = Cooldown
  /\ seenHealthy' = FALSE
  /\ UNCHANGED <<fileVars, backVars, loopVars>>

-----------------------------------------------------------------------------
Init ==
  /\ status = "ACTIVE" /\ haltAge = ResumeAfter /\ manual = "none"
  /\ backend = "up" /\ haltReq = FALSE /\ flattening = {}
  /\ resume = [s \in ResumeSlot |-> "idle"]
  /\ loopPc = "idle" /\ legs = 0
  /\ wdPc = "poll" /\ fails = 0 /\ healthy = 0
  /\ sinceEmergency = Cooldown /\ uptime = 0 /\ seenHealthy = FALSE
  /\ faults = 0

Halting ==
  \/ ManualHalt \/ OperatorEmergencyHalt \/ StopLossEmergencyHalt
  \/ HandleWatchdogHalt
  \/ \E src \in HaltSource : FlattenAll(src)

Resuming ==
  \/ OperatorResume
  \/ \E slot \in ResumeSlot :
       \/ \E failed \in BOOLEAN : Reconciled(slot, failed)
       \/ ResumeWrite(slot)

Loop == StartCycle \/ PlaceEntry \/ EndCycle

Watchdog ==
  \/ PollHealthy \/ PollUnhealthy
  \/ PostEmergencyHalt \/ HaltPostTimeout \/ HaltPostAnswered \/ LocalHalt
  \/ TryAutoResume \/ PostAutoResume \/ AutoResumeLost \/ Recheck \/ Sleep

Next == Halting \/ Resuming \/ Loop \/ Crash \/ Hang \/ Recover \/ Watchdog \/ WatchdogRestart

Spec == Init /\ [][Next]_vars

\* The watchdog polls forever and the backend's event loop runs every coroutine
\* that is ready; a reconciliation that is tried again and again succeeds again
\* and again; a cycle comes to its end.  Nothing obliges an operator, an outage
\* or a recovery to happen.
Fairness ==
  /\ WF_vars(Watchdog)
  /\ WF_vars(HandleWatchdogHalt) /\ WF_vars(EndCycle)
  /\ \A src \in HaltSource : WF_vars(FlattenAll(src))
  /\ \A slot \in ResumeSlot : SF_vars(Reconciled(slot, FALSE)) /\ WF_vars(ResumeWrite(slot))

FairSpec == Spec /\ Fairness

-----------------------------------------------------------------------------
\* Properties.

\* Every variable stays in its range.
Ranges ==
  /\ status \in TradingStatus
  /\ haltAge \in 0..ResumeAfter
  /\ manual \in {"none", "held", "raced", "overwritten"}
  /\ backend \in {"up", "hung", "down"}
  /\ flattening \subseteq HaltSource
  /\ resume \in [ResumeSlot -> {"idle", "reconciling", "restoring"}]
  /\ loopPc \in {"idle", "cycle"}
  /\ legs \in 0..MaxLegs
  /\ wdPc \in {"poll", "resume", "resumePost", "recheck", "halt", "haltSent", "local", "sleep"}
  /\ fails \in 0..FailThreshold /\ healthy \in 0..ResumeChecks
  /\ sinceEmergency \in 0..Cooldown /\ uptime \in 0..Grace
  /\ faults \in 0..MaxFaults
TypeOK == Ranges /\ haltReq \in BOOLEAN /\ seenHealthy \in BOOLEAN

\* A manual halt that was set while no resume was in flight, and that no other
\* halt has written over, is still in force: neither the watchdog nor a crash of
\* either process clears it (safe_resume, HALTED_MANUAL and not allow_manual).
ManualHaltHolds == manual = "held" => status = "HALTED_MANUAL"

\* Trading goes from halted to allowed only by a resume that was granted while
\* it was halted, and a grant is used once.
Switch == INSTANCE HaltSwitch WITH
  allowed <- status = "ACTIVE",
  grants <- {s \in ResumeSlot : resume[s] # "idle"},
  Grantee <- ResumeSlot
HaltSwitchRefined == Switch!Spec

\* While the backend stays unhealthy the watchdog gets the halt flag set, through
\* cooldowns, grace period, its own restarts and late resumes.
OutageHalts == <>[](backend # "up") => <>[](status # "ACTIVE")

\* While the backend stays healthy a halt by the sentry is not forgotten: the
\* watchdog's auto-resume ends it (or an operator's manual halt replaces it).
AutoRecovery == <>[](backend = "up") =>
  (status = "HALTED_BY_SENTRY" ~> status # "HALTED_BY_SENTRY")

\* A cycle that has passed the gate goes on opening positions after a halt and
\* after its flatten; under a lasting halt the last cycle ends and none follows.
HaltDrains == <>[](status # "ACTIVE") => <>[](loopPc = "idle")

\* safe_resume: "Auto-resume (allow_manual=False) only clears HALTED_BY_SENTRY."
AutoResumeSkipsManual ==
  [][\A slot \in AutoSlots :
       resume[slot] = "restoring" /\ resume'[slot] = "idle" /\ status' = "ACTIVE"
         => status # "HALTED_MANUAL"]_vars
=============================================================================
