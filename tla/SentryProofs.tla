---------------------------- MODULE SentryProofs ----------------------------
(***************************************************************************)
(* Theorems about the trading halt.  First Sentry, for every threshold,    *)
(* every number of auto-resume requests in flight and every number of      *)
(* faults; then SentryFile, for every set of writers and inodes and any    *)
(* number of crashes.                                                      *)
(***************************************************************************)
EXTENDS Sentry, SentryFile, TLAPS

\* Typing is an invariant of the halt protocol.
THEOREM Typing == Spec => []TypeOK
<1> USE SentryAssumption DEF vars, fileVars, backVars, loopVars, wdCounts
<1>1. Init => TypeOK
  <2> SUFFICES ASSUME Init PROVE TypeOK
    OBVIOUS
  <2>1. Ranges
    BY DEF Init, Ranges, TradingStatus
  <2>2. haltReq \in BOOLEAN /\ seenHealthy \in BOOLEAN
    BY DEF Init
  <2> QED
    BY <2>1, <2>2 DEF TypeOK
<1>2. Ranges /\ [Next]_vars => Ranges'
  <2> SUFFICES ASSUME Ranges, [Next]_vars PROVE Ranges'
    OBVIOUS
  <2> USE DEF Ranges, Fault, TradingStatus, HaltSource
  <2>1. CASE ManualHalt
    BY <2>1 DEF ManualHalt, HaltTrading, ResumeInFlight
  <2>2. CASE OperatorEmergencyHalt
    BY <2>2 DEF OperatorEmergencyHalt, HaltTrading, ResumeInFlight
  <2>3. CASE StopLossEmergencyHalt
    BY <2>3 DEF StopLossEmergencyHalt, HaltTrading, ResumeInFlight
  <2>4. CASE HandleWatchdogHalt
    BY <2>4 DEF HandleWatchdogHalt, HaltTrading, ResumeInFlight
  <2>5. ASSUME NEW src \in HaltSource, FlattenAll(src) PROVE Ranges'
    BY <2>5 DEF FlattenAll
  <2>6. CASE OperatorResume
    BY <2>6 DEF OperatorResume, StartSafeResume, ResumeSlot
  <2>7. ASSUME NEW slot \in ResumeSlot, NEW failed \in BOOLEAN, Reconciled(slot, failed)
        PROVE  Ranges'
    BY <2>7 DEF Reconciled
  <2>8. ASSUME NEW slot \in ResumeSlot, ResumeWrite(slot) PROVE Ranges'
    BY <2>8 DEF ResumeWrite, ResumeTrading
  <2>9. CASE Loop
    <3>1. CASE StartCycle
      BY <3>1 DEF StartCycle, GateOpen
    <3>2. CASE PlaceEntry
      BY <3>2 DEF PlaceEntry
    <3>3. CASE EndCycle
      BY <3>3 DEF EndCycle
    <3> QED
      BY <2>9, <3>1, <3>2, <3>3 DEF Loop
  <2>10. CASE Crash \/ Hang \/ Recover
    <3>1. CASE Crash
      BY <3>1 DEF Crash
    <3>2. CASE Hang
      BY <3>2 DEF Hang
    <3>3. CASE Recover
      BY <3>3 DEF Recover
    <3> QED
      BY <2>10, <3>1, <3>2, <3>3
  <2>11. CASE PollHealthy \/ PollUnhealthy
    <3>1. CASE PollHealthy
      BY <3>1 DEF PollHealthy, Least
    <3>2. CASE PollUnhealthy
      BY <3>2 DEF PollUnhealthy, Least
    <3> QED
      BY <2>11, <3>1, <3>2
  <2>12. CASE PostEmergencyHalt \/ HaltPostTimeout
    BY <2>12 DEF PostEmergencyHalt, HaltPostTimeout
  <2>13. CASE HaltPostAnswered \/ LocalHalt
    <3>1. CASE HaltPostAnswered
      BY <3>1 DEF HaltPostAnswered, EmergencyDone
    <3>2. CASE LocalHalt
      BY <3>2 DEF LocalHalt, HaltTrading, EmergencyDone
    <3> QED
      BY <2>13, <3>1, <3>2
  <2>14. CASE TryAutoResume \/ AutoResumeLost
    BY <2>14 DEF TryAutoResume, AutoResumeLost
  <2>15. CASE PostAutoResume
    BY <2>15 DEF PostAutoResume, StartSafeResume
  <2>16. CASE Recheck \/ Sleep \/ WatchdogRestart
    <3>1. CASE Recheck
      BY <3>1 DEF Recheck
    <3>2. CASE Sleep
      <4>1. /\ haltAge' \in 0..ResumeAfter
            /\ sinceEmergency' \in 0..Cooldown
            /\ uptime' \in 0..Grace
        BY <3>2 DEF Sleep, Least
      <4> QED
        BY <3>2, <4>1 DEF Sleep
    <3>3. CASE WatchdogRestart
      BY <3>3 DEF WatchdogRestart
    <3> QED
      BY <2>16, <3>1, <3>2, <3>3
  <2>17. CASE UNCHANGED vars
    BY <2>17
  <2> QED
    BY <2>1, <2>2, <2>3, <2>4, <2>5, <2>6, <2>7, <2>8, <2>9, <2>10, <2>11, <2>12,
       <2>13, <2>14, <2>15, <2>16, <2>17
       DEF Next, Halting, Resuming, Watchdog
<1>3. haltReq \in BOOLEAN /\ seenHealthy \in BOOLEAN /\ [Next]_vars
        => (haltReq \in BOOLEAN /\ seenHealthy \in BOOLEAN)'
  <2> USE DEF Next, Halting, Resuming, Loop, Watchdog
  <2>1. ASSUME haltReq \in BOOLEAN, [Next]_vars PROVE haltReq' \in BOOLEAN
    BY <2>1, Zenon DEF ManualHalt, OperatorEmergencyHalt, StopLossEmergencyHalt, HandleWatchdogHalt,
       FlattenAll, OperatorResume, Reconciled, ResumeWrite, StartCycle, GateOpen, PlaceEntry, EndCycle,
       Crash, Hang, Recover, PollHealthy, PollUnhealthy, PostEmergencyHalt, HaltPostTimeout,
       HaltPostAnswered, LocalHalt, TryAutoResume, PostAutoResume, AutoResumeLost, Recheck,
       Sleep, WatchdogRestart
  <2>2. ASSUME seenHealthy \in BOOLEAN, [Next]_vars PROVE seenHealthy' \in BOOLEAN
    BY <2>2, Zenon DEF ManualHalt, OperatorEmergencyHalt, StopLossEmergencyHalt, HandleWatchdogHalt,
       FlattenAll, OperatorResume, Reconciled, ResumeWrite, StartCycle, GateOpen, PlaceEntry, EndCycle,
       Crash, Hang, Recover, PollHealthy, PollUnhealthy, PostEmergencyHalt, HaltPostTimeout,
       HaltPostAnswered, LocalHalt, EmergencyDone, TryAutoResume, PostAutoResume,
       AutoResumeLost, Recheck, Sleep, WatchdogRestart
  <2> QED
    BY <2>1, <2>2
<1> QED
  BY <1>1, <1>2, <1>3, PTL DEF Spec, TypeOK

\* A held manual halt finds no resume in flight, and since the status is manual
\* none but the operator's can start: the strengthening that makes
\* ManualHaltHolds inductive.
HeldAlone == manual = "held" => status = "HALTED_MANUAL" /\ ~ResumeInFlight

\* A manual halt that raced with no resume and was not written over stays in
\* force (safe_resume never grants the watchdog a resume from HALTED_MANUAL).
THEOREM ManualHaltStays == Spec => []ManualHaltHolds
<1>1. Init => HeldAlone
  BY DEF Init, HeldAlone
<1>2. TypeOK /\ HeldAlone /\ [Next]_vars => HeldAlone'
  <2> SUFFICES ASSUME TypeOK, HeldAlone, [Next]_vars PROVE HeldAlone'
    OBVIOUS
  <2> USE SentryAssumption
      DEF HeldAlone, ResumeInFlight, ResumeSlot, vars, fileVars, backVars, loopVars, wdCounts
  <2>1. CASE ManualHalt \/ OperatorEmergencyHalt \/ StopLossEmergencyHalt \/ HandleWatchdogHalt
    BY <2>1 DEF ManualHalt, OperatorEmergencyHalt, StopLossEmergencyHalt,
       HandleWatchdogHalt, HaltTrading
  <2>2. ASSUME NEW src \in HaltSource, FlattenAll(src) PROVE HeldAlone'
    BY <2>2 DEF FlattenAll
  <2>3. CASE OperatorResume
    BY <2>3 DEF OperatorResume, StartSafeResume
  <2>4. ASSUME NEW slot \in ResumeSlot, NEW failed \in BOOLEAN, Reconciled(slot, failed)
        PROVE  HeldAlone'
    BY <2>4 DEF Reconciled
  <2>5. ASSUME NEW slot \in ResumeSlot, ResumeWrite(slot) PROVE HeldAlone'
    BY <2>5 DEF ResumeWrite
  <2>6. CASE Loop
    BY <2>6 DEF Loop, StartCycle, GateOpen, PlaceEntry, EndCycle
  <2>7. CASE Crash \/ Hang \/ Recover
    BY <2>7 DEF Crash, Hang, Recover
  <2>8. CASE PostAutoResume
    <3> PICK slot \in AutoSlots : StartSafeResume(slot, FALSE)
      BY <2>8 DEF PostAutoResume
    <3>1. CASE manual = "held"
      <4>1. ~MayResume(slot, status)
        BY <3>1 DEF MayResume
      <4> QED
        BY <2>8, <3>1, <4>1 DEF PostAutoResume, StartSafeResume, TypeOK, Ranges
    <3>2. CASE manual # "held"
      BY <3>2 DEF StartSafeResume
    <3> QED
      BY <3>1, <3>2
  <2>9. CASE LocalHalt
    BY <2>9 DEF LocalHalt, HaltTrading
  <2>10. CASE Watchdog /\ ~PostAutoResume /\ ~LocalHalt
    BY <2>10 DEF Watchdog, PollHealthy, PollUnhealthy, PostEmergencyHalt, HaltPostTimeout,
       HaltPostAnswered, TryAutoResume, AutoResumeLost, Recheck, Sleep
  <2>11. CASE WatchdogRestart
    BY <2>11 DEF WatchdogRestart
  <2>12. CASE UNCHANGED vars
    BY <2>12
  <2> QED
    BY <2>1, <2>2, <2>3, <2>4, <2>5, <2>6, <2>7, <2>8, <2>9, <2>10, <2>11, <2>12
       DEF Next, Halting, Resuming
<1>3. HeldAlone => ManualHaltHolds
  BY DEF HeldAlone, ManualHaltHolds
<1> QED
  BY <1>1, <1>2, <1>3, Typing, PTL DEF Spec

\* Every step of the halt protocol halts, grants a resume, uses or drops one, or
\* is invisible: trading is never allowed again without a grant given while it
\* was halted.
THEOREM SentryImplementsHaltSwitch == Spec => HaltSwitchRefined
<1> DEFINE Granted == {s \in ResumeSlot : resume[s] # "idle"}
<1>1. Init => Switch!Init
  BY DEF Init, Switch!Init
<1>2. TypeOK /\ [Next]_vars => [Switch!Next]_<<status = "ACTIVE", Granted>>
  <2> SUFFICES ASSUME TypeOK, [Next]_vars
               PROVE  Switch!Next \/ (UNCHANGED (status = "ACTIVE") /\ UNCHANGED Granted)
    OBVIOUS
  <2> USE SentryAssumption DEF vars, fileVars, backVars, loopVars, wdCounts
  <2>1. ASSUME NEW src \in HaltSource, NEW m \in BOOLEAN, HaltTrading(src, m), UNCHANGED resume
        PROVE  Switch!Next
    BY <2>1 DEF HaltTrading, Switch!Next, Switch!Halt
  <2>2. ASSUME NEW slot \in ResumeSlot, NEW skip \in BOOLEAN, StartSafeResume(slot, skip),
               UNCHANGED status
        PROVE  Switch!Next \/ (UNCHANGED (status = "ACTIVE") /\ UNCHANGED Granted)
    <3>1. CASE MayResume(slot, status)
      <4>1. status # "ACTIVE" /\ slot \notin Granted /\ Granted' = Granted \cup {slot}
        BY <2>2, <3>1 DEF MayResume, StartSafeResume, TypeOK, Ranges
      <4>2. Switch!Grant(slot)
        BY <2>2, <4>1 DEF Switch!Grant
      <4> QED
        BY <4>2 DEF Switch!Next
    <3>2. CASE ~MayResume(slot, status)
      BY <2>2, <3>2 DEF StartSafeResume, TypeOK, Ranges
    <3> QED
      BY <3>1, <3>2
  <2>3. ASSUME UNCHANGED status, NEW gone \in SUBSET ResumeSlot, Granted' = Granted \ gone
        PROVE  Switch!Next
    BY <2>3 DEF Switch!Next, Switch!Drop
  <2>4. CASE ManualHalt \/ OperatorEmergencyHalt \/ StopLossEmergencyHalt \/ HandleWatchdogHalt \/ LocalHalt
    BY <2>4, <2>1 DEF ManualHalt, OperatorEmergencyHalt, StopLossEmergencyHalt,
       HandleWatchdogHalt, LocalHalt, HaltSource
  <2>5. CASE OperatorResume
    BY <2>5, <2>2 DEF OperatorResume, ResumeSlot
  <2>6. CASE PostAutoResume
    BY <2>6, <2>2 DEF PostAutoResume, ResumeSlot
  <2>7. ASSUME NEW slot \in ResumeSlot, NEW failed \in BOOLEAN, Reconciled(slot, failed)
        PROVE  Switch!Next
    <3>1. CASE failed /\ RequireReconcile
      <4>1. Granted' = Granted \ {slot}
        BY <2>7, <3>1 DEF Reconciled, TypeOK, Ranges
      <4>2. {slot} \in SUBSET ResumeSlot
        OBVIOUS
      <4> QED
        BY <2>7, <2>3, <4>1, <4>2 DEF Reconciled
    <3>2. CASE ~(failed /\ RequireReconcile)
      <4>1. Granted' = Granted \ {}
        BY <2>7, <3>2 DEF Reconciled, TypeOK, Ranges
      <4>2. {} \in SUBSET ResumeSlot
        OBVIOUS
      <4> QED
        BY <2>7, <2>3, <4>1, <4>2 DEF Reconciled
    <3> QED
      BY <3>1, <3>2
  <2>8. ASSUME NEW slot \in ResumeSlot, ResumeWrite(slot) PROVE Switch!Next
    <3>1. slot \in Granted /\ Granted' = Granted \ {slot} /\ status' = "ACTIVE"
      BY <2>8 DEF ResumeWrite, ResumeTrading, TypeOK, Ranges
    <3>2. Switch!Resume(slot)
      BY <3>1 DEF Switch!Resume
    <3> QED
      BY <3>2 DEF Switch!Next
  <2>9. CASE Crash
    <3>1. Granted' = Granted \ ResumeSlot
      BY <2>9 DEF Crash
    <3> QED
      BY <2>9, <2>3, <3>1 DEF Crash
  <2>10. CASE UNCHANGED <<status, resume>>
    BY <2>10
  <2>11. ASSUME NEW src \in HaltSource, FlattenAll(src) PROVE UNCHANGED <<status, resume>>
    BY <2>11 DEF FlattenAll
  <2>12. ASSUME Loop \/ Hang \/ Recover \/ WatchdogRestart PROVE UNCHANGED <<status, resume>>
    BY <2>12 DEF Loop, StartCycle, GateOpen, PlaceEntry, EndCycle, Hang, Recover, WatchdogRestart
  <2>13. ASSUME Watchdog, ~PostAutoResume, ~LocalHalt PROVE UNCHANGED <<status, resume>>
    BY <2>13 DEF Watchdog, PollHealthy, PollUnhealthy, PostEmergencyHalt, HaltPostTimeout,
       HaltPostAnswered, TryAutoResume, AutoResumeLost, Recheck, Sleep
  <2>14. ASSUME UNCHANGED vars PROVE UNCHANGED <<status, resume>>
    BY <2>14
  <2> QED
    BY <2>4, <2>5, <2>6, <2>7, <2>8, <2>9, <2>10, <2>11, <2>12, <2>13, <2>14
       DEF Next, Halting, Resuming
<1> QED
  BY <1>1, <1>2, Typing, PTL DEF Spec, HaltSwitchRefined, Switch!Spec

-----------------------------------------------------------------------------
\* The writers of the status file.

PCs == {"idle", "called", "opened", "written"}
Contents == Payload \cup {Empty, Mixed}

\* What every step keeps, whoever writes: an open .tmp is bound to an inode, an
\* idle writer has no record, and the .tmp and the status file are two inodes.
Names ==
  /\ FileTypeOK
  /\ \A w \in Writer : pc[w] = "idle" <=> payload[w] = NoPayload
  /\ tmp = NoFile \/ tmp # path

\* The placeholders are no records.
LEMMA Placeholders ==
  /\ NoPayload \notin Payload /\ Empty \notin Payload /\ Mixed \notin Payload /\ Empty # Mixed
  /\ Default \notin {Empty, Mixed}
  BY DEF NoPayload, Empty, Mixed, Default, Payload, Halts, Resumes

\* Every writer persists records that TradingStatus has.
LEMMA WritesRecords ==
  ASSUME NEW w \in Writer, NEW p \in Writes(w)
  PROVE  p \in Payload
<1>1. CASE w \in DOMAIN Source
  <2>1. w = "watchdog" \/ w = "thread"
    BY <1>1 DEF Source
  <2>2. Source[w] \in {"sentry_watchdog", "replace_stop_loss"}
    BY <2>1 DEF Source
  <2> QED
    BY <1>1, <2>2 DEF Writes, Payload, Halts
<1>2. CASE w \notin DOMAIN Source
  BY <1>2 DEF Writes
<1> QED
  BY <1>1, <1>2

\* Freeing inodes changes nothing that has a name or is open.
LEMMA KeptContents ==
  ASSUME NEW c \in [Inode -> Contents]
  PROVE  /\ Kept(c) \in [Inode -> Contents]
         /\ \A i \in Inode : Kept(c)[i] \in {c[i], Empty}
         /\ \A i \in Inode : i = path' \/ i = tmp' => Kept(c)[i] = c[i]
  BY DEF Kept, InUse, Contents

\* No file is open, and there is none.
LEMMA InitNames == FileInit => Names
<1> SUFFICES ASSUME FileInit PROVE Names
  OBVIOUS
<1> USE FileAssumption DEF FileInit
<1>1. /\ content \in [Inode -> Payload \cup {Empty, Mixed}]
      /\ pc \in [Writer -> {"idle", "called", "opened", "written"}]
      /\ fd \in [Writer -> Inode \cup {NoFile}] /\ payload \in [Writer -> Payload \cup {NoPayload}]
  OBVIOUS
<1>2. \A w \in Writer : pc[w] = "idle" /\ payload[w] = NoPayload
  OBVIOUS
<1>3. crashes \in 0 .. MaxCrashes
  OBVIOUS
<1> QED
  BY <1>1, <1>2, <1>3 DEF Names, FileTypeOK

\* Every operation keeps Names.
LEMMA NextNames == Names /\ [FileNext]_writeVars => Names'
<1> SUFFICES ASSUME Names, [FileNext]_writeVars PROVE Names'
  OBVIOUS
<1> USE FileAssumption DEF Names, FileTypeOK
<1>1. content \in [Inode -> Contents] /\ Empty \in Contents /\ Mixed \in Contents /\ Payload \subseteq Contents
  BY DEF Contents
<1>2. ASSUME NEW w \in Writer, NEW p \in Writes(w), Call(w, p) PROVE Names'
  <2>1. p \in Payload /\ p # NoPayload
    BY WritesRecords, Placeholders
  <2> QED
    BY <1>2, <2>1 DEF Call
<1>3. ASSUME NEW w \in Writer, OpenTmp(w) PROVE Names'
  <2>1. PICK i \in Inode : /\ IF tmp = NoFile THEN ~InUse(i) ELSE i = tmp
                           /\ tmp' = i /\ fd' = [fd EXCEPT ![w] = i] /\ content' = Truncated(i)
    BY <1>3 DEF OpenTmp
  <2>2. content' \in [Inode -> Contents]
    BY <1>1, <2>1 DEF Truncated
  <2>3. i # path
    BY <2>1 DEF InUse
  <2>4. raced' \in BOOLEAN
    BY <1>3 DEF OpenTmp
  <2> QED
    BY <1>3, <2>1, <2>2, <2>3, <2>4 DEF OpenTmp, Contents
<1>4. ASSUME NEW w \in Writer, WriteTmp(w) PROVE Names'
  <2>1. PICK c \in {payload[w], Mixed} : content' = Kept([content EXCEPT ![fd[w]] = c])
    BY <1>4 DEF WriteTmp
  <2>2. c \in Contents
    BY <1>1, <1>4 DEF WriteTmp, Contents
  <2>3. [content EXCEPT ![fd[w]] = c] \in [Inode -> Contents]
    BY <1>1, <2>2
  <2>4. content' \in [Inode -> Contents]
    BY <2>1, <2>3, KeptContents
  <2> QED
    BY <1>4, <2>4 DEF WriteTmp, Contents
<1>5. content' = Kept(content) => content' \in [Inode -> Contents]
  BY <1>1, KeptContents
<1>6. ASSUME NEW gone \in SUBSET Writer, Returned(gone)
      PROVE /\ pc' \in [Writer -> PCs] /\ payload' \in [Writer -> Payload \cup {NoPayload}]
            /\ resuming' \in BOOLEAN /\ raced' \in BOOLEAN
            /\ \A w \in Writer : pc'[w] = "opened" => pc[w] = "opened" /\ w \notin gone
            /\ \A w \in Writer : pc'[w] = "idle" <=> payload'[w] = NoPayload
  BY <1>6 DEF Returned, PCs
<1>7. ASSUME NEW w \in Writer, Replace(w) PROVE Names'
  <2>1. {w} \in SUBSET Writer
    OBVIOUS
  <2> QED
    BY <1>5, <1>6, <1>7, <2>1 DEF Replace, Contents, PCs
<1>8. ASSUME NEW gone \in SUBSET Writer, Die(gone) PROVE Names'
  BY <1>5, <1>6, <1>8 DEF Die, Contents, PCs
<1>9. CASE UNCHANGED writeVars
  BY <1>9 DEF writeVars
<1>10. Backend \in SUBSET Writer /\ Writer \ Backend \in SUBSET Writer
  OBVIOUS
<1> QED
  BY <1>2, <1>3, <1>4, <1>7, <1>8, <1>9, <1>10 DEF FileNext

\* The names of the files, for every instance.
THEOREM NamesKept == FileSpec => []Names
  BY InitNames, NextNames, PTL DEF FileSpec

\* Types, for every instance.
THEOREM FileTyping == FileSpec => []FileTypeOK
<1>1. Names => FileTypeOK
  BY DEF Names
<1> QED
  BY <1>1, NamesKept, PTL
\* What keeps HaltsFailClosed: with no resume called since trading was last at rest,
\* no record to be written is a resume, and none is left where it could be renamed
\* over the status file, the .tmp of a crashed writer included: the writer that
\* renames it has opened, and so emptied, it before.
NoResume ==
  ~resuming =>
    /\ \A w \in Writer : payload[w] \notin Resumes
    /\ \A w \in Writer : pc[w] = "opened" => content[fd[w]] \notin Resumes
    /\ Writing # {} /\ tmp # NoFile => content[tmp] \notin Resumes

\* A step from a state without a resume under way allows nothing that was halted.
LEMMA NoResumeStep ==
  ASSUME Names, NoResume, [FileNext]_writeVars
  PROVE  NoResume' /\ (~Allowed /\ Allowed' => resuming)
<1> USE FileAssumption DEF Names, FileTypeOK
<1> DEFINE Q == NoResume' /\ (~Allowed /\ Allowed' => resuming)
<1>1. content \in [Inode -> Contents]
  BY DEF Contents
<1>2. Resumes \subseteq Payload /\ NoPayload \notin Resumes /\ Empty \notin Resumes /\ Mixed \notin Resumes
  BY Placeholders DEF Payload
<1>3. Allowed <=> path = NoFile \/ content[path] \in Resumes
  BY <1>2 DEF Allowed, ReadState, Default, FailClosed, Payload, Resumes, Halts
<1>4. Allowed' <=> path' = NoFile \/ content'[path'] \in Resumes
  BY <1>2 DEF Allowed, ReadState, Default, FailClosed, Payload, Resumes, Halts
<1>5. ASSUME NEW w \in Writer, NEW p \in Writes(w), Call(w, p) PROVE Q
  <2>1. UNCHANGED <<content, path, tmp, fd>> /\ Writing' = Writing
    BY <1>5 DEF Call, Writing
  <2>2. Allowed' = Allowed
    BY <2>1, <1>3, <1>4
  <2>3. resuming' => resuming \/ p \in Resumes
    BY <1>5 DEF Call
  <2>4. ~resuming' => p \notin Resumes /\ ~resuming
    BY <1>5 DEF Call
  <2>5. payload' = [payload EXCEPT ![w] = p] /\ pc' = [pc EXCEPT ![w] = "called"]
    BY <1>5 DEF Call
  <2> QED
    BY <2>1, <2>2, <2>4, <2>5 DEF NoResume
<1>6. ASSUME NEW w \in Writer, OpenTmp(w) PROVE Q
  <2>1. PICK i \in Inode : /\ IF tmp = NoFile THEN ~InUse(i) ELSE i = tmp
                           /\ tmp' = i /\ fd' = [fd EXCEPT ![w] = i] /\ content' = [content EXCEPT ![i] = Empty]
    BY <1>6 DEF OpenTmp, Truncated
  <2>2. path' = path /\ resuming' = resuming /\ payload' = payload /\ pc' = [pc EXCEPT ![w] = "opened"]
    BY <1>6 DEF OpenTmp
  <2>3. i # path
    BY <2>1 DEF InUse
  <2>4. Allowed' = Allowed
    BY <1>1, <1>3, <1>4, <2>1, <2>2, <2>3
  <2>5. ~resuming => \A v \in Writer : pc'[v] = "opened" => content'[fd'[v]] \notin Resumes
    BY <1>1, <1>2, <2>1, <2>2 DEF NoResume
  <2>6. content'[tmp'] \notin Resumes
    BY <1>1, <1>2, <2>1
  <2> QED
    BY <2>2, <2>4, <2>5, <2>6 DEF NoResume
<1>7. ASSUME NEW w \in Writer, WriteTmp(w) PROVE Q
  <2> DEFINE f == fd[w]
  <2>1. PICK c \in {payload[w], Mixed} : content' = Kept([content EXCEPT ![f] = c])
    BY <1>7 DEF WriteTmp
  <2>2. f \in Inode /\ c \in Contents
    BY <1>7 DEF WriteTmp, Contents
  <2>3. /\ UNCHANGED <<path, tmp, payload, resuming>>
        /\ pc' = [pc EXCEPT ![w] = "written"] /\ fd' = [fd EXCEPT ![w] = NoFile]
    BY <1>7 DEF WriteTmp
  <2>4. ~resuming => c \notin Resumes
    BY <1>2 DEF NoResume
  <2> HIDE DEF f
  <2>5. [content EXCEPT ![f] = c] \in [Inode -> Contents]
    BY <1>1, <2>2
  <2>6. \A i \in Inode : content'[i] \in {[content EXCEPT ![f] = c][i], Empty}
    BY <2>1, <2>5, KeptContents
  <2>7. \A i \in Inode : content'[i] \in {content[i], c, Empty}
    BY <1>1, <2>2, <2>6
  <2>8. w \in Writing /\ Writing' = Writing
    BY <1>7, <2>3 DEF WriteTmp, Writing
  <2>9. ASSUME ~resuming, NEW v \in Writer, pc'[v] = "opened" PROVE content'[fd'[v]] \notin Resumes
    <3>1. pc[v] = "opened" /\ fd'[v] = fd[v]
      BY <2>3, <2>9
    <3> QED
      BY <1>2, <2>4, <2>7, <2>9, <3>1 DEF NoResume
  <2>10. ~resuming /\ tmp # NoFile => content'[tmp] \notin Resumes
    BY <1>2, <2>4, <2>7, <2>8 DEF NoResume
  <2>11. NoResume'
    BY <2>3, <2>9, <2>10 DEF NoResume
  <2> QED
    BY <1>2, <1>3, <1>4, <2>3, <2>4, <2>7, <2>11
<1>8. ASSUME NEW gone \in SUBSET Writer, Returned(gone), content' = Kept(content),
             tmp' \in {tmp, NoFile}, \A w \in Writer : fd'[w] = fd[w] \/ w \in gone
      PROVE  NoResume'
  <2>1. \A i \in Inode : content'[i] \in {content[i], Empty}
    BY <1>1, <1>8, KeptContents
  <2>2. /\ \A w \in Writer : pc'[w] = "opened" => pc[w] = "opened" /\ w \notin gone
        /\ \A w \in Writer : payload'[w] \in {payload[w], NoPayload}
        /\ Writing' \subseteq Writing
    BY <1>8 DEF Returned, Writing
  <2>3. CASE ~resuming
    BY <1>2, <1>8, <2>1, <2>2, <2>3 DEF NoResume
  <2>4. CASE resuming /\ ~resuming'
    <3>1. \A w \in Writer : pc'[w] = "idle"
      BY <1>8, <2>4 DEF Returned
    <3>2. \A w \in Writer : payload'[w] = NoPayload
      BY <1>8, <3>1 DEF Returned
    <3>3. Writing' = {}
      BY <3>1 DEF Writing
    <3> QED
      BY <1>2, <3>1, <3>2, <3>3 DEF NoResume
  <2> QED
    BY <2>3, <2>4 DEF NoResume
<1>9. ASSUME NEW w \in Writer, Replace(w) PROVE Q
  <2>1. /\ content' = Kept(content) /\ tmp' = NoFile /\ fd' = fd /\ Returned({w}) /\ w \in Writing
        /\ path' \in {path, tmp} /\ (tmp = NoFile => path' = path)
    BY <1>9 DEF Replace, Writing
  <2>2. \A i \in Inode : content'[i] \in {content[i], Empty}
    BY <1>1, <2>1, KeptContents
  <2>3. ~resuming => ~ (~Allowed /\ Allowed')
    BY <1>2, <1>3, <1>4, <2>1, <2>2 DEF NoResume
  <2> QED
    BY <1>8, <2>1, <2>3
<1>10. ASSUME NEW gone \in SUBSET Writer, Die(gone) PROVE Q
  <2>1. /\ content' = Kept(content) /\ path' = path /\ tmp' = tmp /\ Returned(gone)
        /\ \A w \in Writer : fd'[w] = fd[w] \/ w \in gone
    BY <1>10 DEF Die
  <2>2. \A i \in Inode : content'[i] \in {content[i], Empty}
    BY <1>1, <2>1, KeptContents
  <2>3. ~ (~Allowed /\ Allowed')
    BY <1>2, <1>3, <1>4, <2>1, <2>2
  <2> QED
    BY <1>8, <2>1, <2>3
<1>11. CASE UNCHANGED writeVars
  BY <1>3, <1>4, <1>11 DEF writeVars, NoResume, Writing
<1>12. Backend \in SUBSET Writer /\ Writer \ Backend \in SUBSET Writer
  OBVIOUS
<1> QED
  BY <1>5, <1>6, <1>7, <1>9, <1>10, <1>11, <1>12 DEF FileNext

\* However the writes of several halts mix in the shared .tmp, and whoever crashes
\* between them, trading is allowed again only when somebody called for a resume.
THEOREM FailsClosed == FileSpec => HaltsFailClosed
<1>1. FileInit => NoResume
  BY Placeholders DEF FileInit, NoResume, Writing, Payload
<1>2. Names /\ NoResume /\ [FileNext]_writeVars => NoResume'
  BY NoResumeStep
<1>3. Names /\ NoResume /\ [FileNext]_writeVars => [~Allowed /\ Allowed' => resuming]_writeVars
  BY NoResumeStep
<1> QED
  BY <1>1, <1>2, <1>3, NamesKept, PTL DEF FileSpec, HaltsFailClosed

\* What keeps AtomicAlone: while nobody shares the .tmp, the one writer that has it
\* opened an empty one and left its own record there.
Alone ==
  ~raced =>
    /\ \A v, w \in Writing : v = w
    /\ \A w \in Writer : pc[w] = "opened" => fd[w] = tmp /\ tmp # NoFile /\ content[tmp] = Empty
    /\ \A w \in Writer : pc[w] = "written" => tmp # NoFile /\ content[tmp] = payload[w]

\* A step while nobody shares the .tmp is one of the status cell.
LEMMA AloneStep ==
  ASSUME Names, Alone, [FileNext]_writeVars
  PROVE  Alone' /\ (~raced /\ ~raced' => Cell!Next \/ UNCHANGED <<ReadState, payload>>)
<1> USE FileAssumption DEF Names, FileTypeOK
<1> DEFINE Q == Alone' /\ (~raced /\ ~raced' => Cell!Next \/ UNCHANGED <<ReadState, payload>>)
<1>1. content \in [Inode -> Contents]
  BY DEF Contents
<1>2. ASSUME path' = path, path = NoFile \/ content'[path] = content[path] PROVE ReadState' = ReadState
  BY <1>2 DEF ReadState
<1>3. ASSUME NEW w \in Writer, NEW p \in Writes(w), Call(w, p) PROVE Q
  <2>1. /\ UNCHANGED <<content, path, tmp, fd, raced>> /\ pc[w] = "idle"
        /\ payload' = [payload EXCEPT ![w] = p] /\ pc' = [pc EXCEPT ![w] = "called"]
    BY <1>3 DEF Call
  <2>2. ReadState' = ReadState /\ p \in Payload /\ payload[w] = NoPayload
    BY <1>2, <2>1, WritesRecords
  <2>3. Cell!Begin(w, p)
    BY <2>1, <2>2 DEF Cell!Begin
  <2>4. Writing' = Writing
    BY <2>1 DEF Writing
  <2> QED
    BY <2>1, <2>2, <2>3, <2>4 DEF Alone, Cell!Next
<1>4. ASSUME NEW w \in Writer, OpenTmp(w) PROVE Q
  <2>1. PICK i \in Inode : /\ IF tmp = NoFile THEN ~InUse(i) ELSE i = tmp
                           /\ tmp' = i /\ fd' = [fd EXCEPT ![w] = i] /\ content' = [content EXCEPT ![i] = Empty]
    BY <1>4 DEF OpenTmp, Truncated
  <2>2. /\ path' = path /\ payload' = payload /\ pc' = [pc EXCEPT ![w] = "opened"]
        /\ ~raced' => ~raced /\ Writing = {}
    BY <1>4 DEF OpenTmp
  <2>3. i # path
    BY <2>1 DEF InUse
  <2>4. ReadState' = ReadState
    BY <1>1, <1>2, <2>1, <2>2, <2>3
  <2>5. ~raced' => Writing' = {w}
    BY <2>2 DEF Writing
  <2>6. ~raced' => \A v \in Writer : pc'[v] \in {"opened", "written"} => v = w
    BY <2>5 DEF Writing
  <2>7. pc'[w] = "opened" /\ fd'[w] = tmp' /\ tmp' # NoFile /\ content'[tmp'] = Empty
    BY <1>1, <2>1, <2>2
  <2> QED
    BY <2>2, <2>4, <2>5, <2>6, <2>7 DEF Alone
<1>5. ASSUME NEW w \in Writer, WriteTmp(w) PROVE Q
  <2>1. /\ pc[w] = "opened" /\ pc' = [pc EXCEPT ![w] = "written"]
        /\ path' = path /\ tmp' = tmp /\ payload' = payload /\ raced' = raced
    BY <1>5 DEF WriteTmp
  <2>2. Writing' = Writing /\ w \in Writing
    BY <2>1 DEF Writing
  <2>3. CASE raced
    BY <2>1, <2>3 DEF Alone
  <2>4. CASE ~raced
    <3>1. fd[w] = tmp /\ tmp \in Inode /\ tmp # path /\ content[tmp] = Empty
      BY <2>1, <2>4 DEF Alone
    <3> DEFINE c == [content EXCEPT ![tmp] = payload[w]]
    <3>2. content' = Kept(c)
      BY <1>5, <3>1 DEF WriteTmp
    <3>3. payload[w] \in Payload
      BY <2>1
    <3>4. c \in [Inode -> Contents]
      BY <1>1, <3>1, <3>3 DEF Contents
    <3>5. c[tmp] = payload[w] /\ (path # NoFile => c[path] = content[path])
      BY <1>1, <3>1
    <3> HIDE DEF c
    <3>6. content'[tmp] = payload[w] /\ (path # NoFile => content'[path] = content[path])
      <4>1. \A i \in Inode : i = path \/ i = tmp => content'[i] = c[i]
        BY <2>1, <3>2, <3>4, KeptContents
      <4> QED
        BY <3>1, <3>5, <4>1
    <3>7. ReadState' = ReadState
      BY <1>2, <2>1, <3>6
    <3>8. \A v \in Writer : pc'[v] \in {"opened", "written"} => v = w
      BY <2>2, <2>4 DEF Alone, Writing
    <3> QED
      BY <2>1, <2>2, <2>4, <3>1, <3>6, <3>7, <3>8 DEF Alone
  <2> QED
    BY <2>3, <2>4
<1>6. ASSUME NEW gone \in SUBSET Writer, Returned(gone)
      PROVE /\ \A v \in Writing' : v \in Writing /\ v \notin gone /\ pc'[v] = pc[v] /\ payload'[v] = payload[v]
            /\ payload' = [v \in Writer |-> IF v \in gone THEN NoPayload ELSE payload[v]]
            /\ ~raced' => ~raced \/ Writing' = {}
  BY <1>6 DEF Returned, Writing
<1>7. ASSUME NEW w \in Writer, Replace(w) PROVE Q
  <2>1. /\ content' = Kept(content) /\ tmp' = NoFile /\ Returned({w}) /\ w \in Writing /\ pc[w] = "written"
        /\ IF tmp = NoFile THEN path' = path ELSE path' = tmp
    BY <1>7 DEF Replace, Writing
  <2>2. ~raced => Writing' = {}
    BY <1>6, <2>1 DEF Alone
  <2>3. Alone'
    BY <1>6, <2>1, <2>2 DEF Alone, Writing
  <2>4. ASSUME ~raced PROVE Cell!Commit(w)
    <3>1. tmp \in Inode /\ path' = tmp /\ content[tmp] = payload[w] /\ payload[w] \in Payload
      BY <2>1, <2>4 DEF Alone
    <3>2. content'[path'] = payload[w]
      BY <1>1, <2>1, <3>1, KeptContents
    <3>3. ReadState' = payload[w]
      BY <3>1, <3>2 DEF ReadState
    <3>4. payload' = [payload EXCEPT ![w] = NoPayload]
      BY <1>6, <2>1
    <3> QED
      BY <3>1, <3>3, <3>4, Placeholders DEF Cell!Commit
  <2> QED
    BY <2>3, <2>4 DEF Cell!Next
<1>8. ASSUME NEW gone \in SUBSET Writer, Die(gone) PROVE Q
  <2>1. content' = Kept(content) /\ path' = path /\ tmp' = tmp /\ Returned(gone)
        /\ \A v \in Writer \ gone : fd'[v] = fd[v]
    BY <1>8 DEF Die
  <2>2. path = NoFile \/ content'[path] = content[path]
    BY <1>1, <2>1, KeptContents
  <2>3. tmp = NoFile \/ content'[tmp] = content[tmp]
    BY <1>1, <2>1, KeptContents
  <2>4. ReadState' = ReadState
    BY <1>2, <2>1, <2>2
  <2>5. Cell!Abandon(gone)
    BY <1>6, <2>1, <2>4 DEF Cell!Abandon
  <2>6. Alone'
    BY <1>6, <2>1, <2>3 DEF Alone, Writing
  <2> QED
    BY <2>5, <2>6 DEF Cell!Next
<1>9. CASE UNCHANGED writeVars
  BY <1>2, <1>9 DEF writeVars, Alone, Writing
<1>10. Backend \in SUBSET Writer /\ Writer \ Backend \in SUBSET Writer
  OBVIOUS
<1> QED
  BY <1>3, <1>4, <1>5, <1>7, <1>8, <1>9, <1>10 DEF FileNext

\* As long as no two writers have the .tmp at once, write_state persists atomically:
\* every step implements one of StatusCell, whatever crashes leave behind.
THEOREM Atomic == FileSpec => AtomicAlone
<1>1. FileInit => Alone
  BY DEF FileInit, Alone, Writing
<1>2. Names /\ Alone /\ [FileNext]_writeVars => Alone'
  BY AloneStep
<1>3. Names /\ Alone /\ [FileNext]_writeVars
      => [~raced /\ ~raced' => Cell!Next \/ UNCHANGED <<ReadState, payload>>]_writeVars
  BY AloneStep
<1> QED
  BY <1>1, <1>2, <1>3, NamesKept, PTL DEF FileSpec, AtomicAlone
=============================================================================
