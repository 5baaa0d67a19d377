----------------------------- MODULE SentryFile -----------------------------
(***************************************************************************)
(* How trading_status.json is written: write_state in the backend (on the  *)
(* event loop, or in the executor thread of replace_stop_loss) and         *)
(* write_halt_file in the watchdog's container open the same .tmp file,    *)
(* write it and rename it over the status file.  No lock is held.          *)
(*                                                                         *)
(* A name is bound to an inode; an open file stays bound to its inode when *)
(* the name moves.  The small record is written by one system call.        *)
(***************************************************************************)
EXTENDS Naturals

CONSTANTS
  Writer,      \* writers: the event loop, the executor thread, the watchdog
  Backend,     \* the writers that a crash of the backend takes with it
  Inode,
  MaxCrashes   \* bound: crashes of the backend or the watchdog

Halts == [status : {"HALTED_BY_SENTRY"}, by : {"sentry_watchdog", "replace_stop_loss", "operator"}]
         \cup [status : {"HALTED_MANUAL"}, by : {"operator"}]
Resumes == [status : {"ACTIVE"}, by : {"sentry_watchdog", "operator"}]
Payload == Halts \cup Resumes

\* The watchdog and the executor thread halt in their own name; only the event
\* loop resumes, or halts for an operator.
Source == [watchdog |-> "sentry_watchdog", thread |-> "replace_stop_loss"]
Writes(w) ==
  IF w \in DOMAIN Source THEN {[status |-> "HALTED_BY_SENTRY", by |-> Source[w]]}
  ELSE {p \in Payload : p.by # "replace_stop_loss"}

Default == [status |-> "ACTIVE", by |-> "default"]
FailClosed == [status |-> "HALTED_BY_SENTRY", by |-> "sentry_state"]
NoPayload == [status |-> "none", by |-> "none"]
Empty == [status |-> "empty", by |-> "none"]
Mixed == [status |-> "mixed", by |-> "none"]    \* parts of two records
NoFile == "no file"

ASSUME FileAssumption ==
  /\ NoFile \notin Inode /\ Backend \subseteq Writer /\ MaxCrashes \in Nat

VARIABLES
  content,   \* what each inode holds
  path,      \* the inode of trading_status.json, or NoFile
  tmp,       \* the inode of trading_status.tmp, or NoFile
  pc,        \* each writer: "idle", "called", "opened" or "written"
  fd,        \* the inode each writer has open
  payload,   \* the record each writer writes
  resuming,  \* history: a resume was called since trading was last at rest
  raced,     \* history: two writers shared the .tmp since all were last at rest
  crashes

writeVars == <<content, path, tmp, pc, fd, payload, resuming, raced, crashes>>

\* Fault-seeded: a file that cannot be parsed counts as no halt.
ReadState_FailOpen == IF path = NoFile \/ content[path] \notin Payload THEN Default ELSE content[path]

\* read_state: ACTIVE without a file, fail-closed when the file is no record.
ReadState ==
  IF path = NoFile THEN Default
  ELSE IF content[path] \notin Payload THEN FailClosed ELSE content[path]

Allowed == ReadState.status = "ACTIVE"

-----------------------------------------------------------------------------
\* write_state and write_halt_file.
Call(w, p) ==
  /\ pc[w] = "idle"
  /\ pc' = [pc EXCEPT ![w] = "called"]
  /\ payload' = [payload EXCEPT ![w] = p]
  /\ resuming' = (resuming \/ p \in Resumes)
  /\ UNCHANGED <<content, path, tmp, fd, raced, crashes>>

InUse(i) == i \in {path, tmp} \/ \E w \in Writer : fd[w] = i

\* An inode with no name and no open file is free again.
Kept(c) == [i \in Inode |-> IF InUse(i)' THEN c[i] ELSE Empty]

\* Fault-seeded: opened for appending.
Truncated_Append(i) == content

Truncated(i) == [content EXCEPT ![i] = Empty]

Writing == {w \in Writer : pc[w] \in {"opened", "written"}}

\* open(tmp, "w"): the .tmp of any writer, or of a crashed one, is emptied.
OpenTmp(w) ==
  /\ pc[w] = "called"
  /\ \E i \in Inode :
       /\ IF tmp = NoFile THEN ~InUse(i) ELSE i = tmp
       /\ tmp' = i /\ fd' = [fd EXCEPT ![w] = i]
       /\ content' = Truncated(i)
  /\ pc' = [pc EXCEPT ![w] = "opened"]
  /\ raced' = (raced \/ Writing # {})
  /\ UNCHANGED <<path, payload, resuming, crashes>>

\* Written over a record that another writer left there: a shorter record leaves
\* the other's tail.
WriteTmp(w) ==
  /\ pc[w] = "opened"
  /\ pc' = [pc EXCEPT ![w] = "written"]
  /\ fd' = [fd EXCEPT ![w] = NoFile]
  /\ UNCHANGED <<path, tmp, payload, resuming, raced, crashes>>
  /\ \E c \in {payload[w]} \cup IF content[fd[w]] = Empty THEN {} ELSE {Mixed} :
       content' = Kept([content EXCEPT ![fd[w]] = c])

\* A call has returned, raised or died.  Halted and at rest, no resume is left.
Returned(gone) ==
  /\ pc' = [w \in Writer |-> IF w \in gone THEN "idle" ELSE pc[w]]
  /\ payload' = [w \in Writer |-> IF w \in gone THEN NoPayload ELSE payload[w]]
  /\ resuming' = (resuming /\ (Allowed' \/ \E w \in Writer : pc'[w] # "idle"))
  /\ raced' = (raced /\ Writing' # {})

\* tmp.replace(path); it raises when another writer has renamed the .tmp away.
Replace(w) ==
  /\ pc[w] = "written"
  /\ IF tmp = NoFile THEN UNCHANGED path ELSE path' = tmp
  /\ tmp' = NoFile
  /\ UNCHANGED <<fd, crashes>>
  /\ content' = Kept(content) /\ Returned({w})

\* The backend or the watchdog dies; its .tmp stays.
Die(gone) ==
  /\ gone # {} /\ crashes < MaxCrashes /\ crashes' = crashes + 1
  /\ fd' = [w \in Writer |-> IF w \in gone THEN NoFile ELSE fd[w]]
  /\ UNCHANGED <<path, tmp>>
  /\ content' = Kept(content) /\ Returned(gone)

-----------------------------------------------------------------------------
FileInit ==
  /\ content = [i \in Inode |-> Empty] /\ path = NoFile /\ tmp = NoFile
  /\ pc = [w \in Writer |-> "idle"] /\ fd = [w \in Writer |-> NoFile]
  /\ payload = [w \in Writer |-> NoPayload]
  /\ resuming = FALSE /\ raced = FALSE /\ crashes = 0

FileNext ==
  \/ \E w \in Writer :
       OpenTmp(w) \/ WriteTmp(w) \/ Replace(w) \/ \E p \in Writes(w) : Call(w, p)
  \/ Die(Backend) \/ Die(Writer \ Backend)

FileSpec == FileInit /\ [][FileNext]_writeVars

-----------------------------------------------------------------------------
\* Properties.

\* Every variable stays in its range, and an open .tmp is bound to an inode.
FileTypeOK ==
  /\ content \in [Inode -> Payload \cup {Empty, Mixed}]
  /\ path \in Inode \cup {NoFile} /\ tmp \in Inode \cup {NoFile}
  /\ pc \in [Writer -> {"idle", "called", "opened", "written"}]
  /\ fd \in [Writer -> Inode \cup {NoFile}]
  /\ payload \in [Writer -> Payload \cup {NoPayload}]
  /\ resuming \in BOOLEAN /\ raced \in BOOLEAN /\ crashes \in 0..MaxCrashes
  /\ \A w \in Writer : pc[w] = "opened" => fd[w] \in Inode

\* write_state: "Atomically persist trading status."  As long as no two writers
\* have the .tmp at once it does: whatever crashes left there, every step is one of
\* a cell that changes only to a whole record somebody called write_state with.
Cell == INSTANCE StatusCell WITH cell <- ReadState, pending <- payload
AtomicAlone == [][~raced /\ ~raced' => Cell!Next \/ UNCHANGED <<ReadState, payload>>]_writeVars

\* "fail-closed to HALTED_BY_SENTRY": however the writes of several halts mix, and
\* whoever crashes between them, trading is allowed again only when somebody
\* called for a resume.
HaltsFailClosed == [][~Allowed /\ Allowed' => resuming]_writeVars
=============================================================================
