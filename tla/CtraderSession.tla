--------------------------- MODULE CtraderSession ---------------------------
(***************************************************************************)
(* The cTrader session: sockets, and the flags of the one CTraderService   *)
(* that all of them share.                                                 *)
(*                                                                         *)
(* A caller that finds the session down opens a socket under the connect   *)
(* lock and waits for _auth_event, which any socket sets.  A socket whose  *)
(* attempt timed out is not closed: it may still authenticate, or be lost, *)
(* long after a later attempt succeeded.  The callers are the poller, the  *)
(* desk (execute-candidate and /ctrader/enable) and the reconnect threads. *)
(***************************************************************************)
EXTENDS Naturals, FiniteSets

CONSTANTS
  Workers,      \* bound: reconnect threads alive at a time
  Sockets,      \* bound: connections open at a time, by number
  MaxFaults     \* bound: connections lost, refused, failed or slow, and calls of /ctrader/disable

ASSUME SessionAssumption ==
  /\ Sockets \in Nat \ {0} /\ MaxFaults \in Nat
  /\ Workers \cap {"poller", "desk"} = {}

VARIABLES
  env,       \* the account's kind, CTRADER_LIVE_CONFIRM, and the is_live gate
  sock,      \* each connection: free, tcp, auth, mute, live or closing
  onLive,    \* the connections opened to live.ctraderapi.com
  svc,       \* the service's flags
  protocol,  \* _protocol: the connection orders are sent on
  pc,        \* each caller: idle, asleep, at the lock, waiting for the answer
  faults

vars == <<env, sock, onLive, svc, protocol, pc, faults>>

Socket == 1 .. Sockets
None == 0
Caller == {"poller", "desk"} \cup Workers
Envs == {e \in [live : BOOLEAN, confirmed : BOOLEAN, allowed : BOOLEAN] :
           IF e.live THEN e.allowed => e.confirmed ELSE e.allowed = e.confirmed}
Flags == [connected : BOOLEAN, authenticated : BOOLEAN, dry : BOOLEAN, event : BOOLEAN, intentional : BOOLEAN,
          pending : BOOLEAN, retry : BOOLEAN, cooling : BOOLEAN, host : {"none", "demo", "live"}]
Open == {s \in Socket : sock[s] # "free"}
Answering == {s \in Socket : sock[s] \in {"tcp", "auth"}}
Fault == faults < MaxFaults /\ faults' = faults + 1

\* is_connected.
IsConnected == svc.connected /\ svc.authenticated

\* Fault-seeded: a session that is not in dry-run counts as connected.
Ready_NotDry == ~svc.dry

\* The early return of ensure_connected and connect.
Ready == IsConnected /\ ~svc.dry

Init ==
  /\ env \in Envs
  /\ sock = [s \in Socket |-> "free"] /\ onLive = {} /\ protocol = None
  /\ svc = [connected |-> FALSE, authenticated |-> FALSE, dry |-> TRUE, event |-> FALSE, intentional |-> FALSE,
             pending |-> FALSE, retry |-> FALSE, cooling |-> FALSE, host |-> "none"]
  /\ pc = [c \in Caller |-> "idle"]
  /\ faults = 0
-----------------------------------------------------------------------------
(***************************************************************************)
(* The callers                                                             *)
(***************************************************************************)
\* ensure_connected, up to the lock: the poller calls it when the session is
\* down, execute_candidate before every dispatch.
Ensure(c) ==
  /\ pc[c] = "idle" /\ c \notin Workers
  /\ IF c = "poller" THEN ~IsConnected ELSE ~Ready
  /\ ~svc.cooling
  /\ svc' = [svc EXCEPT !.intentional = FALSE]
  /\ pc' = [pc EXCEPT ![c] = "lock"]
  /\ UNCHANGED <<env, sock, onLive, protocol, faults>>

\* /ctrader/enable: connect() without ensure_connected's checks.
Enable ==
  /\ pc["desk"] = "idle"
  /\ pc' = [pc EXCEPT !["desk"] = "lock"]
  /\ UNCHANGED <<env, sock, onLive, svc, protocol, faults>>

\* A return of connect(): the reconnect thread then clears its flag.
Return(c, s) == IF c \in Workers THEN [s EXCEPT !.pending = FALSE] ELSE s

\* Fault-seeded: _connect_unlocked takes the host override as it stands.
HostIsLive_Override == IF svc.host = "none" THEN env.allowed ELSE svc.host = "live"

\* _connect_unlocked: an override to the live host needs the is_live gate.
HostIsLive ==
  IF svc.host = "none" \/ (svc.host = "live" /\ ~env.allowed) THEN env.allowed ELSE svc.host = "live"

\* _connect_unlocked, up to the wait: clear the flags, then open a connection.
\* The service keeps the connections it has, and _protocol.
Dial(c, cleared) ==
  /\ Open # Socket
  /\ LET s == CHOOSE k \in Socket \ Open : \A j \in Socket \ Open : k <= j IN
     /\ sock' = [sock EXCEPT ![s] = "tcp"]
     /\ onLive' = IF HostIsLive THEN onLive \cup {s} ELSE onLive \ {s}
  /\ svc' = [cleared EXCEPT !.event = FALSE, !.connected = FALSE, !.authenticated = FALSE,
                            !.dry = FALSE, !.intentional = FALSE,
                            !.host = IF @ = "live" /\ ~env.allowed THEN "none" ELSE @]
  /\ pc' = [pc EXCEPT ![c] = "wait"]

\* connect(): the checks are repeated under the lock.
Connect(c) ==
  /\ pc[c] = "lock" /\ \A d \in Caller : pc[d] # "wait"
  /\ IF Ready \/ svc.cooling
     THEN /\ pc' = [pc EXCEPT ![c] = "idle"] /\ svc' = Return(c, svc)
          /\ UNCHANGED <<sock, onLive>>
     ELSE Dial(c, svc)
  /\ UNCHANGED <<env, protocol, faults>>

\* The wait ends with the event, or after 15 s: then the answer is late (a
\* fault while a connection may still answer) and the socket stays open.
Waited(c) ==
  /\ pc[c] = "wait"
  /\ IF svc.event \/ Answering = {} THEN UNCHANGED faults ELSE Fault

\* The attempt succeeded, on whichever socket.
ConnectOk(c) ==
  /\ Waited(c) /\ svc.authenticated
  /\ svc' = Return(c, [svc EXCEPT !.pending = FALSE, !.cooling = FALSE, !.retry = FALSE])
  /\ pc' = [pc EXCEPT ![c] = "idle"]
  /\ UNCHANGED <<env, sock, onLive, protocol>>

\* The account list named the other host: once more, still under the lock.
ConnectRetry(c) ==
  /\ Waited(c) /\ ~svc.authenticated /\ svc.retry /\ svc.host # "none"
  /\ Dial(c, [svc EXCEPT !.retry = FALSE, !.cooling = FALSE])
  /\ UNCHANGED <<env, protocol>>

\* _mark_connect_failure: back to dry-run, and a cooldown.
ConnectFailed(c) ==
  /\ Waited(c) /\ ~svc.authenticated /\ ~(svc.retry /\ svc.host # "none")
  /\ svc' = Return(c, [svc EXCEPT !.dry = TRUE, !.cooling = TRUE])
  /\ pc' = [pc EXCEPT ![c] = "idle"]
  /\ UNCHANGED <<env, sock, onLive, protocol>>

\* _next_connect_ok_at passes.
CooledDown ==
  /\ svc.cooling /\ svc' = [svc EXCEPT !.cooling = FALSE]
  /\ UNCHANGED <<env, sock, onLive, protocol, pc, faults>>

\* disconnect(), by /ctrader/disable: the connection itself is not closed.
Disable ==
  /\ Fault
  /\ svc' = [svc EXCEPT !.intentional = TRUE, !.connected = FALSE, !.authenticated = FALSE, !.dry = TRUE]
  /\ protocol' = None
  /\ UNCHANGED <<env, sock, onLive, pc>>

\* The reconnect thread after its delay.
Wake(w) ==
  /\ pc[w] = "sleep"
  /\ IF ~IsConnected /\ ~svc.intentional
     THEN pc' = [pc EXCEPT ![w] = "lock"] /\ svc' = [svc EXCEPT !.dry = FALSE]
     ELSE pc' = [pc EXCEPT ![w] = "idle"] /\ svc' = [svc EXCEPT !.pending = FALSE]
  /\ UNCHANGED <<env, sock, onLive, protocol, faults>>
-----------------------------------------------------------------------------
(***************************************************************************)
(* The reactor thread                                                      *)
(***************************************************************************)
\* connectionMade, then the application is authenticated.
TcpUp(s) ==
  /\ sock[s] = "tcp"
  /\ sock' = [sock EXCEPT ![s] = "auth"] /\ svc' = [svc EXCEPT !.connected = TRUE]
  /\ UNCHANGED <<env, onLive, protocol, pc, faults>>

\* clientConnectionFailed.
Refused(s) ==
  /\ sock[s] = "tcp" /\ Fault
  /\ sock' = [sock EXCEPT ![s] = "free"] /\ onLive' = onLive \ {s}
  /\ svc' = [svc EXCEPT !.event = TRUE]
  /\ UNCHANGED <<env, protocol, pc>>

\* The account list is empty: the waiter is told, the socket stays open.
NoAccounts(s) ==
  /\ sock[s] = "auth" /\ Fault
  /\ sock' = [sock EXCEPT ![s] = "mute"] /\ svc' = [svc EXCEPT !.event = TRUE]
  /\ UNCHANGED <<env, onLive, protocol, pc>>

\* The host of the account's kind.
AccountHost == IF env.live THEN "live" ELSE "demo"

\* The account is of the other host: switch to it, unless that is the live
\* host and the operator has not confirmed it.
WrongHost(s) ==
  /\ sock[s] = "auth" /\ env.live # (s \in onLive)
  /\ sock' = [sock EXCEPT ![s] = "closing"]
  /\ svc' = IF env.live /\ ~env.confirmed
            THEN [svc EXCEPT !.event = TRUE]
            ELSE [svc EXCEPT !.event = TRUE, !.retry = TRUE, !.host = AccountHost]
  /\ UNCHANGED <<env, onLive, protocol, pc, faults>>

\* 2103: the account is authenticated, in time or not.
Authenticated(s) ==
  /\ sock[s] = "auth" /\ env.live = (s \in onLive)
  /\ sock' = [sock EXCEPT ![s] = "live"]
  /\ svc' = [svc EXCEPT !.authenticated = TRUE, !.event = TRUE]
  /\ protocol' = s
  /\ UNCHANGED <<env, onLive, pc, faults>>

\* 2142: a protocol error closes the connection.
ErrorRes(s) ==
  /\ sock[s] \in {"auth", "live"} /\ Fault
  /\ sock' = [sock EXCEPT ![s] = "closing"] /\ svc' = [svc EXCEPT !.event = TRUE]
  /\ UNCHANGED <<env, onLive, protocol, pc>>

\* _schedule_reconnect: one thread at a time.
Reconnects == svc.authenticated /\ ~svc.intentional /\ ~svc.pending

\* Fault-seeded: only the flag of the transport is cleared.
Down_TransportOnly(f) == [f EXCEPT !.connected = FALSE, !.pending = @ \/ Reconnects]

\* What connectionLost leaves of the flags, whichever connection it was.
Down(f) == [f EXCEPT !.connected = FALSE, !.authenticated = FALSE, !.pending = @ \/ Reconnects]

\* connectionLost and clientConnectionLost.
Lost(s) ==
  /\ sock[s] \in {"auth", "mute", "live", "closing"}
  /\ IF sock[s] = "closing" THEN UNCHANGED faults ELSE Fault
  /\ sock' = [sock EXCEPT ![s] = "free"] /\ onLive' = onLive \ {s}
  /\ svc' = Down(svc) /\ protocol' = None
  /\ IF Reconnects
     THEN \E w \in Workers : pc[w] = "idle" /\ pc' = [pc EXCEPT ![w] = "sleep"]
     ELSE UNCHANGED pc
  /\ UNCHANGED env
-----------------------------------------------------------------------------
Call(c) == Ensure(c) \/ Connect(c) \/ ConnectOk(c) \/ ConnectRetry(c) \/ ConnectFailed(c)

Reactor(s) ==
  \/ TcpUp(s) \/ Refused(s) \/ NoAccounts(s) \/ WrongHost(s) \/ Authenticated(s) \/ ErrorRes(s) \/ Lost(s)

Next ==
  \/ \E c \in Caller : Call(c)
  \/ \E w \in Workers : Wake(w)
  \/ Enable \/ Disable \/ CooledDown
  \/ \E s \in Socket : Reactor(s)

Spec == Init /\ [][Next]_vars

\* The threads run, the poller polls, time passes, and the broker answers.
Fairness ==
  /\ \A c \in Caller : WF_vars(Connect(c) \/ ConnectOk(c) \/ ConnectRetry(c) \/ ConnectFailed(c))
  /\ WF_vars(Ensure("poller")) /\ \A w \in Workers : WF_vars(Wake(w))
  /\ WF_vars(CooledDown)
  /\ \A s \in Socket : WF_vars(TcpUp(s) \/ WrongHost(s) \/ Authenticated(s)) /\ WF_vars(sock[s] = "closing" /\ Lost(s))

FairSpec == Spec /\ Fairness
-----------------------------------------------------------------------------
\* Every variable keeps its type; every connection is of a known state.
TypeOK ==
  /\ env \in Envs
  /\ sock \in [Socket -> {"free", "tcp", "auth", "mute", "live", "closing"}] /\ onLive \subseteq Socket
  /\ svc \in Flags
  /\ protocol \in Socket \cup {None}
  /\ pc \in [Caller -> {"idle", "sleep", "lock", "wait"}]
  /\ faults \in 0 .. MaxFaults

\* A session that reports itself connected sends its orders on a connection
\* that is authenticated and not yet lost, although stale sockets share its
\* flags (connectionLost, handler of 2103).
OnlineIsReal == IsConnected => protocol # None /\ sock[protocol] \in {"live", "closing"}

\* No connection goes to the live host without the is_live gate, the account
\* list's host override included ("must never select live.ctraderapi.com").
PaperStaysDemo == onLive # {} => env.allowed

\* Once the faults stop, the session comes up and stays up, unless the account
\* is a live one that the desk may not use.
Online == (env.live => env.allowed) => <>[]IsConnected
==============================================================================
