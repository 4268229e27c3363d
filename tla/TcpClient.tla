----------------------------- MODULE TcpClient -----------------------------
(***************************************************************************)
(* net/TcpClient.cc and net/Connector.cc: a client that connects, retries  *)
(* with a growing delay, reconnects when its connection closes, and can be *)
(* stopped or destroyed at any time.  All calls come from the loop thread, *)
(* and connect() is called once, as the assertions of Connector require.   *)
(*                                                                         *)
(* The Connector is kept alive by the client, by a retry timer and by the  *)
(* timer that ~TcpClient sets; the functors it queues hold a raw pointer.  *)
(* Nothing is claimed after a failed assertion or the use of a destroyed   *)
(* object.                                                                 *)
(***************************************************************************)
EXTENDS Integers, Sequences, FiniteSets

CONSTANTS
    InitDelay, MaxDelay,  \* kInitRetryDelayMs, kMaxRetryDelayMs
    MaxConns,             \* bound: connections made
    MaxStops              \* bound: calls of stop()

ASSUME ClientAssumption ==
    /\ InitDelay \in Nat \ {0} /\ MaxDelay \in Nat /\ InitDelay <= MaxDelay
    /\ MaxConns \in Nat /\ MaxStops \in Nat

VARIABLES
    \* Connector
    wanted,       \* Connector::connect_
    state,        \* state_
    channel,      \* channel_: "none", "on", or "off" once removed from the poller
    delay,        \* retryDelayMs_
    \* TcpClient
    alive,        \* it has not been destroyed
    retry_,       \* retry_
    connect_,     \* TcpClient::connect_
    connection,   \* connection_, 0 for none
    nextConnId,   \* nextConnId_
    \* its TcpConnections
    up,           \* connected ones
    own,          \* those whose close callback is TcpClient::removeConnection
    \* the loop
    phase,        \* "dispatch" of events, or "functors"
    polled,       \* what this dispatch can see: connections, and 0 for the channel
    pending, running,   \* pendingFunctors_, and those being run
    retryTimers,  \* retry timers: how many are set, how many are due
    guardTimer,   \* the timer of ~TcpClient: "none", "set" or "due"
    \* histories
    called, stops, stopped,  \* connect() has been called; calls of stop()
    gaveUp,       \* an attempt has ended with no retry
    fds, lost,    \* sockets open; sockets that newConnection drops
    fault         \* "none", "assert", "connector" or "client"

connectorVars == <<wanted, state, channel, delay>>
clientVars == <<alive, retry_, connect_, connection, nextConnId>>
connVars == <<up, own>>
loopVars == <<phase, polled, pending, running>>
timerVars == <<retryTimers, guardTimer>>
callVars == <<called, stops, stopped>>
vars == <<connectorVars, clientVars, connVars, loopVars, timerVars, callVars,
          gaveUp, fds, lost, fault>>

Functor == [op : {"resetChannel", "stopInLoop"}, conn : {0}]
           \cup [op : {"connectDestroyed", "forceCloseInLoop"}, conn : 1 .. MaxConns]
Do(op, conn) == [op |-> op, conn |-> conn]

\* Someone holds a shared_ptr to the Connector.
ConnectorLives ==
    alive \/ retryTimers.set + retryTimers.due > 0 \/ guardTimer # "none"

\* fault after a step whose assertions hold iff ok: the last holder of the
\* Connector runs ~Connector, which asserts that there is no channel.
Asserts(ok) ==
    fault' = IF ok /\ (ConnectorLives' \/ channel' = "none") THEN "none" ELSE "assert"

Dispatching == phase = "dispatch"

\* The sockets in the poller.
Registered == up \cup (IF channel = "on" THEN {0} ELSE {})

----------------------------------------------------------------------------
(* Connector.                                                              *)

\* The delay of the next retry.
Doubled(d) == IF 2 * d < MaxDelay THEN 2 * d ELSE MaxDelay

\* Mutant: an attempt that fails after the longest delay is the last.
MutLastRetry(want, d, timers, open) ==
    /\ state' = "kDisconnected"
    /\ fds' = open - 1
    /\ retryTimers' = IF want /\ d < MaxDelay THEN [timers EXCEPT !.set = @ + 1] ELSE timers
    /\ delay' = IF want THEN Doubled(d) ELSE d

\* retry, with connect_, retryDelayMs_, the timers and the open sockets at the
\* call.
retry(want, d, timers, open) ==
    /\ state' = "kDisconnected"
    /\ fds' = open - 1
    /\ retryTimers' = IF want THEN [timers EXCEPT !.set = @ + 1] ELSE timers
    /\ delay' = IF want THEN Doubled(d) ELSE d

\* Mutant: a retry timer is also set for an attempt that is under way.
MutConnecting(d, timers) ==
    /\ state' = "kConnecting" /\ channel' = "on" /\ fds' = fds + 1
    /\ delay' = d /\ retryTimers' = [timers EXCEPT !.set = @ + 1]
    /\ UNCHANGED gaveUp

\* connecting: the channel waits for the socket to become writable.
Connecting(d, timers) ==
    /\ state' = "kConnecting" /\ channel' = "on" /\ fds' = fds + 1
    /\ delay' = d /\ retryTimers' = timers
    /\ UNCHANGED gaveUp

\* connect creates a socket; connect(2) succeeds or is in progress, fails in a
\* way that is retried, or fails for good.
connect(d, timers) ==
    \/ Connecting(d, timers)
    \/ retry(TRUE, d, timers, fds + 1) /\ UNCHANGED <<channel, gaveUp>>
    \/ /\ gaveUp' = TRUE /\ state' = "kDisconnected" /\ delay' = d
       /\ retryTimers' = timers /\ UNCHANGED <<channel, fds>>

\* startInLoop, with state_, connect_, retryDelayMs_ and the timers at the call.
startInLoop(st, want, d, timers) ==
    IF st # "kDisconnected"
    THEN Asserts(FALSE) /\ retryTimers' = timers
         /\ UNCHANGED <<state, channel, delay, fds, gaveUp>>
    ELSE IF want
    THEN connect(d, timers) /\ Asserts(state' # "kConnecting" \/ channel = "none")
    ELSE /\ state' = st /\ retryTimers' = timers /\ delay' = d
         /\ UNCHANGED <<channel, fds, gaveUp>>
         /\ Asserts(TRUE)

\* A retry timer expires.
RetryTimer ==
    /\ Dispatching /\ retryTimers.due > 0
    /\ UNCHANGED <<wanted, clientVars, connVars, loopVars, guardTimer, callVars, lost>>
    /\ startInLoop(state, wanted, delay, [retryTimers EXCEPT !.due = @ - 1])

\* removeAndResetChannel
RemoveAndResetChannel ==
    channel' = "off" /\ pending' = Append(pending, Do("resetChannel", 0))

\* The attempt has failed: handleError, and handleWrite where SO_ERROR is set or
\* the socket is connected to itself.  After handleError the same event may call
\* handleWrite, which finds kDisconnected and does nothing.
AttemptFails ==
    /\ Dispatching /\ 0 \in polled \cap Registered /\ state = "kConnecting"
    /\ RemoveAndResetChannel
    /\ retry(wanted, delay, retryTimers, fds)
    /\ UNCHANGED <<wanted, clientVars, connVars, phase, polled, running, guardTimer,
                   callVars, gaveUp, lost, fault>>

\* TcpClient::newConnection.  getpeername or getsockname may fail: the socket is
\* then forgotten.
newConnection ==
    /\ nextConnId <= MaxConns
    /\ fault' = IF alive THEN "none" ELSE "client"
    /\ \/ lost' = lost + 1 /\ UNCHANGED <<connection, connVars>>
          /\ nextConnId' \in {nextConnId, nextConnId + 1}
       \/ /\ connection' = nextConnId
          /\ nextConnId' = nextConnId + 1
          /\ up' = up \cup {nextConnId} /\ own' = own \cup {nextConnId}
          /\ UNCHANGED lost

\* handleWrite where the attempt has succeeded.
HandleWrite ==
    /\ Dispatching /\ 0 \in polled \cap Registered /\ state = "kConnecting"
    /\ RemoveAndResetChannel
    /\ state' = "kConnected"
    /\ IF ~wanted
       THEN /\ fds' = fds - 1
            /\ UNCHANGED <<connection, nextConnId, connVars, lost, fault>>
       ELSE newConnection /\ UNCHANGED fds
    /\ UNCHANGED <<wanted, delay, alive, retry_, connect_, phase, polled, running, timerVars,
                   callVars, gaveUp>>

\* Connector::stop queues stopInLoop.
stop == wanted' = FALSE /\ pending' = Append(pending, Do("stopInLoop", 0))

----------------------------------------------------------------------------
(* TcpClient.                                                              *)

\* connect() calls start(), which runs startInLoop at once on the loop thread.
Connect ==
    /\ alive /\ ~called
    /\ called' = TRUE /\ stopped' = FALSE
    /\ connect_' = TRUE /\ wanted' = TRUE
    /\ UNCHANGED <<alive, retry_, connection, nextConnId, connVars, loopVars,
                   guardTimer, stops, lost>>
    /\ startInLoop(state, TRUE, delay, retryTimers)

\* Mutant: stop() leaves the Connector's flag alone.
MutStop ==
    /\ alive /\ stops < MaxStops
    /\ stops' = stops + 1 /\ stopped' = TRUE
    /\ connect_' = FALSE
    /\ pending' = Append(pending, Do("stopInLoop", 0))
    /\ UNCHANGED <<wanted, state, channel, delay, alive, retry_, connection, nextConnId,
                   connVars, phase, polled, running, timerVars, called, gaveUp, fds, lost, fault>>

Stop ==
    /\ alive /\ stops < MaxStops
    /\ stops' = stops + 1 /\ stopped' = TRUE
    /\ connect_' = FALSE /\ stop
    /\ UNCHANGED <<state, channel, delay, alive, retry_, connection, nextConnId,
                   connVars, phase, polled, running, timerVars, called, gaveUp, fds, lost, fault>>

\* disconnect() shuts the connection down; the Connector goes on.
Disconnect ==
    /\ alive /\ connect_
    /\ connect_' = FALSE
    /\ UNCHANGED <<connectorVars, alive, retry_, connection, nextConnId, connVars, loopVars,
                   timerVars, callVars, gaveUp, fds, lost, fault>>

EnableRetry ==
    /\ alive /\ ~retry_
    /\ retry_' = TRUE
    /\ UNCHANGED <<connectorVars, alive, connect_, connection, nextConnId, connVars,
                   loopVars, timerVars, callVars, gaveUp, fds, lost, fault>>

\* Mutant: ~TcpClient leaves the connection's close callback.
MutDestroy ==
    /\ alive /\ connection # 0
    /\ alive' = FALSE
    /\ UNCHANGED <<own, up, wanted, guardTimer, state, channel, delay, retry_,
                   connect_, connection, nextConnId, loopVars, retryTimers, callVars,
                   gaveUp, fds, lost>>
    /\ Asserts(TRUE)

\* ~TcpClient.  The connection is unique when nobody else holds it.
Destroy ==
    /\ alive
    /\ alive' = FALSE
    /\ IF connection # 0
       THEN /\ own' = own \ {connection}
            /\ \/ pending' = Append(pending, Do("forceCloseInLoop", connection))
               \/ UNCHANGED pending
            /\ UNCHANGED <<wanted, guardTimer>>
       ELSE /\ stop
            /\ guardTimer' = "set"
            /\ UNCHANGED own
    /\ UNCHANGED <<state, channel, delay, retry_, connect_, connection, nextConnId, up,
                   phase, polled, running, retryTimers, callVars, gaveUp, fds, lost>>
    /\ Asserts(TRUE)

\* The timer of ~TcpClient calls stop() on the Connector and lets go of it.
GuardTimer ==
    /\ Dispatching /\ guardTimer = "due"
    /\ guardTimer' = "none"
    /\ stop
    /\ UNCHANGED <<state, channel, delay, clientVars, connVars, phase, polled, running,
                   retryTimers, callVars, gaveUp, fds, lost>>
    /\ Asserts(TRUE)

\* restart
Restart ==
    /\ wanted' = TRUE
    /\ startInLoop("kDisconnected", TRUE, InitDelay, retryTimers)

\* TcpClient::removeConnection, which asserts that c is the client's connection.
removeConnection(c) ==
    IF alive /\ connection = c
    THEN /\ connection' = 0
         /\ IF retry_ /\ connect_ THEN Restart
            ELSE UNCHANGED <<connectorVars, retryTimers, gaveUp, fds, fault>>
    ELSE /\ fault' = IF alive THEN "assert" ELSE "client"
         /\ UNCHANGED <<connectorVars, connection, retryTimers, gaveUp, fds>>

\* TcpConnection::handleClose for connection c, and its close callback: the
\* client's, or detail::removeConnection.  Both queue connectDestroyed.
Close(c) ==
    /\ up' = up \ {c}
    /\ pending' = Append(pending, Do("connectDestroyed", c))
    /\ IF c \in own THEN removeConnection(c)
       ELSE UNCHANGED <<connectorVars, connection, retryTimers, gaveUp, fds, fault>>

\* The peer closes the connection, or it fails.
PeerCloses(c) ==
    /\ Dispatching /\ c \in polled \cap up
    /\ UNCHANGED <<alive, retry_, connect_, nextConnId, own, phase, polled, running, guardTimer,
                   callVars, lost>>
    /\ Close(c)

----------------------------------------------------------------------------
(* The loop.                                                               *)

\* A delay passes, in one turn of the loop or over several: what is due is seen
\* when timerfd is next read, which may be in the turn that set the timer.
Elapse ==
    /\ \/ /\ retryTimers.set > 0
          /\ retryTimers' = [set |-> 0, due |-> retryTimers.set + retryTimers.due]
          /\ UNCHANGED guardTimer
       \/ guardTimer = "set" /\ guardTimer' = "due" /\ UNCHANGED retryTimers
    /\ UNCHANGED <<connectorVars, clientVars, connVars, loopVars, callVars,
                   gaveUp, fds, lost, fault>>

\* The dispatch ends and doPendingFunctors begins.  An iteration that has nothing
\* to run and no new socket to poll changes nothing.
SwapFunctors ==
    /\ Dispatching /\ (pending # <<>> \/ polled # Registered)
    /\ phase' = "functors" /\ running' = pending /\ pending' = <<>>
    /\ UNCHANGED <<polled, connectorVars, clientVars, connVars, timerVars, callVars, gaveUp, fds,
                   lost, fault>>

Poll ==
    /\ phase = "functors" /\ running = <<>>
    /\ phase' = "dispatch" /\ polled' = Registered
    /\ UNCHANGED <<connectorVars, clientVars, connVars, pending, running, timerVars,
                   callVars, gaveUp, fds, lost, fault>>

Runs(op) ==
    /\ running # <<>> /\ Head(running).op = op
    /\ running' = Tail(running)
    /\ UNCHANGED <<phase, polled>>

ResetChannel ==
    /\ Runs("resetChannel")
    /\ channel' = "none"
    /\ fault' = IF ConnectorLives THEN "none" ELSE "connector"
    /\ UNCHANGED <<wanted, state, delay, clientVars, connVars, pending, timerVars, callVars,
                   gaveUp, fds, lost>>

StopInLoop ==
    /\ Runs("stopInLoop")
    /\ fault' = IF ConnectorLives THEN "none" ELSE "connector"
    /\ IF state = "kConnecting"
       THEN RemoveAndResetChannel /\ retry(wanted, delay, retryTimers, fds)
       ELSE UNCHANGED <<channel, pending, state, fds, retryTimers, delay>>
    /\ UNCHANGED <<wanted, clientVars, connVars, guardTimer, callVars, gaveUp, lost>>

\* connectDestroyed; the TcpConnection is destroyed after it, and its socket closed.
ConnectDestroyed ==
    /\ Runs("connectDestroyed")
    /\ fds' = fds - 1
    /\ UNCHANGED <<connectorVars, clientVars, connVars, pending, timerVars, callVars,
                   gaveUp, lost, fault>>

ForceCloseInLoop ==
    /\ Runs("forceCloseInLoop")
    /\ UNCHANGED <<alive, retry_, connect_, nextConnId, own, guardTimer, callVars, lost>>
    /\ LET c == Head(running).conn IN
       IF c \in up THEN Close(c)
       ELSE UNCHANGED <<connectorVars, connection, retryTimers, gaveUp, fds, fault, up,
                        pending>>

----------------------------------------------------------------------------
Init ==
    /\ wanted = FALSE /\ state = "kDisconnected" /\ channel = "none" /\ delay = InitDelay
    /\ alive = TRUE /\ retry_ = FALSE /\ connect_ = TRUE /\ connection = 0
    /\ nextConnId = 1 /\ up = {} /\ own = {}
    /\ phase = "dispatch" /\ polled = {} /\ pending = <<>> /\ running = <<>>
    /\ retryTimers = [set |-> 0, due |-> 0] /\ guardTimer = "none"
    /\ called = FALSE /\ stops = 0 /\ stopped = FALSE
    /\ gaveUp = FALSE /\ fds = 0 /\ lost = 0 /\ fault = "none"

Functors ==
    SwapFunctors \/ Poll \/ ResetChannel \/ StopInLoop \/ ConnectDestroyed \/ ForceCloseInLoop
Timers == Elapse \/ RetryTimer \/ GuardTimer
Attempt == AttemptFails \/ HandleWrite
Calls == Connect \/ Stop \/ Disconnect \/ EnableRetry \/ Destroy

Next ==
    /\ fault = "none"
    /\ Functors \/ Timers \/ Attempt \/ Calls \/ \E c \in up : PeerCloses(c)

\* The loop runs its functors and its timers, and an attempt comes to an end.  A
\* server that can be reached again and again is reached in the end, and the
\* addresses of an established connection can then be read.
Fairness ==
    /\ WF_vars(fault = "none" /\ Functors)
    /\ WF_vars(fault = "none" /\ Elapse)
    /\ WF_vars(fault = "none" /\ (RetryTimer \/ GuardTimer))
    /\ WF_vars(fault = "none" /\ Attempt)
    /\ SF_vars(fault = "none" /\ RetryTimer /\ state' = "kConnecting")
    /\ SF_vars(fault = "none" /\ HandleWrite)

Spec == Init /\ [][Next]_vars /\ Fairness

----------------------------------------------------------------------------
(* Properties.                                                             *)

\* Types of the client, the Connector and the loop; the delay stays between
\* kInitRetryDelayMs and kMaxRetryDelayMs.
TypeOK ==
    /\ wanted \in BOOLEAN /\ state \in {"kDisconnected", "kConnecting", "kConnected"}
    /\ channel \in {"none", "on", "off"} /\ delay \in InitDelay .. MaxDelay
    /\ alive \in BOOLEAN /\ retry_ \in BOOLEAN /\ connect_ \in BOOLEAN
    /\ connection \in 0 .. MaxConns /\ nextConnId \in 1 .. MaxConns + 1
    /\ up \subseteq 1 .. MaxConns /\ own \subseteq 1 .. MaxConns
    /\ phase \in {"dispatch", "functors"} /\ polled \subseteq 0 .. MaxConns
    /\ pending \in Seq(Functor) /\ running \in Seq(Functor)
    /\ retryTimers \in [set : 0 .. 2, due : 0 .. 2]
    /\ guardTimer \in {"none", "set", "due"}
    /\ called \in BOOLEAN /\ stops \in 0 .. MaxStops /\ stopped \in BOOLEAN
    /\ gaveUp \in BOOLEAN /\ fds \in Nat /\ lost \in Nat
    /\ fault \in {"none", "assert", "connector", "client"}

\* While the client exists, no assertion of Connector or TcpClient fails but one:
\* startInLoop always finds kDisconnected, and the connection that closes is the
\* client's; and connecting() finds a channel only in a retry timer that expires
\* before the resetChannel queued when the attempt failed has run, in a turn of the
\* loop that takes longer than the delay.  Once the client has been destroyed it is
\* never called back, by its Connector or by the connection that outlives it.
NoFault ==
    [][/\ fault' # "client"
       /\ alive' /\ fault' = "assert" => RetryTimer /\ channel = "off"]_vars

\* There is one retry timer, attempt or connection at a time, so the client never
\* holds two sockets to the server.  Every open socket belongs to the attempt, to
\* the connection, or to a connection that connectDestroyed is queued for; the
\* others have been closed, save those newConnection returns early on.
FdsAccounted ==
    LET attempt == IF state = "kConnecting" THEN 1 ELSE 0
        Destroying(fs) == {i \in 1 .. Len(fs) : fs[i].op = "connectDestroyed"}
    IN  /\ TypeOK
        /\ retryTimers.set + retryTimers.due + attempt + Cardinality(up) <= 1
        /\ fds = attempt + Cardinality(up) + lost + Cardinality(Destroying(pending))
                 + Cardinality(Destroying(running))

\* A client that is after a connection gets one, however many attempts fail, and
\* one with retry enabled is after the next one as soon as a connection closes
\* (Redials); unless connect(2) fails for good, newConnection returns early, or a
\* retry timer overtakes resetChannel (NoFault).
Pursuing == state = "kConnecting" \/ retryTimers.set + retryTimers.due > 0
Redials == up # {} /\ up' = {} /\ alive /\ retry_ /\ connect_ => Pursuing' \/ gaveUp'
Reconnects ==
    /\ (connect_ /\ Pursuing)
           ~> (up # {} \/ ~alive \/ ~connect_ \/ gaveUp \/ lost > 0 \/ nextConnId > MaxConns
               \/ fault # "none")
    /\ [][Redials]_vars

\* After stop() there is soon no attempt, no channel and no retry timer any more,
\* and there never is one again, also when an attempt, a retry timer or a close of
\* the connection was under way.
StopsForGood ==
    stopped ~> ([](state # "kConnecting" /\ channel = "none"
                   /\ retryTimers = [set |-> 0, due |-> 0])
                \/ ~stopped \/ fault # "none")
=============================================================================
