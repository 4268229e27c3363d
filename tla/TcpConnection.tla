--------------------------- MODULE TcpConnection ---------------------------
(***************************************************************************)
(* One TcpConnection of a TcpServer: its state machine (net/TcpConnection),*)
(* its Channel and the poller's record of it (net/Channel, net/poller/     *)
(* EPollPoller), the event loop that owns it (net/EventLoop: poll, event   *)
(* dispatch, doPendingFunctors) and the server that creates and removes it *)
(* (net/TcpServer).  The kernel socket and the peer are external.          *)
(*                                                                         *)
(* Everything on the loop thread runs without interference from itself;    *)
(* threads in Threads call send, shutdown and forceClose from outside, and *)
(* their check of state_ and what they do next are separate steps.         *)
(***************************************************************************)
EXTENDS Integers, Sequences, FiniteSets

CONSTANTS
    Threads,          \* threads other than the loop that hold the connection
    Callbacks,        \* user callbacks that setWriteCompleteCallback can install
    NoCallback,       \* the empty std::function
    SelfCapturing,    \* the callbacks that capture the connection itself
    OneLoop,          \* setThreadNum(0): the acceptor's loop is the io loop
    ServerMayDie,     \* ~TcpServer may run while the connection exists
    SendKinds,        \* "owned" (send(Buffer* )) or "view" (the StringPiece forms)
    SendBuf,          \* capacity of the kernel's send buffer, in bytes
    MaxBytes,         \* bound: bytes each caller sends
    MaxInput,         \* bound: messages the peer sends
    MaxPending,       \* bound: functors queued when a caller queues another
    MaxCallbacks      \* bound: connectionCallback_ calls when a thread calls

ASSUME ConnAssumption ==
    /\ NoCallback \notin Callbacks
    /\ SelfCapturing \subseteq Callbacks
    /\ OneLoop \in BOOLEAN /\ ServerMayDie \in BOOLEAN
    /\ SendKinds \subseteq {"owned", "view"}
    /\ SendBuf \in Nat \ {0}
    /\ MaxBytes \in Nat /\ MaxInput \in Nat
    /\ MaxPending \in Nat /\ MaxCallbacks \in Nat
    /\ "loop" \notin Threads
    /\ {"none", "up", "message"} \cap (Callbacks \cup {NoCallback}) = {}

VARIABLES
    state,        \* state_; "none" before newConnection
    events,       \* Channel::events_
    index,        \* Channel::index_: kNew, kAdded or kDeleted
    out,          \* outputBuffer_
    wcc,          \* writeCompleteCallback_
    inMap,        \* the connection is in TcpServer::connections_
    server,       \* the TcpServer is alive
    phase,        \* where the loop thread is
    ret,          \* where it resumes after a user callback
    cur,          \* the user callback it is in
    flush,        \* sendInLoop has appended and is about to call handleWrite
    revents,      \* events of this iteration that are still to be handled
    pending,      \* EventLoop::pendingFunctors_
    batch,        \* functors swapped out and not yet run
    pinned,       \* the swapped vector holds a shared_ptr to the connection
    basePending,  \* removeConnectionInLoop functors queued in the base loop
    holders,      \* threads that hold a shared_ptr
    pc,           \* where each thread is in its call
    nextByte,     \* number of bytes each caller has handed over
    wire,         \* bytes the kernel has accepted
    unread,       \* of these, the ones the peer has not taken yet
    inq,          \* messages of the peer waiting to be read
    peer,         \* "open", "eof" (peer has closed) or "reset"
    sockErr,      \* SO_ERROR is pending
    wrShut,       \* shutdown(SHUT_WR) has been called
    sent,         \* history: the bytes passed to sendInLoop, in order
    cbs,          \* history: the calls of connectionCallback_
    abort         \* the assertion that has failed, or "no"

connVars == <<state, events, index, out, wcc>>
srvVars  == <<inMap, server, basePending>>
loopVars == <<phase, ret, cur, flush, revents, pending, batch, pinned>>
thrVars  == <<holders, pc, nextByte>>
sockVars == <<wire, unread, inq, peer, sockErr, wrShut>>
histVars == <<sent, cbs>>
vars == <<connVars, srvVars, loopVars, thrVars, sockVars, histVars, abort>>

Callers == Threads \cup {"loop"}
Bytes == Callers \X (1 .. MaxBytes)
Garbage == <<"garbage", 0>>
Octets == Bytes \cup {Garbage}
FunctorNames == {"connectEstablished", "sendInLoop", "shutdownInLoop",
                 "forceCloseInLoop", "handleWrite", "writeComplete",
                 "connectDestroyed"}
\* A functor bound to shared_from_this() keeps the connection alive; the two
\* that send and shutdown queue are bound to the raw "this".
SharedFunctors == FunctorNames \ {"sendInLoop", "shutdownInLoop"}
Functor == [f : FunctorNames, cb : Callbacks \cup {NoCallback},
            data : Seq(Octets)]
Fn(name) == [f |-> name, cb |-> NoCallback, data |-> <<>>]
WriteComplete(c) == [f |-> "writeComplete", cb |-> c, data |-> <<>>]
Sending(d) == [f |-> "sendInLoop", cb |-> NoCallback, data |-> d]

Holds(q) == \E i \in 1 .. Len(q) : q[i].f \in SharedFunctors

\* The reference count is positive.
Alive ==
    \/ inMap \/ pinned \/ holders # {} \/ basePending > 0
    \/ Holds(pending) \/ Holds(batch)
    \/ wcc \in SelfCapturing

Room == SendBuf - unread
Broken == peer = "reset" \/ wrShut
Readable == inq > 0 \/ peer # "open"

\* The n bytes a write to the socket may take of the bytes d: some of them
\* when there is room, none (EAGAIN) when there is not.
Written(d) == IF Room = 0 THEN {0}
              ELSE {n \in 1 .. Room : n <= Len(d)}

----------------------------------------------------------------------------
(* The pieces of the handlers.                                             *)

\* Channel::update with the new interest set: EPollPoller::updateChannel adds
\* a new or deleted channel and takes one without interest out of epoll.
Update(es) ==
    /\ events' = es
    /\ index' = IF index = "kAdded" /\ es = {} THEN "kDeleted" ELSE "kAdded"

Queue(fn) == pending' = Append(pending, fn)

\* Mutant: the callback is never queued.
MutNoWriteComplete == UNCHANGED pending

\* queueInLoop(writeCompleteCallback_), bound by value, if one is set.
QueueWriteComplete ==
    IF wcc = NoCallback THEN UNCHANGED pending
    ELSE Queue(WriteComplete(wcc))

Crash(what) ==
    /\ abort' = what
    /\ UNCHANGED <<connVars, srvVars, pending, wire, unread, inq, peer, wrShut,
                   histVars>>

\* Mutants: the connection is erased from the map and connectDestroyed is
\* never queued; it stays in the map.
MutEraseOnly ==
    /\ inMap' = FALSE
    /\ UNCHANGED <<pending, basePending, abort>>
MutKeepInMap ==
    /\ Queue(Fn("connectDestroyed"))
    /\ UNCHANGED <<inMap, basePending, abort>>

\* closeCallback_ = TcpServer::removeConnection: in the loop thread when there
\* is one loop, as a functor of the base loop otherwise.  The server must
\* still exist.
CloseCallback ==
    IF OneLoop
    THEN /\ inMap' = FALSE
         /\ Queue(Fn("connectDestroyed"))
         /\ UNCHANGED <<basePending, abort>>
    ELSE /\ basePending' = basePending + 1
         /\ abort' = IF server THEN "no" ELSE "TcpServer destroyed"
         /\ UNCHANGED <<inMap, pending>>

\* Mutants: handleClose without disableAll; without closeCallback_.
MutKeepInterest ==
    /\ state' = "kDisconnected"
    /\ cbs' = Append(cbs, "down")
    /\ CloseCallback
    /\ UNCHANGED <<events, index, out, wcc, server, wire, unread, inq, peer,
                   wrShut, sent>>
MutNoCloseCallback ==
    /\ state' = "kDisconnected"
    /\ Update({})
    /\ cbs' = Append(cbs, "down")
    /\ UNCHANGED <<out, wcc, srvVars, pending, wire, unread, inq, peer, wrShut,
                   sent, abort>>

HandleClose ==
    \/ /\ state \notin {"kConnected", "kDisconnecting"}
       /\ Crash("handleClose: state_")
    \/ /\ state \in {"kConnected", "kDisconnecting"}
       /\ state' = "kDisconnected"
       /\ Update({})
       /\ cbs' = Append(cbs, "down")
       /\ CloseCallback
       /\ UNCHANGED <<out, wcc, server, wire, unread, inq, peer, wrShut, sent>>

\* Mutant: shutdownWrite without testing isWriting.
MutShutdownNow ==
    /\ wrShut' = TRUE
    /\ UNCHANGED <<wire, unread, inq, peer, sockErr>>

ShutdownInLoop ==
    /\ wrShut' = (wrShut \/ "write" \notin events)
    /\ UNCHANGED <<wire, unread, inq, peer, sockErr>>

\* Mutants: retrieveAll in place of retrieve(n); no disableWriting when the
\* buffer is empty; no shutdownInLoop then.
MutRetrieveAll(n) ==
    /\ wire' = wire \o SubSeq(out, 1, n)
    /\ unread' = unread + n
    /\ out' = <<>>
    /\ Update(events \ {"write"})
    /\ QueueWriteComplete
    /\ UNCHANGED wrShut
MutKeepWriting(n) ==
    /\ wire' = wire \o SubSeq(out, 1, n)
    /\ unread' = unread + n
    /\ out' = SubSeq(out, n + 1, Len(out))
    /\ UNCHANGED <<events, index, pending, wrShut>>
MutForgetShutdown(n) ==
    /\ wire' = wire \o SubSeq(out, 1, n)
    /\ unread' = unread + n
    /\ out' = SubSeq(out, n + 1, Len(out))
    /\ IF n = Len(out) THEN Update(events \ {"write"}) /\ QueueWriteComplete
                       ELSE UNCHANGED <<events, index, pending>>
    /\ UNCHANGED wrShut

\* handleWrite after write() has taken n bytes of the output buffer.
Drained(n) ==
    /\ wire' = wire \o SubSeq(out, 1, n)
    /\ unread' = unread + n
    /\ out' = SubSeq(out, n + 1, Len(out))
    /\ IF n = Len(out)
       THEN /\ Update(events \ {"write"})
            /\ QueueWriteComplete
            /\ wrShut' = (wrShut \/ state = "kDisconnecting")
       ELSE /\ Queue(Fn("handleWrite"))
            /\ UNCHANGED <<events, index, wrShut>>

HandleWrite ==
    \/ /\ "write" \notin events \/ (~Broken /\ Room = 0)
       /\ UNCHANGED <<connVars, srvVars, pending, sockVars, histVars, abort>>
    \/ /\ "write" \in events /\ Broken
       /\ sockErr' = FALSE
       /\ HandleClose
    \/ /\ "write" \in events /\ ~Broken /\ Room > 0
       /\ \E n \in Written(out) : Drained(n)
       /\ UNCHANGED <<state, wcc, srvVars, inq, peer, sockErr, histVars, abort>>

\* sendInLoop up to its final call of handleWrite, which is the step Flush.
SendInLoop(d) ==
    \/ /\ state = "kDisconnected"
       /\ UNCHANGED <<connVars, pending, flush, sockVars, sent>>
    \/ /\ state # "kDisconnected"
       /\ "write" \notin events /\ out = <<>> /\ Broken
       /\ sockErr' = FALSE
       /\ sent' = sent \o d
       /\ UNCHANGED <<connVars, pending, flush, wire, unread, inq, peer, wrShut>>
    \/ /\ state # "kDisconnected"
       /\ "write" \notin events /\ out = <<>> /\ ~Broken
       /\ \E n \in Written(d) :
            /\ wire' = wire \o SubSeq(d, 1, n)
            /\ unread' = unread + n
            /\ IF n = Len(d)
               THEN QueueWriteComplete /\ UNCHANGED <<events, index, out, flush>>
               ELSE /\ out' = SubSeq(d, n + 1, Len(d))
                    /\ Update(events \cup {"write"})
                    /\ flush' = TRUE
                    /\ UNCHANGED pending
       /\ sent' = sent \o d
       /\ UNCHANGED <<state, wcc, inq, peer, sockErr, wrShut>>
    \/ /\ state # "kDisconnected"
       /\ "write" \in events \/ out # <<>>
       /\ out' = out \o d
       /\ IF "write" \in events THEN UNCHANGED <<events, index>>
                                ELSE Update(events \cup {"write"})
       /\ flush' = TRUE
       /\ sent' = sent \o d
       /\ UNCHANGED <<state, wcc, pending, sockVars>>

----------------------------------------------------------------------------
(* The loop thread: EventLoop::loop.                                       *)

\* The events epoll reports for the channel.  POLLHUP counts only without
\* POLLIN (Channel::handleEventWithGuard).
Ready ==
    LET in == "read" \in events /\ Readable
        hup == peer = "reset" \/ (peer = "eof" /\ wrShut)
    IN  IF index # "kAdded" THEN {}
        ELSE {e \in {"IN", "OUT", "ERR", "HUP"} :
                \/ e = "IN" /\ in
                \/ e = "OUT" /\ "write" \in events /\ (Room > 0 \/ Broken)
                \/ e = "ERR" /\ peer = "reset" /\ sockErr
                \/ e = "HUP" /\ hup /\ ~in}

Poll ==
    /\ phase = "poll"
    /\ revents' = Ready
    /\ phase' = "events"
    /\ UNCHANGED <<connVars, srvVars, ret, cur, flush, pending, batch, pinned,
                   thrVars, sockVars, histVars, abort>>

EventClose ==
    /\ phase = "events" /\ "HUP" \in revents
    /\ revents' = revents \ {"HUP"}
    /\ HandleClose
    /\ UNCHANGED <<phase, ret, cur, flush, batch, pinned, thrVars, sockErr>>

\* handleError reads SO_ERROR, which clears it.
EventError ==
    /\ phase = "events" /\ "HUP" \notin revents /\ "ERR" \in revents
    /\ revents' = revents \ {"ERR"}
    /\ sockErr' = FALSE
    /\ UNCHANGED <<connVars, srvVars, phase, ret, cur, flush, pending, batch,
                   pinned, thrVars, wire, unread, inq, peer, wrShut, histVars,
                   abort>>

\* handleRead: data goes to messageCallback_, end of file to handleClose, an
\* error to handleError.
EventRead ==
    /\ phase = "events" /\ revents \cap {"HUP", "ERR"} = {} /\ "IN" \in revents
    /\ revents' = revents \ {"IN"}
    /\ \/ /\ inq > 0
          /\ inq' = 0
          /\ phase' = "user" /\ ret' = "events" /\ cur' = "message"
          /\ UNCHANGED <<connVars, srvVars, pending, wire, unread, peer,
                         sockErr, wrShut, histVars, abort>>
       \/ /\ inq = 0 /\ ~(peer = "reset" /\ sockErr)
          /\ HandleClose
          /\ UNCHANGED <<phase, ret, cur, sockErr>>
       \/ /\ inq = 0 /\ peer = "reset" /\ sockErr
          /\ sockErr' = FALSE
          /\ UNCHANGED <<connVars, srvVars, phase, ret, cur, pending, wire,
                         unread, inq, peer, wrShut, histVars, abort>>
    /\ UNCHANGED <<flush, batch, pinned, thrVars>>

EventWrite ==
    /\ phase = "events" /\ revents = {"OUT"}
    /\ revents' = {}
    /\ HandleWrite
    /\ UNCHANGED <<phase, ret, cur, flush, batch, pinned, thrVars>>

\* doPendingFunctors swaps the queued functors out.
Swap ==
    /\ phase = "events" /\ revents = {}
    /\ phase' = "functors"
    /\ batch' = pending /\ pending' = <<>>
    /\ pinned' = Holds(pending)
    /\ UNCHANGED <<connVars, srvVars, ret, cur, flush, revents, thrVars,
                   sockVars, histVars, abort>>

\* The vector of functors is destroyed after the last one has run.
BatchDone ==
    /\ phase = "functors" /\ batch = <<>> /\ ~flush
    /\ phase' = "poll"
    /\ pinned' = FALSE
    /\ UNCHANGED <<connVars, srvVars, ret, cur, flush, revents, pending, batch,
                   thrVars, sockVars, histVars, abort>>

\* The call of handleWrite that ends sendInLoop.
Flush ==
    /\ flush
    /\ flush' = FALSE
    /\ HandleWrite
    /\ UNCHANGED <<phase, ret, cur, revents, batch, pinned, thrVars>>

Running(name) ==
    /\ phase = "functors" /\ ~flush
    /\ batch # <<>> /\ Head(batch).f = name
    /\ batch' = Tail(batch)
    /\ UNCHANGED <<revents, pinned>>

RunConnectEstablished ==
    /\ Running("connectEstablished")
    /\ IF state = "kConnecting"
       THEN /\ state' = "kConnected"
            /\ Update(events \cup {"read"})
            /\ cbs' = Append(cbs, "up")
            /\ holders' = Threads
            /\ phase' = "user" /\ ret' = "functors" /\ cur' = "up"
            /\ UNCHANGED abort
       ELSE /\ abort' = "connectEstablished: state_"
            /\ UNCHANGED <<state, events, index, cbs, holders, phase, ret, cur>>
    /\ UNCHANGED <<out, wcc, srvVars, flush, pending, pc, nextByte, sockVars,
                   sent>>

\* A functor bound to the raw pointer needs the object to exist still.
RunSendInLoop ==
    /\ Running("sendInLoop")
    /\ IF Alive
       THEN SendInLoop(Head(batch).data) /\ UNCHANGED abort
       ELSE /\ abort' = "sendInLoop on a destroyed TcpConnection"
            /\ UNCHANGED <<connVars, pending, flush, sockVars, sent>>
    /\ UNCHANGED <<srvVars, phase, ret, cur, thrVars, cbs>>

RunShutdownInLoop ==
    /\ Running("shutdownInLoop")
    /\ IF Alive
       THEN ShutdownInLoop /\ UNCHANGED abort
       ELSE /\ abort' = "shutdownInLoop on a destroyed TcpConnection"
            /\ UNCHANGED sockVars
    /\ UNCHANGED <<connVars, srvVars, phase, ret, cur, flush, pending, thrVars,
                   histVars>>

RunForceCloseInLoop ==
    /\ Running("forceCloseInLoop")
    /\ IF state \in {"kConnected", "kDisconnecting"}
       THEN HandleClose /\ UNCHANGED sockErr
       ELSE UNCHANGED <<connVars, srvVars, pending, sockVars, histVars, abort>>
    /\ UNCHANGED <<phase, ret, cur, flush, thrVars>>

RunHandleWrite ==
    /\ Running("handleWrite")
    /\ HandleWrite
    /\ UNCHANGED <<phase, ret, cur, flush, thrVars>>

RunWriteComplete ==
    /\ Running("writeComplete")
    /\ phase' = "user" /\ ret' = "functors" /\ cur' = Head(batch).cb
    /\ UNCHANGED <<connVars, srvVars, flush, pending, thrVars, sockVars,
                   histVars, abort>>

\* Mutant: connectDestroyed reports the connection down again.
MutReportTwice ==
    /\ Running("connectDestroyed")
    /\ state' = "kDisconnected" /\ events' = {} /\ index' = "kNew"
    /\ cbs' = Append(cbs, "down")
    /\ UNCHANGED <<out, wcc, srvVars, phase, ret, cur, flush, pending, thrVars,
                   sockVars, sent, abort>>

\* connectDestroyed disables the channel only in state kConnected; the channel
\* must then have no interest left (Channel::remove) and be known to the poller
\* (EPollPoller::removeChannel).
RunConnectDestroyed ==
    /\ Running("connectDestroyed")
    /\ LET up == state = "kConnected"
       IN  IF (events # {} /\ ~up) \/ index = "kNew"
           THEN /\ abort' = IF index = "kNew" THEN "removeChannel: channels_"
                                              ELSE "Channel::remove: isNoneEvent"
                /\ UNCHANGED <<state, events, index, cbs>>
           ELSE /\ state' = IF up THEN "kDisconnected" ELSE state
                /\ cbs' = IF up THEN Append(cbs, "down") ELSE cbs
                /\ events' = {}
                /\ index' = "kNew"
                /\ UNCHANGED abort
    /\ UNCHANGED <<out, wcc, srvVars, phase, ret, cur, flush, pending, thrVars,
                   sockVars, sent>>

----------------------------------------------------------------------------
(* User callbacks on the loop thread: any sequence of calls.               *)

InUser == phase = "user" /\ ~flush

\* The next k bytes of caller c.
Data(c, k) == [i \in 1 .. k |-> <<c, nextByte[c] + i>>]
CanSend(c, k) == nextByte[c] + k <= MaxBytes

LoopSend(k) ==
    /\ InUser /\ state = "kConnected" /\ CanSend("loop", k)
    /\ SendInLoop(Data("loop", k))
    /\ nextByte' = [nextByte EXCEPT !["loop"] = @ + k]
    /\ UNCHANGED <<srvVars, phase, ret, cur, revents, batch, pinned, holders,
                   pc, cbs, abort>>

LoopShutdown ==
    /\ InUser /\ state = "kConnected"
    /\ state' = "kDisconnecting"
    /\ ShutdownInLoop
    /\ UNCHANGED <<events, index, out, wcc, srvVars, loopVars, thrVars,
                   histVars, abort>>

LoopForceClose ==
    /\ InUser /\ state \in {"kConnected", "kDisconnecting"}
    /\ Len(pending) < MaxPending
    /\ state' = "kDisconnecting"
    /\ Queue(Fn("forceCloseInLoop"))
    /\ UNCHANGED <<events, index, out, wcc, srvVars, phase, ret, cur, flush,
                   revents, batch, pinned, thrVars, sockVars, histVars, abort>>

SetWriteCompleteCallback(c) ==
    /\ InUser
    /\ wcc' = c
    /\ UNCHANGED <<state, events, index, out, srvVars, loopVars, thrVars,
                   sockVars, histVars, abort>>

CallbackReturns ==
    /\ InUser
    /\ phase' = ret
    /\ cur' = "none"
    /\ UNCHANGED <<connVars, srvVars, ret, flush, revents, pending, batch,
                   pinned, thrVars, sockVars, histVars, abort>>

----------------------------------------------------------------------------
(* Other threads.  Each call tests state_ first and acts on the result in  *)
(* later steps.                                                            *)

Begin(t, op, from) ==
    /\ t \in holders /\ pc[t] = "idle" /\ state \in from
    /\ Len(cbs) <= MaxCallbacks
    /\ pc' = [pc EXCEPT ![t] = op]
    /\ UNCHANGED <<connVars, srvVars, loopVars, holders, nextByte, sockVars,
                   histVars, abort>>

SendCheck(t) == CanSend(t, 1) /\ Begin(t, "send", {"kConnected"})
ShutdownCheck(t) == Begin(t, "shutdown", {"kConnected"})
ForceCloseCheck(t) == Begin(t, "forceClose", {"kConnected", "kDisconnecting"})

\* runInLoop(sendInLoop): send(Buffer* ) moves the bytes into the functor, the
\* other two bind a StringPiece, so a caller whose memory is gone when the
\* functor runs sends whatever is there then.
SendQueue(t, k, kind) ==
    /\ pc[t] = "send" /\ CanSend(t, k) /\ Len(pending) < MaxPending
    /\ \E d \in {Data(t, k)} \cup
                (IF kind = "view" THEN {[i \in 1 .. k |-> Garbage]} ELSE {}) :
          Queue(Sending(d))
    /\ nextByte' = [nextByte EXCEPT ![t] = @ + k]
    /\ pc' = [pc EXCEPT ![t] = "idle"]
    /\ UNCHANGED <<connVars, srvVars, phase, ret, cur, flush, revents, batch,
                   pinned, holders, sockVars, histVars, abort>>

SetDisconnecting(t) ==
    /\ pc[t] \in {"shutdown", "forceClose"}
    /\ state' = "kDisconnecting"
    /\ pc' = [pc EXCEPT ![t] = IF @ = "shutdown" THEN "shutdownInLoop"
                               ELSE "forceCloseInLoop"]
    /\ UNCHANGED <<events, index, out, wcc, srvVars, loopVars, holders,
                   nextByte, sockVars, histVars, abort>>

QueueClose(t) ==
    /\ pc[t] \in {"shutdownInLoop", "forceCloseInLoop"}
    /\ Len(pending) < MaxPending
    /\ Queue(Fn(pc[t]))
    /\ pc' = [pc EXCEPT ![t] = "idle"]
    /\ UNCHANGED <<connVars, srvVars, phase, ret, cur, flush, revents, batch,
                   pinned, holders, nextByte, sockVars, histVars, abort>>

\* The thread lets go of its shared_ptr.
Release(t) ==
    /\ t \in holders /\ pc[t] = "idle"
    /\ holders' = holders \ {t}
    /\ UNCHANGED <<connVars, srvVars, loopVars, pc, nextByte, sockVars,
                   histVars, abort>>

----------------------------------------------------------------------------
(* The server's base loop.                                                 *)

\* TcpServer::newConnection.
NewConnection ==
    /\ state = "none" /\ server
    /\ inMap' = TRUE
    /\ IF OneLoop
       THEN /\ phase = "poll"
            /\ state' = "kConnected"
            /\ Update({"read"})
            /\ cbs' = Append(cbs, "up")
            /\ holders' = Threads
            /\ phase' = "user" /\ ret' = "events" /\ cur' = "up"
            /\ UNCHANGED pending
       ELSE /\ state' = "kConnecting"
            /\ Queue(Fn("connectEstablished"))
            /\ UNCHANGED <<events, index, cbs, holders, phase, ret, cur>>
    /\ UNCHANGED <<out, wcc, server, basePending, flush, revents, batch,
                   pinned, pc, nextByte, sockVars, sent, abort>>

\* TcpServer::removeConnectionInLoop, as a functor of the base loop; it is bound
\* to the raw "this" of the server.
RemoveConnectionInLoop ==
    /\ basePending > 0
    /\ basePending' = basePending - 1
    /\ abort' = IF server THEN "no" ELSE "TcpServer destroyed"
    /\ inMap' = FALSE
    /\ Queue(Fn("connectDestroyed"))
    /\ UNCHANGED <<connVars, server, phase, ret, cur, flush, revents, batch,
                   pinned, thrVars, sockVars, histVars>>

\* TcpServer::~TcpServer, from the base loop of a server with io threads.
DestroyServer ==
    /\ ServerMayDie /\ ~OneLoop /\ server
    /\ server' = FALSE
    /\ inMap' = FALSE
    /\ IF inMap THEN Queue(Fn("connectDestroyed")) ELSE UNCHANGED pending
    /\ UNCHANGED <<connVars, basePending, phase, ret, cur, flush, revents,
                   batch, pinned, thrVars, sockVars, histVars, abort>>

----------------------------------------------------------------------------
(* The kernel and the peer.                                                *)

Established == state # "none"

PeerReads ==
    /\ Established /\ unread > 0 /\ peer # "reset"
    /\ unread' = unread - 1
    /\ UNCHANGED <<connVars, srvVars, loopVars, thrVars, wire, inq, peer,
                   sockErr, wrShut, histVars, abort>>

\* The bound MaxInput counts the messages waiting, which one read takes.
PeerSends ==
    /\ Established /\ peer = "open" /\ inq < MaxInput
    /\ inq' = inq + 1
    /\ UNCHANGED <<connVars, srvVars, loopVars, thrVars, wire, unread, peer,
                   sockErr, wrShut, histVars, abort>>

PeerCloses ==
    /\ Established /\ peer = "open"
    /\ peer' = "eof"
    /\ UNCHANGED <<connVars, srvVars, loopVars, thrVars, wire, unread, inq,
                   sockErr, wrShut, histVars, abort>>

PeerResets ==
    /\ Established /\ peer # "reset"
    /\ peer' = "reset"
    /\ sockErr' = TRUE
    /\ UNCHANGED <<connVars, srvVars, loopVars, thrVars, wire, unread, inq,
                   wrShut, histVars, abort>>

----------------------------------------------------------------------------
Init ==
    /\ state = "none" /\ events = {} /\ index = "kNew" /\ out = <<>>
    /\ wcc = NoCallback
    /\ inMap = FALSE /\ server = TRUE /\ basePending = 0
    /\ phase = "poll" /\ ret = "events" /\ cur = "none" /\ flush = FALSE
    /\ revents = {} /\ pending = <<>> /\ batch = <<>> /\ pinned = FALSE
    /\ holders = {}
    /\ pc = [t \in Threads |-> "idle"]
    /\ nextByte = [c \in Callers |-> 0]
    /\ wire = <<>> /\ unread = 0 /\ inq = 0 /\ peer = "open"
    /\ sockErr = FALSE /\ wrShut = FALSE
    /\ sent = <<>> /\ cbs = <<>>
    /\ abort = "no"

\* What the loop thread does by itself.
LoopStep ==
    \/ Poll \/ EventClose \/ EventError \/ EventRead \/ EventWrite
    \/ Swap \/ BatchDone \/ Flush
    \/ RunConnectEstablished \/ RunSendInLoop \/ RunShutdownInLoop
    \/ RunForceCloseInLoop \/ RunHandleWrite \/ RunWriteComplete
    \/ RunConnectDestroyed

UserStep ==
    \/ \E k \in 1 .. MaxBytes : LoopSend(k)
    \/ LoopShutdown \/ LoopForceClose
    \/ \E c \in Callbacks : SetWriteCompleteCallback(c)
    \/ CallbackReturns

ThreadStep(t) ==
    \/ SendCheck(t) \/ ShutdownCheck(t) \/ ForceCloseCheck(t)
    \/ \E k \in 1 .. MaxBytes, kind \in SendKinds : SendQueue(t, k, kind)
    \/ SetDisconnecting(t) \/ QueueClose(t)
    \/ Release(t)

BaseStep == NewConnection \/ RemoveConnectionInLoop \/ DestroyServer

PeerStep == PeerReads \/ PeerSends \/ PeerCloses \/ PeerResets

Next ==
    /\ abort = "no"
    /\ \/ LoopStep
       \/ UserStep
       \/ \E t \in Threads : ThreadStep(t)
       \/ BaseStep
       \/ PeerStep

Spec == Init /\ [][Next]_vars

\* The loop and the base loop keep running, a user callback returns, and a
\* peer that has not reset the connection keeps reading.
FairSpec ==
    /\ Spec
    /\ WF_vars(abort = "no" /\ LoopStep)
    /\ WF_vars(abort = "no" /\ CallbackReturns)
    /\ WF_vars(abort = "no" /\ RemoveConnectionInLoop)
    /\ WF_vars(abort = "no" /\ PeerReads)

----------------------------------------------------------------------------
(* Properties.                                                             *)

ConnTypeOK ==
    /\ state \in {"none", "kConnecting", "kConnected", "kDisconnecting",
                  "kDisconnected"}
    /\ events \subseteq {"read", "write"}
    /\ index \in {"kNew", "kAdded", "kDeleted"}
    /\ out \in Seq(Octets)
    /\ wcc \in Callbacks \cup {NoCallback}
    /\ inMap \in BOOLEAN /\ server \in BOOLEAN /\ basePending \in Nat
    /\ pending \in Seq(Functor)
    /\ wire \in Seq(Octets)
    /\ unread \in 0 .. SendBuf
    /\ inq \in Nat /\ peer \in {"open", "eof", "reset"}
    /\ wrShut \in BOOLEAN
    /\ sent \in Seq(Octets)
    /\ cbs \in Seq({"up", "down"})

LoopTypeOK ==
    /\ phase \in {"poll", "events", "user", "functors"}
    /\ ret \in {"events", "functors"}
    /\ flush \in BOOLEAN
    /\ revents \subseteq {"IN", "OUT", "ERR", "HUP"}
    /\ batch \in Seq(Functor)
    /\ pinned \in BOOLEAN
    /\ holders \subseteq Threads
    /\ pc \in [Threads -> {"idle", "send", "shutdown", "forceClose",
                           "shutdownInLoop", "forceCloseInLoop"}]
    /\ nextByte \in [Callers -> 0 .. MaxBytes]
    /\ sockErr \in BOOLEAN

\* Type correctness of the connection and the socket, of the loop and the
\* threads.
TypeOK == ConnTypeOK /\ LoopTypeOK

\* What the kernel has accepted is a prefix of what sendInLoop was given, in
\* the same order; and as long as the socket can be written to, the output
\* buffer holds exactly the rest: sendInLoop's direct write, its append and
\* handleWrite's retrieve lose, repeat and reorder nothing.
DeliveredInOrder ==
    /\ Len(wire) <= Len(sent) /\ wire = SubSeq(sent, 1, Len(wire))
    /\ Broken \/ sent = wire \o out

\* While the channel is enabled, it waits for POLLOUT exactly when the output
\* buffer holds data: no data waits without interest, and no interest spins
\* with nothing to write.
WriteInterest ==
    /\ "read" \in events => ("write" \in events <=> out # <<>>)
    /\ "write" \in events => out # <<>>

\* shutdown(SHUT_WR) is called only when the output buffer has been drained,
\* unless the connection has been closed meanwhile.
Down == \E i \in 1 .. Len(cbs) : cbs[i] = "down"
FinAfterData == wrShut => out = <<>> \/ Down

\* No assertion of connectEstablished, handleClose, Channel::remove or
\* EPollPoller::removeChannel fails, no functor runs on a destroyed connection
\* and no close callback on a destroyed server.
NoAbort == abort = "no"

\* connectionCallback_ reports the connection up once and down once, in that
\* order, and down exactly when the state becomes kDisconnected; messageCallback_
\* is called only in between.
CallbackProtocol ==
    /\ [](/\ cbs \in {<<>>, <<"up">>, <<"up", "down">>}
          /\ state = "kDisconnected" <=> cbs = <<"up", "down">>)
    /\ [][cur # "message" /\ cur' = "message" => cbs = <<"up">>]_vars

\* The last reference to the connection goes only after the user has been told
\* that it is down and the poller has forgotten its channel (what ~Channel
\* asserts).
DestroyedLast ==
    state # "none" /\ ~Alive => index = "kNew" /\ cbs = <<"up", "down">>

\* A connection that shutdown has been asked for sends its FIN or is closed.
ShutdownFinishes ==
    state = "kDisconnecting" ~> (wrShut \/ state = "kDisconnected")

\* A connection whose peer has closed or reset it is taken out of the poller
\* and out of the server's map.
PeerCloseFinishes == peer # "open" ~> (index = "kNew" /\ ~inMap)
============================================================================
