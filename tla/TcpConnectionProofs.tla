------------------------ MODULE TcpConnectionProofs ------------------------
(***************************************************************************)
(* Proofs about TcpConnection for any number of calling threads, any sizes *)
(* and any callbacks.                                                      *)
(***************************************************************************)
EXTENDS TcpConnection, TLAPS

----------------------------------------------------------------------------
(* What the helpers return.                                                *)

LEMMA NoElements == ASSUME NEW S PROVE <<>> \in Seq(S)
OBVIOUS

LEMMA JoinType == ASSUME NEW S, NEW a \in Seq(S), NEW b \in Seq(S) PROVE a \o b \in Seq(S)
OBVIOUS

LEMMA FnType == \A n \in FunctorNames : Fn(n) \in Functor
BY DEF Fn, Functor

\* The functor that carries a write-complete callback.
LEMMA WriteCompleteType ==
    ASSUME NEW c \in Callbacks \cup {NoCallback}
    PROVE  WriteComplete(c) \in Functor
BY DEF WriteComplete, Functor, FunctorNames

\* The functor that carries the bytes of a send.
LEMMA SendFunctorType ==
    ASSUME NEW d \in Seq(Octets)
    PROVE  Sending(d) \in Functor
BY DEF Sending, Functor, FunctorNames

LEMMA DataType ==
    ASSUME TypeOK, ConnTypeOK, LoopTypeOK, NEW c \in Callers, NEW k \in Nat, CanSend(c, k)
    PROVE  Data(c, k) \in Seq(Octets)
<1>1. \A i \in 1 .. k : <<c, nextByte[c] + i>> \in Octets
  BY ConnAssumption DEF TypeOK, ConnTypeOK, LoopTypeOK, CanSend, Bytes, Octets
<1> QED BY <1>1 DEF Data

LEMMA QueueType ==
    ASSUME TypeOK, ConnTypeOK, LoopTypeOK, NEW fn \in Functor, Queue(fn)
    PROVE  pending' \in Seq(Functor)
BY DEF TypeOK, ConnTypeOK, LoopTypeOK, Queue

LEMMA QueueFnType ==
    ASSUME TypeOK, NEW n \in FunctorNames, Queue(Fn(n))
    PROVE  pending' \in Seq(Functor)
<1>1. Fn(n) \in Functor
  BY FnType
<1> QED BY <1>1 DEF Queue, TypeOK, ConnTypeOK

LEMMA QueueWriteCompleteType ==
    ASSUME TypeOK, QueueWriteComplete
    PROVE  pending' \in Seq(Functor)
BY WriteCompleteType, QueueType DEF TypeOK, ConnTypeOK, LoopTypeOK, QueueWriteComplete

\* A write takes a prefix of the bytes, and no more than there is room for.
LEMMA WrittenType ==
    ASSUME TypeOK, NEW d \in Seq(Octets), NEW n \in Written(d)
    PROVE  /\ n \in 0 .. Len(d)
           /\ unread + n \in 0 .. SendBuf
           /\ SubSeq(d, 1, n) \in Seq(Octets)
           /\ SubSeq(d, n + 1, Len(d)) \in Seq(Octets)
<1>1. n \in 0 .. Len(d) /\ unread + n \in 0 .. SendBuf
  BY ConnAssumption DEF TypeOK, ConnTypeOK, LoopTypeOK, Written, Room
<1>2. \A i \in 1 .. Len(d) : d[i] \in Octets
  OBVIOUS
<1> QED BY <1>1, <1>2

LEMMA HandleCloseType ==
    ASSUME TypeOK, HandleClose
    PROVE  /\ state' \in {"none", "kConnecting", "kConnected",
                          "kDisconnecting", "kDisconnected"}
           /\ events' \subseteq {"read", "write"}
           /\ index' \in {"kNew", "kAdded", "kDeleted"}
           /\ inMap' \in BOOLEAN /\ basePending' \in Nat
           /\ pending' \in Seq(Functor)
           /\ cbs' \in Seq({"up", "down"})
           /\ UNCHANGED <<out, wcc, server, wire, unread, inq, peer, wrShut, sent>>
<1>1. Append(pending, Fn("connectDestroyed")) \in Seq(Functor)
  BY FnType DEF FunctorNames, TypeOK, ConnTypeOK, LoopTypeOK
<1>2. Append(cbs, "down") \in Seq({"up", "down"})
  BY DEF TypeOK, ConnTypeOK, LoopTypeOK
<1>3. CASE state \notin {"kConnected", "kDisconnecting"}
  BY <1>3, Zenon DEF TypeOK, ConnTypeOK, LoopTypeOK, HandleClose, Crash, connVars, srvVars, histVars
<1>4. CASE state \in {"kConnected", "kDisconnecting"}
  <2>1. /\ state' = "kDisconnected" /\ Update({}) /\ CloseCallback
        /\ cbs' = Append(cbs, "down")
        /\ UNCHANGED <<out, wcc, server, wire, unread, inq, peer, wrShut, sent>>
    BY <1>4, Zenon DEF HandleClose
  <2>2. inMap' \in BOOLEAN /\ basePending' \in Nat /\ pending' \in Seq(Functor)
    <3>1. \/ inMap' = FALSE /\ pending' = Append(pending, Fn("connectDestroyed"))
             /\ basePending' = basePending
          \/ basePending' = basePending + 1 /\ inMap' = inMap /\ pending' = pending
      BY <2>1, Zenon DEF CloseCallback, Queue
    <3>2. basePending' \in Nat
      BY <3>1 DEF TypeOK, ConnTypeOK, LoopTypeOK
    <3>3. inMap' \in BOOLEAN
      BY <3>1, Zenon DEF TypeOK, ConnTypeOK, LoopTypeOK
    <3> QED BY <3>1, <3>2, <3>3, <1>1, Zenon DEF TypeOK, ConnTypeOK, LoopTypeOK
  <2> QED BY <2>1, <2>2, <1>2 DEF Update, TypeOK, ConnTypeOK, LoopTypeOK
<1> QED BY <1>3, <1>4

LEMMA DrainedType ==
    ASSUME TypeOK, NEW n \in Written(out), Drained(n)
    PROVE  /\ wire' \in Seq(Octets) /\ out' \in Seq(Octets)
           /\ unread' \in 0 .. SendBuf
           /\ events' \subseteq {"read", "write"}
           /\ index' \in {"kNew", "kAdded", "kDeleted"}
           /\ pending' \in Seq(Functor)
           /\ wrShut' \in BOOLEAN
<1>1. /\ n \in 0 .. Len(out) /\ unread + n \in 0 .. SendBuf
      /\ SubSeq(out, 1, n) \in Seq(Octets)
      /\ SubSeq(out, n + 1, Len(out)) \in Seq(Octets)
  BY WrittenType DEF TypeOK, ConnTypeOK, LoopTypeOK
<1>2. wire' \in Seq(Octets) /\ out' \in Seq(Octets) /\ unread' \in 0 .. SendBuf
  BY <1>1 DEF Drained, TypeOK, ConnTypeOK, LoopTypeOK
<1>3. CASE n = Len(out)
  <2>1. /\ Update(events \ {"write"}) /\ QueueWriteComplete
        /\ wrShut' = (wrShut \/ state = "kDisconnecting")
    BY <1>3 DEF Drained
  <2>2. wrShut' \in BOOLEAN
    BY <2>1, Zenon DEF TypeOK, ConnTypeOK, LoopTypeOK
  <2> QED BY <1>2, <2>1, <2>2, QueueWriteCompleteType DEF Update, TypeOK, ConnTypeOK, LoopTypeOK
<1>4. CASE n # Len(out)
  <2>1. Queue(Fn("handleWrite")) /\ UNCHANGED <<events, index, wrShut>>
    BY <1>4 DEF Drained
  <2>2. pending' \in Seq(Functor)
    BY <2>1, QueueFnType DEF FunctorNames
  <2> QED BY <1>2, <2>1, <2>2 DEF TypeOK, ConnTypeOK, LoopTypeOK
<1> QED BY <1>3, <1>4

LEMMA HandleCloseOK ==
    ASSUME TypeOK, HandleClose
    PROVE  ConnTypeOK'
BY HandleCloseType DEF TypeOK, ConnTypeOK, LoopTypeOK

LEMMA HandleWriteOK ==
    ASSUME TypeOK, HandleWrite
    PROVE  ConnTypeOK' /\ sockErr' \in BOOLEAN
<1>1. CASE UNCHANGED <<connVars, srvVars, pending, sockVars, histVars, abort>>
  BY <1>1 DEF TypeOK, ConnTypeOK, LoopTypeOK, connVars, srvVars, sockVars, histVars
<1>2. CASE sockErr' = FALSE /\ HandleClose
  BY <1>2, HandleCloseOK, Zenon
<1>3. CASE /\ \E n \in Written(out) : Drained(n)
           /\ UNCHANGED <<state, wcc, srvVars, inq, peer, sockErr, histVars, abort>>
  BY <1>3, DrainedType DEF TypeOK, ConnTypeOK, LoopTypeOK, srvVars, histVars
<1> QED BY <1>1, <1>2, <1>3, Zenon DEF HandleWrite

LEMMA UpdateType ==
    ASSUME events \subseteq {"read", "write"}, Update(events \cup {"write"})
    PROVE  events' \subseteq {"read", "write"} /\ index' \in {"kNew", "kAdded", "kDeleted"}
BY DEF Update

LEMMA SendInLoopOK ==
    ASSUME TypeOK, ConnTypeOK, LoopTypeOK, NEW d \in Seq(Octets), SendInLoop(d),
           UNCHANGED <<srvVars, cbs>>
    PROVE  ConnTypeOK' /\ flush' \in BOOLEAN /\ sockErr' \in BOOLEAN
<1>1. sent \o d \in Seq(Octets) /\ out \o d \in Seq(Octets)
  BY DEF TypeOK, ConnTypeOK, LoopTypeOK
<1>2. CASE UNCHANGED <<connVars, pending, flush, sockVars, sent>>
  BY <1>2 DEF TypeOK, ConnTypeOK, LoopTypeOK, connVars, srvVars, sockVars
<1>3. CASE /\ sockErr' = FALSE /\ sent' = sent \o d
           /\ UNCHANGED <<connVars, pending, flush, wire, unread, inq, peer, wrShut>>
  <2>1. sockErr' \in BOOLEAN
    BY <1>3, Zenon
  <2> QED BY <1>1, <1>3, <2>1 DEF TypeOK, ConnTypeOK, LoopTypeOK, connVars, srvVars
<1>4. CASE /\ \E n \in Written(d) :
                 /\ wire' = wire \o SubSeq(d, 1, n)
                 /\ unread' = unread + n
                 /\ IF n = Len(d)
                    THEN QueueWriteComplete /\ UNCHANGED <<events, index, out, flush>>
                    ELSE /\ out' = SubSeq(d, n + 1, Len(d))
                         /\ Update(events \cup {"write"})
                         /\ flush' = TRUE
                         /\ UNCHANGED pending
           /\ sent' = sent \o d
           /\ UNCHANGED <<state, wcc, inq, peer, sockErr, wrShut>>
  <2>1. PICK n \in Written(d) :
                 /\ wire' = wire \o SubSeq(d, 1, n)
                 /\ unread' = unread + n
                 /\ IF n = Len(d)
                    THEN QueueWriteComplete /\ UNCHANGED <<events, index, out, flush>>
                    ELSE /\ out' = SubSeq(d, n + 1, Len(d))
                         /\ Update(events \cup {"write"})
                         /\ flush' = TRUE
                         /\ UNCHANGED pending
    BY <1>4, Zenon
  <2>2. /\ unread' \in 0 .. SendBuf /\ wire' \in Seq(Octets)
        /\ SubSeq(d, n + 1, Len(d)) \in Seq(Octets)
    BY <2>1, WrittenType, SMTT(30) DEF TypeOK, ConnTypeOK, LoopTypeOK
  <2>3. sent' \in Seq(Octets) /\ UNCHANGED <<state, wcc, inq, peer, sockErr, wrShut>>
    BY <1>1, <1>4, Zenon
  <2>4. CASE n = Len(d)
    <3>1. pending' \in Seq(Functor) /\ UNCHANGED <<events, index, out, flush>>
      BY <2>1, <2>4, QueueWriteCompleteType
    <3> QED BY <2>2, <2>3, <3>1 DEF ConnTypeOK, LoopTypeOK, srvVars
  <2>5. CASE n # Len(d)
    <3>1. flush' \in BOOLEAN
      BY <2>1, <2>5, Zenon
    <3>2. Update(events \cup {"write"}) /\ UNCHANGED pending /\ out' \in Seq(Octets)
      BY <2>1, <2>2, <2>5, Zenon
    <3> QED BY <2>2, <2>3, <3>1, <3>2, UpdateType DEF ConnTypeOK, LoopTypeOK, srvVars
  <2> QED BY <2>4, <2>5
<1>5. CASE /\ out' = out \o d
           /\ IF "write" \in events THEN UNCHANGED <<events, index>>
                                    ELSE Update(events \cup {"write"})
           /\ flush' = TRUE /\ sent' = sent \o d
           /\ UNCHANGED <<state, wcc, pending, sockVars>>
  <2>1. flush' \in BOOLEAN
    BY <1>5, Zenon
  <2>2. /\ out' \in Seq(Octets) /\ sent' \in Seq(Octets)
        /\ UNCHANGED <<state, wcc, pending, sockVars>>
    BY <1>1, <1>5, Zenon
  <2>3. events' \subseteq {"read", "write"} /\ index' \in {"kNew", "kAdded", "kDeleted"}
    BY <1>5, UpdateType, Zenon DEF ConnTypeOK
  <2> QED BY <2>1, <2>2, <2>3 DEF ConnTypeOK, LoopTypeOK, sockVars, srvVars
<1> QED BY <1>2, <1>3, <1>4, <1>5, Zenon DEF SendInLoop

----------------------------------------------------------------------------
(* Type correctness.                                                       *)

LEMMA InitType == Init => TypeOK
<1> SUFFICES ASSUME Init PROVE TypeOK
  OBVIOUS
<1>1. /\ pc \in [Threads -> {"idle", "send", "shutdown", "forceClose",
                             "shutdownInLoop", "forceCloseInLoop"}]
      /\ nextByte \in [Callers -> 0 .. MaxBytes]
  BY ConnAssumption DEF Init
<1>2. ConnTypeOK
  <2>1. inMap \in BOOLEAN /\ server \in BOOLEAN /\ wrShut \in BOOLEAN
    BY Zenon DEF Init
  <2> QED BY <2>1, ConnAssumption DEF Init, ConnTypeOK
<1>3. LoopTypeOK
  BY <1>1, NoElements, Zenon DEF Init, LoopTypeOK
<1> QED BY <1>2, <1>3 DEF TypeOK

\* The functor that doPendingFunctors takes next.
LEMMA RunningType ==
    ASSUME TypeOK, NEW name, Running(name)
    PROVE  /\ batch \in Seq(Functor) /\ Head(batch) \in Functor
           /\ batch' \in Seq(Functor)
           /\ UNCHANGED <<revents, pinned>>
BY DEF TypeOK, LoopTypeOK, Running

LEMMA LoopStepType ==
    ASSUME TypeOK, LoopStep
    PROVE  TypeOK'
<1> USE DEF TypeOK
<1>1. CASE Poll
  <2>1. revents' \subseteq {"IN", "OUT", "ERR", "HUP"}
    BY <1>1 DEF Poll, Ready
  <2> QED BY <1>1, <2>1 DEF Poll, ConnTypeOK, LoopTypeOK, connVars, srvVars,
                            thrVars, sockVars, histVars
<1>2. CASE EventClose
  BY <1>2, HandleCloseOK DEF EventClose, LoopTypeOK, thrVars
<1>3. CASE EventError
  <2>1. sockErr' \in BOOLEAN
    BY <1>3, Zenon DEF EventError
  <2> QED BY <1>3, <2>1 DEF EventError, ConnTypeOK, LoopTypeOK, connVars,
                            srvVars, thrVars, histVars
<1>4. CASE EventRead
  <2>1. revents' \subseteq {"IN", "OUT", "ERR", "HUP"}
    BY <1>4 DEF EventRead, LoopTypeOK
  <2>2. UNCHANGED <<flush, batch, pinned, thrVars>>
    BY <1>4 DEF EventRead
  <2>3. CASE /\ inq' = 0
             /\ phase' = "user" /\ ret' = "events" /\ cur' = "message"
             /\ UNCHANGED <<connVars, srvVars, pending, wire, unread, peer,
                            sockErr, wrShut, histVars, abort>>
    BY <2>1, <2>2, <2>3 DEF ConnTypeOK, LoopTypeOK, connVars, srvVars, histVars,
                            thrVars
  <2>4. CASE HandleClose /\ UNCHANGED <<phase, ret, cur, sockErr>>
    BY <2>1, <2>2, <2>4, HandleCloseOK DEF LoopTypeOK, thrVars
  <2>5. CASE /\ sockErr' = FALSE
             /\ UNCHANGED <<connVars, srvVars, phase, ret, cur, pending, wire,
                            unread, inq, peer, wrShut, histVars, abort>>
    <3>1. sockErr' \in BOOLEAN
      BY <2>5, Zenon
    <3> QED BY <2>1, <2>2, <2>5, <3>1 DEF ConnTypeOK, LoopTypeOK, connVars,
                                          srvVars, histVars, thrVars
  <2> QED BY <1>4, <2>3, <2>4, <2>5, Zenon DEF EventRead
<1>5. CASE EventWrite
  BY <1>5, HandleWriteOK DEF EventWrite, LoopTypeOK, thrVars
<1>6. CASE Swap
  <2>1. pinned' \in BOOLEAN
    BY <1>6, Zenon DEF Swap, Holds
  <2> QED BY <1>6, <2>1 DEF Swap, ConnTypeOK, LoopTypeOK, connVars,
                            srvVars, thrVars, sockVars, histVars
<1>7. CASE BatchDone
  <2>1. pinned' \in BOOLEAN
    BY <1>7, Zenon DEF BatchDone
  <2> QED BY <1>7, <2>1 DEF BatchDone, ConnTypeOK, LoopTypeOK, connVars,
                            srvVars, thrVars, sockVars, histVars
<1>8. CASE Flush
  <2>1. flush' \in BOOLEAN
    BY <1>8, Zenon DEF Flush
  <2> QED BY <1>8, <2>1, HandleWriteOK DEF Flush, LoopTypeOK, thrVars
<1>9. CASE RunConnectEstablished
  <2>1. batch' \in Seq(Functor) /\ UNCHANGED <<revents, pinned>>
    BY <1>9, RunningType, Zenon DEF RunConnectEstablished
  <2>2. Append(cbs, "up") \in Seq({"up", "down"})
    BY DEF ConnTypeOK
  <2>3. UNCHANGED <<out, wcc, srvVars, flush, pending, pc, nextByte, sockVars,
                    sent>>
    BY <1>9, Zenon DEF RunConnectEstablished
  <2>4. CASE state = "kConnecting"
    <3>1. /\ state' = "kConnected" /\ cbs' = Append(cbs, "up")
          /\ events' \subseteq {"read", "write"} /\ index' \in {"kNew", "kAdded", "kDeleted"}
      BY <1>9, <2>4, Zenon DEF RunConnectEstablished, Update, ConnTypeOK
    <3>2. phase' \in {"poll", "events", "user", "functors"} /\ ret' \in {"events", "functors"}
      BY <1>9, <2>4 DEF RunConnectEstablished
    <3> QED BY <1>9, <2>1, <2>2, <2>3, <2>4, <3>1, <3>2
        DEF RunConnectEstablished, ConnTypeOK, LoopTypeOK, srvVars, sockVars
  <2>5. CASE state # "kConnecting"
    <3>1. UNCHANGED <<state, events, index, cbs, holders, phase, ret, cur>>
      BY <1>9, <2>5, Zenon DEF RunConnectEstablished
    <3> QED BY <2>1, <2>3, <3>1 DEF ConnTypeOK, LoopTypeOK, srvVars, sockVars
  <2> QED BY <2>4, <2>5
<1>10. CASE RunSendInLoop
  <2>1. /\ batch' \in Seq(Functor) /\ UNCHANGED <<revents, pinned>>
        /\ Head(batch).data \in Seq(Octets)
    BY <1>10, RunningType, Zenon DEF RunSendInLoop, Functor
  <2>2. UNCHANGED <<srvVars, phase, ret, cur, thrVars, cbs>>
    BY <1>10, Zenon DEF RunSendInLoop
  <2>3. CASE SendInLoop(Head(batch).data)
    <3>1. UNCHANGED <<srvVars, cbs>>
      BY <2>2
    <3>2. ConnTypeOK' /\ flush' \in BOOLEAN /\ sockErr' \in BOOLEAN
      BY <2>1, <2>3, <3>1, SendInLoopOK
    <3> QED BY <2>1, <2>2, <3>2 DEF LoopTypeOK, thrVars
  <2>4. CASE UNCHANGED <<connVars, pending, flush, sockVars, sent>>
    BY <2>1, <2>2, <2>4
    DEF ConnTypeOK, LoopTypeOK, connVars, srvVars, thrVars, sockVars
  <2> QED BY <1>10, <2>3, <2>4, Zenon DEF RunSendInLoop
<1>11. CASE RunShutdownInLoop
  <2>1. batch' \in Seq(Functor) /\ UNCHANGED <<revents, pinned>>
    BY <1>11, RunningType, Zenon DEF RunShutdownInLoop
  <2>2. /\ wrShut' \in BOOLEAN
        /\ UNCHANGED <<wire, unread, inq, peer, sockErr>>
    BY <1>11, Zenon DEF RunShutdownInLoop, ShutdownInLoop, sockVars, ConnTypeOK
  <2>3. UNCHANGED <<connVars, srvVars, phase, ret, cur, flush, pending, thrVars,
                    histVars>>
    BY <1>11, Zenon DEF RunShutdownInLoop
  <2> QED BY <2>1, <2>2, <2>3 DEF ConnTypeOK, LoopTypeOK, connVars, srvVars,
                                  thrVars, histVars
<1>12. CASE RunForceCloseInLoop
  <2>1. batch' \in Seq(Functor) /\ UNCHANGED <<revents, pinned>>
    BY <1>12, RunningType DEF RunForceCloseInLoop
  <2>2. UNCHANGED <<phase, ret, cur, flush, thrVars>>
    BY <1>12 DEF RunForceCloseInLoop
  <2>3. CASE HandleClose /\ UNCHANGED sockErr
    BY <2>1, <2>2, <2>3, HandleCloseOK DEF LoopTypeOK, thrVars
  <2>4. CASE UNCHANGED <<connVars, srvVars, pending, sockVars, histVars, abort>>
    BY <2>1, <2>2, <2>4
    DEF ConnTypeOK, LoopTypeOK, connVars, srvVars, thrVars, sockVars, histVars
  <2> QED BY <1>12, <2>3, <2>4, Zenon DEF RunForceCloseInLoop
<1>13. CASE RunHandleWrite
  <2>1. batch' \in Seq(Functor) /\ UNCHANGED <<revents, pinned>>
    BY <1>13, RunningType DEF RunHandleWrite
  <2> QED BY <1>13, <2>1, HandleWriteOK DEF RunHandleWrite, LoopTypeOK, thrVars
<1>14. CASE RunWriteComplete
  <2>1. batch' \in Seq(Functor) /\ UNCHANGED <<revents, pinned>>
    BY <1>14, RunningType DEF RunWriteComplete
  <2> QED BY <1>14, <2>1 DEF RunWriteComplete, ConnTypeOK, LoopTypeOK, connVars,
                            srvVars, thrVars, sockVars, histVars
<1>15. CASE RunConnectDestroyed
  <2>1. batch' \in Seq(Functor) /\ UNCHANGED <<revents, pinned>>
    BY <1>15, RunningType, Zenon DEF RunConnectDestroyed
  <2>2. Append(cbs, "down") \in Seq({"up", "down"})
    BY DEF ConnTypeOK
  <2>3. UNCHANGED <<out, wcc, srvVars, phase, ret, cur, flush, pending, thrVars,
                    sockVars, sent>>
    BY <1>15, Zenon DEF RunConnectDestroyed
  <2>4. CASE UNCHANGED <<state, events, index, cbs>>
    BY <2>1, <2>3, <2>4
    DEF ConnTypeOK, LoopTypeOK, srvVars, thrVars, sockVars
  <2>5. CASE /\ state' = IF state = "kConnected" THEN "kDisconnected" ELSE state
             /\ cbs' = IF state = "kConnected" THEN Append(cbs, "down") ELSE cbs
             /\ events' = {} /\ index' = "kNew"
    BY <2>1, <2>2, <2>3, <2>5
    DEF ConnTypeOK, LoopTypeOK, srvVars, thrVars, sockVars
  <2> QED BY <1>15, <2>4, <2>5, Zenon DEF RunConnectDestroyed
<1> QED
  BY <1>1, <1>2, <1>3, <1>4, <1>5, <1>6, <1>7, <1>8, <1>9, <1>10, <1>11,
     <1>12, <1>13, <1>14, <1>15, Zenon DEF LoopStep

LEMMA UserStepType ==
    ASSUME TypeOK, UserStep
    PROVE  TypeOK'
<1> USE DEF TypeOK
<1>1. ASSUME NEW k \in 1 .. MaxBytes, LoopSend(k) PROVE TypeOK'
  <2>1. Data("loop", k) \in Seq(Octets)
    BY <1>1, DataType DEF LoopSend, Callers
  <2>2. UNCHANGED <<srvVars, cbs>>
    BY <1>1 DEF LoopSend
  <2>3. ConnTypeOK' /\ flush' \in BOOLEAN /\ sockErr' \in BOOLEAN
    BY <1>1, <2>1, <2>2, SendInLoopOK DEF LoopSend
  <2>4. nextByte' \in [Callers -> 0 .. MaxBytes]
    BY <1>1, ConnAssumption DEF LoopSend, CanSend, LoopTypeOK, Callers
  <2> QED BY <1>1, <2>3, <2>4 DEF LoopSend, LoopTypeOK
<1>2. CASE LoopShutdown
  <2>1. wrShut' \in BOOLEAN
    BY <1>2, Zenon DEF LoopShutdown, ShutdownInLoop
  <2> QED BY <1>2, <2>1 DEF LoopShutdown, ShutdownInLoop, ConnTypeOK, LoopTypeOK,
                            srvVars, loopVars, thrVars, histVars
<1>3. CASE LoopForceClose
  <2>1. pending' \in Seq(Functor)
    BY <1>3, QueueFnType DEF LoopForceClose, FunctorNames
  <2> QED BY <1>3, <2>1 DEF LoopForceClose, ConnTypeOK, LoopTypeOK, srvVars,
                            thrVars, sockVars, histVars
<1>4. ASSUME NEW c \in Callbacks, SetWriteCompleteCallback(c) PROVE TypeOK'
  BY <1>4 DEF SetWriteCompleteCallback, ConnTypeOK, LoopTypeOK, srvVars,
              loopVars, thrVars, sockVars, histVars
<1>5. CASE CallbackReturns
  BY <1>5 DEF CallbackReturns, ConnTypeOK, LoopTypeOK, connVars, srvVars,
              thrVars, sockVars, histVars
<1> QED BY <1>1, <1>2, <1>3, <1>4, <1>5, Zenon DEF UserStep

LEMMA ThreadStepType ==
    ASSUME TypeOK, NEW t \in Threads, ThreadStep(t)
    PROVE  TypeOK'
<1> USE DEF TypeOK
<1>1. ASSUME NEW op \in {"send", "shutdown", "forceClose"}, NEW from,
             Begin(t, op, from)
      PROVE  TypeOK'
  BY <1>1 DEF Begin, ConnTypeOK, LoopTypeOK, connVars, srvVars, loopVars,
              sockVars, histVars
<1>2. ASSUME NEW k \in 1 .. MaxBytes, NEW kind \in SendKinds,
             SendQueue(t, k, kind)
      PROVE  TypeOK'
  <2>1. t \in Callers /\ k \in Nat /\ CanSend(t, k)
    <3>1. t \in Callers /\ CanSend(t, k)
      BY <1>2, Zenon DEF SendQueue, Callers
    <3>2. k \in Nat
      BY ONLY k \in 1 .. MaxBytes, ConnAssumption
    <3> QED BY <3>1, <3>2, Zenon
  <2>2. PICK d : /\ \/ d = Data(t, k)
                    \/ d = [i \in 1 .. k |-> Garbage]
                 /\ Queue(Sending(d))
    BY <1>2, Zenon DEF SendQueue
  <2>3. d \in Seq(Octets)
    <3>1. [i \in 1 .. k |-> Garbage] \in Seq(Octets)
      BY <2>1 DEF Octets
    <3> QED BY <2>1, <2>2, <3>1, DataType
  <2>4. pending' \in Seq(Functor)
    BY <2>2, <2>3, SendFunctorType, QueueType
  <2>5. nextByte' \in [Callers -> 0 .. MaxBytes]
    BY <1>2, <2>1, ConnAssumption DEF SendQueue, CanSend, LoopTypeOK
  <2> QED BY <1>2, <2>4, <2>5 DEF SendQueue, ConnTypeOK, LoopTypeOK, connVars,
                                  srvVars, sockVars, histVars
<1>3. CASE SetDisconnecting(t)
  BY <1>3 DEF SetDisconnecting, ConnTypeOK, LoopTypeOK, srvVars, loopVars,
              sockVars, histVars
<1>4. CASE QueueClose(t)
  <2>1. pending' \in Seq(Functor)
    BY <1>4, QueueFnType DEF QueueClose, FunctorNames
  <2> QED BY <1>4, <2>1 DEF QueueClose, ConnTypeOK, LoopTypeOK, connVars,
                            srvVars, sockVars, histVars
<1>5. CASE Release(t)
  BY <1>5 DEF Release, ConnTypeOK, LoopTypeOK, connVars, srvVars, loopVars,
              sockVars, histVars
<1> QED
  BY <1>1, <1>2, <1>3, <1>4, <1>5, Zenon
  DEF ThreadStep, SendCheck, ShutdownCheck, ForceCloseCheck

LEMMA BaseStepType ==
    ASSUME TypeOK, BaseStep
    PROVE  TypeOK'
<1> USE DEF TypeOK
<1>1. CASE NewConnection
  <2>1. inMap' \in BOOLEAN
    BY <1>1, Zenon DEF NewConnection
  <2>2. Append(cbs, "up") \in Seq({"up", "down"})
    BY DEF ConnTypeOK
  <2>3. UNCHANGED <<out, wcc, server, basePending, flush, revents, batch,
                    pinned, pc, nextByte, sockVars, sent, abort>>
    BY <1>1 DEF NewConnection
  <2>4. CASE OneLoop
    BY <1>1, <2>1, <2>2, <2>3, <2>4, Zenon
    DEF NewConnection, Update, ConnTypeOK, LoopTypeOK, sockVars
  <2>5. CASE ~OneLoop
    <3>1. /\ state' = "kConnecting" /\ Queue(Fn("connectEstablished"))
          /\ UNCHANGED <<events, index, cbs, holders, phase, ret, cur>>
      BY <1>1, <2>5, Zenon DEF NewConnection
    <3>2. pending' \in Seq(Functor)
      BY <3>1, QueueFnType DEF FunctorNames
    <3> QED BY <2>1, <2>3, <3>1, <3>2 DEF ConnTypeOK, LoopTypeOK, sockVars
  <2> QED BY <2>4, <2>5
<1>2. CASE RemoveConnectionInLoop
  <2>1. inMap' \in BOOLEAN
    BY <1>2, Zenon DEF RemoveConnectionInLoop
  <2>2. pending' \in Seq(Functor)
    BY <1>2, QueueFnType, Zenon DEF RemoveConnectionInLoop, FunctorNames
  <2>3. /\ basePending > 0 /\ basePending' = basePending - 1
        /\ UNCHANGED <<connVars, server, phase, ret, cur, flush, revents, batch>>
        /\ UNCHANGED <<pinned, thrVars, sockVars, histVars>>
    BY <1>2, Zenon DEF RemoveConnectionInLoop
  <2> QED BY <2>1, <2>2, <2>3 DEF ConnTypeOK, LoopTypeOK, connVars, thrVars, sockVars, histVars
<1>3. CASE DestroyServer
  <2>1. inMap' \in BOOLEAN /\ server' \in BOOLEAN
    BY <1>3, Zenon DEF DestroyServer
  <2>2. pending' \in Seq(Functor)
    <3>1. Queue(Fn("connectDestroyed")) \/ UNCHANGED pending
      BY <1>3, Zenon DEF DestroyServer
    <3> QED BY <3>1, QueueFnType DEF FunctorNames, ConnTypeOK
  <2>3. UNCHANGED <<connVars, basePending, phase, ret, cur, flush, revents,
                    batch, pinned, thrVars, sockVars, histVars, abort>>
    BY <1>3 DEF DestroyServer
  <2> QED BY <2>1, <2>2, <2>3 DEF ConnTypeOK, LoopTypeOK, connVars, thrVars,
                                  sockVars, histVars
<1> QED BY <1>1, <1>2, <1>3, Zenon DEF BaseStep

LEMMA PeerStepType ==
    ASSUME TypeOK, PeerStep
    PROVE  TypeOK'
<1> USE DEF TypeOK
<1>1. CASE PeerReads
  BY <1>1, ConnAssumption
  DEF PeerReads, ConnTypeOK, LoopTypeOK, connVars, srvVars, loopVars, thrVars,
      histVars
<1>2. CASE PeerSends
  BY <1>2 DEF PeerSends, ConnTypeOK, LoopTypeOK, connVars, srvVars, loopVars,
              thrVars, histVars
<1>3. CASE PeerCloses
  BY <1>3 DEF PeerCloses, ConnTypeOK, LoopTypeOK, connVars, srvVars, loopVars,
              thrVars, histVars
<1>4. CASE PeerResets
  <2>1. sockErr' \in BOOLEAN
    BY <1>4, Zenon DEF PeerResets
  <2> QED BY <1>4, <2>1 DEF PeerResets, ConnTypeOK, LoopTypeOK, connVars,
                            srvVars, loopVars, thrVars, histVars
<1> QED BY <1>1, <1>2, <1>3, <1>4, Zenon DEF PeerStep

LEMMA TypeStep == TypeOK /\ [Next]_vars => TypeOK'
<1> SUFFICES ASSUME TypeOK, [Next]_vars PROVE TypeOK'
  OBVIOUS
<1>1. CASE UNCHANGED vars
  BY <1>1 DEF TypeOK, ConnTypeOK, LoopTypeOK, vars, connVars, srvVars, loopVars,
              thrVars, sockVars, histVars
<1>2. CASE Next
  BY <1>2, LoopStepType, UserStepType, ThreadStepType, BaseStepType,
     PeerStepType, Zenon DEF Next
<1> QED BY <1>1, <1>2

\* The state of the connection, of its loop and of the calling threads is well
\* typed in every reachable state, however many threads call send, shutdown and
\* forceClose: in particular the kernel never holds more than its buffer.
THEOREM TypeCorrect == Spec => []TypeOK
BY InitType, TypeStep, PTL DEF Spec

----------------------------------------------------------------------------
(* The inductive invariant.                                                *)

Early == state \in {"none", "kConnecting"}
NoSend(q) == \A i \in 1 .. Len(q) : q[i].f # "sendInLoop"

\* Nothing is sent, and no thread is inside a call, before connectEstablished.
Started ==
    Early => /\ out = <<>>
             /\ \A t \in Threads : pc[t] = "idle"
             /\ NoSend(pending) /\ NoSend(batch)

\* Only closing the connection takes the interest in reading away.
ReadGone == ~Early /\ "read" \notin events => Down

DataInv == DeliveredInOrder /\ WriteInterest /\ FinAfterData /\ ReadGone

IInv == TypeOK /\ DataInv /\ Started

----------------------------------------------------------------------------
(* Lemmas about sequences.                                                 *)

LEMMA NoLength == ASSUME NEW S, NEW s \in Seq(S), Len(s) = 0 PROVE s = <<>>
OBVIOUS

LEMMA SameElements ==
    ASSUME NEW S, NEW s \in Seq(S), NEW t \in Seq(S), Len(s) = Len(t),
           \A i \in 1 .. Len(t) : s[i] = t[i]
    PROVE  s = t
OBVIOUS

LEMMA PrefixOfConcat ==
    ASSUME NEW S, NEW w \in Seq(S), NEW o \in Seq(S)
    PROVE  Len(w) <= Len(w \o o) /\ w = SubSeq(w \o o, 1, Len(w))
<1>1. /\ w \o o \in Seq(S) /\ Len(w \o o) = Len(w) + Len(o)
      /\ \A i \in 1 .. Len(w) : (w \o o)[i] = w[i]
  OBVIOUS
<1>2. \A i \in 1 .. Len(w) : (w \o o)[i] \in S
  BY <1>1
<1>3. /\ SubSeq(w \o o, 1, Len(w)) \in Seq(S)
      /\ Len(SubSeq(w \o o, 1, Len(w))) = Len(w)
      /\ \A i \in 1 .. Len(w) : SubSeq(w \o o, 1, Len(w))[i] = (w \o o)[i]
  BY <1>2
<1>4. w = SubSeq(w \o o, 1, Len(w))
  BY <1>1, <1>3
<1> QED BY <1>1, <1>4

\* A prefix of s is a prefix of s \o d.
LEMMA PrefixGrows ==
    ASSUME NEW S, NEW w \in Seq(S), NEW s \in Seq(S), NEW d \in Seq(S),
           Len(w) <= Len(s), w = SubSeq(s, 1, Len(w))
    PROVE  Len(w) <= Len(s \o d) /\ w = SubSeq(s \o d, 1, Len(w))
<1>1. Len(s \o d) = Len(s) + Len(d)
  OBVIOUS
<1>2. CASE Len(w) = 0
  <2>1. w = <<>>
    BY <1>2
  <2>2. SubSeq(s \o d, 1, 0) = <<>>
    OBVIOUS
  <2> QED BY <1>1, <1>2, <2>1, <2>2
<1>3. CASE Len(w) # 0
  <2>1. Len(w) \in 1 .. Len(s) /\ 1 \in 1 .. Len(s)
    BY <1>3
  <2>2. SubSeq(s \o d, 1, Len(w)) = SubSeq(s, 1, Len(w))
    BY <2>1
  <2> QED BY <1>1, <2>2
<1> QED BY <1>2, <1>3

\* Cutting d after n elements and putting the parts together again.
LEMMA CutAndJoin ==
    ASSUME NEW S, NEW d \in Seq(S), NEW n \in 0 .. Len(d)
    PROVE  /\ SubSeq(d, 1, n) \in Seq(S) /\ SubSeq(d, n + 1, Len(d)) \in Seq(S)
           /\ SubSeq(d, 1, n) \o SubSeq(d, n + 1, Len(d)) = d
           /\ n = Len(d) => SubSeq(d, n + 1, Len(d)) = <<>> /\ SubSeq(d, 1, n) = d
           /\ n < Len(d) => SubSeq(d, n + 1, Len(d)) # <<>>
<1>1. \A i \in 1 .. Len(d) : d[i] \in S
  OBVIOUS
<1>2. Len(d) \in Nat /\ n \in Int
  OBVIOUS
<1>3. /\ SubSeq(d, 1, n) \in Seq(S) /\ SubSeq(d, n + 1, Len(d)) \in Seq(S)
      /\ n < Len(d) => Len(SubSeq(d, n + 1, Len(d))) = Len(d) - n
  <2>1. n < Len(d) => Len(d) - (n + 1) + 1 = Len(d) - n
    BY <1>2
  <2> QED BY <1>1, <1>2, <2>1
<1>4. SubSeq(d, 1, n) \o SubSeq(d, n + 1, Len(d)) = d
  <2>1. PICK a \in Seq(S), b \in Seq(S) :
            a = SubSeq(d, 1, n) /\ b = SubSeq(d, n + 1, Len(d))
    BY <1>3, Zenon
  <2>2. /\ Len(a) = n /\ \A i \in 1 .. n : a[i] = d[i]
        /\ Len(b) = Len(d) - n /\ \A i \in 1 .. Len(d) - n : b[i] = d[n + i]
    BY <1>2, <2>1
  <2>3. PICK c \in Seq(S) : c = a \o b
    BY JoinType, Zenon
  <2>4. Len(c) = Len(d)
    <3>1. Len(c) = Len(a) + Len(b)
      BY <2>3
    <3> QED BY <1>2, <2>2, <3>1
  <2>5. ASSUME NEW i \in 1 .. Len(d) PROVE c[i] = d[i]
    <3>1. CASE i <= n
      BY <1>2, <2>2, <2>3, <3>1
    <3>2. CASE i > n
      <4>1. c[i] = b[i - n] /\ i - n \in 1 .. Len(d) - n /\ n + (i - n) = i
        BY <1>2, <2>2, <2>3, <3>2
      <4> QED BY <2>2, <4>1
    <3> QED BY <1>2, <3>1, <3>2
  <2>6. c = d
    BY <2>4, <2>5, SameElements
  <2> QED BY <2>1, <2>3, <2>6, Zenon
<1>5. SubSeq(d, 1, Len(d)) = d
  OBVIOUS
<1>6. n = Len(d) => SubSeq(d, n + 1, Len(d)) = <<>>
  BY <1>2
<1>7. n < Len(d) => SubSeq(d, n + 1, Len(d)) # <<>>
  <2> DEFINE r == SubSeq(d, n + 1, Len(d))
  <2>1. n < Len(d) => Len(r) # 0
    BY <1>2, <1>3
  <2> HIDE DEF r
  <2>2. n < Len(d) => r # <<>>
    BY <2>1
  <2> QED BY <2>2 DEF r
<1> QED BY <1>3, <1>4, <1>5, <1>6, <1>7, Zenon

LEMMA CutAfter ==
    ASSUME NEW S, NEW w \in Seq(S), NEW d \in Seq(S), NEW n \in 0 .. Len(d)
    PROVE  (w \o SubSeq(d, 1, n)) \o SubSeq(d, n + 1, Len(d)) = w \o d
<1>1. ASSUME NEW a \in Seq(S), NEW b \in Seq(S), a \o b = d
      PROVE  (w \o a) \o b = w \o d
  <2>1. (w \o a) \o b = w \o (a \o b)
    BY SMTT(30)
  <2> QED BY <1>1, <2>1, Zenon
<1>2. /\ SubSeq(d, 1, n) \in Seq(S) /\ SubSeq(d, n + 1, Len(d)) \in Seq(S)
      /\ SubSeq(d, 1, n) \o SubSeq(d, n + 1, Len(d)) = d
  BY CutAndJoin, Zenon
<1> QED BY <1>1, <1>2, Zenon

LEMMA NoSendAppend ==
    ASSUME NEW q \in Seq(Functor), NEW fn \in Functor, NoSend(q),
           fn.f # "sendInLoop"
    PROVE  NoSend(Append(q, fn))
BY DEF NoSend

LEMMA NoSendTail ==
    ASSUME NEW q \in Seq(Functor), q # <<>>, NoSend(q)
    PROVE  NoSend(Tail(q)) /\ Head(q).f # "sendInLoop"
BY DEF NoSend

\* connectionCallback_'s history only grows.
LEMMA DownStays ==
    ASSUME TypeOK, Down,
           cbs' = cbs \/ \E e \in {"up", "down"} : cbs' = Append(cbs, e)
    PROVE  Down'
<1>1. CASE cbs' = cbs
  BY <1>1 DEF Down
<1>2. CASE \E e \in {"up", "down"} : cbs' = Append(cbs, e)
  <2>1. PICK i \in 1 .. Len(cbs) : cbs[i] = "down"
    BY DEF Down
  <2>2. cbs' [i] = "down" /\ i \in 1 .. Len(cbs')
    BY <1>2, <2>1 DEF TypeOK, ConnTypeOK
  <2> QED BY <2>2 DEF Down
<1> QED BY <1>1, <1>2

LEMMA DownAppended ==
    ASSUME TypeOK, cbs' = Append(cbs, "down")
    PROVE  Down'
BY DEF TypeOK, ConnTypeOK, Down

----------------------------------------------------------------------------
(* What the handlers do to the data.                                       *)

\* A step that touches neither the data nor the interest in it.
Quiet ==
    /\ UNCHANGED <<events, out, wire, sent, cbs, wrShut>>
    /\ peer = "reset" => peer' = "reset"
    /\ Early' => Early
    /\ ~Early' => ~Early

LEMMA QuietData ==
    ASSUME IInv, Quiet
    PROVE  DataInv'
<1>1. Broken => Broken'
  BY DEF Quiet, Broken
<1>2. DeliveredInOrder'
  BY <1>1 DEF IInv, DataInv, Quiet, DeliveredInOrder
<1>3. WriteInterest'
  BY DEF IInv, DataInv, Quiet, WriteInterest
<1>4. Down <=> Down'
  BY DEF Quiet, Down
<1>5. FinAfterData'
  BY <1>4 DEF IInv, DataInv, Quiet, FinAfterData
<1>6. ReadGone'
  BY <1>4 DEF IInv, DataInv, Quiet, ReadGone
<1> QED BY <1>2, <1>3, <1>5, <1>6 DEF DataInv

LEMMA HandleCloseData ==
    ASSUME IInv, HandleClose
    PROVE  DataInv'
<1>1. TypeOK /\ DataInv
  BY DEF IInv
<1>2. UNCHANGED <<out, wire, sent, peer, wrShut>>
  BY <1>1, HandleCloseType
<1>3. DeliveredInOrder'
  BY <1>1, <1>2 DEF DataInv, DeliveredInOrder, Broken
<1>4. CASE state \notin {"kConnected", "kDisconnecting"}
  <2>1. UNCHANGED <<state, events, cbs>>
    BY <1>4, Zenon DEF HandleClose, Crash, connVars, histVars
  <2> QED BY <1>1, <1>2, <1>3, <2>1
          DEF DataInv, WriteInterest, FinAfterData, ReadGone, Early, Down
<1>5. CASE state \in {"kConnected", "kDisconnecting"}
  <2>1. events' = {} /\ cbs' = Append(cbs, "down")
    BY <1>5, Zenon DEF HandleClose, Update
  <2>2. Down'
    BY <1>1, <2>1, DownAppended
  <2> QED BY <1>3, <2>1, <2>2 DEF DataInv, WriteInterest, FinAfterData, ReadGone
<1> QED BY <1>4, <1>5

LEMMA DrainedData ==
    ASSUME IInv, NEW n \in Written(out), Drained(n), "write" \in events, ~Broken,
           UNCHANGED <<state, peer, sent, cbs>>
    PROVE  DataInv'
<1>1. TypeOK /\ DataInv /\ out \in Seq(Octets) /\ wire \in Seq(Octets)
  BY DEF IInv, TypeOK, ConnTypeOK
<1>2. n \in 0 .. Len(out)
  BY <1>1, WrittenType
<1>3. /\ SubSeq(out, 1, n) \in Seq(Octets) /\ SubSeq(out, n + 1, Len(out)) \in Seq(Octets)
      /\ SubSeq(out, 1, n) \o SubSeq(out, n + 1, Len(out)) = out
      /\ n = Len(out) => out' = <<>>
      /\ n # Len(out) => out' # <<>>
  <2>1. n # Len(out) => n < Len(out)
    BY <1>1, <1>2
  <2> QED BY <1>1, <1>2, <2>1, CutAndJoin, Zenon DEF Drained
<1>4. DeliveredInOrder'
  <2>1. sent' = wire' \o out'
    <3>1. sent = wire \o out /\ wire' = wire \o SubSeq(out, 1, n)
          /\ out' = SubSeq(out, n + 1, Len(out))
      BY <1>1 DEF Drained, DataInv, DeliveredInOrder
    <3>2. (wire \o SubSeq(out, 1, n)) \o SubSeq(out, n + 1, Len(out)) = wire \o out
      BY <1>1, <1>2, CutAfter, Zenon
    <3> QED BY <3>1, <3>2, Zenon
  <2>2. wire' \in Seq(Octets) /\ out' \in Seq(Octets)
    BY <1>1, <1>3, JoinType, Zenon DEF Drained
  <2> QED BY <2>1, <2>2, PrefixOfConcat DEF DeliveredInOrder
<1>5. "read" \in events' <=> "read" \in events
  BY DEF Drained, Update
<1>6. CASE n = Len(out)
  <2>1. out' = <<>> /\ "write" \notin events'
    BY <1>3, <1>6 DEF Drained, Update
  <2> QED BY <1>1, <1>4, <1>5, <2>1
          DEF DataInv, WriteInterest, FinAfterData, ReadGone, Early, Down
<1>7. CASE n # Len(out)
  <2>1. out' # <<>> /\ UNCHANGED <<events, wrShut>>
    BY <1>3, <1>7 DEF Drained
  <2>2. ~wrShut'
    BY <2>1 DEF Broken
  <2> QED BY <1>1, <1>4, <1>5, <2>1, <2>2
          DEF DataInv, WriteInterest, FinAfterData, ReadGone, Early, Down
<1> QED BY <1>6, <1>7

LEMMA HandleWriteData ==
    ASSUME IInv, HandleWrite
    PROVE  DataInv'
<1>1. CASE UNCHANGED <<connVars, srvVars, pending, sockVars, histVars, abort>>
  BY <1>1, QuietData DEF Quiet, Early, connVars, sockVars, histVars
<1>2. CASE HandleClose
  BY <1>2, HandleCloseData
<1>3. CASE /\ "write" \in events /\ ~Broken
           /\ \E n \in Written(out) : Drained(n)
           /\ UNCHANGED <<state, wcc, srvVars, inq, peer, sockErr, histVars, abort>>
  BY <1>3, DrainedData DEF histVars
<1> QED BY <1>1, <1>2, <1>3, Zenon DEF HandleWrite

LEMMA SendInLoopData ==
    ASSUME IInv, ~Early, NEW d \in Seq(Octets), SendInLoop(d), UNCHANGED cbs
    PROVE  DataInv'
<1>1. /\ TypeOK /\ DataInv
      /\ out \in Seq(Octets) /\ wire \in Seq(Octets) /\ sent \in Seq(Octets)
  BY DEF IInv, TypeOK, ConnTypeOK
<1>2. Down <=> Down'
  BY DEF Down
<1>3. CASE UNCHANGED <<connVars, pending, flush, sockVars, sent>>
  BY <1>3, QuietData DEF Quiet, Early, connVars, sockVars
<1>4. CASE /\ Broken /\ sent' = sent \o d
           /\ UNCHANGED <<connVars, pending, flush, wire, unread, inq, peer, wrShut>>
  <2>1. Broken'
    BY <1>4 DEF Broken
  <2>2. DeliveredInOrder'
    BY <1>1, <1>4, <2>1, PrefixGrows DEF DataInv, DeliveredInOrder
  <2> QED BY <1>1, <1>2, <1>4, <2>2
          DEF DataInv, WriteInterest, FinAfterData, ReadGone, Early, connVars
<1>5. CASE /\ "write" \notin events /\ out = <<>> /\ ~Broken
           /\ \E n \in Written(d) :
                 /\ wire' = wire \o SubSeq(d, 1, n)
                 /\ unread' = unread + n
                 /\ IF n = Len(d)
                    THEN QueueWriteComplete /\ UNCHANGED <<events, index, out, flush>>
                    ELSE /\ out' = SubSeq(d, n + 1, Len(d))
                         /\ Update(events \cup {"write"})
                         /\ flush' = TRUE
                         /\ UNCHANGED pending
           /\ sent' = sent \o d
           /\ UNCHANGED <<state, wcc, inq, peer, sockErr, wrShut>>
  <2>1. PICK n \in Written(d) :
                 /\ wire' = wire \o SubSeq(d, 1, n)
                 /\ IF n = Len(d)
                    THEN UNCHANGED <<events, index, out, flush>>
                    ELSE /\ out' = SubSeq(d, n + 1, Len(d))
                         /\ Update(events \cup {"write"})
    BY <1>5, Zenon
  <2>2. n \in 0 .. Len(d)
    BY <1>1, WrittenType
  <2>3. /\ SubSeq(d, 1, n) \in Seq(Octets) /\ SubSeq(d, n + 1, Len(d)) \in Seq(Octets)
        /\ SubSeq(d, 1, n) \o SubSeq(d, n + 1, Len(d)) = d
        /\ n = Len(d) => SubSeq(d, n + 1, Len(d)) = <<>>
        /\ n # Len(d) => SubSeq(d, n + 1, Len(d)) # <<>>
    <3>1. n # Len(d) => n < Len(d)
      BY <2>2
    <3> QED BY <2>2, <3>1, CutAndJoin, Zenon
  <2>4. out' = SubSeq(d, n + 1, Len(d))
    BY <1>5, <2>1, <2>3, Zenon
  <2>5. sent' = wire' \o out'
    <3>1. sent = wire
      BY <1>1, <1>5 DEF DataInv, DeliveredInOrder
    <3>2. (wire \o SubSeq(d, 1, n)) \o SubSeq(d, n + 1, Len(d)) = wire \o d
      BY <1>1, <2>2, CutAfter, Zenon
    <3> QED BY <1>5, <2>1, <2>4, <3>1, <3>2, Zenon
  <2>6. DeliveredInOrder'
    <3>1. wire' \in Seq(Octets) /\ out' \in Seq(Octets)
      BY <1>1, <2>1, <2>3, <2>4, JoinType, Zenon
    <3> QED BY <2>5, <3>1, PrefixOfConcat DEF DeliveredInOrder
  <2>7. "write" \in events' <=> out' # <<>>
    BY <1>5, <2>1, <2>3, <2>4 DEF Update
  <2>8. "read" \in events' <=> "read" \in events
    BY <2>1 DEF Update
  <2>9. ~wrShut'
    BY <1>5 DEF Broken
  <2> QED BY <1>1, <1>2, <1>5, <2>6, <2>7, <2>8, <2>9
          DEF DataInv, WriteInterest, FinAfterData, ReadGone, Early
<1>6. CASE /\ "write" \in events \/ out # <<>>
           /\ out' = out \o d
           /\ IF "write" \in events THEN UNCHANGED <<events, index>>
                                    ELSE Update(events \cup {"write"})
           /\ sent' = sent \o d
           /\ UNCHANGED <<state, wcc, pending, sockVars>>
  <2>1. out # <<>> /\ out' # <<>>
    <3>1. out # <<>>
      BY <1>1, <1>6 DEF DataInv, WriteInterest
    <3> QED BY <1>1, <1>6, <3>1
  <2>2. /\ "write" \in events'
        /\ "read" \in events' <=> "read" \in events
    BY <1>6 DEF Update
  <2>3. UNCHANGED <<wire, peer, wrShut>>
    BY <1>6 DEF sockVars
  <2>4. DeliveredInOrder'
    <3>1. Len(wire') <= Len(sent') /\ wire' = SubSeq(sent', 1, Len(wire'))
      BY <1>1, <1>6, <2>3, PrefixGrows DEF DataInv, DeliveredInOrder
    <3>2. ~Broken => sent' = wire' \o out'
      <4>1. (wire \o out) \o d = wire \o (out \o d)
        BY <1>1
      <4> QED BY <1>1, <1>6, <2>3, <4>1, Zenon DEF DataInv, DeliveredInOrder
    <3>3. Broken => Broken'
      BY <2>3 DEF Broken
    <3> QED BY <3>1, <3>2, <3>3 DEF DeliveredInOrder
  <2>5. WriteInterest'
    BY <2>1, <2>2 DEF WriteInterest
  <2> QED BY <1>1, <1>2, <1>6, <2>1, <2>2, <2>3, <2>4, <2>5
          DEF DataInv, FinAfterData, ReadGone, Early
<1> QED BY <1>3, <1>4, <1>5, <1>6, Zenon DEF SendInLoop

\* shutdown(SHUT_WR) is skipped while the channel waits for POLLOUT.
LEMMA ShutdownData ==
    ASSUME IInv, ShutdownInLoop, UNCHANGED <<events, out, sent, cbs>>,
           Early' <=> Early
    PROVE  DataInv'
<1>1. TypeOK /\ DataInv /\ Started
  BY DEF IInv
<1>2. Down <=> Down'
  BY DEF Down
<1>3. (wrShut => wrShut') /\ UNCHANGED <<wire, peer>>
  BY Zenon DEF ShutdownInLoop
<1>4. DeliveredInOrder'
  <2>1. Broken => Broken'
    BY <1>3 DEF Broken
  <2> QED BY <1>1, <1>3, <2>1 DEF DataInv, DeliveredInOrder
<1>5. FinAfterData'
  <2>1. CASE wrShut
    BY <1>1, <1>2, <2>1 DEF DataInv, FinAfterData
  <2>2. CASE ~wrShut /\ wrShut'
    <3>1. "write" \notin events
      BY <2>2, Zenon DEF ShutdownInLoop
    <3>2. out = <<>> \/ Down
      BY <1>1, <3>1 DEF DataInv, WriteInterest, ReadGone, Started
    <3> QED BY <1>2, <3>2 DEF FinAfterData
  <2> QED BY <2>1, <2>2 DEF FinAfterData
<1> QED BY <1>1, <1>2, <1>4, <1>5 DEF DataInv, WriteInterest, ReadGone

----------------------------------------------------------------------------
(* Every step preserves the invariant on the data.                         *)

LEMMA LoopStepData ==
    ASSUME IInv, LoopStep
    PROVE  DataInv'
<1>0. TypeOK /\ DataInv /\ Started
  BY DEF IInv
<1>1. CASE Poll
  BY <1>1, QuietData DEF Poll, Quiet, Early, connVars, sockVars, histVars
<1>2. CASE EventClose
  BY <1>2, HandleCloseData DEF EventClose
<1>3. CASE EventError
  BY <1>3, QuietData DEF EventError, Quiet, Early, connVars, histVars
<1>4. CASE EventRead
  <2>1. CASE /\ UNCHANGED <<connVars, wire, peer, wrShut, histVars>>
    BY <2>1, QuietData DEF Quiet, Early, connVars, histVars
  <2>2. CASE HandleClose
    BY <2>2, HandleCloseData
  <2> QED BY <1>4, <2>1, <2>2 DEF EventRead
<1>5. CASE EventWrite
  BY <1>5, HandleWriteData DEF EventWrite
<1>6. CASE Swap
  BY <1>6, QuietData DEF Swap, Quiet, Early, connVars, sockVars, histVars
<1>7. CASE BatchDone
  BY <1>7, QuietData DEF BatchDone, Quiet, Early, connVars, sockVars, histVars
<1>8. CASE Flush
  BY <1>8, HandleWriteData DEF Flush
<1>9. CASE RunConnectEstablished
  <2>1. UNCHANGED <<out, sent, wire, peer, wrShut>>
    BY <1>9, Zenon DEF RunConnectEstablished, sockVars
  <2>2. CASE state = "kConnecting"
    <3>1. /\ events' = events \cup {"read"} /\ cbs' = Append(cbs, "up")
          /\ out = <<>> /\ "write" \notin events
      BY <1>0, <1>9, <2>2
      DEF RunConnectEstablished, Update, Started, Early, DataInv, WriteInterest
    <3> QED BY <1>0, <2>1, <3>1
            DEF DataInv, DeliveredInOrder, Broken, WriteInterest, FinAfterData,
                ReadGone
  <2>3. CASE state # "kConnecting"
    <3>1. UNCHANGED <<state, events, cbs>>
      BY <1>9, <2>3, Zenon DEF RunConnectEstablished
    <3> QED BY <2>1, <3>1, QuietData DEF Quiet, Early
  <2> QED BY <2>2, <2>3
<1>10. CASE RunSendInLoop
  <2>1. Head(batch).data \in Seq(Octets) /\ UNCHANGED cbs
    BY <1>0, <1>10, RunningType, Zenon DEF RunSendInLoop, Functor
  <2>2. ~Early
    BY <1>0, <1>10, NoSendTail, Zenon
    DEF RunSendInLoop, Running, Started, TypeOK, LoopTypeOK
  <2>3. CASE SendInLoop(Head(batch).data)
    BY <2>1, <2>2, <2>3, SendInLoopData
  <2>4. CASE UNCHANGED <<connVars, pending, flush, sockVars, sent>>
    BY <2>1, <2>4, QuietData DEF Quiet, Early, connVars, sockVars
  <2> QED BY <1>10, <2>3, <2>4, Zenon DEF RunSendInLoop
<1>11. CASE RunShutdownInLoop
  <2>1. UNCHANGED <<state, events, out, sent, cbs>>
    BY <1>11, Zenon DEF RunShutdownInLoop, connVars, histVars
  <2>2. CASE ShutdownInLoop
    BY <2>1, <2>2, ShutdownData DEF Early
  <2>3. CASE UNCHANGED sockVars
    BY <2>1, <2>3, QuietData DEF Quiet, Early, sockVars
  <2> QED BY <1>11, <2>2, <2>3, Zenon DEF RunShutdownInLoop
<1>12. CASE RunForceCloseInLoop
  <2>1. CASE HandleClose
    BY <2>1, HandleCloseData
  <2>2. CASE UNCHANGED <<connVars, srvVars, pending, sockVars, histVars, abort>>
    BY <2>2, QuietData DEF Quiet, Early, connVars, sockVars, histVars
  <2> QED BY <1>12, <2>1, <2>2, Zenon DEF RunForceCloseInLoop
<1>13. CASE RunHandleWrite
  BY <1>13, HandleWriteData DEF RunHandleWrite
<1>14. CASE RunWriteComplete
  BY <1>14, QuietData DEF RunWriteComplete, Quiet, Early, connVars, sockVars,
                          histVars
<1>15. CASE RunConnectDestroyed
  <2>1. UNCHANGED <<out, sent, wire, peer, wrShut>>
    BY <1>15, Zenon DEF RunConnectDestroyed, sockVars
  <2>2. CASE UNCHANGED <<state, events, index, cbs>>
    BY <2>1, <2>2, QuietData DEF Quiet, Early
  <2>3. CASE /\ ~(events # {} /\ state # "kConnected")
             /\ state' = IF state = "kConnected" THEN "kDisconnected" ELSE state
             /\ cbs' = IF state = "kConnected" THEN Append(cbs, "down") ELSE cbs
             /\ events' = {}
    <3>1. DeliveredInOrder' /\ WriteInterest'
      BY <1>0, <2>1, <2>3
      DEF DataInv, DeliveredInOrder, Broken, WriteInterest
    <3>2. CASE state = "kConnected"
      <4>1. Down'
        BY <1>0, <2>3, <3>2, DownAppended
      <4> QED BY <3>1, <4>1 DEF DataInv, FinAfterData, ReadGone
    <3>3. CASE state # "kConnected"
      <4>1. UNCHANGED <<state, events, cbs>>
        BY <2>3, <3>3
      <4> QED BY <2>1, <4>1, QuietData DEF Quiet, Early
    <3> QED BY <3>2, <3>3
  <2> QED BY <1>15, <2>2, <2>3, Zenon DEF RunConnectDestroyed
<1> QED
  BY <1>1, <1>2, <1>3, <1>4, <1>5, <1>6, <1>7, <1>8, <1>9, <1>10, <1>11,
     <1>12, <1>13, <1>14, <1>15, Zenon DEF LoopStep

LEMMA OtherStepData ==
    ASSUME IInv, UserStep \/ (\E t \in Threads : ThreadStep(t)) \/ BaseStep \/ PeerStep
    PROVE  DataInv'
<1>0. TypeOK /\ DataInv /\ Started
  BY DEF IInv
<1>1. ASSUME NEW k \in 1 .. MaxBytes, LoopSend(k) PROVE DataInv'
  <2>1. Data("loop", k) \in Seq(Octets)
    <3>1. "loop" \in Callers /\ k \in Nat /\ CanSend("loop", k)
      BY <1>1 DEF LoopSend, Callers
    <3>2. TypeOK
      BY <1>0
    <3> QED BY <3>1, <3>2, DataType DEF TypeOK
  <2> QED BY <1>1, <2>1, SendInLoopData DEF LoopSend, Early
<1>2. CASE LoopShutdown
  BY <1>2, ShutdownData DEF LoopShutdown, Early, histVars
<1>3. CASE LoopForceClose
  BY <1>3, QuietData DEF LoopForceClose, Quiet, Early, sockVars, histVars
<1>4. ASSUME NEW c \in Callbacks, SetWriteCompleteCallback(c) PROVE DataInv'
  BY <1>4, QuietData DEF SetWriteCompleteCallback, Quiet, Early, sockVars, histVars
<1>5. CASE CallbackReturns
  BY <1>5, QuietData DEF CallbackReturns, Quiet, Early, connVars, sockVars, histVars
<1>6. ASSUME NEW t \in Threads, NEW op, NEW from, Begin(t, op, from) PROVE DataInv'
  BY <1>6, QuietData DEF Begin, Quiet, Early, connVars, sockVars, histVars
<1>7. ASSUME NEW t \in Threads, NEW k, NEW kind, SendQueue(t, k, kind) PROVE DataInv'
  BY <1>7, QuietData DEF SendQueue, Quiet, Early, connVars, sockVars, histVars
<1>8. ASSUME NEW t \in Threads, SetDisconnecting(t) PROVE DataInv'
  <2>1. ~Early
    BY <1>0, <1>8 DEF SetDisconnecting, Started
  <2> QED BY <1>8, <2>1, QuietData DEF SetDisconnecting, Quiet, Early, sockVars,
                                       histVars
<1>9. ASSUME NEW t \in Threads, QueueClose(t) PROVE DataInv'
  BY <1>9, QuietData DEF QueueClose, Quiet, Early, connVars, sockVars, histVars
<1>10. ASSUME NEW t \in Threads, Release(t) PROVE DataInv'
  BY <1>10, QuietData DEF Release, Quiet, Early, connVars, sockVars, histVars
<1>11. CASE NewConnection
  <2>1. /\ UNCHANGED <<out, sent, wire, peer, wrShut>>
        /\ state = "none" /\ out = <<>>
    BY <1>0, <1>11 DEF NewConnection, sockVars, Started, Early
  <2>2. CASE OneLoop
    <3>1. events' = {"read"}
      BY <1>11, <2>2 DEF NewConnection, Update
    <3> QED BY <1>0, <2>1, <3>1
            DEF DataInv, DeliveredInOrder, Broken, WriteInterest, FinAfterData,
                ReadGone
  <2>3. CASE ~OneLoop
    <3>1. state' = "kConnecting" /\ UNCHANGED <<events, cbs>>
      BY <1>11, <2>3, Zenon DEF NewConnection
    <3> QED BY <2>1, <3>1, QuietData DEF Quiet, Early
  <2> QED BY <2>2, <2>3
<1>12. CASE RemoveConnectionInLoop
  BY <1>12, QuietData, Zenon DEF RemoveConnectionInLoop, Quiet, Early, connVars,
                                 sockVars, histVars
<1>13. CASE DestroyServer
  <2>1. UNCHANGED <<connVars, sockVars, histVars>>
    BY <1>13 DEF DestroyServer
  <2> QED BY <2>1, QuietData DEF Quiet, Early, connVars, sockVars, histVars
<1>14. CASE PeerStep
  <2>1. /\ UNCHANGED <<connVars, wire, wrShut, histVars>>
        /\ peer = "reset" => peer' = "reset"
    BY <1>14 DEF PeerStep, PeerReads, PeerSends, PeerCloses, PeerResets
  <2> QED BY <2>1, QuietData DEF Quiet, Early, connVars, histVars
<1> QED
  BY <1>1, <1>2, <1>3, <1>4, <1>5, <1>6, <1>7, <1>8, <1>9, <1>10, <1>11, <1>12,
     <1>13, <1>14, Zenon
  DEF UserStep, ThreadStep, SendCheck, ShutdownCheck, ForceCloseCheck, BaseStep

----------------------------------------------------------------------------
(* Every step preserves Started.                                           *)

\* It is enough that the step leaves the data and the threads alone and queues
\* no send.
LEMMA StartedFrame ==
    ASSUME IInv, Early' => Early,
           Early => /\ UNCHANGED <<out, pc>>
                    /\ NoSend(pending') /\ NoSend(batch')
    PROVE  Started'
BY DEF IInv, Started, NoSend, Early

LEMMA NoSendQueue ==
    ASSUME IInv, Early, NEW n \in FunctorNames \ {"sendInLoop"}, Queue(Fn(n))
    PROVE  NoSend(pending')
<1>1. Fn(n) \in Functor /\ Fn(n).f # "sendInLoop"
  BY FnType DEF Fn
<1>2. pending \in Seq(Functor) /\ NoSend(pending)
  BY DEF IInv, TypeOK, ConnTypeOK, Started
<1> QED BY <1>1, <1>2, NoSendAppend DEF Queue

\* Before connectEstablished neither handleClose nor handleWrite does anything.
LEMMA HandleCloseEarly ==
    ASSUME IInv, HandleClose
    PROVE  /\ Early' => Early
           /\ Early => UNCHANGED <<state, out, pending>>
BY Zenon DEF HandleClose, Crash, Early, connVars

LEMMA HandleWriteEarly ==
    ASSUME IInv, HandleWrite
    PROVE  /\ Early' => Early
           /\ Early => UNCHANGED <<state, out, pending>>
<1>1. CASE UNCHANGED <<connVars, srvVars, pending, sockVars, histVars, abort>>
  BY <1>1 DEF Early, connVars
<1>2. CASE HandleClose
  BY <1>2, HandleCloseEarly
<1>3. CASE "write" \in events /\ UNCHANGED state
  BY <1>3 DEF IInv, DataInv, WriteInterest, Started, Early
<1> QED BY <1>1, <1>2, <1>3, Zenon DEF HandleWrite

LEMMA LoopStepStarted ==
    ASSUME IInv, LoopStep
    PROVE  Started'
<1>0. /\ TypeOK /\ Started
      /\ pending \in Seq(Functor) /\ batch \in Seq(Functor)
  BY DEF IInv, TypeOK, ConnTypeOK, LoopTypeOK
<1>1. CASE Poll \/ EventError \/ BatchDone
  <2>1. UNCHANGED <<state, out, pc, pending, batch>>
    BY <1>1 DEF Poll, EventError, BatchDone, connVars, thrVars
  <2> QED BY <1>0, <2>1, StartedFrame DEF Started, Early, NoSend
<1>2. CASE EventClose
  <2>1. HandleClose /\ UNCHANGED <<pc, batch>>
    BY <1>2 DEF EventClose, thrVars
  <2> QED BY <1>0, <2>1, HandleCloseEarly, StartedFrame DEF Started, NoSend
<1>3. CASE EventRead
  <2>1. UNCHANGED <<pc, batch>>
    BY <1>3 DEF EventRead, thrVars
  <2>2. CASE HandleClose
    BY <1>0, <2>1, <2>2, HandleCloseEarly, StartedFrame DEF Started, NoSend
  <2>3. CASE UNCHANGED <<connVars, pending>>
    BY <1>0, <2>1, <2>3, StartedFrame DEF Started, Early, NoSend, connVars
  <2> QED BY <1>3, <2>2, <2>3 DEF EventRead
<1>4. CASE EventWrite \/ Flush
  <2>1. HandleWrite /\ UNCHANGED <<pc, batch>>
    BY <1>4 DEF EventWrite, Flush, thrVars
  <2> QED BY <1>0, <2>1, HandleWriteEarly, StartedFrame DEF Started, NoSend
<1>5. CASE Swap
  <2>1. UNCHANGED <<state, out, pc>> /\ batch' = pending /\ pending' = <<>>
    BY <1>5 DEF Swap, connVars, thrVars
  <2>2. NoSend(pending')
    BY <2>1 DEF NoSend
  <2> QED BY <1>0, <2>1, <2>2, StartedFrame DEF Started, Early, NoSend
<1>6. ASSUME NEW name, Running(name)
      PROVE  /\ NoSend(batch) => NoSend(batch')
             /\ NoSend(batch) => name # "sendInLoop"
  BY <1>0, <1>6, NoSendTail DEF Running
<1>7. CASE RunConnectEstablished
  <2>1. UNCHANGED <<out, pc, pending>> /\ Running("connectEstablished")
    BY <1>7, Zenon DEF RunConnectEstablished
  <2>2. Early' => Early
    BY <1>7, Zenon DEF RunConnectEstablished, Early
  <2>3. NoSend(pending) => NoSend(pending')
    BY <2>1 DEF NoSend
  <2> QED BY <1>0, <1>6, <2>1, <2>2, <2>3, StartedFrame DEF Started
<1>8. CASE RunSendInLoop
  <2>1. ~Early
    BY <1>0, <1>6, <1>8, Zenon DEF RunSendInLoop, Started
  <2>2. UNCHANGED state
    BY <1>8, Zenon DEF RunSendInLoop, SendInLoop, connVars
  <2> QED BY <2>1, <2>2 DEF Started, Early
<1>9. CASE RunShutdownInLoop \/ RunWriteComplete
  <2>1. /\ UNCHANGED <<state, out, pc, pending>>
        /\ Running("shutdownInLoop") \/ Running("writeComplete")
    BY <1>9, Zenon DEF RunShutdownInLoop, RunWriteComplete, connVars, thrVars
  <2>2. NoSend(pending) => NoSend(pending')
    BY <2>1 DEF NoSend
  <2> QED BY <1>0, <1>6, <2>1, <2>2, StartedFrame DEF Started, Early
<1>10. CASE RunForceCloseInLoop
  <2>1. UNCHANGED pc /\ Running("forceCloseInLoop")
    BY <1>10 DEF RunForceCloseInLoop, thrVars
  <2>2. /\ Early' => Early
        /\ Early => UNCHANGED <<out, pending>>
    BY <1>10, HandleCloseEarly DEF RunForceCloseInLoop, connVars, Early
  <2>3. Early => (NoSend(pending) => NoSend(pending'))
    BY <2>2 DEF NoSend
  <2> QED BY <1>0, <1>6, <2>1, <2>2, <2>3, StartedFrame DEF Started
<1>11. CASE RunHandleWrite
  <2>1. UNCHANGED pc /\ Running("handleWrite") /\ HandleWrite
    BY <1>11 DEF RunHandleWrite, thrVars
  <2>2. Early => (NoSend(pending) => NoSend(pending'))
    BY <2>1, HandleWriteEarly DEF NoSend
  <2> QED BY <1>0, <1>6, <2>1, <2>2, HandleWriteEarly, StartedFrame DEF Started
<1>12. CASE RunConnectDestroyed
  <2>1. UNCHANGED <<out, pc, pending>> /\ Running("connectDestroyed")
    BY <1>12, Zenon DEF RunConnectDestroyed, thrVars
  <2>2. Early' => Early
    BY <1>12, Zenon DEF RunConnectDestroyed, Early
  <2>3. NoSend(pending) => NoSend(pending')
    BY <2>1 DEF NoSend
  <2> QED BY <1>0, <1>6, <2>1, <2>2, <2>3, StartedFrame DEF Started
<1> QED
  BY <1>1, <1>2, <1>3, <1>4, <1>5, <1>7, <1>8, <1>9, <1>10, <1>11, <1>12, Zenon
  DEF LoopStep

LEMMA OtherStepStarted ==
    ASSUME IInv, UserStep \/ (\E t \in Threads : ThreadStep(t)) \/ BaseStep \/ PeerStep
    PROVE  Started'
<1>0. /\ TypeOK /\ Started
      /\ pending \in Seq(Functor) /\ batch \in Seq(Functor)
  BY DEF IInv, TypeOK, ConnTypeOK, LoopTypeOK
<1>1. CASE (\E k \in 1 .. MaxBytes : LoopSend(k)) \/ LoopShutdown \/ LoopForceClose
  <2>1. ~Early'
    BY <1>1 DEF LoopSend, LoopShutdown, LoopForceClose, SendInLoop, Early, connVars
  <2> QED BY <2>1 DEF Started
<1>2. CASE (\E c \in Callbacks : SetWriteCompleteCallback(c)) \/ CallbackReturns
  <2>1. UNCHANGED <<state, out, pc, pending, batch>>
    BY <1>2 DEF SetWriteCompleteCallback, CallbackReturns, connVars, loopVars, thrVars
  <2> QED BY <1>0, <2>1, StartedFrame, Zenon DEF Started, Early, NoSend
<1>3. ASSUME NEW t \in Threads, SendCheck(t) \/ ShutdownCheck(t) \/ ForceCloseCheck(t)
      PROVE  Started'
  <2>1. ~Early'
    BY <1>3 DEF SendCheck, ShutdownCheck, ForceCloseCheck, Begin, Early, connVars
  <2> QED BY <2>1 DEF Started
<1>4. ASSUME NEW t \in Threads, NEW k, NEW kind, SendQueue(t, k, kind)
      PROVE  Started'
  <2>1. ~Early'
    BY <1>0, <1>4 DEF SendQueue, Started, Early, connVars
  <2> QED BY <2>1 DEF Started
<1>5. ASSUME NEW t \in Threads, SetDisconnecting(t) PROVE Started'
  <2>1. ~Early'
    BY <1>5 DEF SetDisconnecting, Early
  <2> QED BY <2>1 DEF Started
<1>6. ASSUME NEW t \in Threads, QueueClose(t) PROVE Started'
  <2>1. ~Early'
    BY <1>0, <1>6 DEF QueueClose, Started, Early, connVars
  <2> QED BY <2>1 DEF Started
<1>7. ASSUME NEW t \in Threads, Release(t) PROVE Started'
  <2>1. UNCHANGED <<state, out, pc, pending, batch>>
    BY <1>7 DEF Release, connVars, loopVars
  <2> QED BY <1>0, <2>1, StartedFrame DEF Started, Early, NoSend
<1>8. CASE NewConnection
  <2>1. Early /\ UNCHANGED <<out, pc, batch>>
    BY <1>8 DEF NewConnection, Early
  <2>2. CASE OneLoop
    <3>1. ~Early'
      BY <1>8, <2>2 DEF NewConnection, Early
    <3> QED BY <3>1 DEF Started
  <2>3. CASE ~OneLoop
    <3>1. Queue(Fn("connectEstablished"))
      BY <1>8, <2>3, Zenon DEF NewConnection
    <3>2. NoSend(pending')
      BY <2>1, <3>1, NoSendQueue DEF FunctorNames
    <3> QED BY <1>0, <2>1, <3>2, StartedFrame DEF Started, NoSend
  <2> QED BY <2>2, <2>3
<1>9. CASE RemoveConnectionInLoop \/ DestroyServer
  <2>1. /\ UNCHANGED <<state, out, pc, batch>>
        /\ Queue(Fn("connectDestroyed")) \/ UNCHANGED pending
    BY <1>9 DEF RemoveConnectionInLoop, DestroyServer, connVars, thrVars
  <2>2. Early => NoSend(pending')
    <3>1. CASE Queue(Fn("connectDestroyed"))
      BY <3>1, NoSendQueue DEF FunctorNames
    <3>2. CASE UNCHANGED pending
      BY <1>0, <3>2 DEF Started, NoSend
    <3> QED BY <2>1, <3>1, <3>2
  <2> QED BY <1>0, <2>1, <2>2, StartedFrame DEF Started, Early, NoSend
<1>10. CASE PeerStep
  <2>1. UNCHANGED <<state, out, pc, pending, batch>>
    BY <1>10, Zenon DEF PeerStep, PeerReads, PeerSends, PeerCloses, PeerResets, connVars,
                 loopVars, thrVars
  <2> QED BY <1>0, <2>1, StartedFrame DEF Started, Early, NoSend
<1> QED
  BY <1>1, <1>2, <1>3, <1>4, <1>5, <1>6, <1>7, <1>8, <1>9, <1>10, Zenon
  DEF UserStep, ThreadStep, BaseStep

----------------------------------------------------------------------------
LEMMA InitInv == Init => IInv
<1> SUFFICES ASSUME Init PROVE IInv
  OBVIOUS
<1>1. TypeOK
  BY InitType
<1>2. DeliveredInOrder
  <2>1. SubSeq(<<>>, 1, 0) = <<>> /\ <<>> \o <<>> = <<>>
    OBVIOUS
  <2> QED BY <2>1 DEF Init, DeliveredInOrder
<1>3. WriteInterest /\ FinAfterData /\ ReadGone
  BY DEF Init, WriteInterest, FinAfterData, ReadGone, Early
<1>4. Started
  BY DEF Init, Started, NoSend
<1> QED BY <1>1, <1>2, <1>3, <1>4 DEF IInv, DataInv

LEMMA StepInv == IInv /\ [Next]_vars => IInv'
<1> SUFFICES ASSUME IInv, [Next]_vars PROVE IInv'
  OBVIOUS
<1>1. TypeOK'
  BY TypeStep DEF IInv
<1>2. CASE UNCHANGED vars
  <2>1. UNCHANGED <<state, events, out, wire, sent, cbs, wrShut, peer, pc,
                    pending, batch>>
    BY <1>2 DEF vars, connVars, loopVars, thrVars, sockVars, histVars
  <2>2. DataInv'
    BY <2>1, QuietData DEF Quiet, Early
  <2>3. Started'
    BY <2>1, Zenon DEF IInv, Started, Early, NoSend
  <2> QED BY <1>1, <2>2, <2>3 DEF IInv
<1>3. CASE Next
  <2>1. \/ LoopStep
        \/ UserStep \/ (\E t \in Threads : ThreadStep(t)) \/ BaseStep \/ PeerStep
    BY <1>3, Zenon DEF Next
  <2>2. DataInv'
    BY <2>1, LoopStepData, OtherStepData, Zenon
  <2>3. Started'
    BY <2>1, LoopStepStarted, OtherStepStarted, Zenon
  <2> QED BY <1>1, <2>2, <2>3 DEF IInv
<1> QED BY <1>2, <1>3

LEMMA InvHolds == Spec => []IInv
BY InitInv, StepInv, PTL DEF Spec

\* However the direct writes of sendInLoop, the appends to the output buffer and
\* the partial writes of handleWrite interleave with functors and events, the
\* kernel receives a prefix of what was sent and the output buffer holds the
\* rest; for any number of threads, any buffer size and any amount of data.
THEOREM DeliveryCorrect == Spec => []DeliveredInOrder
<1>1. IInv => DeliveredInOrder
  BY DEF IInv, DataInv
<1> QED BY <1>1, InvHolds, PTL

\* An enabled channel waits for POLLOUT exactly while data is buffered, whichever
\* of sendInLoop and handleWrite ran last.
THEOREM InterestCorrect == Spec => []WriteInterest
<1>1. IInv => WriteInterest
  BY DEF IInv, DataInv
<1> QED BY <1>1, InvHolds, PTL

\* Neither shutdownInLoop nor the end of handleWrite sends the FIN ahead of
\* buffered data, on a connection that has not been closed.
THEOREM FinCorrect == Spec => []FinAfterData
<1>1. IInv => FinAfterData
  BY DEF IInv, DataInv
<1> QED BY <1>1, InvHolds, PTL
----------------------------------------------------------------------------
(* The life of a connection that only its own loop uses.                   *)

\* Functors called n in a queue; the queue p and the batch b hold none, or one.
Has(q, n) == \E i \in 1 .. Len(q) : q[i].f = n
Once(q, n) == \A i, j \in 1 .. Len(q) : q[i].f = n /\ q[j].f = n => i = j
Nowhere(p, b, n) == ~Has(p, n) /\ ~Has(b, n)
OnePlace(p, b, n) ==
    \/ Has(p, n) /\ Once(p, n) /\ ~Has(b, n)
    \/ Has(b, n) /\ Once(b, n) /\ ~Has(p, n)

\* Where the loop is, and what it has left to do there.
Rounds ==
    /\ phase \in {"poll", "events"} \/ (phase = "user" /\ ret = "events") => batch = <<>>
    /\ phase \in {"poll", "functors"} \/ (phase = "user" /\ ret = "functors")
          => revents = {}
    /\ phase = "user" => "IN" \notin revents /\ "HUP" \notin revents
    /\ ~("IN" \in revents /\ "HUP" \in revents)
    /\ flush => phase \in {"user", "functors"}

\* Before connectEstablished, while the connection is up, and after handleClose:
\* removeConnectionInLoop is queued, then connectDestroyed, and then nothing is.
Unborn ==
    /\ events = {} /\ index = "kNew" /\ cbs = <<>> /\ basePending = 0 /\ revents = {}
    /\ Nowhere(pending, batch, "connectDestroyed")

Up ==
    /\ "read" \in events /\ index = "kAdded" /\ cbs = <<"up">> /\ inMap = TRUE
    /\ basePending = 0
    /\ Nowhere(pending, batch, "connectEstablished")
    /\ Nowhere(pending, batch, "connectDestroyed")

Closed ==
    /\ events = {} /\ cbs = <<"up", "down">> /\ "IN" \notin revents /\ "HUP" \notin revents
    /\ Nowhere(pending, batch, "connectEstablished")
    /\ \/ /\ inMap = TRUE /\ basePending = 1 /\ index = "kDeleted"
          /\ Nowhere(pending, batch, "connectDestroyed")
       \/ /\ inMap = FALSE /\ basePending = 0 /\ index = "kDeleted"
          /\ OnePlace(pending, batch, "connectDestroyed")
       \/ /\ inMap = FALSE /\ basePending = 0 /\ index = "kNew"
          /\ Nowhere(pending, batch, "connectDestroyed")

Stages ==
    /\ state = "none"
          => Unborn /\ inMap = FALSE /\ Nowhere(pending, batch, "connectEstablished")
    /\ state = "kConnecting"
          => Unborn /\ inMap = TRUE /\ OnePlace(pending, batch, "connectEstablished")
    /\ state \in {"kConnected", "kDisconnecting"} => Up
    /\ state = "kDisconnected" => Closed

\* No other thread has queued a call.
NoCalls == Nowhere(pending, batch, "sendInLoop") /\ Nowhere(pending, batch, "shutdownInLoop")

Life == abort = "no" /\ server = TRUE /\ Rounds /\ Stages /\ NoCalls

\* Queues that grow, that are run, that are swapped.
LEMMA HasAppend ==
    ASSUME NEW q \in Seq(Functor), NEW fn \in Functor, NEW n
    PROVE  /\ Has(Append(q, fn), n) <=> Has(q, n) \/ fn.f = n
           /\ Once(q, n) /\ (fn.f # n \/ ~Has(q, n)) => Once(Append(q, fn), n)
<1>1. PICK r : r = Append(q, fn)
  BY Zenon
<1>2. /\ Len(q) \in Nat /\ Len(r) = Len(q) + 1 /\ r[Len(q) + 1] = fn
      /\ \A i \in 1 .. Len(q) : r[i] = q[i]
  BY <1>1
<1>3. \A i \in 1 .. Len(r) : i \in 1 .. Len(q) \/ i = Len(q) + 1
  BY <1>2
<1>4. \A i \in 1 .. Len(q) : i \in 1 .. Len(r)
  BY <1>2
<1>5. Has(r, n) <=> Has(q, n) \/ fn.f = n
  <2>1. ASSUME fn.f = n PROVE Has(r, n)
    <3>1. Len(q) + 1 \in 1 .. Len(r)
      BY <1>2
    <3> QED BY <1>2, <2>1, <3>1 DEF Has
  <2> QED BY <1>2, <1>3, <1>4, <2>1 DEF Has
<1>6. ASSUME Once(q, n), fn.f # n \/ ~Has(q, n) PROVE Once(r, n)
  <2> SUFFICES ASSUME NEW i \in 1 .. Len(r), NEW j \in 1 .. Len(r), r[i].f = n, r[j].f = n
               PROVE  i = j
    BY DEF Once
  <2>1. CASE fn.f # n
    BY <1>2, <1>3, <1>6, <2>1 DEF Once
  <2>2. CASE ~Has(q, n)
    BY <1>2, <1>3, <2>2 DEF Has
  <2> QED BY <1>6, <2>1, <2>2
<1> QED BY <1>1, <1>5, <1>6

LEMMA HasTail ==
    ASSUME NEW q \in Seq(Functor), q # <<>>, NEW n
    PROVE  /\ Has(q, n) <=> Has(Tail(q), n) \/ Head(q).f = n
           /\ Once(q, n) => Once(Tail(q), n)
           /\ Once(q, n) /\ Head(q).f = n => ~Has(Tail(q), n)
<1>1. PICK r, h : r = Tail(q) /\ h = Head(q)
  BY Zenon
<1>2. /\ Len(q) \in Nat /\ Len(q) >= 1 /\ Len(r) = Len(q) - 1 /\ h = q[1]
      /\ \A i \in 1 .. Len(r) : r[i] = q[i + 1]
  BY <1>1
<1>3. \A i \in 1 .. Len(r) : i + 1 \in 1 .. Len(q) /\ i + 1 # 1
  BY <1>2
<1>4. ASSUME NEW i \in 1 .. Len(q), i # 1 PROVE i - 1 \in 1 .. Len(r) /\ r[i - 1] = q[i]
  <2>1. i - 1 \in 1 .. Len(r) /\ (i - 1) + 1 = i
    BY <1>2, <1>4
  <2> QED BY <1>2, <2>1
<1>5. 1 \in 1 .. Len(q)
  BY <1>2
<1>6. Has(q, n) <=> Has(r, n) \/ h.f = n
  <2>1. ASSUME Has(q, n) PROVE Has(r, n) \/ h.f = n
    BY <1>2, <1>4, <2>1 DEF Has
  <2>2. ASSUME Has(r, n) PROVE Has(q, n)
    BY <1>2, <1>3, <2>2 DEF Has
  <2>3. ASSUME h.f = n PROVE Has(q, n)
    BY <1>2, <1>5, <2>3 DEF Has
  <2> QED BY <2>1, <2>2, <2>3
<1>7. ASSUME Once(q, n) PROVE Once(r, n)
  <2> SUFFICES ASSUME NEW i \in 1 .. Len(r), NEW j \in 1 .. Len(r), r[i].f = n, r[j].f = n
               PROVE  i = j
    BY DEF Once
  <2>1. i + 1 = j + 1
    BY <1>2, <1>3, <1>7, Zenon DEF Once
  <2> QED BY <2>1
<1>8. ASSUME Once(q, n), h.f = n, Has(r, n) PROVE FALSE
  BY <1>2, <1>3, <1>5, <1>8 DEF Once, Has
<1> QED BY <1>1, <1>6, <1>7, <1>8
\* The functors whose number matters, and changes of the queues that keep it.
Counted == {"connectEstablished", "connectDestroyed", "sendInLoop", "shutdownInLoop"}
Same(p, b, q, c) ==
    \A n \in Counted : /\ Nowhere(p, b, n) => Nowhere(q, c, n)
                       /\ OnePlace(p, b, n) => OnePlace(q, c, n)

LEMMA SameGrown ==
    ASSUME NEW p \in Seq(Functor), NEW b, NEW fn \in Functor, fn.f \notin Counted, NEW q,
           q = Append(p, fn)
    PROVE  Same(p, b, q, b)
<1>1. ASSUME NEW n \in Counted
      PROVE  (Has(q, n) <=> Has(p, n)) /\ (Once(p, n) => Once(q, n))
  BY HasAppend
<1> QED BY <1>1 DEF Same, Nowhere, OnePlace

LEMMA SameRun ==
    ASSUME NEW p, NEW b \in Seq(Functor), b # <<>>, Head(b).f \notin Counted, NEW c, c = Tail(b)
    PROVE  Same(p, b, p, c)
<1>1. ASSUME NEW n \in Counted
      PROVE  (Has(c, n) <=> Has(b, n)) /\ (Once(b, n) => Once(c, n))
  BY HasTail, Zenon
<1> QED BY <1>1 DEF Same, Nowhere, OnePlace

LEMMA SameBoth ==
    ASSUME NEW p, NEW b, NEW q, NEW c, NEW r, NEW d, Same(p, b, q, c), Same(q, c, r, d)
    PROVE  Same(p, b, r, d)
BY DEF Same

LEMMA SameKept == ASSUME NEW p, NEW b PROVE Same(p, b, p, b)
BY DEF Same

LEMMA HasNone == ASSUME NEW n PROVE ~Has(<<>>, n)
BY DEF Has

LEMMA SameSwapped == ASSUME NEW p, NEW e, e = <<>> PROVE Same(p, e, e, p)
<1>1. \A n \in Counted : ~Has(e, n)
  BY HasNone
<1> QED BY <1>1 DEF Same, Nowhere, OnePlace

\* A functor that is queued, one that runs.
LEMMA OneQueued ==
    ASSUME NEW p \in Seq(Functor), NEW b, NEW fn \in Functor, Nowhere(p, b, fn.f), NEW q,
           q = Append(p, fn)
    PROVE  OnePlace(q, b, fn.f)
<1>1. Once(p, fn.f)
  BY DEF Nowhere, Has, Once
<1>2. Has(q, fn.f) /\ Once(q, fn.f)
  BY <1>1, HasAppend DEF Nowhere
<1> QED BY <1>2 DEF Nowhere, OnePlace

LEMMA OneRuns ==
    ASSUME NEW p, NEW b \in Seq(Functor), b # <<>>, NEW n, Head(b).f = n, NEW c, c = Tail(b)
    PROVE  /\ ~Nowhere(p, b, n)
           /\ OnePlace(p, b, n) => Nowhere(p, c, n)
           /\ \A m : m # n /\ Nowhere(p, b, m) => Nowhere(p, c, m)
<1>1. Has(b, n) /\ (Once(b, n) => ~Has(c, n)) /\ \A m : Has(c, m) => Has(b, m)
  BY HasTail, Zenon
<1> QED BY <1>1 DEF Nowhere, OnePlace

\* A step that leaves the connection in its stage.
LEMMA SameStage ==
    ASSUME Life, Same(pending, batch, pending', batch'),
           UNCHANGED <<index, cbs, inMap, basePending>>,
           \/ state' = state
           \/ /\ state \in {"kConnected", "kDisconnecting"}
              /\ state' \in {"kConnected", "kDisconnecting"},
           events' = events \/ (state \in {"kConnected", "kDisconnecting"} /\ "read" \in events'),
           revents' \subseteq revents \/ state \in {"kConnected", "kDisconnecting"}
    PROVE  Stages' /\ NoCalls'
<1>1. /\ NoCalls'
      /\ \A n \in {"connectEstablished", "connectDestroyed"} :
            /\ Nowhere(pending, batch, n) => Nowhere(pending', batch', n)
            /\ OnePlace(pending, batch, n) => OnePlace(pending', batch', n)
  BY DEF Same, Counted, Life, NoCalls
<1>2. CASE state \in {"kConnected", "kDisconnecting"}
  <2>1. state' \in {"kConnected", "kDisconnecting"} /\ "read" \in events' /\ Up
    BY <1>2 DEF Life, Stages, Up
  <2>2. Up'
    BY <1>1, <2>1 DEF Up
  <2> QED BY <1>1, <2>1, <2>2 DEF Stages
<1>3. CASE state \notin {"kConnected", "kDisconnecting"}
  <2>1. state' = state /\ events' = events /\ revents' \subseteq revents
    BY <1>3
  <2>2. Unborn => Unborn'
    BY <1>1, <2>1 DEF Unborn
  <2>3. Closed => Closed'
    BY <1>1, <2>1 DEF Closed
  <2> QED BY <1>1, <1>3, <2>1, <2>2, <2>3 DEF Stages, Life
<1> QED BY <1>2, <1>3

\* The two calls of connectionCallback_.
LEMMA UpThenDown == Append(<<"up">>, "down") = <<"up", "down">>
<1>0. <<"up">> \in Seq({"up", "down"}) /\ <<"up", "down">> \in Seq({"up", "down"})
  OBVIOUS
<1>1. PICK s \in Seq({"up", "down"}), t \in Seq({"up", "down"}) :
         s = <<"up">> /\ t = <<"up", "down">>
  BY <1>0, Zenon
<1>2. Len(s) = 1 /\ s[1] = "up" /\ Len(t) = 2 /\ t[1] = "up" /\ t[2] = "down"
  BY <1>1
<1>3. PICK r : r = Append(s, "down")
  BY Zenon
<1>4. /\ r \in Seq({"up", "down"}) /\ Len(r) = Len(s) + 1 /\ r[Len(s) + 1] = "down"
      /\ \A i \in 1 .. Len(s) : r[i] = s[i]
  BY <1>3
<1>5. Len(r) = 2 /\ r[1] = "up" /\ r[2] = "down"
  BY <1>2, <1>4
<1>6. \A i \in 1 .. 2 : r[i] = t[i]
  BY <1>2, <1>5
<1>7. r = t
  BY <1>2, <1>4, <1>5, <1>6
<1> QED BY <1>1, <1>3, <1>7, Zenon

\* handleClose, in a step that may also have taken a functor off the batch.
LEMMA HandleCloseLife ==
    ASSUME TypeOK, Life, HandleClose, state \in {"kConnected", "kDisconnecting"},
           "IN" \notin revents', "HUP" \notin revents', Same(pending, batch, pending, batch')
    PROVE  Stages' /\ NoCalls' /\ abort' = "no" /\ server' = TRUE
<1>1. /\ state' = "kDisconnected" /\ events' = {} /\ index' = "kDeleted" /\ server' = TRUE
      /\ cbs' = <<"up", "down">> /\ CloseCallback
  <2>1. /\ state' = "kDisconnected" /\ Update({}) /\ cbs' = Append(cbs, "down") /\ CloseCallback
        /\ server' = server
    BY Zenon DEF HandleClose
  <2>2. index = "kAdded" /\ cbs = <<"up">> /\ server = TRUE
    BY DEF Life, Stages, Up
  <2> QED BY <2>1, <2>2, UpThenDown DEF Update
<1>2. /\ \A n \in Counted : Nowhere(pending, batch', n)
      /\ inMap = TRUE /\ basePending = 0 /\ abort = "no" /\ server = TRUE
  BY DEF Life, Stages, Up, NoCalls, Same, Counted
<1>3. CASE OneLoop
  <2>1. /\ inMap' = FALSE /\ pending' = Append(pending, Fn("connectDestroyed"))
        /\ basePending' = 0 /\ abort' = "no"
    BY <1>1, <1>2, <1>3 DEF CloseCallback, Queue
  <2>2. PICK p, q, b, fn : /\ p = pending /\ q = pending' /\ b = batch'
                           /\ fn = Fn("connectDestroyed")
    OBVIOUS
  <2>3. /\ fn \in Functor /\ fn.f = "connectDestroyed" /\ p \in Seq(Functor)
        /\ q = Append(p, fn)
    BY <2>1, <2>2, FnType DEF Fn, FunctorNames, TypeOK, ConnTypeOK
  <2>4. OnePlace(q, b, fn.f)
    BY <1>2, <2>2, <2>3, OneQueued, Zenon DEF Counted
  <2>5. ASSUME NEW n \in Counted, n # "connectDestroyed" PROVE Nowhere(q, b, n)
    BY <1>2, <2>2, <2>3, <2>5, HasAppend DEF Nowhere
  <2>6. Closed' /\ NoCalls'
    BY <1>1, <2>1, <2>2, <2>3, <2>4, <2>5 DEF Closed, NoCalls, Counted
  <2> QED BY <1>1, <2>1, <2>6 DEF Stages
<1>4. CASE ~OneLoop
  <2>1. basePending' = 0 + 1 /\ inMap' = TRUE /\ pending' = pending /\ abort' = "no"
    BY <1>1, <1>2, <1>4 DEF CloseCallback
  <2>2. Closed' /\ NoCalls'
    <3>1. \A n \in Counted : Nowhere(pending', batch', n)
      BY <1>2, <2>1, Zenon
    <3>2. basePending' = 1
      BY <2>1
    <3> QED BY <1>1, <2>1, <3>1, <3>2, Zenon DEF Closed, NoCalls, Counted
  <2> QED BY <1>1, <2>1, <2>2 DEF Stages
<1> QED BY <1>3, <1>4, Zenon

\* The callback that is queued when the output has gone.
LEMMA WriteCompleteSame ==
    ASSUME TypeOK, QueueWriteComplete, NEW b PROVE Same(pending, b, pending', b)
<1>1. CASE pending' = pending
  BY <1>1, SameKept
<1>2. CASE pending' = Append(pending, WriteComplete(wcc))
  <2>1. /\ WriteComplete(wcc) \in Functor /\ WriteComplete(wcc).f \notin Counted
        /\ pending \in Seq(Functor)
    BY WriteCompleteType DEF TypeOK, ConnTypeOK, WriteComplete, Counted
  <2> QED BY <1>2, <2>1, SameGrown, Zenon
<1> QED BY <1>1, <1>2 DEF QueueWriteComplete, Queue

LEMMA QueuedSame ==
    ASSUME TypeOK, NEW n \in FunctorNames, n \notin Counted, Queue(Fn(n)), NEW b
    PROVE  Same(pending, b, pending', b)
<1>1. /\ Fn(n) \in Functor /\ Fn(n).f \notin Counted /\ pending \in Seq(Functor)
      /\ pending' = Append(pending, Fn(n))
  BY FnType DEF TypeOK, ConnTypeOK, Fn, Queue
<1> QED BY <1>1, SameGrown, Zenon

\* handleWrite, likewise.
LEMMA HandleWriteLife ==
    ASSUME TypeOK, Life, HandleWrite, "IN" \notin revents', "HUP" \notin revents',
           revents' \subseteq revents, Same(pending, batch, pending, batch')
    PROVE  Stages' /\ NoCalls' /\ abort' = "no" /\ server' = TRUE
<1>1. CASE UNCHANGED <<connVars, srvVars, pending, histVars, abort>>
  <2>1. /\ UNCHANGED <<state, events, index, inMap, basePending, cbs>>
        /\ UNCHANGED <<pending, abort, server>>
    BY <1>1 DEF connVars, srvVars, histVars
  <2>2. Same(pending, batch, pending', batch')
    BY <2>1
  <2> QED BY <2>1, <2>2, SameStage DEF Life
<1>2. ASSUME "write" \in events PROVE state \in {"kConnected", "kDisconnecting"}
  BY <1>2 DEF Life, Stages, Unborn, Closed, TypeOK, ConnTypeOK
<1>3. CASE "write" \in events /\ HandleClose
  BY <1>2, <1>3, HandleCloseLife, Zenon
<1>4. CASE /\ "write" \in events /\ \E n \in Written(out) : Drained(n)
           /\ UNCHANGED <<state, srvVars, histVars, abort>>
  <2>1. PICK n \in Written(out) : Drained(n)
    BY <1>4
  <2>2. /\ UNCHANGED <<state, inMap, basePending, cbs, abort, server>>
        /\ state \in {"kConnected", "kDisconnecting"} /\ index = "kAdded" /\ "read" \in events
    BY <1>2, <1>4 DEF srvVars, histVars, Life, Stages, Up
  <2>3. /\ index' = "kAdded" /\ "read" \in events'
        /\ Same(pending, batch', pending', batch')
    <3>1. CASE n = Len(out)
      <4>1. Update(events \ {"write"}) /\ QueueWriteComplete
        BY <2>1, <3>1 DEF Drained
      <4>2. "read" \in events \ {"write"} /\ events \ {"write"} # {}
        BY <2>2
      <4> QED BY <4>1, <4>2, <2>2, WriteCompleteSame DEF Update
    <3>2. CASE n # Len(out)
      <4>1. Queue(Fn("handleWrite")) /\ UNCHANGED <<events, index>>
        BY <2>1, <3>2 DEF Drained
      <4>2. "handleWrite" \in FunctorNames /\ "handleWrite" \notin Counted
        BY DEF FunctorNames, Counted
      <4> QED BY <4>1, <4>2, <2>2, QueuedSame
    <3> QED BY <3>1, <3>2
  <2>4. Same(pending, batch, pending', batch')
    BY <2>3, SameBoth
  <2> QED BY <2>2, <2>3, <2>4, SameStage DEF Life
<1> QED BY <1>1, <1>3, <1>4, Zenon DEF HandleWrite

----------------------------------------------------------------------------
\* A functor that runs and is none of those that are counted.
LEMMA RunningSame ==
    ASSUME TypeOK, NEW n, n \notin Counted, Running(n)
    PROVE  Same(pending, batch, pending, batch')
<1>1. batch \in Seq(Functor) /\ batch # <<>> /\ Head(batch).f = n /\ batch' = Tail(batch)
  BY Zenon DEF TypeOK, LoopTypeOK, Running
<1> QED BY <1>1, SameRun, Zenon

\* What is reported, and to whom.
LEMMA PollLife == ASSUME TypeOK, Life, Poll PROVE Life'
<1>1. /\ phase = "poll" /\ phase' = "events" /\ revents' = Ready
      /\ UNCHANGED <<state, events, index, inMap, basePending, cbs, pending, batch>>
      /\ UNCHANGED <<abort, server, flush, ret>>
  BY DEF Poll, connVars, srvVars, histVars
<1>2. ~("IN" \in Ready /\ "HUP" \in Ready)
  BY DEF Ready
<1>3. batch = <<>> /\ ~flush
  BY <1>1 DEF Life, Rounds
<1>4. Rounds'
  BY <1>1, <1>2, <1>3 DEF Rounds
<1>5. revents' \subseteq revents \/ state \in {"kConnected", "kDisconnecting"}
  <2>1. CASE index # "kAdded"
    BY <1>1, <2>1 DEF Ready
  <2>2. CASE index = "kAdded"
    BY <2>2 DEF Life, Stages, Unborn, Closed, TypeOK, ConnTypeOK
  <2> QED BY <2>1, <2>2
<1>6. Same(pending, batch, pending', batch')
  BY <1>1, SameKept
<1>7. Stages' /\ NoCalls'
  BY <1>1, <1>5, <1>6, SameStage
<1> QED BY <1>1, <1>4, <1>7 DEF Life

LEMMA EventCloseLife == ASSUME TypeOK, Life, EventClose PROVE Life'
<1>1. /\ phase = "events" /\ "HUP" \in revents /\ revents' = revents \ {"HUP"} /\ HandleClose
      /\ UNCHANGED <<phase, ret, flush, batch>>
  BY DEF EventClose
<1>2. "IN" \notin revents' /\ "HUP" \notin revents' /\ ~flush
  BY <1>1 DEF Life, Rounds
<1>3. state \in {"kConnected", "kDisconnecting"}
  BY <1>1 DEF Life, Stages, Unborn, Closed, TypeOK, ConnTypeOK
<1>4. Rounds'
  BY <1>1, <1>2 DEF Rounds, Life
<1>5. Same(pending, batch, pending, batch')
  BY <1>1, SameKept
<1>6. Stages' /\ NoCalls' /\ abort' = "no" /\ server' = TRUE
  BY <1>1, <1>2, <1>3, <1>5, HandleCloseLife, Zenon
<1> QED BY <1>4, <1>6 DEF Life

LEMMA EventErrorLife == ASSUME TypeOK, Life, EventError PROVE Life'
<1>1. /\ phase = "events" /\ revents' = revents \ {"ERR"}
      /\ UNCHANGED <<state, events, index, inMap, basePending, cbs, pending, batch>>
      /\ UNCHANGED <<abort, server, flush, ret, phase>>
  BY DEF EventError, connVars, srvVars, histVars
<1>2. Rounds'
  BY <1>1 DEF Rounds, Life
<1>3. Same(pending, batch, pending', batch')
  BY <1>1, SameKept
<1>4. Stages' /\ NoCalls'
  BY <1>1, <1>3, SameStage
<1> QED BY <1>1, <1>2, <1>4 DEF Life

LEMMA EventReadLife == ASSUME TypeOK, Life, EventRead PROVE Life'
<1>1. /\ phase = "events" /\ "IN" \in revents /\ "HUP" \notin revents
      /\ revents' = revents \ {"IN"} /\ UNCHANGED <<flush, batch>>
  BY DEF EventRead
<1>2. /\ "IN" \notin revents' /\ "HUP" \notin revents' /\ revents' \subseteq revents
      /\ batch = <<>> /\ ~flush
  BY <1>1 DEF Life, Rounds
<1>3. state \in {"kConnected", "kDisconnecting"}
  BY <1>1 DEF Life, Stages, Unborn, Closed, TypeOK, ConnTypeOK
<1>4. Same(pending, batch, pending, batch')
  BY <1>1, SameKept
<1>5. CASE HandleClose /\ UNCHANGED <<phase, ret>>
  <2>1. Stages' /\ NoCalls' /\ abort' = "no" /\ server' = TRUE
    BY <1>2, <1>3, <1>4, <1>5, HandleCloseLife, Zenon
  <2>2. Rounds'
    BY <1>1, <1>2, <1>5 DEF Rounds
  <2> QED BY <2>1, <2>2 DEF Life
<1>6. CASE /\ UNCHANGED <<connVars, srvVars, pending, histVars, abort>>
           /\ \/ phase' = "user" /\ ret' = "events"
              \/ UNCHANGED <<phase, ret>>
  <2>1. /\ UNCHANGED <<state, events, index, inMap, basePending, cbs, pending>>
        /\ UNCHANGED <<abort, server>>
    BY <1>6 DEF connVars, srvVars, histVars
  <2>2. Rounds'
    BY <1>1, <1>2, <1>6 DEF Rounds
  <2>3. Same(pending, batch, pending', batch')
    BY <1>4, <2>1
  <2>4. Stages' /\ NoCalls'
    BY <1>2, <2>1, <2>3, SameStage
  <2> QED BY <2>1, <2>2, <2>4 DEF Life
<1> QED BY <1>5, <1>6 DEF EventRead

LEMMA EventWriteLife == ASSUME TypeOK, Life, EventWrite PROVE Life'
<1>1. /\ phase = "events" /\ revents' = {} /\ HandleWrite /\ UNCHANGED <<phase, ret, flush, batch>>
  BY DEF EventWrite
<1>2. Same(pending, batch, pending, batch')
  BY <1>1, SameKept
<1>3. Stages' /\ NoCalls' /\ abort' = "no" /\ server' = TRUE
  BY <1>1, <1>2, HandleWriteLife
<1>4. Rounds'
  BY <1>1 DEF Rounds, Life
<1> QED BY <1>3, <1>4 DEF Life

LEMMA SwapLife == ASSUME TypeOK, Life, Swap PROVE Life'
<1>1. /\ phase = "events" /\ revents = {} /\ phase' = "functors" /\ batch' = pending
      /\ pending' = <<>>
      /\ UNCHANGED <<state, events, index, inMap, basePending, cbs, revents>>
      /\ UNCHANGED <<abort, server, flush, ret>>
  BY DEF Swap, connVars, srvVars, histVars
<1>2. batch = <<>>
  BY <1>1 DEF Life, Rounds
<1>3. Rounds'
  BY <1>1 DEF Rounds, Life
<1>4. Same(pending, batch, pending', batch')
  BY <1>1, <1>2, SameSwapped
<1>5. Stages' /\ NoCalls'
  BY <1>1, <1>4, SameStage
<1> QED BY <1>1, <1>3, <1>5 DEF Life

LEMMA BatchDoneLife == ASSUME TypeOK, Life, BatchDone PROVE Life'
<1>1. /\ phase = "functors" /\ batch = <<>> /\ ~flush /\ phase' = "poll"
      /\ UNCHANGED <<state, events, index, inMap, basePending, cbs, pending, batch>>
      /\ UNCHANGED <<abort, server, flush, ret, revents>>
  BY DEF BatchDone, connVars, srvVars, histVars
<1>2. Rounds'
  BY <1>1 DEF Rounds, Life
<1>3. Same(pending, batch, pending', batch')
  BY <1>1, SameKept
<1>4. Stages' /\ NoCalls'
  BY <1>1, <1>3, SameStage
<1> QED BY <1>1, <1>2, <1>4 DEF Life

LEMMA FlushLife == ASSUME TypeOK, Life, Flush PROVE Life'
<1>1. flush = TRUE /\ flush' = FALSE /\ HandleWrite /\ UNCHANGED <<phase, ret, revents, batch>>
  BY Zenon DEF Flush, TypeOK, LoopTypeOK
<1>2. "IN" \notin revents' /\ "HUP" \notin revents'
  BY <1>1 DEF Life, Rounds
<1>3. Same(pending, batch, pending, batch')
  BY <1>1, SameKept
<1>4. Stages' /\ NoCalls' /\ abort' = "no" /\ server' = TRUE
  BY <1>1, <1>2, <1>3, HandleWriteLife
<1>5. Rounds'
  BY <1>1 DEF Rounds, Life
<1> QED BY <1>4, <1>5 DEF Life

----------------------------------------------------------------------------
\* The functors.
LEMMA RunConnectEstablishedLife ==
    ASSUME TypeOK, Life, RunConnectEstablished PROVE Life'
<1>1. /\ phase = "functors" /\ flush = FALSE /\ revents' = revents /\ batch' = Tail(batch)
      /\ batch # <<>> /\ batch \in Seq(Functor) /\ Head(batch).f = "connectEstablished"
      /\ UNCHANGED <<inMap, basePending, server, flush, pending>>
  BY Zenon DEF RunConnectEstablished, Running, TypeOK, LoopTypeOK, srvVars
<1>2. /\ ~Nowhere(pending, batch, "connectEstablished")
      /\ OnePlace(pending, batch, "connectEstablished")
            => Nowhere(pending, batch', "connectEstablished")
      /\ \A m : m # "connectEstablished" /\ Nowhere(pending, batch, m)
                   => Nowhere(pending, batch', m)
  BY <1>1, OneRuns, Zenon
<1>3. state = "kConnecting"
  BY <1>2, Zenon DEF Life, Stages, Up, Closed, TypeOK, ConnTypeOK
<1>4. /\ events = {} /\ index = "kNew" /\ cbs = <<>> /\ basePending = 0 /\ inMap = TRUE
      /\ Nowhere(pending, batch, "connectDestroyed")
      /\ OnePlace(pending, batch, "connectEstablished")
      /\ revents = {} /\ abort = "no" /\ server = TRUE /\ NoCalls
  BY <1>3 DEF Life, Stages, Unborn
<1>5. /\ state' = "kConnected" /\ Update(events \cup {"read"}) /\ cbs' = Append(cbs, "up")
      /\ phase' = "user" /\ ret' = "functors" /\ abort' = abort
  BY <1>3 DEF RunConnectEstablished
<1>6. "read" \in events' /\ index' = "kAdded" /\ cbs' = <<"up">>
  BY <1>4, <1>5 DEF Update
<1>7. Up' /\ NoCalls'
  BY <1>1, <1>2, <1>4, <1>6 DEF Up, NoCalls
<1>8. Rounds'
  BY <1>1, <1>4, <1>5 DEF Rounds
<1> QED BY <1>1, <1>4, <1>5, <1>7, <1>8 DEF Life, Stages

\* No functor of another thread's send or shutdown runs.
LEMMA NoCallRuns ==
    ASSUME TypeOK, Life, NEW n \in {"sendInLoop", "shutdownInLoop"} PROVE ~Running(n)
<1> SUFFICES ASSUME Running(n) PROVE FALSE
  OBVIOUS
<1>1. batch \in Seq(Functor) /\ batch # <<>> /\ Head(batch).f = n
  BY DEF Running, TypeOK, LoopTypeOK
<1>2. ~Nowhere(pending, batch, n)
  BY <1>1, OneRuns, Zenon
<1> QED BY <1>2 DEF Life, NoCalls

LEMMA RunForceCloseInLoopLife ==
    ASSUME TypeOK, Life, RunForceCloseInLoop PROVE Life'
<1>1. /\ phase = "functors" /\ flush = FALSE /\ revents' = revents
      /\ UNCHANGED <<phase, ret, flush>> /\ Running("forceCloseInLoop")
  BY Zenon DEF RunForceCloseInLoop, Running, TypeOK, LoopTypeOK
<1>2. Same(pending, batch, pending, batch')
  BY <1>1, RunningSame DEF Counted
<1>3. revents = {}
  BY <1>1 DEF Life, Rounds
<1>4. Rounds'
  BY <1>1, <1>3 DEF Rounds
<1>5. CASE state \in {"kConnected", "kDisconnecting"}
  <2>1. HandleClose
    BY <1>5 DEF RunForceCloseInLoop
  <2>2. Stages' /\ NoCalls' /\ abort' = "no" /\ server' = TRUE
    BY <1>1, <1>2, <1>3, <1>5, <2>1, HandleCloseLife, Zenon
  <2> QED BY <1>4, <2>2 DEF Life
<1>6. CASE state \notin {"kConnected", "kDisconnecting"}
  <2>1. /\ UNCHANGED <<state, events, index, inMap, basePending, cbs, pending>>
        /\ UNCHANGED <<abort, server>>
    BY <1>6 DEF RunForceCloseInLoop, connVars, srvVars, histVars
  <2>2. Same(pending, batch, pending', batch')
    BY <1>2, <2>1
  <2>3. Stages' /\ NoCalls'
    BY <1>1, <2>1, <2>2, SameStage
  <2> QED BY <1>4, <2>1, <2>3 DEF Life
<1> QED BY <1>5, <1>6

LEMMA RunHandleWriteLife ==
    ASSUME TypeOK, Life, RunHandleWrite PROVE Life'
<1>1. /\ phase = "functors" /\ flush = FALSE /\ revents' = revents
      /\ UNCHANGED <<phase, ret, flush>> /\ Running("handleWrite") /\ HandleWrite
  BY Zenon DEF RunHandleWrite, Running, TypeOK, LoopTypeOK
<1>2. Same(pending, batch, pending, batch')
  BY <1>1, RunningSame DEF Counted
<1>3. revents = {}
  BY <1>1 DEF Life, Rounds
<1>4. Rounds'
  BY <1>1, <1>3 DEF Rounds
<1>5. Stages' /\ NoCalls' /\ abort' = "no" /\ server' = TRUE
  BY <1>1, <1>2, <1>3, HandleWriteLife
<1> QED BY <1>4, <1>5 DEF Life

LEMMA RunWriteCompleteLife ==
    ASSUME TypeOK, Life, RunWriteComplete PROVE Life'
<1>1. /\ phase = "functors" /\ flush = FALSE /\ revents' = revents /\ flush' = flush
      /\ Running("writeComplete") /\ phase' = "user" /\ ret' = "functors"
      /\ UNCHANGED <<state, events, index, inMap, basePending, cbs, pending>>
      /\ UNCHANGED <<abort, server>>
  BY Zenon DEF RunWriteComplete, Running, TypeOK, LoopTypeOK, connVars, srvVars, histVars
<1>2. Same(pending, batch, pending', batch')
  BY <1>1, RunningSame DEF Counted
<1>3. revents = {}
  BY <1>1 DEF Life, Rounds
<1>4. Rounds'
  BY <1>1, <1>3 DEF Rounds
<1>5. Stages' /\ NoCalls'
  BY <1>1, <1>2, SameStage
<1> QED BY <1>1, <1>4, <1>5 DEF Life

\* connectDestroyed finds a channel without interest that the poller knows.
LEMMA RunConnectDestroyedLife ==
    ASSUME TypeOK, Life, RunConnectDestroyed PROVE Life'
<1>1. /\ phase = "functors" /\ flush = FALSE /\ revents' = revents /\ batch' = Tail(batch)
      /\ batch # <<>> /\ batch \in Seq(Functor) /\ Head(batch).f = "connectDestroyed"
      /\ UNCHANGED <<inMap, basePending, server, flush, pending, phase, ret>>
  BY Zenon DEF RunConnectDestroyed, Running, TypeOK, LoopTypeOK, srvVars
<1>2. /\ ~Nowhere(pending, batch, "connectDestroyed")
      /\ OnePlace(pending, batch, "connectDestroyed")
            => Nowhere(pending, batch', "connectDestroyed")
      /\ \A m : m # "connectDestroyed" /\ Nowhere(pending, batch, m)
                   => Nowhere(pending, batch', m)
  BY <1>1, OneRuns, Zenon
<1>3. state = "kDisconnected"
  BY <1>2 DEF Life, Stages, Unborn, Up, TypeOK, ConnTypeOK
<1>4. /\ events = {} /\ cbs = <<"up", "down">> /\ index = "kDeleted" /\ inMap = FALSE
      /\ basePending = 0 /\ OnePlace(pending, batch, "connectDestroyed")
      /\ Nowhere(pending, batch, "connectEstablished")
      /\ revents = {} /\ abort = "no" /\ server = TRUE /\ NoCalls
  BY <1>1, <1>2, <1>3 DEF Life, Stages, Closed, Rounds
<1>5. /\ state' = state /\ cbs' = cbs /\ events' = {} /\ index' = "kNew" /\ abort' = abort
  BY <1>3, <1>4 DEF RunConnectDestroyed
<1>6. Closed' /\ NoCalls'
  BY <1>1, <1>2, <1>4, <1>5, Zenon DEF Closed, NoCalls
<1>7. Rounds'
  BY <1>1, <1>4 DEF Rounds
<1> QED BY <1>1, <1>3, <1>4, <1>5, <1>6, <1>7 DEF Life, Stages

----------------------------------------------------------------------------
\* The user's callbacks, the base loop and the peer.
LEMMA LoopSendLife ==
    ASSUME TypeOK, Life, NEW k \in 1 .. MaxBytes, LoopSend(k) PROVE Life'
<1>1. /\ phase = "user" /\ state = "kConnected" /\ SendInLoop(Data("loop", k))
      /\ UNCHANGED <<inMap, basePending, server, phase, ret, revents, batch, cbs, abort>>
  BY DEF LoopSend, InUser, srvVars
<1>2. Rounds'
  BY <1>1 DEF Rounds, Life
<1>3. index = "kAdded" /\ "read" \in events
  BY <1>1 DEF Life, Stages, Up
<1>4. PICK d : d = Data("loop", k)
  OBVIOUS
<1>5. CASE UNCHANGED <<state, events, index>> /\ (UNCHANGED pending \/ QueueWriteComplete)
  <2>1. Same(pending, batch, pending', batch')
    BY <1>1, <1>5, SameKept, WriteCompleteSame
  <2>2. Stages' /\ NoCalls'
    BY <1>1, <1>5, <2>1, SameStage
  <2> QED BY <1>1, <1>2, <2>2 DEF Life
<1>6. CASE UNCHANGED <<state, pending>> /\ Update(events \cup {"write"})
  <2>1. Same(pending, batch, pending', batch')
    BY <1>1, <1>6, SameKept
  <2>2. index' = index /\ "read" \in events'
    BY <1>3, <1>6 DEF Update
  <2>3. Stages' /\ NoCalls'
    BY <1>1, <1>6, <2>1, <2>2, SameStage
  <2> QED BY <1>1, <1>2, <2>3 DEF Life
<1>7. \/ UNCHANGED <<state, events, index>> /\ (UNCHANGED pending \/ QueueWriteComplete)
      \/ UNCHANGED <<state, pending>> /\ Update(events \cup {"write"})
  <2>1. SendInLoop(d)
    BY <1>1, <1>4
  <2> QED BY <2>1, Zenon DEF SendInLoop, connVars
<1> QED BY <1>5, <1>6, <1>7

LEMMA UserStepLife == ASSUME TypeOK, Life, UserStep PROVE Life'
<1>1. ASSUME NEW k \in 1 .. MaxBytes, LoopSend(k) PROVE Life'
  BY <1>1, LoopSendLife
<1>2. CASE LoopShutdown
  <2>1. /\ state = "kConnected" /\ state' = "kDisconnecting"
        /\ UNCHANGED <<events, index, inMap, basePending, cbs, pending, batch, revents>>
        /\ UNCHANGED <<abort, server, phase, ret, flush>>
    BY <1>2 DEF LoopShutdown, srvVars, loopVars, histVars
  <2>2. Same(pending, batch, pending', batch')
    BY <2>1, SameKept
  <2>3. Stages' /\ NoCalls'
    BY <2>1, <2>2, SameStage
  <2> QED BY <2>1, <2>3 DEF Life, Rounds
<1>3. CASE LoopForceClose
  <2>1. /\ state \in {"kConnected", "kDisconnecting"} /\ state' = "kDisconnecting"
        /\ Queue(Fn("forceCloseInLoop"))
        /\ UNCHANGED <<events, index, inMap, basePending, cbs, batch, revents>>
        /\ UNCHANGED <<abort, server, phase, ret, flush>>
    BY <1>3 DEF LoopForceClose, srvVars, histVars
  <2>2. "forceCloseInLoop" \in FunctorNames /\ "forceCloseInLoop" \notin Counted
    BY DEF FunctorNames, Counted
  <2>3. Same(pending, batch, pending', batch')
    BY <2>1, <2>2, QueuedSame
  <2>4. Stages' /\ NoCalls'
    BY <2>1, <2>3, SameStage
  <2> QED BY <2>1, <2>4 DEF Life, Rounds
<1>4. CASE CallbackReturns
  <2>1. /\ phase = "user" /\ flush = FALSE /\ phase' = ret /\ ret \in {"events", "functors"}
        /\ UNCHANGED <<state, events, index, inMap, basePending, cbs, pending, batch, revents>>
        /\ UNCHANGED <<abort, server, ret, flush>>
    BY <1>4, Zenon DEF CallbackReturns, InUser, TypeOK, LoopTypeOK, connVars, srvVars, histVars
  <2>2. Same(pending, batch, pending', batch')
    BY <2>1, SameKept
  <2>3. Stages' /\ NoCalls'
    BY <2>1, <2>2, SameStage
  <2>4. Rounds'
    BY <2>1 DEF Rounds, Life
  <2> QED BY <2>1, <2>3, <2>4 DEF Life
<1>5. ASSUME NEW c \in Callbacks, SetWriteCompleteCallback(c) PROVE Life'
  <2>1. /\ UNCHANGED <<state, events, index, inMap, basePending, cbs, pending, batch, revents>>
        /\ UNCHANGED <<abort, server, phase, ret, flush>>
    BY <1>5 DEF SetWriteCompleteCallback, srvVars, loopVars, histVars
  <2>2. Same(pending, batch, pending', batch')
    BY <2>1, SameKept
  <2>3. Stages' /\ NoCalls'
    BY <2>1, <2>2, SameStage
  <2> QED BY <2>1, <2>3 DEF Life, Rounds
<1> QED BY <1>1, <1>2, <1>3, <1>4, <1>5 DEF UserStep

\* newConnection.  With one loop the connection is up when it returns.
LEMMA NewConnectionLife == ASSUME TypeOK, Life, NewConnection PROVE Life'
<1>1. /\ state = "none" /\ inMap' = TRUE /\ pending \in Seq(Functor)
      /\ UNCHANGED <<server, basePending, flush, revents, batch, abort>>
  BY Zenon DEF NewConnection, TypeOK, ConnTypeOK
<1>2. /\ events = {} /\ index = "kNew" /\ cbs = <<>> /\ basePending = 0 /\ revents = {}
      /\ Nowhere(pending, batch, "connectDestroyed")
      /\ Nowhere(pending, batch, "connectEstablished")
      /\ abort = "no" /\ server = TRUE /\ NoCalls
  BY <1>1 DEF Life, Stages, Unborn
<1>3. CASE OneLoop
  <2>1. /\ phase = "poll" /\ state' = "kConnected" /\ Update({"read"})
        /\ cbs' = Append(cbs, "up") /\ phase' = "user" /\ ret' = "events" /\ pending' = pending
    BY <1>3 DEF NewConnection
  <2>2. "read" \in events' /\ index' = "kAdded" /\ cbs' = <<"up">>
    BY <1>2, <2>1 DEF Update
  <2>3. Up' /\ NoCalls'
    BY <1>1, <1>2, <2>1, <2>2 DEF Up, NoCalls
  <2>4. batch = <<>>
    BY <2>1 DEF Life, Rounds
  <2>5. Rounds'
    BY <1>1, <1>2, <2>1, <2>4 DEF Rounds
  <2> QED BY <1>1, <1>2, <2>1, <2>3, <2>5, Zenon DEF Life, Stages
<1>4. CASE ~OneLoop
  <2>1. /\ state' = "kConnecting" /\ Queue(Fn("connectEstablished"))
        /\ UNCHANGED <<events, index, cbs, phase, ret>>
    BY <1>4 DEF NewConnection
  <2>2. PICK fn : fn = Fn("connectEstablished")
    OBVIOUS
  <2>3. fn \in Functor /\ fn.f = "connectEstablished" /\ pending' = Append(pending, fn)
    BY <2>1, <2>2, FnType DEF Fn, FunctorNames, Queue
  <2>4. OnePlace(pending', batch, "connectEstablished")
    BY <1>1, <1>2, <2>3, OneQueued, Zenon
  <2>5. ASSUME NEW n, n # "connectEstablished", Nowhere(pending, batch, n)
        PROVE  Nowhere(pending', batch, n)
    BY <1>1, <2>3, <2>5, HasAppend DEF Nowhere
  <2>6. Unborn' /\ NoCalls'
    BY <1>1, <1>2, <2>1, <2>5 DEF Unborn, NoCalls
  <2>7. Rounds'
    BY <1>1, <2>1 DEF Rounds, Life
  <2> QED BY <1>1, <1>2, <2>1, <2>4, <2>6, <2>7, Zenon DEF Life, Stages
<1> QED BY <1>3, <1>4

LEMMA RemoveConnectionInLoopLife ==
    ASSUME TypeOK, Life, RemoveConnectionInLoop PROVE Life'
<1>1. /\ basePending > 0 /\ basePending' = basePending - 1 /\ inMap' = FALSE
      /\ Queue(Fn("connectDestroyed")) /\ pending \in Seq(Functor)
      /\ UNCHANGED <<state, events, index, cbs, server, phase, ret, flush, revents, batch>>
      /\ abort' = abort
  <2>1. server = TRUE /\ abort = "no"
    BY Zenon DEF Life
  <2>2. abort' = "no"
    BY <2>1, Zenon DEF RemoveConnectionInLoop
  <2> QED
    BY <2>1, <2>2 DEF RemoveConnectionInLoop, connVars, histVars, TypeOK, ConnTypeOK
<1>2. Closed /\ NoCalls /\ state = "kDisconnected" /\ basePending # 0
  <2>1. basePending # 0
    BY ONLY <1>1
  <2>2. state \in {"none", "kConnecting", "kConnected", "kDisconnecting", "kDisconnected"}
    BY Zenon DEF TypeOK, ConnTypeOK
  <2> QED
    BY <2>1, <2>2, Zenon DEF Life, Stages, Unborn, Up
<1>3. /\ events = {} /\ cbs = <<"up", "down">> /\ "IN" \notin revents /\ "HUP" \notin revents
      /\ Nowhere(pending, batch, "connectEstablished") /\ basePending = 1
      /\ index = "kDeleted" /\ Nowhere(pending, batch, "connectDestroyed") /\ NoCalls
  BY <1>2, Zenon DEF Closed
<1>4. basePending' = 0
  BY <1>1, <1>3
<1>5. PICK fn : fn = Fn("connectDestroyed")
  OBVIOUS
<1>6. fn \in Functor /\ fn.f = "connectDestroyed" /\ pending' = Append(pending, fn)
  BY <1>1, <1>5, FnType DEF Fn, FunctorNames, Queue
<1>7. OnePlace(pending', batch, "connectDestroyed")
  BY <1>1, <1>3, <1>6, OneQueued, Zenon
<1>8. ASSUME NEW n, n # "connectDestroyed", Nowhere(pending, batch, n)
      PROVE  Nowhere(pending', batch, n)
  BY <1>1, <1>6, <1>8, HasAppend DEF Nowhere
<1>9. Closed' /\ NoCalls'
  BY <1>1, <1>3, <1>4, <1>7, <1>8, Zenon DEF Closed, NoCalls
<1>10. Rounds'
  BY <1>1 DEF Rounds, Life
<1> QED BY <1>1, <1>2, <1>9, <1>10 DEF Life, Stages

LEMMA QuietLife ==
    ASSUME Life, UNCHANGED <<connVars, srvVars, loopVars, histVars, abort>> PROVE Life'
<1>1. /\ UNCHANGED <<state, events, index, inMap, basePending, cbs, pending, batch, revents>>
      /\ UNCHANGED <<abort, server, phase, ret, flush>>
  BY DEF connVars, srvVars, loopVars, histVars
<1>2. Same(pending, batch, pending', batch')
  BY <1>1, SameKept
<1>3. Stages' /\ NoCalls'
  BY <1>1, <1>2, SameStage
<1> QED BY <1>1, <1>3 DEF Life, Rounds

\* A connection that only its own loop uses, of a server that outlives it.
OwnLoopOnly == Threads = {} /\ ~ServerMayDie

LEMMA InitLife == Init => Life
<1> SUFFICES ASSUME Init PROVE Life
  OBVIOUS
<1>1. \A n : Nowhere(pending, batch, n)
  BY HasNone DEF Init, Nowhere
<1> QED BY <1>1 DEF Init, Life, Rounds, Stages, Unborn, NoCalls

\* The steps without another thread and without the end of the server.
OwnStep ==
    \/ LoopStep \/ UserStep \/ PeerStep \/ UNCHANGED vars
    \/ NewConnection \/ RemoveConnectionInLoop

LEMMA OwnStepLife == ASSUME TypeOK, Life, OwnStep PROVE Life'
<1>1. CASE LoopStep
  <2>1. ~RunSendInLoop /\ ~RunShutdownInLoop
    BY NoCallRuns, Zenon DEF RunSendInLoop, RunShutdownInLoop
  <2>2. CASE Poll \/ EventClose \/ EventError \/ EventRead \/ EventWrite
    BY <2>2, PollLife, EventCloseLife, EventErrorLife, EventReadLife, EventWriteLife
  <2>3. CASE Swap \/ BatchDone \/ Flush
    BY <2>3, SwapLife, BatchDoneLife, FlushLife
  <2>4. CASE \/ RunConnectEstablished \/ RunForceCloseInLoop \/ RunHandleWrite
             \/ RunWriteComplete \/ RunConnectDestroyed
    BY <2>4, RunConnectEstablishedLife, RunForceCloseInLoopLife, RunHandleWriteLife,
       RunWriteCompleteLife, RunConnectDestroyedLife
  <2> QED BY <1>1, <2>1, <2>2, <2>3, <2>4 DEF LoopStep
<1>2. CASE UserStep
  BY <1>2, UserStepLife
<1>3. CASE NewConnection \/ RemoveConnectionInLoop
  BY <1>3, NewConnectionLife, RemoveConnectionInLoopLife
<1>4. CASE PeerStep
  <2>1. UNCHANGED <<connVars, srvVars, loopVars, histVars, abort>>
    BY <1>4 DEF PeerStep, PeerReads, PeerSends, PeerCloses, PeerResets
  <2> QED BY <2>1, QuietLife
<1>5. CASE UNCHANGED vars
  <2>1. UNCHANGED <<connVars, srvVars, loopVars, histVars, abort>>
    BY <1>5 DEF vars
  <2> QED BY <2>1, QuietLife
<1> QED BY <1>1, <1>2, <1>3, <1>4, <1>5 DEF OwnStep

LEMMA LifeStep == OwnLoopOnly /\ TypeOK /\ Life /\ [Next]_vars => Life'
<1> SUFFICES ASSUME OwnLoopOnly, TypeOK, Life, [Next]_vars PROVE Life'
  OBVIOUS
<1>1. ~DestroyServer
  BY DEF DestroyServer, OwnLoopOnly
<1>2. OwnStep
  BY <1>1 DEF OwnStep, OwnLoopOnly, Next, BaseStep
<1> QED BY <1>2, OwnStepLife

LEMMA LifeHolds == ASSUME OwnLoopOnly PROVE Spec => [](TypeOK /\ Life)
<1>1. Init => Life
  BY InitLife
<1>2. TypeOK /\ Life /\ [Next]_vars => Life'
  BY LifeStep
<1> QED BY <1>1, <1>2, TypeCorrect, PTL DEF Spec

\* No assertion of TcpConnection, Channel or EPollPoller fails in the life of a
\* connection that only its own loop uses.
THEOREM LifeNoAbort == ASSUME OwnLoopOnly PROVE Spec => []NoAbort
<1>1. TypeOK /\ Life => NoAbort
  BY DEF Life, NoAbort
<1> QED BY <1>1, LifeHolds, PTL

\* Such a connection is destroyed only after connectDestroyed has run: until
\* then the map, removeConnection's functor or connectDestroyed's refers to it.
THEOREM LifeDestroyedLast == ASSUME OwnLoopOnly PROVE Spec => []DestroyedLast
<1>1. TypeOK /\ Life => DestroyedLast
  <2> SUFFICES ASSUME TypeOK, Life, state # "none", ~Alive
               PROVE  index = "kNew" /\ cbs = <<"up", "down">>
    BY DEF DestroyedLast
  <2>1. inMap = FALSE /\ ~Holds(pending) /\ ~Holds(batch)
    BY Zenon DEF Alive, TypeOK, ConnTypeOK
  <2>2. ~OnePlace(pending, batch, "connectDestroyed")
    BY <2>1 DEF Holds, OnePlace, Has, SharedFunctors, FunctorNames
  <2>3. state = "kDisconnected"
    BY <2>1 DEF Life, Stages, Up, TypeOK, ConnTypeOK
  <2> QED BY <2>1, <2>2, <2>3 DEF Life, Stages, Closed
<1> QED BY <1>1, LifeHolds, PTL

----------------------------------------------------------------------------
\* The callback that runs: handleRead alone calls messageCallback_.
LEMMA OnlyRead ==
    ASSUME TypeOK, [Next]_vars, cur # "message", cur' = "message"
    PROVE  EventRead
<1>1. CASE UNCHANGED cur
  BY <1>1
<1>2. CASE \/ Poll \/ EventClose \/ EventError \/ EventWrite
           \/ Swap \/ BatchDone \/ Flush
           \/ RunSendInLoop \/ RunShutdownInLoop
           \/ RunForceCloseInLoop \/ RunHandleWrite \/ RunConnectDestroyed
  <2>1. UNCHANGED cur
    BY <1>2, Zenon DEF Poll, EventClose, EventError, EventWrite, Swap, BatchDone, Flush,
       RunSendInLoop, RunShutdownInLoop, RunForceCloseInLoop, RunHandleWrite,
       RunConnectDestroyed
  <2> QED BY <1>1, <2>1
<1>3. CASE RunConnectEstablished
  BY <1>3, Zenon DEF RunConnectEstablished
<1>4. CASE RunWriteComplete
  <2>1. batch \in Seq(Functor) /\ batch # <<>> /\ cur' = Head(batch).cb
    BY <1>4 DEF RunWriteComplete, Running, TypeOK, LoopTypeOK
  <2>2. Head(batch) \in Functor
    BY <2>1
  <2>3. Head(batch).cb \in Callbacks \cup {NoCallback}
    BY <2>2 DEF Functor
  <2> QED BY <2>1, <2>3, ConnAssumption
<1>5. CASE UserStep
  <2>1. CASE CallbackReturns
    BY <2>1 DEF CallbackReturns
  <2>2. CASE ~CallbackReturns
    <3>1. UNCHANGED cur
      BY <1>5, <2>2, Zenon DEF UserStep, LoopSend, LoopShutdown, LoopForceClose,
         SetWriteCompleteCallback, loopVars
    <3> QED BY <1>1, <3>1
  <2> QED BY <2>1, <2>2
<1>6. ASSUME NEW t \in Threads, ThreadStep(t) PROVE EventRead
  <2>1. UNCHANGED cur
    BY <1>6, Zenon DEF ThreadStep, SendCheck, ShutdownCheck, ForceCloseCheck, Begin, SendQueue,
       SetDisconnecting, QueueClose, Release, loopVars
  <2> QED BY <1>1, <2>1
<1>7. CASE BaseStep
  BY <1>7, Zenon DEF BaseStep, NewConnection, RemoveConnectionInLoop, DestroyServer
<1>8. CASE PeerStep
  <2>1. UNCHANGED cur
    BY <1>8, Zenon DEF PeerStep, PeerReads, PeerSends, PeerCloses, PeerResets, loopVars
  <2> QED BY <1>1, <2>1
<1>9. CASE UNCHANGED vars
  <2>1. UNCHANGED cur
    BY <1>9 DEF vars, loopVars
  <2> QED BY <1>1, <2>1
<1> QED BY <1>2, <1>3, <1>4, <1>5, <1>6, <1>7, <1>8, <1>9 DEF Next, LoopStep

\* The user of such a connection hears that it is up, then its messages, then
\* that it is down, which it hears once.
THEOREM LifeCallbackProtocol == ASSUME OwnLoopOnly PROVE Spec => CallbackProtocol
<1>1. TypeOK /\ Life => /\ cbs \in {<<>>, <<"up">>, <<"up", "down">>}
                        /\ state = "kDisconnected" <=> cbs = <<"up", "down">>
  <2>1. <<>> # <<"up", "down">> /\ <<"up">> # <<"up", "down">>
    OBVIOUS
  <2> QED BY <2>1, Zenon DEF Life, Stages, Unborn, Up, Closed, TypeOK, ConnTypeOK
<1>2. TypeOK /\ Life /\ [Next]_vars
        => [cur # "message" /\ cur' = "message" => cbs = <<"up">>]_vars
  <2> SUFFICES ASSUME TypeOK, Life, [Next]_vars, cur # "message", cur' = "message"
               PROVE  cbs = <<"up">>
    OBVIOUS
  <2>1. "IN" \in revents
    BY OnlyRead, Zenon DEF EventRead
  <2> QED BY <2>1, Zenon DEF Life, Stages, Unborn, Up, Closed, TypeOK, ConnTypeOK
<1> QED BY <1>1, <1>2, LifeHolds, PTL DEF Spec, CallbackProtocol
=============================================================================
