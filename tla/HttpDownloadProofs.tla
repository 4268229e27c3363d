------------------------ MODULE HttpDownloadProofs -------------------------
(***************************************************************************)
(* Proofs about HttpDownload, the file manager as the user of its          *)
(* connection, for any requests and any sizes of file and chunk.           *)
(***************************************************************************)
EXTENDS HttpDownload, TcpConnectionProofs

\* The write-complete callbacks that queued functors carry, and what a step may
\* do to them: queue the installed one, swap, run.
Cbs(q) == {q[i].cb : i \in 1 .. Len(q)}

Grows ==
    /\ wcc' = wcc
    /\ \/ pending' = pending
       \/ \E fn \in Functor : pending' = Append(pending, fn) /\ fn.cb \in {NoCallback, wcc}

Moves ==
    /\ Grows \/ (wcc' = wcc /\ pending' = <<>>)
    /\ batch' \in {batch, pending} \/ (batch # <<>> /\ batch' = Tail(batch))
    /\ cur' \in {cur, "none", "up", "message"} \/ (batch # <<>> /\ cur' = Head(batch).cb)

\* Only the callbacks K are installed, queued or running.
Uses(K) ==
    /\ wcc \in K /\ Cbs(pending) \subseteq K /\ Cbs(batch) \subseteq K
    /\ cur \in {"none", "up", "message"} \cup K

LEMMA CbsAppend ==
    ASSUME NEW q \in Seq(Functor), NEW fn \in Functor, NEW K, Cbs(q) \subseteq K, fn.cb \in K,
           NEW r, r = Append(q, fn)
    PROVE  Cbs(r) \subseteq K
<1>1. /\ Len(q) \in Nat /\ Len(r) = Len(q) + 1 /\ r[Len(q) + 1] = fn
      /\ \A i \in 1 .. Len(q) : r[i] = q[i]
  OBVIOUS
<1>2. \A i \in 1 .. Len(r) : i \in 1 .. Len(q) \/ i = Len(q) + 1
  BY <1>1
<1> QED BY <1>1, <1>2 DEF Cbs

LEMMA CbsTail ==
    ASSUME NEW q \in Seq(Functor), q # <<>>, NEW K, Cbs(q) \subseteq K, NEW r, r = Tail(q)
    PROVE  Cbs(r) \subseteq K /\ Head(q).cb \in K
<1>1. /\ Len(q) \in Nat /\ Len(q) >= 1 /\ Len(r) = Len(q) - 1 /\ Head(q) = q[1]
      /\ \A i \in 1 .. Len(r) : r[i] = q[i + 1]
  OBVIOUS
<1>2. \A i \in 1 .. Len(r) : i + 1 \in 1 .. Len(q)
  BY <1>1
<1>3. 1 \in 1 .. Len(q)
  BY <1>1
<1> QED BY <1>1, <1>2, <1>3 DEF Cbs

LEMMA CbsNone == Cbs(<<>>) = {}
BY DEF Cbs

LEMMA UsesKept ==
    ASSUME TypeOK, NEW K, NoCallback \in K, Uses(K), Moves PROVE Uses(K)'
<1>1. /\ pending \in Seq(Functor) /\ batch \in Seq(Functor)
      /\ wcc \in K /\ Cbs(pending) \subseteq K /\ Cbs(batch) \subseteq K
      /\ cur \in {"none", "up", "message"} \cup K
  BY DEF TypeOK, ConnTypeOK, LoopTypeOK, Uses
<1>2. wcc' \in K
  BY <1>1 DEF Moves, Grows
<1>3. Cbs(pending') \subseteq K
  <2>1. CASE pending' = pending
    BY <1>1, <2>1
  <2>2. CASE pending' = <<>>
    BY <2>2, CbsNone
  <2>3. ASSUME NEW fn \in Functor, pending' = Append(pending, fn), fn.cb \in {NoCallback, wcc}
        PROVE  Cbs(pending') \subseteq K
    BY <1>1, <2>3, CbsAppend, ZenonT(40)
  <2> QED BY <2>1, <2>2, <2>3 DEF Moves, Grows
<1>4. Cbs(batch') \subseteq K
  BY <1>1, CbsTail DEF Moves
<1>5. cur' \in {"none", "up", "message"} \cup K
  BY <1>1, CbsTail, ZenonT(40) DEF Moves
<1> QED BY <1>2, <1>3, <1>4, <1>5 DEF Uses

LEMMA FnGrows ==
    ASSUME NEW n \in FunctorNames, Queue(Fn(n)), wcc' = wcc PROVE Grows
<1>1. Fn(n) \in Functor /\ Fn(n).cb = NoCallback
  BY FnType DEF Fn
<1> QED BY <1>1 DEF Grows, Queue

LEMMA WriteCompleteGrows ==
    ASSUME TypeOK, QueueWriteComplete, wcc' = wcc PROVE Grows
<1>1. WriteComplete(wcc) \in Functor /\ WriteComplete(wcc).cb = wcc
  BY WriteCompleteType DEF WriteComplete, TypeOK, ConnTypeOK
<1> QED BY <1>1 DEF Grows, Queue, QueueWriteComplete

LEMMA HandleCloseGrows == ASSUME TypeOK, HandleClose PROVE Grows
<1>1. CASE state \notin {"kConnected", "kDisconnecting"}
  <2>1. UNCHANGED <<wcc, pending>>
    BY <1>1, Zenon DEF HandleClose, Crash, connVars
  <2> QED BY <2>1 DEF Grows
<1>2. CASE state \in {"kConnected", "kDisconnecting"}
  <2>1. wcc' = wcc /\ CloseCallback
    BY <1>2, Zenon DEF HandleClose
  <2>2. CASE OneLoop
    <3>1. Queue(Fn("connectDestroyed")) /\ "connectDestroyed" \in FunctorNames
      BY <2>1, <2>2 DEF CloseCallback, FunctorNames
    <3> QED BY <2>1, <3>1, FnGrows
  <2>3. CASE ~OneLoop
    BY <2>1, <2>3, Zenon DEF CloseCallback, Grows
  <2> QED BY <2>2, <2>3
<1> QED BY <1>1, <1>2

LEMMA HandleWriteGrows == ASSUME TypeOK, HandleWrite PROVE Grows
<1>1. CASE UNCHANGED <<connVars, srvVars, pending, histVars, abort>>
  BY <1>1 DEF connVars, Grows
<1>2. CASE HandleClose
  BY <1>2, HandleCloseGrows
<1>3. ASSUME NEW n \in Written(out), Drained(n), wcc' = wcc PROVE Grows
  <2>1. CASE n = Len(out)
    <3>1. QueueWriteComplete
      BY <1>3, <2>1 DEF Drained
    <3> QED BY <1>3, <3>1, WriteCompleteGrows
  <2>2. CASE n # Len(out)
    <3>1. Queue(Fn("handleWrite")) /\ "handleWrite" \in FunctorNames
      BY <1>3, <2>2 DEF Drained, FunctorNames
    <3> QED BY <1>3, <3>1, FnGrows
  <2> QED BY <2>1, <2>2
<1> QED BY <1>1, <1>2, <1>3 DEF HandleWrite

LEMMA LoopStepMoves == ASSUME TypeOK, Life, LoopStep PROVE Moves
<1>1. CASE Poll \/ EventError \/ BatchDone
  <2>1. UNCHANGED <<wcc, pending, batch, cur>>
    BY <1>1 DEF Poll, EventError, BatchDone, connVars
  <2> QED BY <2>1 DEF Moves, Grows
<1>2. CASE EventClose
  <2>1. HandleClose /\ UNCHANGED <<batch, cur>>
    BY <1>2 DEF EventClose
  <2> QED BY <2>1, HandleCloseGrows DEF Moves
<1>3. CASE EventRead
  <2>1. \/ HandleClose /\ UNCHANGED <<batch, cur>>
        \/ UNCHANGED <<wcc, pending, batch>> /\ cur' \in {cur, "message"}
    BY <1>3 DEF EventRead, connVars
  <2> QED BY <2>1, HandleCloseGrows DEF Moves, Grows
<1>4. CASE EventWrite \/ Flush
  <2>1. HandleWrite /\ UNCHANGED <<batch, cur>>
    BY <1>4 DEF EventWrite, Flush
  <2> QED BY <2>1, HandleWriteGrows DEF Moves
<1>5. CASE Swap
  BY <1>5 DEF Swap, connVars, Moves
<1>6. CASE RunConnectEstablished
  <2>1. /\ batch # <<>> /\ batch' = Tail(batch) /\ UNCHANGED <<wcc, pending>>
        /\ cur' \in {cur, "up"}
    BY <1>6, Zenon DEF RunConnectEstablished, Running
  <2> QED BY <2>1 DEF Moves, Grows
<1>7. CASE RunSendInLoop \/ RunShutdownInLoop
  BY <1>7, NoCallRuns, Zenon DEF RunSendInLoop, RunShutdownInLoop
<1>8. CASE RunForceCloseInLoop
  <2>1. /\ batch # <<>> /\ batch' = Tail(batch) /\ cur' = cur
        /\ HandleClose \/ UNCHANGED <<wcc, pending>>
    BY <1>8 DEF RunForceCloseInLoop, Running, connVars
  <2> QED BY <2>1, HandleCloseGrows DEF Moves, Grows
<1>9. CASE RunHandleWrite
  <2>1. batch # <<>> /\ batch' = Tail(batch) /\ cur' = cur /\ HandleWrite
    BY <1>9 DEF RunHandleWrite, Running
  <2> QED BY <2>1, HandleWriteGrows DEF Moves
<1>10. CASE RunWriteComplete
  <2>1. /\ batch # <<>> /\ batch' = Tail(batch) /\ cur' = Head(batch).cb
        /\ UNCHANGED <<wcc, pending>>
    BY <1>10 DEF RunWriteComplete, Running, connVars
  <2> QED BY <2>1 DEF Moves, Grows
<1>11. CASE RunConnectDestroyed
  <2>1. /\ batch # <<>> /\ batch' = Tail(batch) /\ UNCHANGED <<wcc, pending, cur>>
    BY <1>11, Zenon DEF RunConnectDestroyed, Running
  <2> QED BY <2>1 DEF Moves, Grows
<1> QED BY <1>1, <1>2, <1>3, <1>4, <1>5, <1>6, <1>7, <1>8, <1>9, <1>10, <1>11 DEF LoopStep

\* The calls of the file manager that leave the write-complete callback alone.
Calls == (\E k \in 1 .. MaxBytes : LoopSend(k)) \/ LoopShutdown \/ CallbackReturns

LEMMA CallsMoves == ASSUME TypeOK, Calls PROVE Moves
<1>1. ASSUME NEW k \in 1 .. MaxBytes, LoopSend(k) PROVE Moves
  <2>1. PICK d : SendInLoop(d)
    BY <1>1 DEF LoopSend
  <2>2. UNCHANGED <<batch, cur>>
    BY <1>1 DEF LoopSend
  <2>3. wcc' = wcc /\ (pending' = pending \/ QueueWriteComplete)
    BY <2>1 DEF SendInLoop, connVars
  <2> QED BY <2>2, <2>3, WriteCompleteGrows DEF Moves, Grows
<1>2. CASE LoopShutdown
  BY <1>2 DEF LoopShutdown, loopVars, Moves, Grows
<1>3. CASE CallbackReturns
  <2>1. UNCHANGED <<wcc, pending, batch>> /\ cur' = "none"
    BY <1>3 DEF CallbackReturns, connVars
  <2> QED BY <2>1 DEF Moves, Grows
<1> QED BY <1>1, <1>2, <1>3 DEF Calls

LEMMA OutsideMoves ==
    ASSUME OneLoop, NewConnection \/ PeerStep \/ UNCHANGED vars PROVE Moves
<1>1. CASE NewConnection
  <2>1. UNCHANGED <<wcc, pending, batch>> /\ cur' = "up"
    BY <1>1 DEF NewConnection
  <2> QED BY <2>1 DEF Moves, Grows
<1>2. CASE PeerStep \/ UNCHANGED vars
  <2>1. UNCHANGED <<connVars, loopVars>>
    BY <1>2 DEF PeerStep, PeerReads, PeerSends, PeerCloses, PeerResets, vars
  <2>2. UNCHANGED <<wcc, pending, batch, cur>>
    BY <2>1 DEF connVars, loopVars
  <2> QED BY <2>2 DEF Moves, Grows
<1> QED BY <1>1, <1>2

----------------------------------------------------------------------------
\* A FIN that went out went out behind everything that was sent, unless the
\* peer has reset the connection.
Finished ==
    wrShut => /\ state \in {"kDisconnecting", "kDisconnected"}
              /\ peer # "reset" => wire = sent

\* A step that writes nothing.
Silent ==
    /\ UNCHANGED <<wire, sent, wrShut>>
    /\ peer' = peer \/ peer # "reset"
    /\ state \in {"kDisconnecting", "kDisconnected"}
          => state' \in {"kDisconnecting", "kDisconnected"}

LEMMA SilentFinished == ASSUME Finished, Silent PROVE Finished'
BY DEF Finished, Silent

LEMMA WholeOut == ASSUME NEW S, NEW q \in Seq(S) PROVE SubSeq(q, 1, Len(q)) = q
<1>1. PICK r : r = SubSeq(q, 1, Len(q))
  OBVIOUS
<1>2. r \in Seq(S) /\ Len(r) = Len(q) /\ \A i \in 1 .. Len(q) : r[i] = q[i]
  BY <1>1
<1>3. r = q
  BY <1>2
<1> QED BY <1>1, <1>3

LEMMA HandleCloseSilent == ASSUME HandleClose PROVE Silent
BY Zenon DEF HandleClose, Crash, connVars, histVars, Silent

LEMMA HandleWriteFinished == ASSUME IInv, Finished, HandleWrite PROVE Finished'
<1>1. CASE UNCHANGED <<connVars, srvVars, pending, sockVars, histVars, abort>>
  <2>1. Silent
    BY <1>1 DEF connVars, sockVars, histVars, Silent
  <2> QED BY <2>1, SilentFinished
<1>2. CASE HandleClose
  BY <1>2, HandleCloseSilent, SilentFinished
<1>3. ASSUME ~Broken, NEW n \in Written(out), Drained(n), UNCHANGED <<state, peer, histVars>>
      PROVE  Finished'
  <2>1. wrShut = FALSE /\ sent = wire \o out /\ out \in Seq(Octets)
    BY <1>3, Zenon DEF Broken, IInv, DataInv, DeliveredInOrder, TypeOK, ConnTypeOK
  <2>2. CASE n = Len(out)
    <3>1. wire' = wire \o SubSeq(out, 1, Len(out)) /\ wrShut' = (wrShut \/ state = "kDisconnecting")
      BY <1>3, <2>2 DEF Drained
    <3>2. wire' = sent
      BY <2>1, <3>1, WholeOut
    <3>3. sent' = sent /\ state' = state
      BY <1>3 DEF histVars
    <3> QED BY <2>1, <3>1, <3>2, <3>3, Zenon DEF Finished
  <2>3. CASE n # Len(out)
    <3>1. wrShut' = wrShut
      BY <1>3, <2>3 DEF Drained
    <3> QED BY <2>1, <3>1 DEF Finished
  <2> QED BY <2>2, <2>3
<1> QED BY <1>1, <1>2, <1>3 DEF HandleWrite

LEMMA LoopStepFinished == ASSUME IInv, Life, Finished, LoopStep PROVE Finished'
<1>1. CASE Poll \/ EventError \/ Swap \/ BatchDone \/ RunWriteComplete
  <2>1. UNCHANGED <<connVars, wire, wrShut, peer, histVars>>
    BY <1>1 DEF Poll, EventError, Swap, BatchDone, RunWriteComplete, sockVars
  <2>2. Silent
    BY <2>1 DEF connVars, histVars, Silent
  <2> QED BY <2>2, SilentFinished
<1>2. CASE EventClose
  BY <1>2, HandleCloseSilent, SilentFinished DEF EventClose
<1>3. CASE EventRead
  <2>1. HandleClose \/ UNCHANGED <<connVars, wire, wrShut, peer, histVars>>
    BY <1>3 DEF EventRead
  <2>2. Silent
    BY <2>1, HandleCloseSilent DEF connVars, histVars, Silent
  <2> QED BY <2>2, SilentFinished
<1>4. CASE EventWrite \/ Flush \/ RunHandleWrite
  BY <1>4, HandleWriteFinished DEF EventWrite, Flush, RunHandleWrite
<1>5. CASE RunSendInLoop \/ RunShutdownInLoop
  BY <1>5, NoCallRuns, Zenon DEF RunSendInLoop, RunShutdownInLoop, IInv
<1>6. CASE RunForceCloseInLoop
  <2>1. HandleClose \/ UNCHANGED <<connVars, wire, wrShut, peer, histVars>>
    BY <1>6 DEF RunForceCloseInLoop, sockVars
  <2>2. Silent
    BY <2>1, HandleCloseSilent DEF connVars, histVars, Silent
  <2> QED BY <2>2, SilentFinished
<1>7. CASE RunConnectEstablished \/ RunConnectDestroyed
  <2>1. UNCHANGED <<wire, wrShut, peer, sent>>
    BY <1>7, Zenon DEF RunConnectEstablished, RunConnectDestroyed, sockVars
  <2>2. state' = state \/ state = "kConnecting" \/ state' = "kDisconnected"
    BY <1>7, Zenon DEF RunConnectEstablished, RunConnectDestroyed
  <2>3. Silent
    BY <2>1, <2>2 DEF Silent
  <2> QED BY <2>3, SilentFinished
<1> QED BY <1>1, <1>2, <1>3, <1>4, <1>5, <1>6, <1>7 DEF LoopStep

LEMMA UserStepFinished == ASSUME IInv, Life, Finished, UserStep PROVE Finished'
<1>1. ASSUME NEW k \in 1 .. MaxBytes, LoopSend(k) PROVE Finished'
  <2>1. PICK d : SendInLoop(d) /\ state = "kConnected"
    BY <1>1 DEF LoopSend
  <2>2. wrShut' = wrShut
    BY <2>1 DEF SendInLoop, sockVars
  <2>3. wrShut = FALSE
    BY <2>1, Zenon DEF Finished, IInv, TypeOK, ConnTypeOK
  <2> QED BY <2>2, <2>3 DEF Finished
<1>2. CASE LoopShutdown
  <2>1. /\ state = "kConnected" /\ state' = "kDisconnecting"
        /\ wrShut' = (wrShut \/ "write" \notin events) /\ UNCHANGED <<wire, peer, sent>>
    BY <1>2 DEF LoopShutdown, ShutdownInLoop, histVars
  <2>2. wrShut = FALSE
    BY <2>1, Zenon DEF Finished, IInv, TypeOK, ConnTypeOK
  <2>3. ASSUME "write" \notin events, peer # "reset" PROVE wire = sent
    <3>1. "read" \in events
      BY <2>1 DEF Life, Stages, Up
    <3>2. out = <<>>
      BY <2>3, <3>1 DEF IInv, DataInv, WriteInterest
    <3>3. sent = wire \o out /\ wire \in Seq(Octets)
      BY <2>2, <2>3 DEF IInv, DataInv, DeliveredInOrder, Broken, TypeOK, ConnTypeOK
    <3>4. wire \o <<>> = wire
      BY <3>3
    <3> QED BY <3>2, <3>3, <3>4
  <2> QED BY <2>1, <2>2, <2>3, Zenon DEF Finished
<1>3. CASE LoopForceClose
  <2>1. Silent
    BY <1>3 DEF LoopForceClose, sockVars, histVars, Silent
  <2> QED BY <2>1, SilentFinished
<1>4. ASSUME NEW c \in Callbacks, SetWriteCompleteCallback(c) PROVE Finished'
  <2>1. Silent
    BY <1>4 DEF SetWriteCompleteCallback, sockVars, histVars, Silent
  <2> QED BY <2>1, SilentFinished
<1>5. CASE CallbackReturns
  <2>1. Silent
    BY <1>5 DEF CallbackReturns, connVars, sockVars, histVars, Silent
  <2> QED BY <2>1, SilentFinished
<1> QED BY <1>1, <1>2, <1>3, <1>4, <1>5 DEF UserStep

LEMMA OutsideFinished ==
    ASSUME IInv, Finished, NewConnection \/ PeerStep \/ UNCHANGED vars PROVE Finished'
<1>1. CASE NewConnection
  <2>1. state = "none" /\ UNCHANGED <<wire, wrShut, peer, sent>>
    BY <1>1 DEF NewConnection, sockVars
  <2>2. Silent
    BY <2>1 DEF Silent
  <2> QED BY <2>2, SilentFinished
<1>2. CASE PeerStep
  <2>1. UNCHANGED <<connVars, wire, wrShut, histVars>> /\ (peer' = peer \/ peer # "reset")
    BY <1>2 DEF PeerStep, PeerReads, PeerSends, PeerCloses, PeerResets
  <2>2. Silent
    BY <2>1 DEF connVars, histVars, Silent
  <2> QED BY <2>2, SilentFinished
<1>3. CASE UNCHANGED vars
  <2>1. Silent
    BY <1>3 DEF vars, connVars, sockVars, histVars, Silent
  <2> QED BY <2>1, SilentFinished
<1> QED BY <1>1, <1>2, <1>3

----------------------------------------------------------------------------
\* Where the connection goes without a call of its user.
Onward ==
    /\ \/ state' = state \/ state' = "kDisconnected"
       \/ state \in {"none", "kConnecting"} /\ state' # "kDisconnecting"
    /\ wrShut' => wrShut \/ state = "kDisconnecting"

LEMMA HandleCloseOnward == ASSUME HandleClose PROVE Onward
<1>1. wrShut' = wrShut /\ (state' = state \/ state' = "kDisconnected")
  BY Zenon DEF HandleClose, Crash, connVars
<1> QED BY <1>1 DEF Onward

LEMMA HandleWriteOnward == ASSUME HandleWrite PROVE Onward
<1>1. CASE UNCHANGED <<connVars, srvVars, pending, sockVars, histVars, abort>>
  BY <1>1 DEF connVars, sockVars, Onward
<1>2. CASE HandleClose
  BY <1>2, HandleCloseOnward
<1>3. ASSUME NEW n, Drained(n), state' = state PROVE Onward
  BY <1>3, Zenon DEF Drained, Onward
<1>4. ASSUME \E n \in Written(out) : Drained(n), UNCHANGED <<state, wcc>> PROVE Onward
  BY <1>3, <1>4
<1> QED BY <1>1, <1>2, <1>4 DEF HandleWrite

LEMMA LoopStepOnward == ASSUME TypeOK, Life, LoopStep PROVE Onward
<1>1. CASE Poll \/ EventError \/ Swap \/ BatchDone \/ RunWriteComplete
  <2>1. UNCHANGED <<connVars, wrShut>>
    BY <1>1 DEF Poll, EventError, Swap, BatchDone, RunWriteComplete, sockVars
  <2> QED BY <2>1 DEF connVars, Onward
<1>2. CASE EventClose
  BY <1>2, HandleCloseOnward DEF EventClose
<1>3. CASE EventRead
  <2>1. HandleClose \/ UNCHANGED <<connVars, wrShut>>
    BY <1>3 DEF EventRead
  <2> QED BY <2>1, HandleCloseOnward DEF connVars, Onward
<1>4. CASE EventWrite \/ Flush \/ RunHandleWrite
  BY <1>4, HandleWriteOnward DEF EventWrite, Flush, RunHandleWrite
<1>5. CASE RunSendInLoop \/ RunShutdownInLoop
  BY <1>5, NoCallRuns, Zenon DEF RunSendInLoop, RunShutdownInLoop
<1>6. CASE RunForceCloseInLoop
  <2>1. HandleClose \/ UNCHANGED <<connVars, wrShut>>
    BY <1>6 DEF RunForceCloseInLoop, sockVars
  <2> QED BY <2>1, HandleCloseOnward DEF connVars, Onward
<1>7. CASE RunConnectEstablished \/ RunConnectDestroyed
  <2>1. wrShut' = wrShut
    BY <1>7, Zenon DEF RunConnectEstablished, RunConnectDestroyed, sockVars
  <2>2. \/ state' = state \/ state' = "kDisconnected"
        \/ state = "kConnecting" /\ state' = "kConnected"
    BY <1>7, Zenon DEF RunConnectEstablished, RunConnectDestroyed
  <2> QED BY <2>1, <2>2 DEF Onward
<1> QED BY <1>1, <1>2, <1>3, <1>4, <1>5, <1>6, <1>7 DEF LoopStep

LEMMA OutsideOnward ==
    ASSUME NewConnection \/ PeerStep \/ UNCHANGED vars PROVE Onward
<1>1. CASE NewConnection
  BY <1>1 DEF NewConnection, sockVars, Onward
<1>2. CASE PeerStep \/ UNCHANGED vars
  <2>1. UNCHANGED <<connVars, wrShut>>
    BY <1>2 DEF PeerStep, PeerReads, PeerSends, PeerCloses, PeerResets, vars, sockVars
  <2> QED BY <2>1 DEF connVars, Onward
<1> QED BY <1>1, <1>2

----------------------------------------------------------------------------
\* What the loop does to the callback that runs, and to the input.
Turned ==
    /\ phase = "user" => phase' = "user" /\ cur' = cur
    /\ inq' = inq \/ inq' = 0
    /\ cur' = "message" /\ cur # "message"
          => /\ inq > 0 /\ inq' = 0 /\ phase' = "user"
             /\ state \notin {"none", "kConnecting"}

LEMMA HandleWriteInput == ASSUME HandleWrite PROVE inq' = inq
<1>1. HandleClose => inq' = inq
  BY Zenon DEF HandleClose, Crash
<1> QED BY <1>1 DEF HandleWrite, sockVars

LEMMA LoopStepTurned == ASSUME TypeOK, Life, LoopStep PROVE Turned
<1>1. ASSUME phase = "user" PROVE phase' = "user" /\ cur' = cur
  <2>1. Flush
    BY <1>1, Zenon DEF LoopStep, Poll, EventClose, EventError, EventRead, EventWrite, Swap, BatchDone,
       RunConnectEstablished, RunSendInLoop, RunShutdownInLoop, RunForceCloseInLoop,
       RunHandleWrite, RunWriteComplete, RunConnectDestroyed, Running
  <2> QED BY <1>1, <2>1 DEF Flush
<1>2. inq' = inq \/ inq' = 0
  <2>1. CASE \/ Poll \/ EventError \/ Swap \/ BatchDone
             \/ RunConnectEstablished \/ RunWriteComplete \/ RunConnectDestroyed
    BY <2>1, Zenon DEF Poll, EventError, Swap, BatchDone, RunConnectEstablished, RunWriteComplete,
       RunConnectDestroyed, sockVars
  <2>2. CASE EventClose \/ EventRead \/ RunForceCloseInLoop
    <3>1. HandleClose => inq' = inq
      BY Zenon DEF HandleClose, Crash
    <3> QED BY <2>2, <3>1 DEF EventClose, EventRead, RunForceCloseInLoop, sockVars
  <2>3. CASE EventWrite \/ Flush \/ RunHandleWrite
    BY <2>3, HandleWriteInput DEF EventWrite, Flush, RunHandleWrite
  <2>4. CASE RunSendInLoop \/ RunShutdownInLoop
    BY <2>4, NoCallRuns, Zenon DEF RunSendInLoop, RunShutdownInLoop
  <2> QED BY <2>1, <2>2, <2>3, <2>4 DEF LoopStep
<1>3. ASSUME cur' = "message", cur # "message"
      PROVE  /\ inq > 0 /\ inq' = 0 /\ phase' = "user"
             /\ state \notin {"none", "kConnecting"}
  <2>1. EventRead
    <3>1. Next
      BY DEF Next, Life
    <3> QED BY <1>3, <3>1, OnlyRead
  <2>2. "IN" \in revents
    BY <2>1 DEF EventRead
  <2>3. state \notin {"none", "kConnecting"}
    BY <2>2 DEF Life, Stages, Unborn
  <2>4. inq > 0 /\ inq' = 0 /\ phase' = "user"
    BY <1>3, <2>1 DEF EventRead
  <2> QED BY <2>3, <2>4
<1> QED BY <1>1, <1>2, <1>3 DEF Turned

LEMMA OutsideTurned ==
    ASSUME OneLoop, \/ NewConnection \/ PeerReads \/ PeerCloses \/ PeerResets
                    \/ UNCHANGED vars
    PROVE  Turned
<1>1. CASE NewConnection
  <2>1. phase = "poll" /\ inq' = inq /\ cur' = "up"
    BY <1>1 DEF NewConnection, sockVars
  <2> QED BY <2>1 DEF Turned
<1>2. CASE PeerReads \/ PeerCloses \/ PeerResets \/ UNCHANGED vars
  <2>1. UNCHANGED <<loopVars, inq>>
    BY <1>2 DEF PeerReads, PeerCloses, PeerResets, vars, sockVars
  <2>2. UNCHANGED <<phase, cur, inq>>
    BY <2>1 DEF loopVars
  <2> QED BY <2>2 DEF Turned
<1> QED BY <1>1, <1>2

----------------------------------------------------------------------------
\* Where onMessage and the callbacks are: a context is open only inside
\* onMessage, between handleDownload and reset(), and onMessage is called only
\* for a request that the peer may make.
Turns ==
    /\ app # "begin" => phase = "user"
    /\ app \in {"respond", "close", "reset"} => cur = "message" /\ asked # <<>>
    /\ ctx # NoContext => app \in {"respond", "close", "reset"}
    /\ app \in {"respond", "close"} /\ req.kind = "bad" => ctx = NoContext
    /\ app = "close" => req.close \/ req.kind = "bad"
    /\ inq > 0 => Len(asked) < MaxRequests
    /\ cur = "message" => inq = 0 /\ phase = "user" /\ state \notin {"none", "kConnecting"}
    /\ cur = "message" /\ app = "begin" => Len(asked) < MaxRequests
    /\ asked # <<>> => state \notin {"none", "kConnecting"}

LEMMA TurnedTurns ==
    ASSUME TypeOK, Turns, Turned, Onward, UNCHANGED appVars PROVE Turns'
<1>1. UNCHANGED <<app, ctx, asked>> /\ req' = req
  BY DEF appVars, req
<1>2. inq \in Nat
  BY DEF TypeOK, ConnTypeOK
<1>3. inq' > 0 => inq > 0
  BY <1>2 DEF Turned
<1>4. state \notin {"none", "kConnecting"} => state' \notin {"none", "kConnecting"}
  BY DEF Onward
<1>5. phase = "user" => phase' = "user" /\ cur' = cur
  BY DEF Turned
<1>6. cur' = "message"
        => inq' = 0 /\ phase' = "user" /\ state' \notin {"none", "kConnecting"}
  BY <1>4, <1>5 DEF Turned, Turns
<1>7. cur' = "message" /\ app = "begin" => Len(asked) < MaxRequests
  BY DEF Turned, Turns
<1> QED BY <1>1, <1>3, <1>4, <1>5, <1>6, <1>7 DEF Turns

\* A request goes in while the last one is not being handled.
LEMMA PeerRequestsTurns ==
    ASSUME TypeOK, Turns, PeerRequests, UNCHANGED appVars PROVE Turns'
<1>1. UNCHANGED <<app, ctx, asked, phase, cur, state>> /\ req' = req
  BY DEF PeerRequests, PeerSends, connVars, loopVars, appVars, req
<1>2. Len(asked) < MaxRequests /\ cur # "message"
  BY DEF PeerRequests
<1> QED BY <1>1, <1>2 DEF Turns

----------------------------------------------------------------------------
\* A download that is complete is at the end of its file.
Opened == \A c \in DOMAIN pos : complete[c] => pos[c] = FileSize


\* A request that opens a download, and one that does not.
Opens(r) ==
    \E c \in ChunkCbs \ DOMAIN pos :
        /\ r.kind \in {"get", "range"} /\ From(r) \in 0 .. FileSize
        /\ ctx' = c
        /\ pos' = Extended(pos, c, From(r)) /\ complete' = Extended(complete, c, FALSE)
        /\ SetWriteCompleteCallback(c)

Leaves(r) ==
    /\ UNCHANGED <<ctx, pos, complete>> /\ ~Download(r)
    /\ \/ UNCHANGED vars
       \/ r.kind # "bad" /\ \E c \in {Shut, ShutSelf} : SetWriteCompleteCallback(c)

LEMMA RequestBegins ==
    ASSUME Turns, NEW r, HandleRequest(r)
    PROVE  /\ phase = "user" /\ app = "begin" /\ cur = "message" /\ ctx = NoContext
           /\ Len(asked) < MaxRequests
           /\ asked' = Append(asked, r) /\ app' = "respond" /\ label' = label
BY DEF HandleRequest, Starts, InUser, Turns

LEMMA RequestOpens ==
    ASSUME AppTypeOK, Turns, Opened, NEW r \in Requests, HandleRequest(r), NEW from,
           OpenDownload(from), from = From(r), from \in 0 .. FileSize, r.kind \in {"get", "range"}
    PROVE  Opens(r)
<1>1. ctx = NoContext
  BY RequestBegins
<1>2. PICK c \in ChunkCbs \ DOMAIN pos :
          /\ ctx' = c
          /\ pos' = Extended(pos, c, from) /\ complete' = Extended(complete, c, FALSE)
          /\ SetWriteCompleteCallback(c)
  BY <1>1, Zenon DEF OpenDownload
<1> QED BY <1>2, Zenon DEF Opens

LEMMA RequestCases ==
    ASSUME AppTypeOK, Turns, Opened, NEW r \in Requests, HandleRequest(r)
    PROVE  Opens(r) \/ Leaves(r)
<1>1. r.kind \in {"bad", "page", "error", "head", "get", "range"} /\ r.from \in Nat
  BY DownloadAssumption DEF Request
<1>2. FileSize \in Nat
  BY DownloadAssumption
<1>3. CASE r.kind \in {"bad", "page", "head", "error"}
  <2>1. ~Download(r)
    BY <1>3 DEF Download
  <2>2. /\ UNCHANGED <<ctx, pos, complete>>
        /\ \/ UNCHANGED vars
           \/ r.kind # "bad" /\ \E c \in {Shut, ShutSelf} : SetWriteCompleteCallback(c)
    BY <1>3 DEF HandleRequest
  <2> QED BY <2>1, <2>2 DEF Leaves
<1>4. CASE r.kind = "get"
  <2>1. OpenDownload(0) /\ From(r) = 0 /\ 0 \in 0 .. FileSize
    BY <1>2, <1>4 DEF HandleRequest, From
  <2> QED BY <1>4, <2>1, RequestOpens
<1>5. CASE r.kind = "range" /\ r.from >= FileSize
  <2>1. ~Download(r)
    BY <1>1, <1>2, <1>5 DEF Download, From
  <2>2. UNCHANGED <<ctx, pos, complete>> /\ SetWriteCompleteCallback(ShutSelf)
    BY <1>5 DEF HandleRequest
  <2> QED BY <1>5, <2>1, <2>2 DEF Leaves
<1>6. CASE r.kind = "range" /\ ~(r.from >= FileSize)
  <2>1. OpenDownload(r.from)
    BY <1>6 DEF HandleRequest
  <2>2. From(r) = r.from /\ r.from \in 0 .. FileSize
    BY <1>1, <1>2, <1>6 DEF From
  <2> QED BY <1>6, <2>1, <2>2, RequestOpens
<1> QED BY <1>1, <1>3, <1>4, <1>5, <1>6

\* The history grows by the request.
LEMMA Asked ==
    ASSUME NEW q \in Seq(Requests), NEW r \in Requests, NEW s, s = Append(q, r)
    PROVE  /\ s \in Seq(Requests) /\ s # <<>> /\ Len(s) = Len(q) + 1 /\ s[Len(s)] = r
           /\ Len(q) \in Nat
<1>1. /\ s \in Seq(Requests) /\ Len(q) \in Nat /\ Len(s) = Len(q) + 1 /\ s[Len(q) + 1] = r
  OBVIOUS
<1>2. s # <<>>
  BY <1>1
<1> QED BY <1>1, <1>2

LEMMA SetKeeps ==
    ASSUME NEW c, SetWriteCompleteCallback(c) \/ UNCHANGED vars
    PROVE  UNCHANGED <<state, phase, cur, inq, wrShut, pending, batch>>
BY DEF SetWriteCompleteCallback, loopVars, sockVars, vars, connVars

LEMMA RequestKeeps ==
    ASSUME AppTypeOK, Turns, Opened, NEW r \in Requests, HandleRequest(r)
    PROVE  UNCHANGED <<state, phase, cur, inq, wrShut, pending, batch>>
BY RequestCases, SetKeeps, Zenon DEF Opens, Leaves

LEMMA HandleRequestTurns ==
    ASSUME AppTypeOK, Turns, Opened, NEW r \in Requests, HandleRequest(r) PROVE Turns'
<1>1. UNCHANGED <<state, phase, cur, inq>>
  BY RequestKeeps
<1>2. /\ phase = "user" /\ app = "begin" /\ cur = "message" /\ ctx = NoContext
      /\ asked' = Append(asked, r) /\ app' = "respond"
  BY RequestBegins
<1>3. asked' # <<>> /\ req' = r
  BY <1>2, Asked DEF req, AppTypeOK
<1>4. r.kind = "bad" => ctx' = NoContext
  BY <1>2, RequestCases, Zenon DEF Opens, Leaves
<1>5. inq = 0 /\ state \notin {"none", "kConnecting"}
  BY <1>2 DEF Turns
<1> QED BY <1>1, <1>2, <1>3, <1>4, <1>5 DEF Turns

\* The tables of the contexts grow by one.
LEMMA ExtendedType ==
    ASSUME NEW f, NEW c, NEW v, NEW g, g = Extended(f, c, v)
    PROVE  /\ DOMAIN g = DOMAIN f \cup {c} /\ g[c] = v
           /\ \A d \in DOMAIN f : d # c => g[d] = f[d]
BY DEF Extended

LEMMA HandleRequestType ==
    ASSUME AppTypeOK, Turns, Opened, NEW r \in Requests, HandleRequest(r)
    PROVE  AppTypeOK' /\ Opened'
<1>1. asked' = Append(asked, r) /\ app' = "respond" /\ label' = label
  BY RequestBegins
<1>2. asked' \in Seq(Requests) /\ Len(asked') = Len(asked) + 1 /\ Len(asked) \in Nat
  BY <1>1, Asked DEF AppTypeOK
<1>3. CASE Leaves(r)
  <2>1. UNCHANGED <<ctx, pos, complete>>
    BY <1>3 DEF Leaves
  <2>2. AppTypeOK'
    BY <1>1, <1>2, <2>1 DEF AppTypeOK
  <2> QED BY <2>1, <2>2 DEF Opened
<1>4. CASE Opens(r)
  <2>1. PICK c \in ChunkCbs \ DOMAIN pos :
            /\ From(r) \in 0 .. FileSize /\ ctx' = c
            /\ pos' = Extended(pos, c, From(r)) /\ complete' = Extended(complete, c, FALSE)
    BY <1>4, Zenon DEF Opens
  <2>2. /\ DOMAIN pos' = DOMAIN pos \cup {c} /\ pos'[c] = From(r)
        /\ \A d \in DOMAIN pos : pos'[d] = pos[d]
    BY <2>1 DEF Extended
  <2>3. /\ DOMAIN complete' = DOMAIN complete \cup {c} /\ complete'[c] = FALSE
        /\ \A d \in DOMAIN complete : complete'[d] = complete[d]
    BY <2>1, Zenon DEF AppTypeOK, Extended
  <2>4. DOMAIN complete = DOMAIN pos
    BY DEF AppTypeOK
  <2>5. \A d \in DOMAIN pos' : pos'[d] \in 0 .. FileSize /\ complete'[d] \in BOOLEAN
    BY <2>1, <2>2, <2>3, <2>4, Zenon DEF AppTypeOK
  <2>6. AppTypeOK'
    BY <1>1, <1>2, <2>1, <2>2, <2>3, <2>4, <2>5, Zenon DEF AppTypeOK
  <2>7. \A d \in DOMAIN pos' : complete'[d] => pos'[d] = FileSize
    BY <2>2, <2>3, <2>4, Zenon DEF Opened
  <2> QED BY <2>6, <2>7 DEF Opened
<1> QED BY <1>3, <1>4, RequestCases

----------------------------------------------------------------------------
\* The calls of send and shutdown.
LEMMA SendIs ==
    ASSUME TypeOK, NEW S, NEW ls \in Seq(S), ls # <<>>, Send(ls)
    PROVE  Calls \/ UNCHANGED vars
<1>1. CASE LoopSend(Len(ls))
  <2>1. Len(ls) \in Nat /\ Len(ls) > 0
    OBVIOUS
  <2>2. PICK k : k = Len(ls)
    OBVIOUS
  <2>3. LoopSend(k)
    BY <1>1, <2>2
  <2>4. nextByte["loop"] \in 0 .. MaxBytes
    BY DEF TypeOK, LoopTypeOK, Callers
  <2>5. nextByte["loop"] + k <= MaxBytes
    BY <2>3 DEF LoopSend, CanSend
  <2>6. PICK n : n = nextByte["loop"]
    OBVIOUS
  <2>7. n \in Nat /\ k \in Nat /\ k > 0 /\ n + k <= MaxBytes /\ MaxBytes \in Nat
    BY <2>1, <2>2, <2>4, <2>5, <2>6, ConnAssumption
  <2>8. k \in 1 .. MaxBytes
    BY <2>7
  <2> QED BY <2>3, <2>8 DEF Calls
<1> QED BY <1>1 DEF Send

LEMMA SendKeeps ==
    ASSUME NEW ls, Send(ls)
    PROVE  /\ UNCHANGED <<phase, cur, inq, state, wrShut>>
           /\ IF state = "kConnected" THEN label' = label \o ls ELSE label' = label
<1>1. CASE LoopSend(Len(ls))
  <2>1. PICK d : SendInLoop(d) /\ state = "kConnected"
    BY <1>1 DEF LoopSend
  <2>2. UNCHANGED <<inq, state, wrShut>>
    BY <2>1 DEF SendInLoop, sockVars, connVars
  <2>3. UNCHANGED <<phase, cur>>
    BY <1>1 DEF LoopSend
  <2> QED BY <1>1, <2>1, <2>2, <2>3 DEF Send
<1>2. CASE state # "kConnected" /\ UNCHANGED <<vars, label>>
  <2>1. UNCHANGED <<phase, cur, inq, state, wrShut>>
    BY <1>2 DEF vars, loopVars, sockVars, connVars
  <2> QED BY <1>2, <2>1
<1> QED BY <1>1, <1>2 DEF Send

LEMMA ShutdownKeeps ==
    ASSUME Shutdown
    PROVE  /\ UNCHANGED <<phase, cur, inq>>
           /\ \/ state = "kConnected" /\ state' = "kDisconnecting"
              \/ state # "kConnected" /\ UNCHANGED <<state, wrShut>>
           /\ Calls \/ UNCHANGED vars
<1>1. CASE LoopShutdown
  BY <1>1 DEF LoopShutdown, ShutdownInLoop, loopVars, Calls
<1>2. CASE state # "kConnected" /\ UNCHANGED vars
  <2>1. UNCHANGED <<phase, cur, inq, state, wrShut>>
    BY <1>2 DEF vars, loopVars, sockVars, connVars
  <2> QED BY <1>2, <2>1
<1> QED BY <1>1, <1>2 DEF Shutdown

LEMMA ReturnKeeps ==
    ASSUME CallbackReturns
    PROVE  UNCHANGED <<inq, state, wrShut>> /\ cur' = "none" /\ Calls
BY DEF CallbackReturns, connVars, sockVars, Calls

----------------------------------------------------------------------------
\* The steps of the file manager that follow a request.
LEMMA StepsTurns ==
    ASSUME TypeOK, AppTypeOK, Turns,
           Respond \/ CloseConnection \/ ResetContext \/ ShutCallback \/ Return
    PROVE  Turns'
<1>1. CASE Respond
  <2>1. /\ app = "respond" /\ Send(<<Header>>) /\ UNCHANGED <<ctx, asked>>
        /\ app' = IF req.close \/ req.kind = "bad" THEN "close" ELSE "reset"
    BY <1>1 DEF Respond
  <2>2. UNCHANGED <<phase, cur, inq, state>> /\ req' = req
    BY <2>1, SendKeeps DEF req
  <2> QED BY <2>1, <2>2 DEF Turns
<1>2. CASE CloseConnection
  <2>1. /\ app = "close" /\ Shutdown /\ UNCHANGED <<ctx, asked>>
        /\ app' = IF req.kind = "bad" THEN "return" ELSE "reset"
    BY <1>2 DEF CloseConnection
  <2>2. UNCHANGED <<phase, cur, inq>> /\ req' = req
    BY <2>1, ShutdownKeeps DEF req
  <2>3. state' = state \/ state' = "kDisconnecting"
    BY <2>1, ShutdownKeeps
  <2> QED BY <2>1, <2>2, <2>3 DEF Turns
<1>3. CASE ResetContext
  <2>1. ctx' = NoContext /\ CallbackReturns /\ app' = "begin" /\ asked' = asked
    BY <1>3 DEF ResetContext
  <2>2. UNCHANGED <<inq, state>> /\ cur' = "none"
    BY <2>1, ReturnKeeps
  <2> QED BY <2>1, <2>2 DEF Turns
<1>4. CASE ShutCallback
  <2>1. /\ app = "begin" /\ phase = "user" /\ Shutdown /\ UNCHANGED <<ctx, asked>>
        /\ app' = "return"
    BY <1>4 DEF ShutCallback, Starts, InUser
  <2>2. UNCHANGED <<phase, cur, inq>>
    BY <2>1, ShutdownKeeps
  <2>3. state' = state \/ state' = "kDisconnecting"
    BY <2>1, ShutdownKeeps
  <2> QED BY <2>1, <2>2, <2>3 DEF Turns
<1>5. CASE Return
  <2>1. /\ CallbackReturns /\ app' = "begin" /\ UNCHANGED <<ctx, asked>>
        /\ app \in {"return", "begin"}
    BY <1>5 DEF Return, Starts
  <2>2. UNCHANGED <<inq, state>> /\ cur' = "none"
    BY <2>1, ReturnKeeps
  <2> QED BY <2>1, <2>2 DEF Turns
<1> QED BY <1>1, <1>2, <1>3, <1>4, <1>5

LEMMA SentType ==
    ASSUME AppTypeOK, NEW ls \in Seq(-1 .. FileSize - 1), Send(ls)
    PROVE  label' \in Seq(-1 .. FileSize - 1)
<1>1. PICK S : S = -1 .. FileSize - 1
  OBVIOUS
<1>2. label \in Seq(S) /\ ls \in Seq(S)
  BY <1>1 DEF AppTypeOK
<1>3. label \o ls \in Seq(S)
  BY <1>2
<1> QED BY <1>1, <1>2, <1>3, SendKeeps, Zenon

LEMMA HeaderType == <<Header>> \in Seq(-1 .. FileSize - 1) /\ <<Header>> # <<>>
<1>1. Header \in -1 .. FileSize - 1
  BY DownloadAssumption DEF Header
<1> QED BY <1>1

LEMMA StepsType ==
    ASSUME AppTypeOK, Opened,
           Respond \/ CloseConnection \/ ResetContext \/ ShutCallback \/ Return
    PROVE  AppTypeOK' /\ Opened'
<1>1. UNCHANGED <<pos, complete, asked>>
  BY DEF Respond, CloseConnection, ResetContext, ShutCallback, Return
<1>2. app' \in {"begin", "respond", "close", "reset", "return"}
  BY DEF Respond, CloseConnection, ResetContext, ShutCallback, Return
<1>3. ctx' \in {ctx, NoContext}
  BY DEF Respond, CloseConnection, ResetContext, ShutCallback, Return
<1>4. label' \in Seq(-1 .. FileSize - 1)
  <2>1. CASE Respond
    BY <2>1, HeaderType, SentType, Zenon DEF Respond
  <2>2. CASE CloseConnection \/ ResetContext \/ ShutCallback \/ Return
    BY <2>2, Zenon DEF CloseConnection, ResetContext, ShutCallback, Return, AppTypeOK
  <2> QED BY <2>1, <2>2
<1>5. AppTypeOK'
  BY <1>1, <1>2, <1>3, <1>4, Zenon DEF AppTypeOK
<1> QED BY <1>1, <1>5 DEF Opened

----------------------------------------------------------------------------
\* A chunk of n bytes from position p of the file.
Chunk(p, n) == [i \in 1 .. n |-> p + i - 1]

LEMMA ChunkType ==
    ASSUME NEW p \in Nat, NEW n \in Nat, n > 0, p + n <= FileSize
    PROVE  Chunk(p, n) \in Seq(-1 .. FileSize - 1) /\ Chunk(p, n) # <<>>
<1>1. FileSize \in Nat
  BY DownloadAssumption
<1>2. \A i \in 1 .. n : p + i - 1 \in -1 .. FileSize - 1
  BY <1>1
<1>3. Chunk(p, n) \in Seq(-1 .. FileSize - 1)
  BY <1>2 DEF Chunk
<1>4. Len(Chunk(p, n)) = n
  BY DEF Chunk
<1> QED BY <1>3, <1>4

\* What readNextChunk returns stays within the file, and is nothing only at its
\* end.
LEMMA ChunkFits ==
    ASSUME AppTypeOK, Opened, NEW c \in DOMAIN pos
    PROVE  /\ ChunkLen(c) \in Nat /\ pos[c] \in Nat /\ pos[c] + ChunkLen(c) <= FileSize
           /\ ChunkLen(c) = 0 => pos[c] = FileSize
<1>1. /\ FileSize \in Nat /\ ChunkSize \in Nat \ {0} /\ pos[c] \in 0 .. FileSize
      /\ complete[c] \in BOOLEAN
  BY DownloadAssumption DEF AppTypeOK
<1>2. CASE complete[c] = TRUE
  <2>1. ChunkLen(c) = 0 /\ pos[c] = FileSize
    BY <1>2, Zenon DEF ChunkLen, Opened
  <2> QED BY <1>1, <2>1
<1>3. CASE complete[c] = FALSE
  <2>1. ChunkLen(c) = IF FileSize - pos[c] < ChunkSize THEN FileSize - pos[c] ELSE ChunkSize
    BY <1>3, Zenon DEF ChunkLen
  <2> QED BY <1>1, <2>1
<1> QED BY <1>1, <1>2, <1>3, Zenon
----------------------------------------------------------------------------
\* The callbacks in use: those of the downloads opened, and the ones that only
\* shut down once a request has asked for anything but one plain download.
Single == Len(asked) = 1 /\ Download(req) /\ ~req.close

Users ==
    {NoCallback} \cup DOMAIN pos
        \cup (IF asked = <<>> \/ Single THEN {} ELSE {Shut, ShutSelf})

\* A callback that runs was installed by a request.
LEMMA UsersRun ==
    ASSUME FileManager, AppTypeOK, Uses(Users)
    PROVE  /\ \A c \in ChunkCbs : cur = c => c \in DOMAIN pos
           /\ cur \in {Shut, ShutSelf} => asked # <<>> /\ ~Single
<1>1. /\ NoCallback \notin Callbacks /\ Callbacks = {Shut, ShutSelf} \cup ChunkCbs
      /\ {"none", "up", "message"} \cap Callbacks = {}
      /\ {Shut, ShutSelf} \cap ChunkCbs = {} /\ DOMAIN pos \subseteq ChunkCbs
  BY ConnAssumption, DownloadAssumption, Zenon DEF FileManager, AppTypeOK
<1>2. cur \in {"none", "up", "message"} \cup Users
  BY DEF Uses
<1> QED BY <1>1, <1>2 DEF Users

LEMMA UsesSame ==
    ASSUME TypeOK, Uses(Users), Moves, UNCHANGED <<asked>>, DOMAIN pos' = DOMAIN pos
    PROVE  Uses(Users)'
<1>1. PICK K : K = Users
  BY Zenon
<1>2. Users' = K
  BY <1>1 DEF Users, Single, req
<1>3. NoCallback \in K
  BY <1>1 DEF Users
<1>4. Uses(K)
  BY <1>1 DEF Uses
<1>5. Uses(K)'
  BY <1>3, <1>4, UsesKept
<1> QED BY <1>2, <1>5 DEF Uses

LEMMA HandleRequestUses ==
    ASSUME AppTypeOK, Turns, Opened, Uses(Users), NEW r \in Requests, HandleRequest(r)
    PROVE  Uses(Users)'
<1>1. UNCHANGED <<cur, pending, batch>>
  BY RequestKeeps
<1>2. asked' = Append(asked, r)
  BY RequestBegins
<1>3. /\ asked' # <<>> /\ req' = r /\ Len(asked') = Len(asked) + 1 /\ Len(asked) \in Nat
      /\ asked \in Seq(Requests)
  BY <1>2, Asked DEF req, AppTypeOK
<1>4. Single' => asked = <<>> /\ Download(r)
  <2>1. Single' => Len(asked') = 1 /\ Download(r)
    BY <1>3, Zenon DEF Single, Download, From
  <2> QED BY <1>3, <2>1
<1>5. DOMAIN pos \subseteq DOMAIN pos' /\ wcc' \in {wcc, NoCallback} \cup Users'
  <2>1. CASE Leaves(r)
    <3>1. ~Single' /\ UNCHANGED <<pos>>
      BY <1>4, <2>1 DEF Leaves
    <3>2. wcc' \in {wcc, Shut, ShutSelf}
      BY <2>1 DEF Leaves, SetWriteCompleteCallback, vars, connVars
    <3> QED BY <1>3, <3>1, <3>2 DEF Users
  <2>2. CASE Opens(r)
    <3>1. PICK c : pos' = Extended(pos, c, From(r)) /\ SetWriteCompleteCallback(c)
      BY <2>2 DEF Opens
    <3>2. DOMAIN pos' = DOMAIN pos \cup {c}
      BY <3>1, ExtendedType, Zenon
    <3>3. wcc' = c
      BY <3>1 DEF SetWriteCompleteCallback
    <3> QED BY <3>2, <3>3 DEF Users
  <2> QED BY <2>1, <2>2, RequestCases, Zenon
<1>6. Users \subseteq Users'
  BY <1>3, <1>4, <1>5, Zenon DEF Users
<1> QED BY <1>1, <1>5, <1>6, Zenon DEF Uses, Users
\* A step of a download's callback.
Sends(c) ==
    /\ pos' = [pos EXCEPT ![c] = @ + ChunkLen(c)] /\ complete' = complete
    /\ Send(Chunk(pos[c], ChunkLen(c)))

Ends(c) ==
    /\ complete' = [complete EXCEPT ![c] = TRUE] /\ UNCHANGED <<pos, label>>
    /\ Shutdown

LEMMA ChunkCases ==
    ASSUME FileManager, AppTypeOK, Opened, Uses(Users),
           NEW c \in ChunkCbs, ChunkCallback(c)
    PROVE  /\ c \in DOMAIN pos /\ cur = c /\ app = "begin" /\ phase = "user"
           /\ app' = "return" /\ UNCHANGED <<ctx, asked>>
           /\ pos[c] \in Nat /\ ChunkLen(c) \in Nat /\ pos[c] + ChunkLen(c) <= FileSize
           /\ \/ Ends(c) /\ pos[c] = FileSize
              \/ Sends(c) /\ ChunkLen(c) > 0
<1>1. /\ cur = c /\ app = "begin" /\ phase = "user"
      /\ app' = "return" /\ UNCHANGED <<ctx, asked>>
  BY DEF ChunkCallback, Starts, InUser
<1>2. c \in DOMAIN pos
  BY <1>1, UsersRun
<1>3. /\ ChunkLen(c) \in Nat /\ pos[c] \in Nat /\ pos[c] + ChunkLen(c) <= FileSize
      /\ ChunkLen(c) = 0 => pos[c] = FileSize
  BY <1>2, ChunkFits
<1>4. \/ ChunkLen(c) = 0 /\ Ends(c)
      \/ ChunkLen(c) > 0 /\ Sends(c)
  BY DEF ChunkCallback, Ends, Sends, Chunk
<1> QED BY <1>1, <1>2, <1>3, <1>4

LEMMA ChunkCallbackTurns ==
    ASSUME FileManager, AppTypeOK, Turns, Opened, Uses(Users),
           NEW c \in ChunkCbs, ChunkCallback(c)
    PROVE  Turns'
<1>1. /\ phase = "user" /\ app = "begin" /\ app' = "return" /\ UNCHANGED <<ctx, asked>>
      /\ Ends(c) \/ Sends(c)
  BY ChunkCases
<1>2. /\ UNCHANGED <<phase, cur, inq>>
      /\ state' = state \/ state' = "kDisconnecting"
  BY <1>1, SendKeeps, ShutdownKeeps DEF Ends, Sends
<1> QED BY <1>1, <1>2 DEF Turns

LEMMA ChunkCallbackType ==
    ASSUME FileManager, AppTypeOK, Opened, Uses(Users),
           NEW c \in ChunkCbs, ChunkCallback(c)
    PROVE  AppTypeOK' /\ Opened' /\ DOMAIN pos' = DOMAIN pos
<1>1. /\ c \in DOMAIN pos /\ app' = "return" /\ UNCHANGED <<ctx, asked>>
      /\ pos[c] \in Nat /\ ChunkLen(c) \in Nat /\ pos[c] + ChunkLen(c) <= FileSize
  BY ChunkCases
<1>2. /\ DOMAIN complete = DOMAIN pos /\ DOMAIN pos \subseteq ChunkCbs
      /\ \A d \in DOMAIN pos : pos[d] \in 0 .. FileSize /\ complete[d] \in BOOLEAN
      /\ \A d \in DOMAIN pos : complete[d] => pos[d] = FileSize
  BY Zenon DEF AppTypeOK, Opened
<1>3. CASE Ends(c) /\ pos[c] = FileSize
  <2>1. /\ UNCHANGED <<pos, label>> /\ DOMAIN complete' = DOMAIN complete
        /\ \A d \in DOMAIN complete : complete'[d] = IF d = c THEN TRUE ELSE complete[d]
    BY <1>3, <1>2, Zenon DEF Ends
  <2>2. \A d \in DOMAIN pos : complete'[d] \in BOOLEAN /\ (complete'[d] => pos[d] = FileSize)
    BY <1>2, <1>3, <2>1, Zenon
  <2> QED BY <1>1, <1>2, <2>1, <2>2, Zenon DEF AppTypeOK, Opened
<1>4. CASE Sends(c) /\ ChunkLen(c) > 0
  <2>1. PICK n : n = ChunkLen(c)
    OBVIOUS
  <2>2. /\ complete' = complete /\ DOMAIN pos' = DOMAIN pos
        /\ \A d \in DOMAIN pos : pos'[d] = IF d = c THEN pos[c] + n ELSE pos[d]
    BY <1>1, <1>4, <2>1 DEF Sends
  <2>3. pos[c] + n \in 0 .. FileSize
    BY <1>1, <2>1, DownloadAssumption
  <2>4. complete[c] = FALSE
    <3>1. pos[c] # FileSize
      BY <1>1, <1>4, <2>1, DownloadAssumption
    <3> QED BY <1>1, <1>2, <3>1, Zenon
  <2>5. label' \in Seq(-1 .. FileSize - 1)
    <3>1. Chunk(pos[c], n) \in Seq(-1 .. FileSize - 1) /\ Send(Chunk(pos[c], n))
      BY <1>1, <1>4, <2>1, ChunkType DEF Sends
    <3> QED BY <3>1, SentType
  <2>6. \A d \in DOMAIN pos : pos'[d] \in 0 .. FileSize
    BY <1>2, <2>2, <2>3
  <2>7. \A d \in DOMAIN pos : complete[d] => pos'[d] = FileSize
    BY <1>2, <2>2, <2>4, Zenon
  <2> QED BY <1>1, <1>2, <2>2, <2>5, <2>6, <2>7, Zenon DEF AppTypeOK, Opened
<1> QED BY <1>3, <1>4, ChunkCases, Zenon

----------------------------------------------------------------------------
\* What a download has sent when it is at byte to of the file.
PartLen(from, to) == to - from + 1
PartAt(from, i) == IF i = 1 THEN Header ELSE from + i - 2
Part(from, to) == [i \in 1 .. PartLen(from, to) |-> PartAt(from, i)]

IsPart(s, from, k) ==
    k \in Nat /\ s \in Seq(Int) /\ Len(s) = k /\ \A i \in 1 .. k : s[i] = PartAt(from, i)

LEMMA PartType ==
    ASSUME NEW from \in Nat, NEW to \in Nat, from <= to, NEW s, s = Part(from, to),
           NEW k, k = PartLen(from, to)
    PROVE  IsPart(s, from, k)
<1>1. k \in Nat
  BY DEF PartLen
<1>2. \A i \in 1 .. k : PartAt(from, i) \in Int
  BY DEF PartAt, Header
<1>3. s = [i \in 1 .. k |-> PartAt(from, i)]
  BY DEF Part
<1>4. s \in Seq(Int)
  BY <1>1, <1>2, <1>3
<1> QED BY <1>1, <1>3, <1>4 DEF IsPart

LEMMA PartFirst == ASSUME NEW from \in Nat PROVE <<>> \o <<Header>> = Part(from, from)
<1>1. PICK p : p = Part(from, from)
  OBVIOUS
<1>2. from <= from /\ PartLen(from, from) = 1
  BY DEF PartLen
<1>3. p \in Seq(Int) /\ Len(p) = 1 /\ \A i \in 1 .. 1 : p[i] = PartAt(from, i)
  BY <1>1, <1>2, PartType, Zenon DEF IsPart
<1>4. p[1] = Header
  BY <1>3 DEF PartAt
<1>5. <<Header>> \in Seq(Int) /\ Len(<<Header>>) = 1 /\ <<Header>>[1] = Header
  BY DEF Header
<1>6. p = <<Header>>
  BY <1>3, <1>4, <1>5
<1>7. <<>> \o <<Header>> = <<Header>>
  BY <1>5
<1> QED BY <1>1, <1>6, <1>7

LEMMA PartGrows ==
    ASSUME NEW from \in Nat, NEW p \in Nat, NEW n \in Nat, from <= p
    PROVE  Part(from, p) \o Chunk(p, n) = Part(from, p + n)
<1>1. PICK a : a = Part(from, p)
  OBVIOUS
<1>2. PICK b : b = Chunk(p, n)
  OBVIOUS
<1>3. PICK z : z = Part(from, p + n)
  OBVIOUS
<1>4. PICK m : m = PartLen(from, p)
  OBVIOUS
<1>5. m \in Nat /\ m >= 1 /\ m = p - from + 1
  BY <1>4 DEF PartLen
<1>6. /\ a \in Seq(Int) /\ Len(a) = m
      /\ \A i \in 1 .. m : a[i] = PartAt(from, i)
  <2>1. IsPart(a, from, m)
    BY <1>1, <1>4, PartType
  <2> QED BY <2>1 DEF IsPart
<1>7. /\ z \in Seq(Int) /\ Len(z) = m + n
      /\ \A i \in 1 .. (m + n) : z[i] = PartAt(from, i)
  <2>1. PICK q : q = p + n
    OBVIOUS
  <2>2. q \in Nat /\ from <= q /\ PartLen(from, q) = m + n
    BY <1>5, <2>1 DEF PartLen
  <2>3. IsPart(z, from, m + n)
    BY <1>3, <2>1, <2>2, PartType
  <2> QED BY <2>3 DEF IsPart
<1>8. b \in Seq(Int) /\ Len(b) = n /\ \A i \in 1 .. n : b[i] = p + i - 1
  <2>1. \A i \in 1 .. n : p + i - 1 \in Int
    OBVIOUS
  <2>2. b \in Seq(Int)
    BY <1>2, <2>1 DEF Chunk
  <2> QED BY <1>2, <2>2 DEF Chunk
<1>9. PICK y : y = a \o b
  BY Zenon
<1>10. /\ y \in Seq(Int) /\ Len(y) = m + n
       /\ \A i \in 1 .. m : y[i] = a[i]
       /\ \A i \in 1 .. (m + n) : i \notin 1 .. m => y[i] = b[i - m]
  <2>1. /\ y \in Seq(Int) /\ Len(y) = Len(a) + Len(b)
        /\ \A i \in 1 .. (Len(a) + Len(b)) :
               y[i] = IF i <= Len(a) THEN a[i] ELSE b[i - Len(a)]
    BY <1>6, <1>8, <1>9
  <2>2. Len(a) = m /\ Len(b) = n
    BY <1>6, <1>8
  <2>3. y \in Seq(Int) /\ Len(y) = m + n
    BY <2>1, <2>2
  <2>4. \A i \in 1 .. (m + n) : y[i] = IF i <= m THEN a[i] ELSE b[i - m]
    BY <2>1, <2>2
  <2> QED BY <1>5, <2>3, <2>4
<1>11. \A i \in 1 .. (m + n) : y[i] = z[i]
  <2> SUFFICES ASSUME NEW i \in 1 .. (m + n) PROVE y[i] = z[i]
    OBVIOUS
  <2>1. CASE i \in 1 .. m
    BY <2>1, <1>6, <1>7, <1>10
  <2>2. CASE i \notin 1 .. m
    <3>1. i - m \in 1 .. n /\ i # 1
      BY <2>2, <1>5
    <3>2. y[i] = p + (i - m) - 1
      BY <2>2, <3>1, <1>8, <1>10
    <3>3. p + (i - m) - 1 = from + i - 2
      BY <1>5
    <3>4. PartAt(from, i) = from + i - 2
      BY <3>1 DEF PartAt
    <3> QED BY <3>2, <3>3, <3>4, <1>7
  <2> QED BY <2>1, <2>2
<1>12. y = z
  BY <1>7, <1>10, <1>11
<1> QED BY <1>1, <1>2, <1>3, <1>9, <1>12
LEMMA PartWhole ==
    ASSUME NEW from \in Nat, from < FileSize
    PROVE  Part(from, FileSize) = <<Header>> \o Body(from)
<1>1. PICK n : n = FileSize - from
  OBVIOUS
<1>2. n \in Nat /\ from + n = FileSize /\ from <= from
  BY <1>1, DownloadAssumption
<1>3. Part(from, from) \o Chunk(from, n) = Part(from, from + n)
  BY <1>2, PartGrows, Zenon
<1>4. Part(from, from) = <<>> \o <<Header>>
  BY PartFirst
<1>5. <<>> \o <<Header>> = <<Header>>
  <2>1. <<Header>> \in Seq(Int)
    BY DEF Header
  <2> QED BY <2>1
<1>6. Chunk(from, n) = Body(from)
  BY <1>1 DEF Chunk, Body
<1> QED BY <1>2, <1>3, <1>4, <1>5, <1>6

----------------------------------------------------------------------------
\* One download: what has been sent is the header and the file up to where the
\* context is, for as long as the connection takes it, and the connection is
\* shut down at the end of the file only.
Streaming(from) ==
    /\ \A c, d \in DOMAIN pos : c = d
    /\ \A c \in DOMAIN pos :
         /\ from <= pos[c]
         /\ app = "respond" => pos[c] = from
         /\ state = "kConnected"
              => label = IF app = "respond" THEN <<>> ELSE Part(from, pos[c])
    /\ state = "kDisconnecting" \/ wrShut => label = Part(from, FileSize)

Chain ==
    /\ asked = <<>>
         => DOMAIN pos = {} /\ label = <<>> /\ state # "kDisconnecting" /\ ~wrShut
    /\ Single => Streaming(From(req))

LEMMA FromType == ASSUME AppTypeOK, Single PROVE From(req) \in Nat
<1>1. Len(asked) = 1 /\ asked \in Seq(Requests)
  BY DEF Single, AppTypeOK
<1>2. req \in Requests
  BY <1>1 DEF req
<1>3. req.from \in Nat
  BY <1>2, DownloadAssumption DEF Request
<1> QED BY <1>3 DEF From

\* A step that sends nothing.
LEMMA ChainKept ==
    ASSUME Turns, Chain, Onward, UNCHANGED <<pos, asked, label>>,
           (app = "respond") = (app' = "respond")
    PROVE  Chain'
<1>1. req' = req /\ Single' = Single
  BY DEF req, Single
<1>2. ASSUME asked = <<>>
      PROVE  DOMAIN pos = {} /\ label = <<>> /\ state' # "kDisconnecting" /\ ~wrShut'
  BY <1>2 DEF Chain, Onward
<1>3. ASSUME Single PROVE Streaming(From(req))'
  <2>1. PICK from : from = From(req)
    OBVIOUS
  <2>2. Streaming(from) /\ From(req)' = from
    BY <1>1, <1>3, <2>1 DEF Chain, From
  <2>3. asked # <<>>
    BY <1>3 DEF Single
  <2>4. state \notin {"none", "kConnecting"}
    BY <2>3 DEF Turns
  <2>5. /\ state' = "kConnected" => state = "kConnected"
        /\ state' = "kDisconnecting" \/ wrShut' => state = "kDisconnecting" \/ wrShut
    BY <2>4 DEF Onward
  <2>6. Streaming(from)'
    BY <2>2, <2>5 DEF Streaming
  <2> QED BY <2>2, <2>6 DEF Streaming
<1> QED BY <1>1, <1>2, <1>3 DEF Chain

LEMMA RespondChain ==
    ASSUME AppTypeOK, Turns, Chain, Finished, Respond PROVE Chain'
<1>1. /\ app = "respond" /\ Send(<<Header>>) /\ UNCHANGED <<pos, asked>>
      /\ app' = IF req.close \/ req.kind = "bad" THEN "close" ELSE "reset"
  BY DEF Respond
<1>2. /\ UNCHANGED <<state, wrShut>> /\ req' = req /\ Single' = Single
      /\ IF state = "kConnected" THEN label' = label \o <<Header>> ELSE label' = label
  BY <1>1, SendKeeps, Zenon DEF req, Single
<1>3. asked' # <<>>
  BY <1>1 DEF Turns
<1>4. ASSUME Single PROVE Streaming(From(req))'
  <2>1. PICK from : from = From(req)
    OBVIOUS
  <2>2. Streaming(from) /\ From(req)' = from /\ from \in Nat
    BY <1>2, <1>4, <2>1, FromType DEF Chain, From
  <2>3. app' # "respond"
    BY <1>1
  <2>4. ASSUME NEW c \in DOMAIN pos, state = "kConnected" PROVE label' = Part(from, pos[c])
    <3>1. label = <<>> /\ pos[c] = from
      BY <1>1, <2>2, <2>4 DEF Streaming
    <3>2. label' = <<>> \o <<Header>>
      BY <1>2, <2>4, <3>1
    <3> QED BY <2>2, <3>1, <3>2, PartFirst
  <2>5. ASSUME state = "kDisconnecting" \/ wrShut PROVE label' = Part(from, FileSize)
    <3>1. state # "kConnected"
      BY <2>5 DEF Finished
    <3> QED BY <1>2, <2>2, <2>5, <3>1 DEF Streaming
  <2>6. /\ \A c, d \in DOMAIN pos : c = d
        /\ \A c \in DOMAIN pos : from <= pos[c]
    BY <2>2 DEF Streaming
  <2>7. Streaming(from)'
    BY <1>1, <1>2, <2>3, <2>4, <2>5, <2>6 DEF Streaming
  <2> QED BY <2>2, <2>7 DEF Streaming
<1> QED BY <1>2, <1>3, <1>4 DEF Chain
LEMMA ChunkCallbackChain ==
    ASSUME FileManager, AppTypeOK, Turns, Opened, Uses(Users), Chain, Finished,
           NEW c \in ChunkCbs, ChunkCallback(c)
    PROVE  Chain'
<1>1. /\ c \in DOMAIN pos /\ app = "begin" /\ app' = "return" /\ UNCHANGED <<asked>>
      /\ pos[c] \in Nat /\ ChunkLen(c) \in Nat
      /\ \/ Ends(c) /\ pos[c] = FileSize
         \/ Sends(c)
  BY ChunkCases
<1>2. asked' # <<>> /\ req' = req /\ Single' = Single
  BY <1>1 DEF Chain, req, Single
<1>3. ASSUME Single PROVE Streaming(From(req))'
  <2>1. PICK from : from = From(req)
    OBVIOUS
  <2>2. Streaming(from) /\ From(req)' = from /\ from \in Nat
    BY <1>2, <1>3, <2>1, FromType DEF Chain, From
  <2>3. /\ \A d \in DOMAIN pos : d = c
        /\ from <= pos[c]
        /\ state = "kConnected" => label = Part(from, pos[c])
        /\ state = "kDisconnecting" \/ wrShut => label = Part(from, FileSize)
    BY <1>1, <2>2 DEF Streaming
  <2>4. CASE Ends(c) /\ pos[c] = FileSize
    <3>1. UNCHANGED <<pos, label>> /\ Shutdown
      BY <2>4 DEF Ends
    <3>2. state' = "kConnected" \/ state' = "kDisconnecting" \/ wrShut'
             => label = Part(from, FileSize)
      <4>1. CASE state = "kConnected"
        BY <2>3, <2>4, <4>1
      <4>2. CASE state # "kConnected"
        <5>1. UNCHANGED vars
          BY <3>1, <4>2 DEF Shutdown, LoopShutdown
        <5>2. UNCHANGED <<state, wrShut>>
          BY <5>1 DEF vars, connVars, sockVars
        <5> QED BY <2>3, <4>2, <5>2
      <4> QED BY <4>1, <4>2
    <3> QED BY <1>1, <2>2, <2>3, <2>4, <3>1, <3>2, Zenon DEF Streaming
  <2>5. CASE Sends(c)
    <3>1. PICK n : n = ChunkLen(c)
      OBVIOUS
    <3>2. /\ DOMAIN pos' = DOMAIN pos /\ pos'[c] = pos[c] + n
          /\ Send(Chunk(pos[c], n)) /\ n \in Nat
      BY <1>1, <2>5, <3>1 DEF Sends
    <3>3. /\ UNCHANGED <<state, wrShut>>
          /\ IF state = "kConnected" THEN label' = label \o Chunk(pos[c], n) ELSE label' = label
      BY <3>2, SendKeeps, Zenon
    <3>4. from <= pos[c] + n
      <4>1. from \in Nat /\ pos[c] \in Nat /\ n \in Nat /\ from <= pos[c]
        BY <1>1, <2>2, <2>3, <3>2, Zenon
      <4>2. PICK q : q = pos[c]
        OBVIOUS
      <4>3. from <= q + n
        BY <4>1, <4>2
      <4> QED BY <4>2, <4>3
    <3>5. state = "kConnected" => label' = Part(from, pos[c] + n)
      <4>1. Part(from, pos[c]) \o Chunk(pos[c], n) = Part(from, pos[c] + n)
        <5>1. from \in Nat /\ pos[c] \in Nat /\ n \in Nat /\ from <= pos[c]
          BY <1>1, <2>2, <2>3, <3>2, Zenon
        <5> QED BY <5>1, PartGrows, Zenon
      <4> QED BY <2>3, <3>3, <4>1
    <3>6. state = "kDisconnecting" \/ wrShut => label' = Part(from, FileSize)
      <4>1. wrShut => state # "kConnected"
        BY DEF Finished
      <4> QED BY <2>3, <3>3, <4>1
    <3> QED BY <1>1, <2>2, <2>3, <3>2, <3>3, <3>4, <3>5, <3>6, Zenon DEF Streaming
  <2> QED BY <1>1, <2>4, <2>5
<1> QED BY <1>2, <1>3 DEF Chain

LEMMA HandleRequestChain ==
    ASSUME AppTypeOK, Turns, Opened, Chain, NEW r \in Requests, HandleRequest(r)
    PROVE  Chain'
<1>1. asked' = Append(asked, r) /\ app' = "respond" /\ label' = label
  BY RequestBegins
<1>2. UNCHANGED <<state, wrShut>>
  BY RequestKeeps
<1>3. /\ asked' # <<>> /\ req' = r /\ Len(asked') = Len(asked) + 1 /\ Len(asked) \in Nat
      /\ asked \in Seq(Requests)
  BY <1>1, Asked DEF req, AppTypeOK
<1>4. ASSUME Single' PROVE Streaming(From(req))'
  <2>1. Len(asked') = 1 /\ Download(r)
    BY <1>3, <1>4, Zenon DEF Single, Download, From
  <2>2. asked = <<>>
    <3>1. Len(asked) = 0
      BY <1>3, <2>1
    <3> QED BY <1>3, <3>1, NoLength
  <2>3. DOMAIN pos = {} /\ label = <<>> /\ state # "kDisconnecting" /\ ~wrShut
    BY <2>2 DEF Chain
  <2>4. Opens(r)
    BY <2>1, RequestCases DEF Leaves
  <2>5. PICK from : from = From(r)
    OBVIOUS
  <2>6. PICK c : pos' = Extended(pos, c, from) /\ from \in 0 .. FileSize
    BY <2>4, <2>5, Zenon DEF Opens
  <2>7. DOMAIN pos' = {c} /\ pos'[c] = from
    <3>1. DOMAIN pos' = DOMAIN pos \cup {c} /\ pos'[c] = from
      BY <2>6 DEF Extended
    <3> QED BY <2>3, <3>1
  <2>8. from <= from
    BY <2>6, DownloadAssumption
  <2>9. From(req)' = from
    BY <1>3, <2>5 DEF From
  <2> QED BY <1>1, <1>2, <2>3, <2>7, <2>8, <2>9 DEF Streaming
<1> QED BY <1>3, <1>4 DEF Chain

\* The rest of the file manager's steps: a shutdown that is not a download's, and
\* returns.
LEMMA StepsChain ==
    ASSUME FileManager, AppTypeOK, Turns, Uses(Users), Chain,
           CloseConnection \/ ResetContext \/ ShutCallback \/ Return
    PROVE  Chain'
<1>1. CASE CloseConnection
  <2>1. app = "close" /\ UNCHANGED <<asked>>
    BY <1>1 DEF CloseConnection
  <2>2. asked # <<>> /\ (req.close \/ req.kind = "bad")
    BY <2>1 DEF Turns
  <2>3. ~Single
    BY <2>2 DEF Single, Download
  <2>4. Single' = Single
    BY <2>1 DEF Single, req
  <2> QED BY <2>1, <2>2, <2>3, <2>4 DEF Chain
<1>2. CASE ShutCallback
  <2>1. cur \in {Shut, ShutSelf} /\ UNCHANGED <<asked>>
    BY <1>2 DEF ShutCallback, Starts
  <2>2. asked # <<>> /\ ~Single
    BY <2>1, UsersRun
  <2>3. Single' = Single
    BY <2>1 DEF Single, req
  <2> QED BY <2>1, <2>2, <2>3 DEF Chain
<1>3. CASE ResetContext \/ Return
  <2>1. /\ CallbackReturns /\ UNCHANGED <<pos, asked, label>>
        /\ app # "respond" /\ app' # "respond"
    BY <1>3 DEF ResetContext, Return, Starts
  <2>2. Onward
    BY <2>1, ReturnKeeps DEF Onward
  <2> QED BY <2>1, <2>2, ChainKept
<1> QED BY <1>1, <1>2, <1>3
----------------------------------------------------------------------------
\* The inductive invariant of the file manager on its connection.
AppInv ==
    /\ IInv /\ Life
    /\ AppTypeOK /\ Turns /\ Opened /\ Uses(Users) /\ Finished /\ Chain

\* A step of the file manager is a step of the connection's user, or none of
\* the connection.
LEMMA CallsUser == ASSUME Calls PROVE UserStep
BY DEF Calls, UserStep

LEMMA RequestUser ==
    ASSUME FileManager, AppTypeOK, Turns, Opened, NEW r \in Requests, HandleRequest(r)
    PROVE  UserStep \/ UNCHANGED vars
<1>1. Callbacks = {Shut, ShutSelf} \cup ChunkCbs
  BY DEF FileManager
<1>2. (\E c \in Callbacks : SetWriteCompleteCallback(c)) \/ UNCHANGED vars
  BY <1>1, RequestCases, Zenon DEF Opens, Leaves
<1> QED BY <1>2 DEF UserStep

LEMMA StepsCalls ==
    ASSUME TypeOK, Respond \/ CloseConnection \/ ResetContext \/ ShutCallback \/ Return
    PROVE  Calls \/ UNCHANGED vars
<1>1. CASE Respond
  BY <1>1, HeaderType, SendIs, Zenon DEF Respond
<1>2. CASE CloseConnection \/ ShutCallback
  BY <1>2, ShutdownKeeps DEF CloseConnection, ShutCallback
<1>3. CASE ResetContext \/ Return
  BY <1>3, ReturnKeeps DEF ResetContext, Return
<1> QED BY <1>1, <1>2, <1>3

LEMMA ChunkCallbackCalls ==
    ASSUME FileManager, TypeOK, AppTypeOK, Opened, Uses(Users),
           NEW c \in ChunkCbs, ChunkCallback(c)
    PROVE  Calls \/ UNCHANGED vars
<1>1. CASE Ends(c)
  BY <1>1, ShutdownKeeps DEF Ends
<1>2. CASE Sends(c) /\ ChunkLen(c) > 0
  <2>1. Chunk(pos[c], ChunkLen(c)) \in Seq(-1 .. FileSize - 1)
        /\ Chunk(pos[c], ChunkLen(c)) # <<>>
    BY <1>2, ChunkCases, ChunkType
  <2>2. Send(Chunk(pos[c], ChunkLen(c)))
    BY <1>2 DEF Sends
  <2> QED BY <2>1, <2>2, SendIs
<1> QED BY <1>1, <1>2, ChunkCases
\* Whatever the file manager does, its connection takes a step of TcpConnection
\* that needs no other thread and no other loop, or none.
AppOwn == LoopStep \/ UserStep \/ NewConnection \/ PeerStep \/ UNCHANGED vars

LEMMA AppStepOwn == ASSUME FileManager, AppInv, [AppNext]_allVars PROVE AppOwn
<1>1. TypeOK /\ AppTypeOK /\ Turns /\ Opened /\ Uses(Users)
  BY DEF AppInv, IInv
<1>2. CASE \E r \in Requests : HandleRequest(r)
  BY <1>1, <1>2, RequestUser DEF AppOwn
<1>3. CASE Respond \/ CloseConnection \/ ResetContext \/ ShutCallback \/ Return
  BY <1>1, <1>3, StepsCalls, CallsUser DEF AppOwn
<1>4. CASE \E c \in ChunkCbs : ChunkCallback(c)
  BY <1>1, <1>4, ChunkCallbackCalls, CallsUser DEF AppOwn
<1>5. CASE LoopStep \/ NewConnection \/ PeerReads \/ PeerRequests \/ PeerCloses \/ PeerResets
  BY <1>5 DEF AppOwn, PeerStep, PeerRequests
<1>6. CASE UNCHANGED allVars
  BY <1>6 DEF AppOwn, allVars
<1> QED BY <1>2, <1>3, <1>4, <1>5, <1>6 DEF AppNext, AppStep

LEMMA OwnNext == ASSUME Life, AppOwn PROVE [Next]_vars /\ OwnStep
<1>1. abort = "no"
  BY DEF Life
<1> QED BY <1>1 DEF AppOwn, Next, OwnStep, BaseStep

LEMMA OwnFinished == ASSUME IInv, Life, Finished, AppOwn PROVE Finished'
<1>1. CASE LoopStep
  BY <1>1, LoopStepFinished
<1>2. CASE UserStep
  BY <1>2, UserStepFinished
<1>3. CASE NewConnection \/ PeerStep \/ UNCHANGED vars
  BY <1>3, OutsideFinished
<1> QED BY <1>1, <1>2, <1>3 DEF AppOwn

\* The steps in which the file manager does nothing.
Beside ==
    /\ \/ LoopStep \/ NewConnection \/ PeerReads \/ PeerRequests \/ PeerCloses \/ PeerResets
       \/ UNCHANGED vars
    /\ UNCHANGED appVars

LEMMA BesideApp ==
    ASSUME FileManager, AppInv, Beside
    PROVE  AppTypeOK' /\ Turns' /\ Opened' /\ Uses(Users)' /\ Chain'
<1>1. TypeOK /\ Life /\ AppTypeOK /\ Turns /\ Opened /\ Uses(Users) /\ Chain /\ OneLoop
  BY DEF AppInv, IInv, FileManager
<1>2. UNCHANGED <<app, ctx, pos, complete, asked, label>>
  BY DEF Beside, appVars
<1>3. AppTypeOK' /\ Opened'
  BY <1>1, <1>2, Zenon DEF AppTypeOK, Opened
<1>4. Moves /\ Onward
  <2>1. CASE LoopStep
    BY <1>1, <2>1, LoopStepMoves, LoopStepOnward
  <2>2. CASE \/ NewConnection \/ PeerReads \/ PeerRequests \/ PeerCloses \/ PeerResets
             \/ UNCHANGED vars
    <3>1. NewConnection \/ PeerStep \/ UNCHANGED vars
      BY <2>2 DEF PeerStep, PeerRequests
    <3> QED BY <1>1, <3>1, OutsideMoves, OutsideOnward
  <2> QED BY <2>1, <2>2 DEF Beside
<1>5. Turns'
  <2>1. UNCHANGED appVars
    BY DEF Beside
  <2>2. CASE PeerRequests
    BY <1>1, <2>1, <2>2, PeerRequestsTurns
  <2>3. CASE \/ LoopStep \/ NewConnection \/ PeerReads \/ PeerCloses \/ PeerResets
             \/ UNCHANGED vars
    <3>1. Turned
      BY <1>1, <2>3, LoopStepTurned, OutsideTurned
    <3> QED BY <1>1, <1>4, <2>1, <3>1, TurnedTurns
  <2> QED BY <2>2, <2>3 DEF Beside
<1>6. Uses(Users)'
  BY <1>1, <1>2, <1>4, UsesSame
<1>7. Chain'
  BY <1>1, <1>2, <1>4, ChainKept
<1> QED BY <1>3, <1>5, <1>6, <1>7

LEMMA AppStepApp ==
    ASSUME FileManager, AppInv, AppStep
    PROVE  AppTypeOK' /\ Turns' /\ Opened' /\ Uses(Users)' /\ Chain'
<1>1. TypeOK /\ AppTypeOK /\ Turns /\ Opened /\ Uses(Users) /\ Chain /\ Finished /\ OneLoop
  BY DEF AppInv, IInv, FileManager
<1>2. ASSUME NEW r \in Requests, HandleRequest(r)
      PROVE  AppTypeOK' /\ Turns' /\ Opened' /\ Uses(Users)' /\ Chain'
  BY <1>1, <1>2, HandleRequestType, HandleRequestTurns, HandleRequestUses, HandleRequestChain
<1>3. ASSUME NEW c \in ChunkCbs, ChunkCallback(c)
      PROVE  AppTypeOK' /\ Turns' /\ Opened' /\ Uses(Users)' /\ Chain'
  <2>1. AppTypeOK' /\ Turns' /\ Opened' /\ DOMAIN pos' = DOMAIN pos
    BY <1>1, <1>3, ChunkCallbackType, ChunkCallbackTurns
  <2>2. Moves
    BY <1>1, <1>3, ChunkCallbackCalls, CallsMoves, OutsideMoves
  <2>3. asked' = asked
    BY <1>1, <1>3, ChunkCases
  <2>4. Uses(Users)'
    BY <1>1, <2>1, <2>2, <2>3, UsesSame
  <2> QED BY <1>1, <1>3, <2>1, <2>4, ChunkCallbackChain, Zenon
<1>4. CASE Respond \/ CloseConnection \/ ResetContext \/ ShutCallback \/ Return
  <2>1. AppTypeOK' /\ Turns' /\ Opened'
    BY <1>1, <1>4, StepsType, StepsTurns
  <2>2. Moves
    BY <1>1, <1>4, StepsCalls, CallsMoves, OutsideMoves
  <2>3. UNCHANGED <<pos, asked>>
    BY <1>4 DEF Respond, CloseConnection, ResetContext, ShutCallback, Return
  <2>4. Uses(Users)'
    BY <1>1, <2>2, <2>3, UsesSame
  <2> QED BY <1>1, <1>4, <2>1, <2>4, RespondChain, StepsChain
<1> QED BY <1>2, <1>3, <1>4 DEF AppStep

LEMMA InitAppInv == AppInit => AppInv
<1> SUFFICES ASSUME AppInit PROVE AppInv
  OBVIOUS
<1>1. Init /\ app = "begin" /\ ctx = NoContext
      /\ pos = <<>> /\ complete = <<>> /\ asked = <<>> /\ label = <<>>
  BY DEF AppInit
<1>2. IInv /\ Life
  BY <1>1, InitInv, InitLife
<1>3. DOMAIN pos = {} /\ DOMAIN complete = {}
  BY <1>1
<1>4. AppTypeOK
  BY <1>1, <1>3 DEF AppTypeOK
<1>5. /\ inq = 0 /\ cur = "none" /\ wcc = NoCallback /\ pending = <<>> /\ batch = <<>>
      /\ state = "none" /\ wrShut = FALSE
  BY <1>1 DEF Init
<1>6. Turns
  BY <1>1, <1>5 DEF Turns
<1>7. Opened
  BY <1>3 DEF Opened
<1>8. Uses(Users)
  BY <1>5, CbsNone DEF Uses, Users
<1>9. Finished /\ Chain
  <2>1. ~Single
    BY <1>1 DEF Single
  <2> QED BY <1>1, <1>3, <1>5, <2>1 DEF Finished, Chain
<1> QED BY <1>2, <1>4, <1>6, <1>7, <1>8, <1>9 DEF AppInv

LEMMA StepAppInv == FileManager /\ AppInv /\ [AppNext]_allVars => AppInv'
<1> SUFFICES ASSUME FileManager, AppInv, [AppNext]_allVars PROVE AppInv'
  OBVIOUS
<1>1. IInv /\ TypeOK /\ Life /\ Finished
  BY DEF AppInv, IInv
<1>2. AppOwn
  BY AppStepOwn
<1>3. [Next]_vars /\ OwnStep
  BY <1>1, <1>2, OwnNext
<1>4. IInv' /\ Life'
  BY <1>1, <1>3, StepInv, OwnStepLife
<1>5. Finished'
  BY <1>1, <1>2, OwnFinished
<1>6. AppStep \/ Beside
  BY DEF AppNext, Beside, allVars
<1>7. AppTypeOK' /\ Turns' /\ Opened' /\ Uses(Users)' /\ Chain'
  BY <1>6, AppStepApp, BesideApp
<1> QED BY <1>4, <1>5, <1>7 DEF AppInv

LEMMA AppInvHolds == ASSUME FileManager PROVE AppSpec => []AppInv
<1>1. AppInv /\ [AppNext]_allVars => AppInv'
  BY StepAppInv
<1> QED BY <1>1, InitAppInv, PTL DEF AppSpec

\* The file manager uses its connection as TcpConnection allows: every behaviour
\* of onMessage, onRequest, the handlers and the write-complete callbacks on a
\* connection is a behaviour of the connection, so what is proved of the
\* connection holds under the file manager.
THEOREM ManagerImplementsUser == ASSUME FileManager PROVE AppSpec => Spec
<1>1. AppInit => Init
  BY DEF AppInit
<1>2. AppInv /\ [AppNext]_allVars => [Next]_vars
  <2> SUFFICES ASSUME AppInv, [AppNext]_allVars PROVE [Next]_vars
    OBVIOUS
  <2>1. Life
    BY DEF AppInv
  <2> QED BY <2>1, AppStepOwn, OwnNext
<1> QED BY <1>1, <1>2, AppInvHolds, PTL DEF AppSpec, Spec

\* No assertion of TcpConnection, Channel or EPollPoller fails under the file
\* manager, whatever the requests and the peer.
THEOREM ManagerNoAbort == ASSUME FileManager PROVE AppSpec => []NoAbort
<1>1. AppInv => NoAbort
  BY DEF AppInv, Life, NoAbort
<1> QED BY <1>1, AppInvHolds, PTL

\* handleDownload never finds the context of an earlier request: HttpServer's
\* onMessage has reset it whenever messageCallback_ is called again.
THEOREM ManagerFreshContext == ASSUME FileManager PROVE AppSpec => []FreshContext
<1>1. AppInv => FreshContext
  BY DEF AppInv, Turns, FreshContext
<1> QED BY <1>1, AppInvHolds, PTL

\* The chain of write-complete callbacks shuts the connection down only behind
\* the header and every byte of the file from the first one wanted, for any
\* file, chunk and kernel buffer size, whatever the kernel takes of each write.
THEOREM ManagerDownloadComplete == ASSUME FileManager PROVE AppSpec => []DownloadComplete
<1>1. AppInv => DownloadComplete
  <2> SUFFICES ASSUME AppInv PROVE DownloadComplete
    OBVIOUS
  <2>1. AppTypeOK /\ Finished /\ Chain
    BY DEF AppInv
  <2>2. ASSUME Len(asked) = 1, wrShut, peer # "reset", Download(req), ~req.close
        PROVE  Whole(req)
    <3>1. Single
      BY <2>2 DEF Single
    <3>2. PICK from : from = From(req)
      OBVIOUS
    <3>3. from \in Nat /\ from < FileSize
      BY <2>1, <2>2, <3>1, <3>2, FromType DEF Download
    <3>4. label = Part(from, FileSize)
      BY <2>1, <2>2, <3>1, <3>2 DEF Chain, Streaming
    <3>5. label = <<Header>> \o Body(from)
      BY <3>3, <3>4, PartWhole
    <3>6. wire = sent
      BY <2>1, <2>2 DEF Finished
    <3> QED BY <3>2, <3>5, <3>6 DEF Whole
  <2> QED BY <2>1, <2>2 DEF DownloadComplete
<1> QED BY <1>1, AppInvHolds, PTL
=============================================================================
